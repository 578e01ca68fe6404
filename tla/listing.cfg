SPECIFICATION Spec
CONSTANTS
  codepage = TRUE
  Requests <- MCRequests
  SixMonths = 182
  symlink_prefix <- Prefix
INVARIANTS ReachesFile AnswerTrue KeysTrue YearRight
