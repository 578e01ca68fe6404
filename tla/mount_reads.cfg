SPECIFICATION MountFairSpec
CONSTANTS
  Handles = {h1, h2}
  Files = {"a", "b", "c"}
  Length <- MCLength
  NULL = NULL
  MaxOffset = 4
  MaxSize = 2
  MaxBlock = 2
  MAX_BUFFER_LEN = 1
  Radix = 2
  RangeDigits = 3
  SelectFailsIn = {"read"}
  AllocFails = TRUE
  CommandLines <- MCCommandLines
INVARIANTS TypeOK WindowTrue TransferContinues MessageWaits RangeCleared NoTransferLeft SettingsTaken RestToFuse
PROPERTIES ImplementsFileRead RequestsReturn
