SPECIFICATION Spec
CONSTANTS
  Workers = {w1}
  Paths <- FlatPaths
  Root = "/"
  Parent <- FlatParent
  Name <- FlatName
  Attrs = {"f1", "l1"}
  Links = {"l1"}
  InitTrees <- FlatTrees
  stat_timeout = 1
  dir_timeout = 2
  link_timeout = 3
  MIN_CACHE_CLEAN_INTERVAL = 1
  CACHE_CLEAN_INTERVAL = 2
  MAX_CACHE_SIZE = 1
  Epoch = 5
  MaxTime = 9
  MaxCalls = 4
  Mutations = {"unlink", "rename"}
  Failures = FALSE
PROPERTY LiveKept
