SPECIFICATION Spec
CONSTANTS
  Workers = {w1}
  Paths <- FlatPaths
  Root = "/"
  Parent <- FlatParent
  Name <- FlatName
  Attrs = {"f1", "l1", "l2"}
  Links = {"l1", "l2"}
  InitTrees <- FlatTrees
  stat_timeout = 3
  dir_timeout = 3
  link_timeout = 3
  MIN_CACHE_CLEAN_INTERVAL = 1
  CACHE_CLEAN_INTERVAL = 2
  MAX_CACHE_SIZE = 1
  Epoch = 5
  MaxTime = 9
  MaxCalls = 4
  Mutations = {"rename"}
  Failures = FALSE
INVARIANT HostUsable
