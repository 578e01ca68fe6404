SPECIFICATION Spec
CONSTANTS
  Workers = {w1, w2}
  Paths <- MCPaths
  Root = "/"
  Parent <- MCParent
  Name <- MCName
  Attrs = {"f1", "f2", "l1"}
  Links = {"l1"}
  InitTrees <- MCTrees
  stat_timeout = 1
  dir_timeout = 1
  link_timeout = 1
  MIN_CACHE_CLEAN_INTERVAL = 5
  CACHE_CLEAN_INTERVAL = 60
  MAX_CACHE_SIZE = 10000
  Epoch = 100
  MaxTime = 100
  MaxCalls = 3
  Mutations = {"create", "unlink", "change", "rename", "upload"}
  Failures = TRUE
SYMMETRY WorkerSymmetry
INVARIANTS TypeOK AttrCoherent DirCoherent
