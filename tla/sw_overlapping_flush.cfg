SPECIFICATION FairSpec
CONSTANTS
  MaxPos = 2
  MaxChunk = 2
  CurlBuf = 1
  Round = 1
  CreateFailsIn = {}
  AllocFails = FALSE
  ServerLoses = FALSE
  ConcurrentFlush = TRUE
PROPERTY WriteGoesOn
