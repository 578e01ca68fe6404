SPECIFICATION Spec
CONSTANTS
  MaxPos = 2
  MaxChunk = 2
  CurlBuf = 1
  Round = 1
  CreateFailsIn = {}
  AllocFails = FALSE
  ServerLoses = TRUE
  ConcurrentFlush = FALSE
PROPERTY AppendAtPos
