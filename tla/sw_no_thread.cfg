SPECIFICATION Spec
CONSTANTS
  MaxPos = 2
  MaxChunk = 2
  CurlBuf = 1
  Round = 1
  CreateFailsIn = {"write"}
  AllocFails = FALSE
  ServerLoses = FALSE
  ConcurrentFlush = FALSE
CHECK_DEADLOCK FALSE
INVARIANT FinishWaitsForThread
