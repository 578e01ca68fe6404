SPECIFICATION FairSpec
CONSTANTS
  MaxPos = 4
  MaxChunk = 3
  CurlBuf = 2
  Round = 2
  CreateFailsIn = {"open"}
  AllocFails = TRUE
  ServerLoses = TRUE
  ConcurrentFlush = FALSE
INVARIANTS TypeOK OneToken BufferExclusive NoThreadAfterFree
PROPERTIES WriteDelivered FlushHonest ImplementsUpload CallsReturn
