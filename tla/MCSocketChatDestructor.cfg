SPECIFICATION FairSpec
CONSTANTS
  Byte <- MCByte
  CR = "CR"
  LF = "LF"
  Script <- MCTextEach
  MaxGrowSize = 4
  DefaultBufferSize = 4
  MaxReadSize = 1
  SocketCapacity = 2
  Transports = {"tcp"}
  Blocking = {}
  CloseTimeout = 2
PROPERTY DestructorEnds
CHECK_DEADLOCK FALSE
