SPECIFICATION FairSpec
CONSTANTS
  Byte <- MCByte
  CR = "CR"
  LF = "LF"
  Script <- MCTextEach
  MaxGrowSize = 4
  DefaultBufferSize = 4
  MaxReadSize = 1
  SocketCapacity = 2
  Transports = {"tcp"}
  Blocking = {"server"}
  CloseTimeout = 1
PROPERTY PollReturns
CHECK_DEADLOCK FALSE
