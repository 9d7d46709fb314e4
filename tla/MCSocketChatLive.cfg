SPECIFICATION FairSpec
CONSTANTS
  Byte <- MCByte
  CR = "CR"
  LF = "LF"
  Script <- MCTextsToTheBrim
  MaxGrowSize = 4
  DefaultBufferSize = 4
  MaxReadSize = 2
  SocketCapacity = 2
  Transports = {"tcp", "shared"}
  Blocking = {}
  CloseTimeout = 1
PROPERTIES RefinesStreams Delivery PollReturns ClosingEnds EndIsNoticed
CHECK_DEADLOCK FALSE
