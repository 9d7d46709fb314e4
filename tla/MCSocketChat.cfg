SPECIFICATION Spec
CONSTANTS
  Byte <- MCByte
  CR = "CR"
  LF = "LF"
  Script <- MCTexts
  MaxGrowSize = 6
  DefaultBufferSize = 3
  MaxReadSize = 1
  SocketCapacity = 2
  Transports = {"tcp", "shared"}
  Blocking = {}
  CloseTimeout = 1
INVARIANTS TypeOK StreamIntact MessagesInOrder PollDrains CleanEnd
CHECK_DEADLOCK FALSE
