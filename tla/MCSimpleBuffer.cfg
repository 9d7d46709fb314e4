SPECIFICATION Spec
CONSTANTS
  Byte <- MCByte
  Chunk <- MCChunk
  Request <- MCRequest
  Junk = Junk
  DefaultSize = 2
  MaxGrowSize = 8
  WordSize = 20
  CopyOrders = {"ascending"}
INVARIANTS TypeOK LentRoomIsThere
PROPERTIES InPlaceAddStays RefinesByteQueue
