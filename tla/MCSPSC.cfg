SPECIFICATION FairSpec
CONSTANTS
  Byte <- MCByte
  Chunk <- MCChunk
  ReadLength = {1, 2, 4}
  Junk = Junk
  Capacity = 5
  RelaxedPublish = FALSE
INVARIANTS TypeOK RingInv CallsApart
PROPERTIES RefinesChannel KeepsFlowing
