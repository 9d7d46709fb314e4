SPECIFICATION Spec
CONSTANTS
  Byte <- MCByte
  Chunk <- MCChunk
  ReadLength = {1, 2, 4}
  Junk = Junk
  Capacity = 5
  RelaxedPublish = TRUE
INVARIANT ReadsOnlyWritten
