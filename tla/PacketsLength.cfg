\* Reads that end anywhere.
SPECIFICATION FairSpec
CONSTANTS
  Base = 32
  IntSize = 2
  Messages <- PlainMessages
  NumMessages = 2
  BufferSize = 64
  Divisible <- PlainMessages
  CutLengths = TRUE
PROPERTY DecodeReturns
CHECK_DEADLOCK FALSE
