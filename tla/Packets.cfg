\* Three messages; the one whose data contain a packet arrives whole.  All of them may
\* be more than the vector has cells.
SPECIFICATION FairSpec
CONSTANTS
  Base = 32
  IntSize = 2
  Messages <- AllMessages
  NumMessages = 3
  BufferSize = 60
  Divisible <- PlainMessages
  CutLengths = FALSE
INVARIANT DecodedInOrder
PROPERTY AllDecoded
CHECK_DEADLOCK FALSE
