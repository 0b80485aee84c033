SPECIFICATION FairSpec
CONSTANTS
  Main = main
  Writer = writer
  NoThread = none
  Loggers = {main, l1}
  MaxFileSize = 1
  MaxLines = 2
  MaxDays = 1
CHECK_DEADLOCK FALSE
INVARIANTS
  TypeOK
  WrittenInOrder
  FilesAreFull
PROPERTIES
  LogIsQueue
  LinesAreWritten
  HandlerEnds
