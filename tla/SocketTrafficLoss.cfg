SPECIFICATION SocketSpec
CONSTANTS
  InitSize  = 6
  MaxPut    = 6
  MaxQueued = 0
  MaxBytes  = 15
PROPERTY
  LosslessSpec
\* The stream ends.
CHECK_DEADLOCK FALSE
