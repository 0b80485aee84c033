\* Small vectors, so that writes grow them and reads move the bytes often.
SPECIFICATION CoderSpec
CONSTANTS
  InitSize  = 3
  MaxPut    = 5
  MaxQueued = 7
  MaxBytes  = 24
INVARIANTS
  TypeOK
  MemoryBounded
PROPERTY
  LosslessSpec
