\* A call whose eventfd write is drained by the handler of an older one.
SPECIFICATION Spec
CONSTANTS
  Callers    = {c1, c2}
  LoopThread = loop
  NoThread   = none
  Fds        = {f1}
  WakeFd     = wake
  MayClose   = {f1}
  MaxEvents  = 1
  MaxCalls   = 2
INVARIANT
  NoLostWakeup
SYMMETRY CallersSymmetry
\* A stopped loop, and a data race, end the behaviour.
CHECK_DEADLOCK FALSE
