\* Two threads call the loop twice; one fd, which its owner may close.
SPECIFICATION FairSpec
CONSTANTS
  Callers    = {c1, c2}
  LoopThread = loop
  NoThread   = none
  Fds        = {f1}
  WakeFd     = wake
  MayClose   = {f1}
  MaxEvents  = 1
  MaxCalls   = 2
INVARIANTS
  TypeOK
  WatchedIsListed
  HandlersQueuedOnce
PROPERTIES
  ExecutorSpec
  StopEndsLoop
  CallsTakeEffect
  InputIsHandled
\* A stopped loop, and a data race, end the behaviour.
CHECK_DEADLOCK FALSE
