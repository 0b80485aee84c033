\* Two requests on one connection, each answered by hand at most once.
SPECIFICATION FairSpec
CONSTANTS
  Requests = {r1, r2}
  MaxCalls = 1
INVARIANTS
  TypeOK
  LastReplyIsFinal
  SynchronousIsSafe
PROPERTIES
  OverForGood
  ServedAreAnswered
\* The connection is gone.
CHECK_DEADLOCK FALSE
