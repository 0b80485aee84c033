\* One call, from either kind of caller; two responses to it.  (RpcCallProofs has
\* the safety properties for any number of calls.)
SPECIFICATION FairSpec
CONSTANTS
  Calls = {c1}
  Callers = {TRUE, FALSE}
  MaxReplies = 2
INVARIANTS
  TypeOK
  ClosureIsTold
  HandlersHaveChannels
PROPERTIES
  PromiseSpec
  ClosureIsLast
  CallsEnd
\* Calls end.
CHECK_DEADLOCK FALSE
