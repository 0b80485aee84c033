\* Two clients that connect, ask, leave and reset as they like, of a server with
\* one IO thread or two.
SPECIFICATION FairSpec
CONSTANTS
  Conns      = {c1, c2}
  Asking     = {c1}
  MaxThreads = 2
  MaxKept    = 1
INVARIANTS
  TypeOK
  WellDealt
  HandlersHaveConnections
PROPERTIES
  ClosedIsFinal
  RequestsAreAnswered
  LeaversAreSwept
\* A server whose clients have gone is idle; SIGPIPE ends it.
CHECK_DEADLOCK FALSE
