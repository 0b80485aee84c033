SPECIFICATION FairSpec
CONSTANTS
  Calls = {c1}
  Callers = {TRUE}
  MaxReplies = 2
PROPERTY ClosureRuns
\* Calls end.
CHECK_DEADLOCK FALSE
