CONSTANTS
  Addr = {a1, a2, a3}
  Null = null
  MaxItems = 3
  MayThrow = FALSE
  QueryThreads = {"C","P"}

SPECIFICATION Spec

INVARIANTS
  NodesAreLive

\* A destroyed queue is the end.
CHECK_DEADLOCK FALSE
