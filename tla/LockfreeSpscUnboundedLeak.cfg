CONSTANTS
  Addr = {a1, a2, a3}
  Null = null
  MaxItems = 3
  MayThrow = TRUE
  QueryThreads = {"C"}

SPECIFICATION Spec

INVARIANTS
  NothingLeaks

\* A destroyed queue is the end.
CHECK_DEADLOCK FALSE
