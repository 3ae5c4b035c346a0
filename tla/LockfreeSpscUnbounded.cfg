CONSTANTS
  Addr = {a1, a2, a3, a4}
  Null = null
  MaxItems = 5
  MayThrow = TRUE
  QueryThreads = {"C"}

SPECIFICATION Spec
SYMMETRY Symmetry

INVARIANTS
  TypeOK
  NodesAreLive
  ListIsIntact
  FifoDelivery

PROPERTIES
  EmptyAndPeekAreTrue
  QueryIsSnapshot
  LockFree
  RefinesFifo

\* A destroyed queue is the end.
CHECK_DEADLOCK FALSE
