CONSTANTS
  Producers = {p1, p2}
  Consumers = {c1, c2}
  Observers = {o1}
  Addr = {a1, a2, a3, a4}
  None = none
  MaxItems = 3
  MayThrow = TRUE

SPECIFICATION Spec
SYMMETRY Symmetry

INVARIANTS
  TypeOK
  NodesAreSafe
  ListIsIntact
  EachItemOnce
  ProducerOrder
  NoDeadlock
  OnlyLocksBlock

PROPERTIES
  QueryIsSnapshot
  CallsRunOut
  RefinesFifo

\* A destroyed queue is the end.
CHECK_DEADLOCK FALSE
