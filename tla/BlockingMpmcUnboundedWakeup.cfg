CONSTANTS
  Producers = {p1}
  Consumers = {c1}
  Observers = {}
  Addr = {a1, a2, a3}
  None = none
  MaxItems = 2
  MayThrow = FALSE

SPECIFICATION Spec

INVARIANTS
  NoLostWakeup

\* A destroyed queue is the end.
CHECK_DEADLOCK FALSE
