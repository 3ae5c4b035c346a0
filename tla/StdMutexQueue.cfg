CONSTANTS
  Producers = {p1, p2}
  Consumers = {c1, c2}
  Free = free
  MaxPushes = 3

SPECIFICATION Spec

INVARIANTS
  NoLostWakeup

PROPERTIES
  RefinesFifo
