\* The test ends, so the last state has no successor.
CONSTANTS
  Producers = {0, 1}
  Consumers = {c1, c2}
  Observers = {}
  Addr = {a1, a2, a3}
  None = none
  MaxItems = 2
  MayThrow = FALSE
  ItemsPerProducer = 1
  ItemsPerConsumer = 1
  AuditBound = 4

SPECIFICATION TestSpec

INVARIANTS
  AuditPasses
  AuditIsMultisetEquality
  OnlyTheGapStalls

PROPERTIES
  NoFalseAlarm
  EndsOrIsReported

CHECK_DEADLOCK FALSE
