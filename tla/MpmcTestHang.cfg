CONSTANTS
  Producers = {0}
  Consumers = {c1}
  Observers = {}
  Addr = {a1, a2}
  None = none
  MaxItems = 1
  MayThrow = FALSE
  ItemsPerProducer = 1
  ItemsPerConsumer = 1
  AuditBound = 1

SPECIFICATION TestSpec

PROPERTIES
  TestEnds

CHECK_DEADLOCK FALSE
