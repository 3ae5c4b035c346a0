CONSTANTS
  Capacity = 2
  MaxItems = 5
  WordSize = 16
  MayThrow = TRUE

SPECIFICATION Spec

INVARIANTS
  TypeOK
  NoDataRace
  NothingOverwritten
  FifoDelivery

PROPERTIES
  AnswersAreTrue
  WaitFree
  PeekHolds
  QueryIsConservative
  RefinesFifo
