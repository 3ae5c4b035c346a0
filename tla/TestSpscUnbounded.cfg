\* The program ends, so the last state has no successor.
CONSTANTS
  Addr = {a1, a2, a3, a4}
  Null = Null
  MaxItems = 3
  MayThrow = FALSE
  QueryThreads = {"C"}
  Elements = 3

SPECIFICATION MainSpec

INVARIANTS
  AllTestsPassed

PROPERTIES
  WaitPopReturns

CHECK_DEADLOCK FALSE
