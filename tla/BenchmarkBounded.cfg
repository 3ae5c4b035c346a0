\* The program ends, so the last state has no successor; ProgramEnds and
\* AllTestsPassed say that it ends in main = "done" and nowhere else.
CONSTANTS
  Capacity = 4
  MaxItems = 21
  WordSize = 16
  MayThrow = FALSE
  Elements = 10

SPECIFICATION MainSpec

INVARIANTS
  AllTestsPassed

PROPERTIES
  ProgramEnds
  WaitPushReturns
  WaitPopReturns

CHECK_DEADLOCK FALSE
