SPECIFICATION Spec
CONSTANTS
  c1 = c1
  c2 = c2
  d1 = d1
  NumHarts = 2
  NumSlots = 2
  CodeAddrs <- Code
  DataAddrs <- Data
  RamAddrs <- Ram
  Environments <- Working
INVARIANTS TypeOK SameSlotOnEveryHart ArmedIsUsed AcceptedIsThere ProgramIntact
