SPECIFICATION Spec
CONSTANTS
  Environments <- VcontShared
  HaltPolls = 1
  MaxOut = 2
INVARIANTS NoLostStop
