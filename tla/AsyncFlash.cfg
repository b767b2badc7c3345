SPECIFICATION FairSpec
CONSTANTS
  Count = 5
  Slots = 3
  MaxPolls = 2
  ExitPoint = TRUE
  Faults = TRUE
INVARIANTS TypeOK FlashInOrder SuccessIsComplete EmptyMeansDrained
PROPERTIES ImplementsStream Termination
