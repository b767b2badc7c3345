SPECIFICATION FairSpec
CONSTANTS
  Environments <- Usual
  HaltPolls = 1
  MaxOut = 2
INVARIANTS TypeOK InSync NoLostStop WriteErrorSettled
PROPERTIES InterruptAnswered
