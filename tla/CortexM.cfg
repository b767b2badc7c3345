SPECIFICATION FairSpec
CONSTANTS
  Last = 2
  Code = {1, 2, 3}
  High = {2}
  Watch = {10, 11}
  Comparators = 2
  Dwts = 1
  MaxReads = 1
  Environments <- Usual
INVARIANTS TypeOK ComparatorsOwned ListedIsActive ListedIsAsked
PROPERTIES StepOne StepReturns
