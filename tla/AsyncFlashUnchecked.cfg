SPECIFICATION Spec
CONSTANTS
  Count = 2
  Slots = 3
  MaxPolls = 1
  ExitPoint = FALSE
  Faults = TRUE
INVARIANT WriteReported
