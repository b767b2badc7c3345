SPECIFICATION FairSpec
CONSTANTS
  Environments <- Usual
  MaxRequests = 4
  MaxOut = 2
  MaxNoise = 3
  MaxExtra = 2
INVARIANTS TypeOK InterruptKept
PROPERTIES RepliesArrive RequestsArrive
\* After GDB's last request nothing is left to do.
CHECK_DEADLOCK FALSE
