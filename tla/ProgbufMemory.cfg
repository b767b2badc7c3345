SPECIFICATION FairSpec
CONSTANTS
  AddrSpace = 10
  Space = 10
  BatchMax = 3
  DelayMax = 3
  OldS0 = 50
  OldS1 = 51
  Content <- OldContent
  Data <- NewData
  Jobs <- AllJobs
INVARIANTS TypeOK AccessRight EachOnce
PROPERTY Terminates
