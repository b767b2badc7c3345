SPECIFICATION Spec
CONSTANTS
  Size = 6
  Word = 2
  Holders = {d, s, t}
  Locals = {s, t}
  None = None
INVARIANTS TypeOK ListSound AppMemoryKept PointersAgree AvailFits
