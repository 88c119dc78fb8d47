CONSTANTS
  None = None
  HalfWord = 4
  Size = 10
  MinLength = 2
  Alignment = 2
  RamStart = 800
  RamEnd = 808
  MinRam = 2
  LargeGap = 5
  Inputs <- MCInputsAtZero
SPECIFICATION Spec
INVARIANT BlocksWithinBands
CHECK_DEADLOCK FALSE
