CONSTANTS
  None = None
  HalfWord = 4
  Size = 10
  MinLength = 2
  Alignment = 2
  RamStart = 800
  RamEnd = 808
  MinRam = 2
  LargeGap = 5
  Inputs <- MCInputs
SPECIFICATION Spec
INVARIANTS TypeOK CrcAsCoded RamGapsExact StubUnambiguous
PROPERTIES FindsFreeRuns ScanEnds
CHECK_DEADLOCK FALSE
