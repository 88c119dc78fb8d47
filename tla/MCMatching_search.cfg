SPECIFICATION Spec
CONSTANTS
  None = None
  Worlds <- MCWorlds
  VtResults <- MCVtResults
  SigScores <- MCSigScores
INVARIANTS TypeOK AlignmentOptimal BfsComplete GapOneToOne GapClosed OneToOne UndisputedKept
PROPERTY EveryStepProgresses
