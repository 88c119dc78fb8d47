SPECIFICATION Spec
CONSTANTS
  None = None
  Worlds <- MCWorlds
  VtResults <- MCVtResults
  SigScores <- MCSigScores
INVARIANT StructuralOverrides
