SPECIFICATION Spec
CONSTANTS
  T = T
  B = B
  C = C
  D = D
  NoName = NoName
  NoRef = NoRef
  Unreadable = Unreadable
  Proposed = Proposed
  KeepIt = KeepIt
  DropIt = DropIt
  Addr <- MCAddr
  Base <- MCBase
  AutoBase = {"FUN"}
  GenericBase = {"out"}
  PlaceholderBase = {"call"}
  SioBase = {}
  Refs <- MCRefs
  Priority <- MCPriority
  WithRom <- MCRefs
  Variant <- MCVariant
  SortedIds <- MCSorted
  Erased <- MCErased
  Setups <- MCSetups
  CustomNames <- MCCustom
INVARIANTS TypeOK UniqueNames OneFunctionPerAddress ReviewFileFresh ApplyIdempotent
PROPERTIES AutoRenameEndorsed VerdictsHonoured EnrichmentSettles
