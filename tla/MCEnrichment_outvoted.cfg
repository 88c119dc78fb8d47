SPECIFICATION Spec
CONSTANTS
  T = T
  B = B
  C = C
  D = D
  NoName = NoName
  NoRef = NoRef
  Unreadable = Unreadable
  Proposed = Proposed
  KeepIt = KeepIt
  DropIt = DropIt
  Addr <- MCAddr
  Base <- MCBase
  AutoBase = {"FUN"}
  GenericBase = {"out"}
  PlaceholderBase = {"call"}
  SioBase = {}
  Refs <- FourRefs
  Priority <- FourPriority
  WithRom <- FourRefs
  Variant <- MCVariant
  SortedIds <- FourSorted
  Erased <- MCNoErased
  Setups <- OutvotedSetups
  CustomNames <- MCCustom
INVARIANT AuthorityConflictSurfaces
