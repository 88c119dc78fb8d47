SPECIFICATION Spec
CHECK_DEADLOCK FALSE
CONSTANTS
  T = T
  B = B
  NoName = NoName
  Unreadable = Unreadable
  Proposed = Proposed
  KeepIt = KeepIt
  DropIt = DropIt
  Addr <- MCAddr
  Base <- MCBase
  AutoBase = {"FUN", "DAT"}
  GenericBase = {}
  PlaceholderBase = {"call"}
  SioBase = {}
  Refs <- MCRefs
  Priority <- MCPriority
  SortedIds <- MCSorted
  FunBase = "FUN"
  DataBase = "DAT"
  GhidraFns <- MCGhidraFns
  GhidraVars <- MCGhidraVars
  Readers <- MCReaders
  Writers <- MCWriters
  Siblings <- MCSiblings
  Neighbors <- MCNeighbors
  AgentNames <- MCAgentNames
  InitStores <- LoopStores
  BatchSize = 2
  Crashes = 0
  Operations = 1
PROPERTY AcceptedProposalsLand
