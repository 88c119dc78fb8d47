CONSTANTS
  None = None
  FlashEnd = 500
  RamLo = 800
  RamHi = 900
  Window = 2
  Registers <- MCRegisters
  Worlds <- ArbWorlds
  Handlers <- MCHandlers
SPECIFICATION Spec
INVARIANT SymbolConflictsListed
