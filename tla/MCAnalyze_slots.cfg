CONSTANTS
  None = None
  FlashEnd = 500
  RamLo = 800
  RamHi = 900
  Window = 2
  Registers <- MCRegisters
  Worlds <- SlotWorlds
  Handlers <- MCHandlers
SPECIFICATION Spec
INVARIANT SlotInDoubt
