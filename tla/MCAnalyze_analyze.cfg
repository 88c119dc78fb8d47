CONSTANTS
  None = None
  FlashEnd = 500
  RamLo = 800
  RamHi = 900
  Window = 2
  Registers <- MCRegisters
  Worlds <- MCWorlds
  Handlers <- MCHandlers
SPECIFICATION Spec
INVARIANTS TypeOK LabelsSupported CrossFamilyVerified LaterPassAgrees ConflictsFaithful
INVARIANTS MutTableOnce SplicesAtSlot SettersHold ProjectFollows
