SPECIFICATION Spec
CONSTANTS
  s1 = s1
  s2 = s2
  Sessions <- Both
  Compatible <- OnlyFirst
  MaxConcurrency = 1
  Tools = {"prompt", "respond"}
  Interrupts = FALSE
  MaxEvents = 3
INVARIANT HeldSlotHasKeeper
CHECK_DEADLOCK FALSE
