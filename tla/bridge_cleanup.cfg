SPECIFICATION FairSpec
CONSTANTS
  s1 = s1
  s2 = s2
  Sessions <- Both
  Compatible <- Nobody
  MaxConcurrency = 1
  Tools = {"prompt", "switch", "cancel", "close"}
  Interrupts = TRUE
  MaxEvents = 3
INVARIANTS
  HeldSlotHasKeeper
  ClosedHoldsNothing
PROPERTIES
  CallsReturn
CHECK_DEADLOCK FALSE
