SPECIFICATION FairSpec
CONSTANTS
  s1 = s1
  s2 = s2
  Sessions <- Both
  Compatible <- OnlyFirst
  MaxConcurrency = 1
  Tools = {"prompt", "respond"}
  Interrupts = FALSE
  MaxEvents = 4
INVARIANTS
  SlotCoversTurn
  PermissionHasKeeper
PROPERTIES
  CallsReturn
  PermissionsExpire
CHECK_DEADLOCK FALSE
