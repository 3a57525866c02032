SPECIFICATION Spec
CONSTANTS
  s1 = s1
  s2 = s2
  Sessions <- Both
  Compatible <- OnlyFirst
  MaxConcurrency = 1
  Tools = {"prompt", "respond", "switch", "cancel", "close"}
  Interrupts = TRUE
  MaxEvents = 4
INVARIANTS
  TypeOK
  AcquirerWaits
  CancelsOneAtATime
PROPERTIES
  SlotSpec
CHECK_DEADLOCK FALSE
