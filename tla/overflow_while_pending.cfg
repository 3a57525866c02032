SPECIFICATION Spec
CONSTANTS
  s1 = s1
  s2 = s2
  Sessions <- Both
  Compatible <- Both
  MaxConcurrency = 1
  Tools = {"prompt"}
  Interrupts = FALSE
  MaxEvents = 3
INVARIANT SlotBetweenCallsIsTimed
CHECK_DEADLOCK FALSE
