SPECIFICATION Spec
CONSTANTS
  s1 = s1
  s2 = s2
  Sessions <- Both
  Compatible <- Nobody
  MaxConcurrency = 1
  Tools = {"prompt", "close"}
  Interrupts = FALSE
  MaxEvents = 3
INVARIANT ActiveTurnsBounded
CHECK_DEADLOCK FALSE
