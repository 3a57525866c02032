SPECIFICATION SlotFairSpec
CONSTANTS
  s1 = s1
  s2 = s2
  s3 = s3
  s4 = s4
  Sessions <- Four
  MaxConcurrency = 2
INVARIANTS
  SlotTypeOK
  SlotConservation
  OnePlacePerSession
  NoLostWakeup
PROPERTIES
  NoOvertaking
  EveryWaiterServed
  ImplementsPool
