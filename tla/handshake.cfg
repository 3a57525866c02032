SPECIFICATION Spec
CONSTANTS
  Models = {m1, m2}
  Names = {n1}
  NoModel = NoModel
  NoName = NoName
  MaxRequests = 5
  MaxUpdates = 1
  MaxWire = 1
SYMMETRY Interchangeable
INVARIANTS
  RecordIsReported
  OpenIsLoggedIn
PROPERTIES
  SwitchIsReported
  FailedSwitchKeepsRecord
CHECK_DEADLOCK FALSE
