SPECIFICATION Spec
CONSTANTS
  MaxTurns = 2
  MaxAsks = 2
  MaxChunks = 1
  MaxWire = 1
  Tolerance = 1
  Rejectable <- OnlyFirst
INVARIANTS
  OwnResult
  
  PendingHasTurn
  
PROPERTIES
  LedgerSpec
  WholeText
CHECK_DEADLOCK FALSE
VIEW Relevant
