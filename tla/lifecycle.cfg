SPECIFICATION FairSpec
CONSTANTS
  s1 = s1
  s2 = s2
  Sessions <- BothSessions
  Remote <- OverSsh
  Prompted <- OnlyLocal
  Readers = {"stdout"}
  Files = {1}
INVARIANTS
  FailedCreateIsHarmless
  ClosedMeansEnded
  CutCloseHasSignalled
  LeftoverIsLate
PROPERTIES
  TasksEnd
  FilesGo
CHECK_DEADLOCK FALSE
