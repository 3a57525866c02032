SPECIFICATION FairSpec
CONSTANTS
  KiB <- MCKiB
  BuiltIn <- MCBuiltIn
  Files <- MCFiles
  Arguments <- MCArguments
  MaxBytes = 6
  MaxChunk = 3
INVARIANTS
  FramedSoFar
  BufferBounded
PROPERTIES
  EverythingFramed
  LoadedAsWritten
CHECK_DEADLOCK FALSE
