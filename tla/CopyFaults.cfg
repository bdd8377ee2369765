\* The build the repository configures (CMAKE_BUILD_TYPE Debug), with every fault
\* and crashes.
SPECIFICATION Spec
CONSTANTS
  RingLength = 4
  BufferLength = 2
  IntHalf = 16
  SizeMod = 64
  Debug = TRUE
  Overwrite = FALSE
  Faults <- AllFaults
  SourceSizes <- Sizes
  Targets <- AnyTarget
  MayCrash = TRUE
INVARIANTS
  TypeOK
  TargetIsPrefix
  RingHoldsUnwritten
  NoEarlyClose
  ReturnsOnlyWholeCopies
  ChecksNeverMisfire
PROPERTIES
  ExistingFileKept
  ImplementsCopy
