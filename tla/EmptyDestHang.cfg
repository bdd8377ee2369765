\* An empty file at the destination.
SPECIFICATION Spec
CONSTANTS
  RingLength = 4
  BufferLength = 2
  IntHalf = 16
  SizeMod = 64
  Debug = TRUE
  Overwrite = FALSE
  Faults <- NoFaults
  SourceSizes <- Sizes
  Targets <- EmptyFile
  MayCrash = FALSE
INVARIANTS
  ExistingIsSkipped
