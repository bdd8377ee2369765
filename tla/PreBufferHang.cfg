\* No fault, no crash, and nothing at the destination.
SPECIFICATION FairSpec
CONSTANTS
  RingLength = 4
  BufferLength = 2
  IntHalf = 16
  SizeMod = 64
  Debug = TRUE
  Overwrite = FALSE
  Faults <- NoFaults
  SourceSizes <- Sizes
  Targets <- AbsentOnly
  MayCrash = FALSE
PROPERTIES
  ExecuteEnds
