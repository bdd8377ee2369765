\* Which jobs end: a source that cannot be opened and a full disk included.
SPECIFICATION FairSpec
CONSTANTS
  RingLength = 4
  BufferLength = 2
  IntHalf = 16
  SizeMod = 64
  Debug = TRUE
  Overwrite = FALSE
  Faults <- OpenWriteFaults
  SourceSizes <- Sizes
  Targets <- AnyTarget
  MayCrash = FALSE
PROPERTIES
  EndsUnlessStuck
  StuckForever
