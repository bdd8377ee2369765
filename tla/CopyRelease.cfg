\* A build without _DEBUG, in which the checks of execute() are compiled out, with the public
\* field _overwrite set.
SPECIFICATION Spec
CONSTANTS
  RingLength = 4
  BufferLength = 2
  IntHalf = 16
  SizeMod = 64
  Debug = FALSE
  Overwrite = TRUE
  Faults <- WriteFaults
  SourceSizes <- Sizes
  Targets <- AnyTarget
  MayCrash = TRUE
PROPERTIES
  ImplementsCopy
