\* Every fault, with and without hashing in the ring; the object is used again after
\* an exception.
SPECIFICATION Spec
CONSTANTS
  RingLength = 4
  BufferLength = 2
  IntHalf = 16
  SizeMod = 64
  Debug = FALSE
  Overwrite = TRUE
  Faults <- AllFaults
  SourceSizes <- Sizes
  Targets <- AnyTarget
  Width = 6
INVARIANTS
  TypeOK
  HashedThenWritten
  VerifiedWhole
  BarShowsProgress
PROPERTIES
  ImplementsCopy
