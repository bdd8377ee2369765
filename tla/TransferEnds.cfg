\* Which transfers end, and with which verdict, when every file can be read; a debug
\* build, in which an exception may stop a transfer between hashing and writing.
SPECIFICATION FairSpec
CONSTANTS
  RingLength = 4
  BufferLength = 2
  IntHalf = 16
  SizeMod = 64
  Debug = TRUE
  Overwrite = FALSE
  Faults <- OpenWriteFaults
  SourceSizes <- Sizes
  Targets <- AnyTarget
  Width = 6
INVARIANTS
  AlarmsAreReal
PROPERTIES
  TransferEnds
  StuckForever
