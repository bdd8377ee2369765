\* Two copiers, then two hashers of each kind, on three files; any thread may throw.
SPECIFICATION FairSpec
CONSTANTS
  NumFiles = 3
  SourceSize <- ThreeFiles
  OldFiles <- AbsentOrOld
  NumCopiers = 2
  NumThreads = 2
  MayThrow = TRUE
  Debug = TRUE
INVARIANTS
  TypeOK
  NoSharedElement
  CopiedExactlyOnce
  HashedWhenFinished
  CompleteMeansCopied
  VerdictRight
PROPERTIES
  Terminates
CHECK_DEADLOCK FALSE
