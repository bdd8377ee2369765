\* A TreeSlinger used more than once, in both builds, the calls in any order.
SPECIFICATION Spec
CONSTANTS
  FileSystems <- MCFileSystems
  Sources <- MCSources
  Destinations <- MCDestinations
  WorkingDir <- MCWorkingDir
  Report <- MCReport
  HangingSizes <- MCHangingSizes
  NumThreads = 2
  MaxListed = 3
  MaxRepeats = 2
  MaxUses = 3
  Width = 6
INVARIANTS
  TypeOK
  DestinationsMirrorTree
  FoldersReady
  MatchMeansMirrored
  CompleteMeansCopied
PROPERTIES
  NothingOverwritten
  CopierLeavesNoneOut
CHECK_DEADLOCK FALSE
