-------------------------------- MODULE Staging --------------------------------
(***************************************************************************)
(* class TreeSlinger as its caller sees it: a tree is gathered and mapped  *)
(* into a destination, copied, verified and reported.  The caller makes    *)
(* the calls in any order, so that main()'s order is one behaviour, and    *)
(* goes on after an exception.  What the threads of one call do to each    *)
(* other is in TreeSlinger.tla, what a copy does to one file in CopySpec.  *)
(*                                                                         *)
(* The code computes paths on their text.  All names of the model have one *)
(* character, so that the text of n > 0 names has 2n of them.              *)
(***************************************************************************)
EXTENDS GatherDir, Functions, ProgressBar

CONSTANTS
  FileSystems,   \* the file systems there may be at first
  Sources,       \* what set_source may be called with
  Destinations,  \* what set_destination may be called with
  WorkingDir,    \* of the process
  Report,        \* the name of the report file
  HangingSizes,  \* sizes of the files that pre_buffer_source() never finishes
  NumThreads,    \* the parameter of verify_threaded
  MaxListed,     \* bound on the length of the lists
  MaxRepeats,    \* bound on "repeats"
  MaxUses        \* bound on "uses"

Unset == << <<>> >>       \* an empty std::filesystem::path
Placeholders == File(9, 1)

ASSUME StagingAssumption ==
  /\ \A fs \in FileSystems : IsFileSystem(fs)
  /\ WorkingDir \in Paths /\ Report \in Names
  /\ HangingSizes \subseteq Nat \ {0}
  /\ NumThreads \in Nat \ {0} /\ MaxListed \in Nat /\ MaxRepeats \in Nat /\ MaxUses \in Nat

VARIABLES
  debug,             \* whether the build defines _DEBUG
  fs,                \* the file system
  source, destination, parentPathLength,
  directories, assets,              \* of _gatherer
  destFiles, sourceChecksums, destChecksums,
  sourceQueueIndex, progress, transferred,
  hashers,           \* the number of threads in _sourceHasherThreads
  outcome,           \* how the last call ended
  repeats,           \* history: how often something was set, staged or reset again, or failed
  uses,              \* history: how often a staged or unstaged tree was used
  copied,            \* history: which members have copied files
  measured,          \* history: whether the progress has the maximum of the last set_source
  counted,           \* history: the files whose bytes are in "transferred"
  recounted          \* history: whether the bytes of one of them are in it twice

lists    == <<directories, assets>>
staging  == <<destFiles, sourceChecksums, destChecksums>>
counters == <<sourceQueueIndex, progress, transferred>>
setup    == <<source, destination, parentPathLength>>
calls    == <<repeats, uses, copied>>
account  == <<measured, counted, recounted>>
vars     == <<debug, fs, setup, lists, staging, counters, hashers, outcome, calls, account>>

\* "stuck" is a copy that never ends, "aborted" the end of the program.
Outcomes == {"none", "ok", "threw", "stuck", "aborted", "match", "mismatch"}

Init ==
  /\ debug \in BOOLEAN /\ fs \in FileSystems
  /\ source = Unset /\ destination = Unset /\ parentPathLength = 0
  /\ directories = <<>> /\ assets = <<>>
  /\ destFiles = <<>> /\ sourceChecksums = <<>> /\ destChecksums = <<>>
  /\ sourceQueueIndex = 0 /\ progress = NewProgress /\ transferred = 0
  /\ hashers = 0 /\ outcome = "none" /\ repeats = 0 /\ uses = 0 /\ copied = {}
  /\ measured = FALSE /\ counted = {} /\ recounted = FALSE

\* A caller may go on after an exception, but not after these.
CanCall == outcome \notin {"stuck", "aborted"}

\* Nothing was set, staged or reset a second time, or failed to be.
Fresh == repeats = 0

Repeat(again) ==
  /\ repeats' = IF again THEN repeats + 1 ELSE repeats
  /\ repeats' <= MaxRepeats
  /\ UNCHANGED <<uses, copied>>

\* A call that copies, verifies or reports.
Use(by) ==
  /\ uses < MaxUses /\ uses' = uses + 1
  /\ copied' = copied \cup by
  /\ UNCHANGED repeats

-------------------------------------------------------------------------------
(* Setting up. *)

TextLength(p) == IF p = <<>> THEN 1 ELSE 2 * Len(p)

\* Mutant: the size of the last file, not of all so far, is the total.
SizeOfLast(f, files) == IF files = <<>> THEN 0 ELSE f[Last(files)].size

SizeOf(f, files) == SumFunction([k \in DOMAIN files |-> f[files[k]].size])

\* Mutant: the length of the source, not of its parent.
MeasureSource(p) == TextLength(p)

\* source.parent_path().string().size()
Measure(p) == TextLength(Parent(p))

\* set_source() throws if the source is no directory, or for an asset without a size.
\* A path that does not exist is refused at once, with nothing changed.
SetSource(p) ==
  /\ CanCall
  /\ source' = p /\ parentPathLength' = Measure(p)
  /\ \E order \in IF IsDirectory(fs, p) THEN Orders(Visited(fs, p)) ELSE {<<>>} :
       LET gathered == Gather(fs, directories, assets, order) IN
       directories' = gathered.directories /\ assets' = gathered.assets
  /\ Len(assets') <= MaxListed
  /\ measured' = (IsDirectory(fs, p) /\ \A k \in DOMAIN assets' : fs[assets'[k]].kind = "file")
  /\ IF measured'
     THEN /\ progress' = SetProgress(SetMaximum(progress, SizeOf(fs, assets')), 0)
          /\ outcome' = "ok"
     ELSE outcome' = "threw" /\ UNCHANGED progress
  /\ Repeat(source # Unset \/ outcome' # "ok")
  /\ UNCHANGED <<debug, fs, destination, staging, sourceQueueIndex, transferred,
                 hashers, counted, recounted>>

SetDestination(p) ==
  /\ CanCall
  /\ destination' = p
  /\ outcome' = "ok" /\ Repeat(destination # Unset)
  /\ UNCHANGED <<debug, fs, source, parentPathLength, lists, staging, counters,
                 hashers, account>>

-------------------------------------------------------------------------------
(* _stage() *)

\* _get_relative_dest(): what is left of the asset's text without its first
\* parentPathLength characters follows the destination's text.  If the parent is the
\* root, the separator is among the former, and two names become one; without a
\* destination the path is then a relative one.
GetRelativeDest(p) ==
  LET rest == SubSeq(p, (parentPathLength \div 2) + 1, Len(p)) IN
  IF parentPathLength # 1 THEN (IF destination = Unset THEN <<>> ELSE destination) \o rest
  ELSE IF destination = Unset THEN WorkingDir \o rest
  ELSE IF destination = <<>> THEN rest
  ELSE Front(destination) \o <<Last(destination) \o Head(rest)>> \o Tail(rest)

\* substr() throws std::out_of_range.
CannotStrip(p) == parentPathLength > TextLength(p)

\* What is there stays.
Create(f, paths, node) ==
  [p \in DOMAIN f \cup paths |-> IF p \in DOMAIN f THEN f[p] ELSE node]

Ancestry(p) == {SubSeq(p, 1, n) : n \in 1 .. Len(p)}

\* Mutant: create_directory() makes one directory.
CreateDirectory(f, p) ==
  IF IsDirectory(f, Parent(p)) THEN Create(f, {p}, Dir) ELSE f

CreateDirectories(f, p) == Create(f, Ancestry(p), Dir)

CannotCreate(f, p) ==
  \E q \in Ancestry(p) \cap DOMAIN f : ~IsDirectory(f, q)

MakeDirectory(acc, p) ==
  IF acc.threw \/ CannotStrip(p) \/ CannotCreate(acc.fs, GetRelativeDest(p))
  THEN [acc EXCEPT !.threw = TRUE]
  ELSE [acc EXCEPT !.fs = CreateDirectories(@, GetRelativeDest(p))]

CreateDestDirStructure ==
  FoldLeft(MakeDirectory, [fs |-> fs, threw |-> FALSE], directories)

\* _enumerate_dest_files()
EnumerateFile(acc, p) ==
  IF acc.threw \/ CannotStrip(p) THEN [acc EXCEPT !.threw = TRUE]
  ELSE [acc EXCEPT !.files = Append(@, GetRelativeDest(p))]

EnumerateDestFiles ==
  FoldLeft(EnumerateFile, [files |-> destFiles, threw |-> FALSE], assets)

\* _allocate_checksums(): a debug build appends nothing to lists that are not empty.
Allocated(sums) ==
  IF debug /\ sourceChecksums # <<>> /\ destChecksums # <<>> THEN sums
  ELSE sums \o [k \in DOMAIN assets |-> 0]

StageThrows == outcome' = "threw" /\ UNCHANGED <<sourceChecksums, destChecksums>>

Stage ==
  LET made == CreateDestDirStructure
      listed == EnumerateDestFiles
  IN
  /\ CanCall /\ Len(destFiles) + Len(assets) <= MaxListed
  /\ Len(sourceChecksums) + Len(assets) <= MaxListed
  /\ IF debug /\ (source = Unset \/ destination = Unset)
     THEN StageThrows /\ UNCHANGED <<fs, destFiles>>
     ELSE /\ fs' = made.fs
          /\ destFiles' = IF made.threw THEN destFiles ELSE listed.files
          /\ IF made.threw \/ listed.threw THEN StageThrows
             ELSE /\ sourceChecksums' = Allocated(sourceChecksums)
                  /\ destChecksums' = Allocated(destChecksums)
                  /\ outcome' = "ok"
  /\ Repeat(outcome' # "ok" \/ source = Unset \/ destination = Unset \/ destFiles # <<>>)
  /\ UNCHANGED <<debug, setup, lists, counters, hashers, account>>

-------------------------------------------------------------------------------
(* Copying. *)

\* Mutant: an existing file is overwritten.
CopyOver(f, from, to) ==
  [fs |-> [Create(f, {to}, Dir) EXCEPT ![to] = f[from]], bytes |-> f[from].size, outcome |-> "ok"]

\* reset(), open_source(), open_dest() and execute().  A file that exists is kept, and
\* must have the source's size in a debug build, unless it is empty: then nothing is
\* written, as when no file can be created, and execute() never ends.  Nor does it for
\* some sizes, once it has created the file.  One is created behind a dangling link too.
CopyOne(f, from, to) ==
  LET size == f[from].size
      end(o) == [fs |-> f, bytes |-> 0, outcome |-> o]
      unwritten == end(IF size > 0 THEN "stuck" ELSE IF Exists(f, to) THEN "ok" ELSE "threw")
      created(node) == [Create(f, {to}, node) EXCEPT ![to] = node]
      Opens == IF to \in DOMAIN f THEN f[to].kind = "dangling" ELSE IsDirectory(f, Parent(to))
  IN
  IF f[from].kind # "file" \/ IsDirectory(f, to) THEN end("threw")
  ELSE IF Exists(f, to)
  THEN IF f[to].kind = "other" THEN end("threw")
       ELSE IF f[to].size = 0 THEN unwritten
       ELSE IF debug /\ f[to].size # size THEN end("threw")
       ELSE [end("ok") EXCEPT !.bytes = f[to].size]
  ELSE IF ~Opens THEN unwritten
  ELSE IF size \in HangingSizes THEN [end("stuck") EXCEPT !.fs = created(File(0, 0))]
  ELSE [fs |-> created(f[from]), bytes |-> size, outcome |-> "ok"]

\* Mutant: the loop ends one file early.
QueueLeftButLast == [n \in 1 .. Len(assets) - sourceQueueIndex - 1 |-> sourceQueueIndex + n]

\* What _get_next_source_index() still returns below totalNumFiles, counted from 1.
QueueLeft == [n \in 1 .. Len(assets) - sourceQueueIndex |-> sourceQueueIndex + n]

\* The body of _run_copier()'s loop, until a call throws or never ends.
TakeNext(acc, k) ==
  LET one == CopyOne(acc.fs, assets[k], destFiles[k]) IN
  IF acc.outcome # "ok" THEN acc
  ELSE IF k > Len(destFiles) THEN [acc EXCEPT !.outcome = "threw", !.index = k]
  ELSE [fs |-> one.fs, outcome |-> one.outcome, index |-> k, state |-> acc.state + one.bytes]

RunCopier ==
  LET all == FoldLeft(TakeNext, [fs |-> fs, outcome |-> "ok", index |-> sourceQueueIndex,
                                 state |-> progress.state], QueueLeft)
  IN
  /\ CanCall
  /\ fs' = all.fs /\ outcome' = all.outcome
  /\ progress' = SetProgress(progress, all.state)
  /\ sourceQueueIndex' = IF all.outcome = "ok" THEN all.index + 1 ELSE all.index
  /\ Use({"_run_copier"})
  /\ UNCHANGED <<debug, setup, lists, staging, transferred, hashers, account>>

\* _transferred += numBytes
CountTransferred(bytes) == transferred + bytes

\* _copy_file(): the bytes of a file that is kept count as those of one that is copied.
CopyFile(k) ==
  LET one == CopyOne(fs, assets[k], destFiles[k]) IN
  /\ CanCall
  /\ fs' = one.fs /\ outcome' = one.outcome
  /\ IF one.outcome = "ok"
     THEN /\ transferred' = CountTransferred(one.bytes)
          /\ progress' = SetProgress(progress, transferred')
          /\ counted' = counted \cup {k} /\ recounted' = (recounted \/ k \in counted)
     ELSE UNCHANGED <<transferred, progress, counted, recounted>>
  /\ Use({"_copy_file"})
  /\ UNCHANGED <<debug, setup, lists, staging, sourceQueueIndex, hashers, measured>>

\* _sys_file_copy(): std::filesystem::copy puts the entries of the source, those behind
\* links too, into the destination itself, in any order until one is in the way.  Where
\* a file has the name of a directory it is put into that.
CopyEntry(acc, p) ==
  LET under == destination \o SubSeq(p, Len(source) + 1, Len(p))
      to == IF fs[p].kind = "file" /\ IsDirectory(acc.fs, under) THEN Append(under, Last(p))
            ELSE under
  IN
  IF \/ acc.threw
     \/ fs[p].kind \notin {"dir", "link", "file"}
     \/ fs[p].kind = "file" /\ to \in DOMAIN acc.fs
     \/ IsDirectory(fs, p) /\ CannotCreate(acc.fs, to)
  THEN [acc EXCEPT !.threw = TRUE]
  ELSE [acc EXCEPT !.fs = Create(@, {to}, IF IsDirectory(fs, p) THEN Dir ELSE fs[p])]

SysFileCopy ==
  /\ CanCall
  /\ source # Unset /\ destination # Unset
  /\ IsDirectory(fs, source) /\ ~IsPrefix(source, destination)
  /\ \E order \in Orders({p \in DOMAIN fs : Below(source, p)}) :
       LET all == FoldLeft(CopyEntry, [fs |-> fs, threw |-> ~IsDirectory(fs, destination)],
                           order) IN
       fs' = all.fs /\ outcome' = IF all.threw THEN "threw" ELSE "ok"
  /\ Use({"_sys_file_copy"})
  /\ UNCHANGED <<debug, setup, lists, staging, counters, hashers, account>>

-------------------------------------------------------------------------------
(* Verifying and reporting. *)

\* getHashFromFile(): a directory can be opened and yields no bytes.
CannotHash(p) == p # <<>> /\ ~(Exists(fs, p) /\ fs[p].kind # "other")

Checksum(p) == IF IsDirectory(fs, p) THEN 0 ELSE fs[p].data

\* One of the loops over the gathered files, up to the first that cannot be hashed: at()
\* throws past the end of a list.
HashFiles(files, sums) ==
  LET Fails(k) == k > Len(files) \/ k > Len(sums) \/ CannotHash(files[k])
      Hashed(k) == ~\E j \in 1 .. k : Fails(j)
  IN  [sums  |-> [k \in DOMAIN sums |-> IF k \in DOMAIN assets /\ Hashed(k)
                                       THEN Checksum(files[k]) ELSE sums[k]],
       threw |-> \E k \in DOMAIN assets : Fails(k)]

FileNumMismatch == debug /\ Len(assets) # Len(destFiles)

\* Mutant: the last file is not compared.
VerdictButLast(source_, dest_) ==
  IF \A k \in DOMAIN assets : k = Len(assets) \/ source_[k] = dest_[k]
  THEN "match" ELSE "mismatch"

\* A debug build throws CHECKSUM_MISMATCH where another one returns false.
Verdict(source_, dest_) ==
  IF \A k \in DOMAIN assets : source_[k] = dest_[k] THEN "match" ELSE "mismatch"

Verify ==
  LET ofSource == HashFiles(assets, sourceChecksums)
      ofDest == HashFiles(destFiles, destChecksums)
  IN
  /\ CanCall
  /\ IF FileNumMismatch THEN outcome' = "threw" /\ UNCHANGED <<sourceChecksums, destChecksums>>
     ELSE /\ sourceChecksums' = ofSource.sums
          /\ destChecksums' = IF ofSource.threw THEN destChecksums ELSE ofDest.sums
          /\ outcome' = IF ofSource.threw \/ ofDest.threw THEN "threw"
                        ELSE Verdict(ofSource.sums, ofDest.sums)
  /\ Use({})
  /\ UNCHANGED <<debug, fs, setup, lists, destFiles, counters, hashers, account>>

\* A hasher thread that throws ends the program.  The threads are never removed from
\* their vectors, so that a second call joins those of the first again and throws, with
\* its own threads left running: the program ends when the vectors are destroyed.
VerifyThreaded ==
  LET ofSource == HashFiles(assets, sourceChecksums)
      ofDest == HashFiles(destFiles, destChecksums)
  IN
  /\ CanCall
  /\ IF FileNumMismatch
     THEN outcome' = "threw" /\ UNCHANGED <<sourceChecksums, destChecksums, sourceQueueIndex, hashers>>
     ELSE /\ sourceQueueIndex' = Len(assets) + NumThreads
          /\ sourceChecksums' = ofSource.sums /\ destChecksums' = ofDest.sums
          /\ hashers' = hashers + NumThreads
          /\ outcome' = IF hashers > 0 \/ ofSource.threw \/ ofDest.threw THEN "aborted"
                        ELSE Verdict(ofSource.sums, ofDest.sums)
  /\ Use({})
  /\ UNCHANGED <<debug, fs, setup, lists, destFiles, progress, transferred, account>>

\* _create_csv(): the report is truncated if it exists and not created if it cannot
\* be; a list of destination files that is too short ends it.
CreateCsv ==
  LET report == (IF destination = Unset THEN <<>> ELSE destination) \o <<Report>>
      opens == /\ IsDirectory(fs, Parent(report))
               /\ report \in DOMAIN fs => fs[report].kind \in {"file", "dangling"}
  IN
  /\ CanCall
  /\ fs' = IF opens THEN [Create(fs, {report}, Placeholders) EXCEPT ![report] = Placeholders]
           ELSE fs
  /\ outcome' = IF Len(destFiles) < Len(assets) THEN "threw" ELSE "ok"
  /\ Use({})
  /\ UNCHANGED <<debug, setup, lists, staging, counters, hashers, account>>

\* reset() leaves the gatherer's lists and the length of the checksum lists.
Reset ==
  /\ CanCall /\ (source # Unset \/ destination # Unset)
  /\ source' = Unset /\ destination' = Unset /\ parentPathLength' = 0
  /\ destFiles' = <<>>
  /\ sourceChecksums' = [k \in DOMAIN sourceChecksums |-> 0]
  /\ destChecksums' = [k \in DOMAIN destChecksums |-> 0]
  /\ sourceQueueIndex' = 0 /\ transferred' = 0
  /\ progress' = SetProgress(SetMaximum(progress, 0), 0)
  /\ outcome' = "ok" /\ Repeat(TRUE)
  /\ measured' = FALSE /\ counted' = {} /\ recounted' = FALSE
  /\ UNCHANGED <<debug, fs, lists, hashers>>

Next ==
  \/ \E p \in Sources : Exists(fs, p) /\ SetSource(p)
  \/ \E p \in Destinations : Exists(fs, p) /\ SetDestination(p)
  \/ Stage
  \/ RunCopier
  \/ \E k \in DOMAIN assets \cap DOMAIN destFiles : CopyFile(k)
  \/ SysFileCopy
  \/ Verify
  \/ VerifyThreaded
  \/ CreateCsv
  \/ Reset

Spec == Init /\ [][Next]_vars

-------------------------------------------------------------------------------
(* Properties. *)

TypeOK ==
  /\ IsFileSystem(fs) /\ debug \in BOOLEAN
  /\ parentPathLength \in Nat
  /\ \A k \in DOMAIN directories : IsDirectory(fs, directories[k])
  /\ \A k \in DOMAIN assets : assets[k] \in DOMAIN fs /\ ~IsDirectory(fs, assets[k])
  /\ destFiles \in Seq(Paths)
  /\ sourceChecksums \in Seq(Nat) /\ destChecksums \in Seq(Nat)
  /\ Len(sourceChecksums) = Len(destChecksums)
  /\ sourceQueueIndex \in Nat /\ transferred \in Nat
  /\ progress \in [maximum : Nat, state : Nat]
  /\ outcome \in Outcomes
  /\ measured \in BOOLEAN /\ recounted \in BOOLEAN
  /\ counted \subseteq DOMAIN assets \cap DOMAIN destFiles

Staged == Fresh /\ destFiles # <<>>

\* Where a gathered file belongs: under the name of the tree.
Mirror(p) == destination \o <<Last(source)>> \o SubSeq(p, Len(source) + 1, Len(p))

\* A tree directly below the root is not mirrored: it lands beside the destination,
\* under the two names written as one.
IsMirrored == Len(source) > 1 \/ destination = <<>>

\* Source and destination lists are ordered together, which TODO leaves to be checked:
\* each file of the tree that no link hides has one place of its own in the mirrored
\* tree, and a tree that is not mirrored stays out of the destination.  The tree has no
\* other files, unless it has been copied into itself.
DestinationsMirrorTree ==
  Staged /\ source # <<>> =>
    /\ DOMAIN destFiles = DOMAIN assets /\ IsInjective(destFiles)
    /\ \A k \in DOMAIN assets :
         IF IsMirrored THEN destFiles[k] = Mirror(assets[k])
         ELSE ~IsPrefix(destination, destFiles[k])
    /\ \A p \in DOMAIN fs : fs[p].kind = "file" /\ Below(source, p) =>
         \/ p \in Range(assets) \cup Range(destFiles) \cup {destination \o <<Report>>}
         \/ \E q \in DOMAIN fs : fs[q].kind = "link" /\ Below(q, p)
         \/ "_sys_file_copy" \in copied /\ IsPrefix(destination, source)

\* The copiers find a directory for each file, except in a flat tree: the directory of
\* the tree itself is made only as an ancestor of one below it.  So a copy never ends
\* only in a flat tree, or if it finds or leaves an empty file, or finds a broken link.
FoldersReady ==
  /\ Staged /\ directories # <<>> =>
       \A k \in DOMAIN destFiles : IsDirectory(fs, Parent(destFiles[k]))
  /\ Fresh /\ outcome = "stuck" /\ directories # <<>> =>
       \E k \in DOMAIN assets : /\ fs[assets[k]].size > 0
                               /\ destFiles[k] \in DOMAIN fs
                               /\ fs[destFiles[k]] \in {File(0, 0), Broken}

\* If verification says match, by either member, source and destination of every pair
\* have the same contents, in both builds and also for a TreeSlinger that was used
\* before.  One that was not has the whole tree in the destination under the tree's
\* name.  One that gathered two trees need not: it cuts the paths of both at the length
\* of the second's parent.
MatchMeansMirrored ==
  outcome = "match" =>
    \A k \in DOMAIN assets :
      /\ k \in DOMAIN destFiles /\ Checksum(destFiles[k]) = fs[assets[k]].data
      /\ Fresh /\ source # <<>> /\ IsMirrored =>
           Checksum(Mirror(assets[k])) = fs[assets[k]].data

IsReport(p) == p # <<>> /\ Last(p) = Report

\* No call ever changes or replaces what there was, but for the report and what a dangling
\* link leads to.
NothingOverwritten ==
  [][\A p \in DOMAIN fs :
       \/ p \in DOMAIN fs' /\ fs'[p] = fs[p]
       \/ IsReport(p) /\ fs[p].kind = "file"
       \/ fs[p].kind = "dangling" /\ fs'[p].kind = "file"]_vars

\* When _run_copier returns, all files are there, unless the queue was used before: a
\* call leaves it one past the end, and if it came before _stage() or for another tree,
\* the next call skips a file.
CopierLeavesNoneOut ==
  [][RunCopier /\ Staged /\ sourceQueueIndex = 0 /\ outcome' = "ok" =>
       Range(destFiles) \subseteq DOMAIN fs']_vars

\* After any calls but _run_copier, is_complete() says that every file with any bytes has
\* a copy of its size, but for the ways in which it is early: a file was given to
\* _copy_file twice, or a build without _DEBUG has kept an old file that is longer than
\* the source, and the bytes of both count again for others.  That the progress has a
\* maximum is not enough: set_source may throw after the lists have grown.  And no report
\* was gathered, for that may be written again.
CompleteMeansCopied ==
  /\ measured /\ "_run_copier" \notin copied /\ ProgressComplete(progress)
  /\ \A p \in Range(assets) \cup Range(destFiles) : ~IsReport(p)
  => \/ recounted
     \/ ~debug /\ \E k \in counted : fs[destFiles[k]].size > fs[assets[k]].size
     \/ \A k \in DOMAIN assets : fs[assets[k]].size > 0 =>
          /\ k \in DOMAIN destFiles /\ destFiles[k] \in DOMAIN fs
          /\ fs[destFiles[k]].kind = "file"
          /\ fs[destFiles[k]].size = fs[assets[k]].size
===============================================================================
