------------------------------ MODULE TreeSlinger ------------------------------
(***************************************************************************)
(* class TreeSlinger with its threads, on a tree that has been staged:     *)
(* copier threads (_run_copier) that share one queue of files, and         *)
(* verify_threaded, whose hasher threads share the same queue for the      *)
(* source files and a second one for the destination files.                *)
(*                                                                         *)
(* The main thread does what main() does: it starts the copiers and joins  *)
(* them, calls verify_threaded, and ends.  main() runs its only copier     *)
(* itself, which is NumCopiers = 1 here; its threads are commented out.    *)
(*                                                                         *)
(* What a copier does to one file is the copy of CopySpec, in two steps:   *)
(* a file that is absent is created and later whole, one that exists is    *)
(* kept.  A thread that throws ends the program (std::terminate).          *)
(***************************************************************************)
EXTENDS Integers, FiniteSetsExt, Functions

CONSTANTS
  NumFiles,      \* _gatherer.num_files()
  SourceSize,    \* [0 .. NumFiles-1 -> Nat]: the sizes of the source files
  OldFiles,      \* what may be at a destination path beforehand
  NumCopiers,    \* threads that run _run_copier
  NumThreads,    \* the parameter of verify_threaded
  MayThrow,      \* whether a copier or a hasher may throw
  Debug          \* TRUE in a build that defines _DEBUG

Index == 0 .. NumFiles - 1

Contents == {"absent", "partial", "old", "whole"}

FileRecord == [content : Contents, size : Nat]

Absent == [content |-> "absent", size |-> 0]

\* An empty file that exists is left out: its copy never ends (CopyJob).
ASSUME TreeSlingerAssumption ==
  /\ NumFiles \in Nat
  /\ SourceSize \in [Index -> Nat]
  /\ OldFiles \subseteq FileRecord
  /\ \A old \in OldFiles : old = Absent \/ (old.content = "old" /\ old.size > 0)
  /\ NumCopiers \in Nat \ {0}
  /\ NumThreads \in Nat \ {0}
  /\ MayThrow \in BOOLEAN
  /\ Debug \in BOOLEAN

Copiers       == {"copier"} \X (0 .. NumCopiers - 1)
SourceHashers == {"sourceHasher"} \X (0 .. NumThreads - 1)
DestHashers   == {"destHasher"} \X (0 .. NumThreads - 1)
Threads       == Copiers \cup SourceHashers \cup DestHashers

VARIABLES
  dest,              \* the destination files
  sourceQueueIndex, destQueueIndex,
  sourceChecksums, destChecksums,   \* what was hashed, "" before
  progress,          \* _progress._absoluteState
  thread,            \* each thread: its next step and the local "index"
  pc, i,             \* the main thread: its next step and its loop counter
  verdict,           \* the result of verify_threaded
  copies             \* history: how often execute() returned for a file

queues  == <<sourceQueueIndex, destQueueIndex>>
sums    == <<sourceChecksums, destChecksums>>
main    == <<pc, i, verdict>>
vars    == <<dest, queues, sums, progress, thread, main, copies>>

Checksums == Contents \cup {""}

\* A thread's steps; a copier goes "claim", "open", "execute", "account", a hasher
\* "claim", "hash".
ThreadSteps == {"unborn", "claim", "open", "execute", "account", "hash", "ended"}

TypeOK ==
  /\ dest \in [Index -> FileRecord]
  /\ sourceQueueIndex \in Nat /\ destQueueIndex \in Nat
  /\ sourceChecksums \in [Index -> Checksums]
  /\ destChecksums \in [Index -> Checksums]
  /\ progress \in Nat
  /\ thread \in [Threads -> [step : ThreadSteps, index : Nat]]
  /\ \A t \in Threads :
       thread[t].step \in {"open", "execute", "account", "hash"} =>
         thread[t].index \in Index
  /\ pc \in {"spawn", "join", "verify", "spawnHashers", "joinHashers", "compare",
             "done", "aborted"}
  /\ i \in Nat
  /\ verdict \in {"none", "match", "mismatch"}
  /\ copies \in [Index -> Nat]

Init ==
  /\ dest \in [Index -> OldFiles]
  /\ sourceQueueIndex = 0 /\ destQueueIndex = 0
  /\ sourceChecksums = [k \in Index |-> ""]
  /\ destChecksums = [k \in Index |-> ""]
  /\ progress = 0
  /\ thread = [t \in Threads |-> [step |-> "unborn", index |-> 0]]
  /\ pc = "spawn" /\ i = 0 /\ verdict = "none"
  /\ copies = [k \in Index |-> 0]

-------------------------------------------------------------------------------
(* Steps of a worker thread. *)

Running == pc # "aborted"

GoTo(t, step) == thread' = [thread EXCEPT ![t].step = step]

\* Mutant: "++index" instead of "index++".
TakePreIncremented(t, queueIndex, work) ==
  thread' = [thread EXCEPT ![t] =
    [step |-> IF queueIndex + 1 < NumFiles THEN work ELSE "ended",
     index |-> queueIndex + 1]]

\* Mutant: the loop goes on at index = totalNumFiles.
TakeTooFar(t, queueIndex, work) ==
  thread' = [thread EXCEPT ![t] =
    [step |-> IF queueIndex <= NumFiles THEN work ELSE "ended", index |-> queueIndex]]

\* _get_next_source_index(), _get_next_dest_index() and the loop test after them.
Take(t, queueIndex, work) ==
  thread' = [thread EXCEPT ![t] =
    [step |-> IF queueIndex < NumFiles THEN work ELSE "ended", index |-> queueIndex]]

Work(t) == IF t \in Copiers THEN "open" ELSE "hash"

ClaimSource(t) ==
  /\ Running /\ thread[t].step = "claim"
  /\ Take(t, sourceQueueIndex, Work(t))
  /\ sourceQueueIndex' = sourceQueueIndex + 1
  /\ UNCHANGED <<dest, destQueueIndex, sums, progress, main, copies>>

\* Mutant: the index is returned without being incremented.
ClaimDestAgain(t) ==
  /\ Running /\ thread[t].step = "claim"
  /\ Take(t, destQueueIndex, Work(t))
  /\ UNCHANGED <<dest, queues, sums, progress, main, copies>>

ClaimDest(t) ==
  /\ Running /\ thread[t].step = "claim"
  /\ Take(t, destQueueIndex, Work(t))
  /\ destQueueIndex' = destQueueIndex + 1
  /\ UNCHANGED <<dest, sourceQueueIndex, sums, progress, main, copies>>

\* reset(), open_source(), open_dest().
OpenFiles(c) ==
  LET k == thread[c].index IN
  /\ Running /\ thread[c].step = "open"
  /\ dest' = IF dest[k] = Absent
             THEN [dest EXCEPT ![k] = [content |-> "partial", size |-> 0]]
             ELSE dest
  /\ GoTo(c, "execute")
  /\ UNCHANGED <<queues, sums, progress, main, copies>>

\* execute(): the file that open_dest created is whole, or the old file is kept.
Execute(c) ==
  LET k == thread[c].index IN
  /\ Running /\ thread[c].step = "execute"
  /\ dest' = IF dest[k].content = "partial"
             THEN [dest EXCEPT ![k] = [content |-> "whole", size |-> SourceSize[k]]]
             ELSE dest
  /\ Debug => dest'[k].size = SourceSize[k]
  /\ copies' = [copies EXCEPT ![k] = @ + 1]
  /\ GoTo(c, "account")
  /\ UNCHANGED <<queues, sums, progress, main>>

\* _increment_progress(bytesCopied): execute() returns the destination's size.
Account(c) ==
  /\ Running /\ thread[c].step = "account"
  /\ progress' = progress + dest[thread[c].index].size
  /\ GoTo(c, "claim")
  /\ UNCHANGED <<dest, queues, sums, main, copies>>

HashSource(h) ==
  /\ Running /\ thread[h].step = "hash"
  /\ sourceChecksums' = [sourceChecksums EXCEPT ![thread[h].index] = "whole"]
  /\ GoTo(h, "claim")
  /\ UNCHANGED <<dest, queues, destChecksums, progress, main, copies>>

HashDest(h) ==
  LET k == thread[h].index IN
  /\ Running /\ thread[h].step = "hash"
  /\ dest[k] # Absent
  /\ destChecksums' = [destChecksums EXCEPT ![k] = dest[k].content]
  /\ GoTo(h, "claim")
  /\ UNCHANGED <<dest, queues, sourceChecksums, progress, main, copies>>

\* FILESIZE_MISMATCH of a debug build, or any other exception of a copier; a file
\* that a hasher cannot open.
MustThrow(t) ==
  \/ thread[t].step = "execute" /\ Debug
     /\ dest[thread[t].index].content = "old"
     /\ dest[thread[t].index].size # SourceSize[thread[t].index]
  \/ t \in DestHashers /\ thread[t].step = "hash" /\ dest[thread[t].index] = Absent

Throw(t) ==
  /\ Running
  /\ thread[t].step \in {"open", "execute", "hash"}
  /\ MayThrow \/ MustThrow(t)
  /\ pc' = "aborted"
  /\ UNCHANGED <<dest, queues, sums, progress, thread, i, verdict, copies>>

\* Mutant: the last file is not counted.
TotalSizeButLast == SumFunctionOnSet(SourceSize, Index \ {NumFiles - 1})

\* _get_total_size()
TotalSize == SumFunctionOnSet(SourceSize, Index)

\* is_complete(): the quotient is NaN when there is nothing to copy.
IsComplete == TotalSize > 0 /\ progress >= TotalSize

-------------------------------------------------------------------------------
(* Steps of the main thread. *)

Start(ts) == thread' = [t \in Threads |->
  IF t \in ts THEN [thread[t] EXCEPT !.step = "claim"] ELSE thread[t]]

\* The loop counter of a loop of n rounds that is followed by "next".
Round(at, n, next) ==
  /\ pc = at
  /\ IF i + 1 < n THEN i' = i + 1 /\ pc' = at ELSE i' = 0 /\ pc' = next
  /\ UNCHANGED verdict

\* _spawn_thread
SpawnCopier ==
  /\ Round("spawn", NumCopiers, "join")
  /\ Start({<<"copier", i>>})
  /\ UNCHANGED <<dest, queues, sums, progress, copies>>

\* Mutant: the copier threads are not waited for.
SkipJoin ==
  /\ Round("join", NumCopiers, "verify")
  /\ UNCHANGED <<dest, queues, sums, progress, thread, copies>>

JoinCopier ==
  /\ Round("join", NumCopiers, "verify")
  /\ thread[<<"copier", i>>].step = "ended"
  /\ UNCHANGED <<dest, queues, sums, progress, thread, copies>>

\* verify_threaded()
StartVerifying ==
  /\ pc = "verify" /\ pc' = "spawnHashers"
  /\ sourceQueueIndex' = 0 /\ destQueueIndex' = 0
  /\ UNCHANGED <<dest, sums, progress, thread, i, verdict, copies>>

SpawnHashers ==
  /\ Round("spawnHashers", NumThreads, "joinHashers")
  /\ Start({<<"sourceHasher", i>>, <<"destHasher", i>>})
  /\ UNCHANGED <<dest, queues, sums, progress, copies>>

\* Mutant: only the source hashers are waited for.
JoinSourceHasher ==
  /\ Round("joinHashers", NumThreads, "compare")
  /\ thread[<<"sourceHasher", i>>].step = "ended"
  /\ UNCHANGED <<dest, queues, sums, progress, thread, copies>>

JoinHashers ==
  /\ Round("joinHashers", NumThreads, "compare")
  /\ thread[<<"sourceHasher", i>>].step = "ended"
  /\ thread[<<"destHasher", i>>].step = "ended"
  /\ UNCHANGED <<dest, queues, sums, progress, thread, copies>>

\* A debug build throws where another one returns false.
Compare ==
  /\ pc = "compare"
  /\ verdict' = IF sourceChecksums = destChecksums THEN "match" ELSE "mismatch"
  /\ pc' = IF Debug /\ verdict' = "mismatch" THEN "aborted" ELSE "done"
  /\ UNCHANGED <<dest, queues, sums, progress, thread, i, copies>>

MainStep ==
  \/ SpawnCopier \/ JoinCopier
  \/ StartVerifying \/ SpawnHashers \/ JoinHashers \/ Compare

ThreadStep(t) ==
  \/ t \in Copiers /\ (ClaimSource(t) \/ OpenFiles(t) \/ Execute(t) \/ Account(t))
  \/ t \in SourceHashers /\ (ClaimSource(t) \/ HashSource(t))
  \/ t \in DestHashers /\ (ClaimDest(t) \/ HashDest(t))
  \/ Throw(t)

Next == MainStep \/ \E t \in Threads : ThreadStep(t)

Spec == Init /\ [][Next]_vars

\* Threads are scheduled; none of them waits for a lock for ever, as the locks are
\* held for an increment only.
FairSpec == Spec /\ WF_vars(MainStep) /\ \A t \in Threads : WF_vars(ThreadStep(t))

-------------------------------------------------------------------------------
(* Properties. *)

Working(t) == thread[t].step \in {"open", "execute", "account", "hash"}

\* No two threads of a kind ever work on the same file: the copiers would write one
\* destination through two streams, the hashers assign one std::string of a checksum
\* vector at the same time.
NoSharedElement ==
  \A group \in {Copiers, SourceHashers, DestHashers} :
    \A t, u \in group :
      t # u /\ Working(t) /\ Working(u) => thread[t].index # thread[u].index

\* Every file is copied by one copier, once: none is left out and none is done again,
\* also when verify_threaded uses the copiers' queue anew.
CopiedExactlyOnce ==
  /\ \A k \in Index : copies[k] <= 1
  /\ pc \notin {"spawn", "join", "aborted"} => \A k \in Index : copies[k] = 1

\* A destination file is hashed only when its copy is finished.
HashedWhenFinished ==
  \A k \in Index :
    destChecksums[k] # "" => copies[k] = 1 /\ destChecksums[k] # "partial"

\* verify_threaded compares what the hashers of this call have all written, and so
\* finds a match exactly when every destination file is the source file.
VerdictRight ==
  verdict # "none" =>
    (verdict = "match" <=> \A k \in Index : dest[k].content = "whole")

\* is_complete() (which reads _progress without the lock) is never true before every
\* file that has any bytes is copied and, in a debug build, becomes true when they
\* all are; empty files may still be missing.
Counted(k) ==
  copies[k] > 0 /\ \A c \in Copiers : thread[c].step = "account" => thread[c].index # k

CompleteMeansCopied ==
  Debug => (IsComplete <=>
    TotalSize > 0 /\ \A k \in Index : SourceSize[k] > 0 => Counted(k))

\* Every thread runs out of files, so that the main thread's joins return: the
\* program ends, whatever is at the destination.
Terminates == <>(pc \in {"done", "aborted"})

-------------------------------------------------------------------------------
(* The inductive invariant behind them. *)

Copying == pc \in {"spawn", "join"}
Hashing == pc \in {"spawnHashers", "joinHashers", "compare", "done"}

\* The main thread's loops over the threads of some kinds: the spawning loop has
\* started those below i, the joining loop has seen those below i end.
Spawned(kinds, n) ==
  i < n /\ \A kind \in kinds, m \in 0 .. n - 1 :
             thread[<<kind, m>>].step = "unborn" <=> m >= i

Joined(kinds, n) ==
  i < n /\ \A kind \in kinds, m \in 0 .. n - 1 :
             /\ thread[<<kind, m>>].step # "unborn"
             /\ m < i => thread[<<kind, m>>].step = "ended"

CopierLoops ==
  /\ \A c \in Copiers : thread[c].step # "hash"
  /\ pc = "spawn" => Spawned({"copier"}, NumCopiers)
  /\ pc = "join" => Joined({"copier"}, NumCopiers)
  /\ pc # "aborted" /\ ~Copying => \A c \in Copiers : thread[c].step = "ended"

HasherLoops ==
  /\ \A h \in SourceHashers \cup DestHashers :
       thread[h].step \in {"unborn", "claim", "hash", "ended"}
  /\ Copying \/ pc = "verify" =>
       \A h \in SourceHashers \cup DestHashers : thread[h].step = "unborn"
  /\ pc = "verify" => i = 0
  /\ pc = "spawnHashers" => Spawned({"sourceHasher", "destHasher"}, NumThreads)
  /\ pc = "joinHashers" => Joined({"sourceHasher", "destHasher"}, NumThreads)
  /\ pc \in {"compare", "done"} =>
       \A h \in SourceHashers \cup DestHashers : thread[h].step = "ended"

\* What the threads of a group know of the queue they share: the indices below
\* queueIndex are given out, each to one thread, and no thread ends before all are.
SharesQueue(group, queueIndex) ==
  /\ \A t \in group : Working(t) => thread[t].index < queueIndex
  /\ \A t \in group : thread[t].step = "ended" => queueIndex >= NumFiles

\* A file before its copy, when its copy is under way, and after it.
CopiesInOrder ==
  /\ \A k \in Index : copies[k] \in {0, 1}
  /\ \A c \in Copiers :
       /\ thread[c].step = "open" =>
            LET old == dest[thread[c].index] IN old = Absent \/ old.content = "old"
       /\ thread[c].step = "execute" => dest[thread[c].index].content \in {"partial", "old"}
       /\ thread[c].step \in {"open", "execute"} => copies[thread[c].index] = 0
  /\ \A k \in Index :
       copies[k] = 1 => dest[k].content \in {"old", "whole"}

\* Every index given out by the copiers' queue is copied or in a copier's hands.
NoneLeftOut ==
  /\ Copying => \A k \in Index :
       /\ k >= sourceQueueIndex => copies[k] = 0
                                   /\ (dest[k] = Absent \/ dest[k].content = "old")
       /\ k < sourceQueueIndex /\ copies[k] = 0 =>
            \E c \in Copiers : thread[c].step \in {"open", "execute"} /\ thread[c].index = k

\* And every index given out by the hashers' queues is hashed or in a hasher's hands.
HashesAgree ==
  /\ \A k \in Index : destChecksums[k] # "" =>
       copies[k] = 1 /\ destChecksums[k] = dest[k].content
  /\ Hashing => \A k \in Index :
       /\ k < sourceQueueIndex =>
            \/ sourceChecksums[k] = "whole"
            \/ \E h \in SourceHashers : thread[h].step = "hash" /\ thread[h].index = k
       /\ k < destQueueIndex =>
            \/ destChecksums[k] = dest[k].content
            \/ \E h \in DestHashers : thread[h].step = "hash" /\ thread[h].index = k

SlingerInv ==
  /\ TypeOK
  /\ CopierLoops /\ HasherLoops
  /\ NoSharedElement
  /\ Copying => SharesQueue(Copiers, sourceQueueIndex)
  /\ Hashing => SharesQueue(SourceHashers, sourceQueueIndex)
                /\ SharesQueue(DestHashers, destQueueIndex)
  /\ CopiesInOrder /\ NoneLeftOut /\ HashesAgree
  /\ CopiedExactlyOnce
  /\ pc \notin {"done", "aborted"} => verdict = "none"
  /\ VerdictRight

-------------------------------------------------------------------------------
(* The invariant behind CompleteMeansCopied. *)

CountedFiles == {k \in Index : Counted(k)}

\* What a copier is about to count is the size of a copied file, and the progress is
\* the sum of what has been counted.
ProgressInv ==
  /\ \A c \in Copiers : thread[c].step = "account" =>
       LET k == thread[c].index IN
       copies[k] = 1 /\ (Debug => dest[k].size = SourceSize[k])
  /\ Debug => progress = SumFunctionOnSet(SourceSize, CountedFiles)
===============================================================================
