-------------------------- MODULE TreeSlingerProofs --------------------------
(***************************************************************************)
(* Proofs about TreeSlinger, for every number of files, of copier threads  *)
(* and of hasher threads, in both builds, with threads that may throw.     *)
(***************************************************************************)
EXTENDS TreeSlinger, FoldProofs, TLAPS

-------------------------------------------------------------------------------
(* The threads. *)

LEMMA Numbers ==
  /\ NumFiles \in Nat /\ SourceSize \in [Index -> Nat]
  /\ NumCopiers \in Nat /\ NumCopiers > 0 /\ NumThreads \in Nat /\ NumThreads > 0
  /\ \A k \in Index : k \in Nat /\ k < NumFiles
  /\ \A k \in Nat : k < NumFiles => k \in Index
BY TreeSlingerAssumption DEF Index

\* Each thread belongs to one group, and has its number there.
LEMMA Groups ==
  /\ Copiers \subseteq Threads /\ SourceHashers \subseteq Threads
  /\ DestHashers \subseteq Threads
  /\ \A t \in Threads : t \in Copiers \/ t \in SourceHashers \/ t \in DestHashers
  /\ \A t \in Copiers : t \notin SourceHashers /\ t \notin DestHashers
  /\ \A t \in SourceHashers : t \notin DestHashers
BY DEF Threads, Copiers, SourceHashers, DestHashers

LEMMA CopierNumbers ==
  /\ \A c \in Copiers : \E n \in 0 .. NumCopiers - 1 : c = <<"copier", n>>
  /\ \A n \in 0 .. NumCopiers - 1 : <<"copier", n>> \in Copiers
  /\ <<"copier", 0>> \in Copiers
BY Numbers DEF Copiers

LEMMA HasherNumbers ==
  /\ \A h \in SourceHashers : \E n \in 0 .. NumThreads - 1 : h = <<"sourceHasher", n>>
  /\ \A h \in DestHashers : \E n \in 0 .. NumThreads - 1 : h = <<"destHasher", n>>
  /\ \A n \in 0 .. NumThreads - 1 :
       <<"sourceHasher", n>> \in SourceHashers /\ <<"destHasher", n>> \in DestHashers
  /\ <<"sourceHasher", 0>> \in SourceHashers /\ <<"destHasher", 0>> \in DestHashers
BY Numbers DEF SourceHashers, DestHashers

ThreadRecord == [step : ThreadSteps, index : Nat]

\* The steps of one thread leave the others alone.
LEMMA GoToFacts ==
  ASSUME thread \in [Threads -> ThreadRecord], NEW t \in Threads,
         NEW s \in ThreadSteps, GoTo(t, s)
  PROVE  /\ thread' \in [Threads -> ThreadRecord]
         /\ thread'[t].step = s /\ thread'[t].index = thread[t].index
         /\ \A u \in Threads : u # t => thread'[u] = thread[u]
<1> DEFINE moved == [thread[t] EXCEPT !.step = s]
<1>1. /\ moved \in ThreadRecord /\ moved.step = s /\ moved.index = thread[t].index
  BY DEF ThreadRecord
<1>2. thread' = [thread EXCEPT ![t] = moved]
  BY DEF GoTo
<1> HIDE DEF moved
<1> QED
  BY <1>1, <1>2

LEMMA TakeFacts ==
  ASSUME thread \in [Threads -> ThreadRecord], NEW t \in Threads,
         NEW q \in Nat, NEW work \in ThreadSteps, Take(t, q, work)
  PROVE  /\ thread' \in [Threads -> ThreadRecord]
         /\ thread'[t].step = IF q < NumFiles THEN work ELSE "ended"
         /\ thread'[t].index = q
         /\ \A u \in Threads : u # t => thread'[u] = thread[u]
<1> DEFINE step == IF q < NumFiles THEN work ELSE "ended"
           moved == [step |-> step, index |-> q]
<1>1. step \in ThreadSteps
  BY DEF ThreadSteps
<1> HIDE DEF step
<1>2. moved \in ThreadRecord /\ moved.step = step /\ moved.index = q
  BY <1>1 DEF ThreadRecord
<1>3. thread' = [thread EXCEPT ![t] = moved]
  BY DEF Take, step
<1> HIDE DEF moved
<1> QED
  BY <1>2, <1>3 DEF step

LEMMA StartFacts ==
  ASSUME thread \in [Threads -> ThreadRecord], NEW ts, Start(ts)
  PROVE  /\ thread' \in [Threads -> ThreadRecord]
         /\ \A t \in Threads : /\ t \in ts => thread'[t].step = "claim"
                               /\ t \notin ts => thread'[t] = thread[t]
<1>1. \A t \in Threads :
        LET started == [thread[t] EXCEPT !.step = "claim"]
        IN  started \in ThreadRecord /\ started.step = "claim"
  BY DEF ThreadRecord, ThreadSteps
<1>2. \A t \in Threads :
        thread'[t] = IF t \in ts THEN [thread[t] EXCEPT !.step = "claim"] ELSE thread[t]
  BY DEF Start
<1>3. thread' = [t \in Threads |-> thread'[t]]
  BY DEF Start
<1> QED
  BY <1>1, <1>2, <1>3

-------------------------------------------------------------------------------
(* The queues. *)

Distinct(group) ==
  \A t, u \in group :
    t # u /\ Working(t) /\ Working(u) => thread[t].index # thread[u].index

LEMMA SharedElements ==
  NoSharedElement <=> Distinct(Copiers) /\ Distinct(SourceHashers) /\ Distinct(DestHashers)
BY DEF NoSharedElement, Distinct

\* A claim gives out an index that no thread of the group has.
LEMMA ClaimShares ==
  ASSUME thread \in [Threads -> ThreadRecord], NEW group \in SUBSET Threads,
         NEW t \in group, NEW q \in Nat, NEW work \in ThreadSteps,
         work # "ended", Take(t, q, work), SharesQueue(group, q)
  PROVE  /\ Distinct(group) => Distinct(group)'
         /\ \A u \in group : Working(u)' => thread'[u].index < q + 1
         /\ \A u \in group : thread'[u].step = "ended" => q + 1 >= NumFiles
<1>1. /\ thread'[t].step = IF q < NumFiles THEN work ELSE "ended"
      /\ thread'[t].index = q
      /\ \A u \in group : u # t => thread'[u] = thread[u]
      /\ \A u \in group : thread[u].index \in Nat
  BY TakeFacts DEF ThreadRecord
<1>2. /\ \A u \in group : Working(u) => thread[u].index < q
      /\ \A u \in group : thread[u].step = "ended" => q >= NumFiles
  BY DEF SharesQueue
<1>3. \A u \in group : u # t => (Working(u)' <=> Working(u))
  BY <1>1 DEF Working
<1>4. Distinct(group) => Distinct(group)'
  BY <1>1, <1>2, <1>3 DEF Distinct
<1>5. \A u \in group : Working(u)' => thread'[u].index < q + 1
  BY <1>1, <1>2, <1>3
<1>6. \A u \in group : thread'[u].step = "ended" => q + 1 >= NumFiles
  BY <1>1, <1>2, Numbers
<1> QED
  BY <1>4, <1>5, <1>6

\* A thread that goes on with its index, or is done with it, changes nothing of this.
LEMMA WorkShares ==
  ASSUME NEW t \in Threads, Working(t), NEW group \in SUBSET Threads, NEW q \in Nat,
         thread'[t].index = thread[t].index, thread'[t].step # "ended",
         \A u \in Threads : u # t => thread'[u] = thread[u]
  PROVE  /\ Distinct(group) => Distinct(group)'
         /\ SharesQueue(group, q) =>
              /\ \A u \in group : Working(u)' => thread'[u].index < q
              /\ \A u \in group : thread'[u].step = "ended" => q >= NumFiles
<1>1. \A u \in group : /\ Working(u)' => Working(u)
                       /\ thread'[u].index = thread[u].index
                       /\ thread'[u].step = "ended" => thread[u].step = "ended"
  BY DEF Working
<1> QED
  BY <1>1 DEF Distinct, SharesQueue

\* Nor does the step of a thread of another group.
LEMMA OtherGroupShares ==
  ASSUME NEW t \in Threads, NEW group \in SUBSET Threads, t \notin group, NEW q \in Nat,
         \A u \in Threads : u # t => thread'[u] = thread[u]
  PROVE  /\ Distinct(group) => Distinct(group)'
         /\ SharesQueue(group, q) =>
              /\ \A u \in group : Working(u)' => thread'[u].index < q
              /\ \A u \in group : thread'[u].step = "ended" => q >= NumFiles
BY DEF Distinct, SharesQueue, Working

-------------------------------------------------------------------------------
(* The main thread's loops. *)

\* A thread that takes a step runs in its phase.
LEMMA Phase ==
  ASSUME SlingerInv, Running, NEW t \in Threads, thread[t].step \notin {"unborn", "ended"}
  PROVE  /\ t \in Copiers => Copying
         /\ t \in SourceHashers \/ t \in DestHashers => Hashing
BY DEF SlingerInv, TypeOK, CopierLoops, HasherLoops, Running, Copying, Hashing

\* A started thread's step leaves the loops as they are.
LEMMA LoopsKept ==
  ASSUME SlingerInv, Running, UNCHANGED main,
         NEW t \in Threads, thread[t].step \notin {"unborn", "ended"},
         thread'[t].step # "unborn",
         t \in Copiers => thread'[t].step # "hash",
         t \notin Copiers => thread'[t].step \in {"claim", "hash", "ended"},
         \A u \in Threads : u # t => thread'[u] = thread[u]
  PROVE  CopierLoops' /\ HasherLoops'
<1>1. UNCHANGED <<pc, i>>
  BY DEF main
<1>2. /\ t \in Copiers => Copying
      /\ t \in SourceHashers \/ t \in DestHashers => Hashing
  BY Phase
<1>3. \A u \in Threads : /\ thread'[u].step = "unborn" <=> thread[u].step = "unborn"
                         /\ thread[u].step = "ended" => thread'[u].step = "ended"
  OBVIOUS
<1>4. CopierLoops'
  <2>1. \A c \in Copiers : thread'[c].step # "hash"
    BY Groups DEF SlingerInv, CopierLoops
  <2>2. pc = "spawn" => Spawned({"copier"}, NumCopiers)'
    BY <1>1, <1>3, CopierNumbers, Groups DEF SlingerInv, CopierLoops, Spawned
  <2>3. pc = "join" => Joined({"copier"}, NumCopiers)'
    BY <1>1, <1>3, CopierNumbers, Groups DEF SlingerInv, CopierLoops, Joined
  <2>4. pc # "aborted" /\ ~Copying => \A c \in Copiers : thread'[c].step = "ended"
    BY <1>3, Groups DEF SlingerInv, CopierLoops
  <2> QED
    BY <1>1, <2>1, <2>2, <2>3, <2>4 DEF CopierLoops, Copying
<1>5. HasherLoops'
  <2>1. \A h \in SourceHashers \cup DestHashers :
          thread'[h].step \in {"unborn", "claim", "hash", "ended"}
    BY Groups DEF SlingerInv, HasherLoops
  <2>2. Copying \/ pc = "verify" =>
          \A h \in SourceHashers \cup DestHashers : thread'[h].step = "unborn"
    BY <1>3, Groups DEF SlingerInv, HasherLoops
  <2>3. pc = "spawnHashers" => Spawned({"sourceHasher", "destHasher"}, NumThreads)'
    <3>1. pc = "spawnHashers" => Spawned({"sourceHasher", "destHasher"}, NumThreads)
      BY DEF SlingerInv, HasherLoops
    <3>2. \A kind \in {"sourceHasher", "destHasher"}, m \in 0 .. NumThreads - 1 :
            <<kind, m>> \in Threads
      BY HasherNumbers, Groups
    <3> QED
      BY <1>1, <1>3, <3>1, <3>2 DEF Spawned
  <2>4. pc = "joinHashers" => Joined({"sourceHasher", "destHasher"}, NumThreads)'
    <3>1. pc = "joinHashers" => Joined({"sourceHasher", "destHasher"}, NumThreads)
      BY DEF SlingerInv, HasherLoops
    <3>2. \A kind \in {"sourceHasher", "destHasher"}, m \in 0 .. NumThreads - 1 :
            <<kind, m>> \in Threads
      BY HasherNumbers, Groups
    <3> QED
      BY <1>1, <1>3, <3>1, <3>2 DEF Joined
  <2>5. pc \in {"compare", "done"} =>
          \A h \in SourceHashers \cup DestHashers : thread'[h].step = "ended"
    BY <1>3, Groups DEF SlingerInv, HasherLoops
  <2> QED
    BY <1>1, <2>1, <2>2, <2>3, <2>4, <2>5 DEF SlingerInv, HasherLoops, Copying
<1> QED
  BY <1>4, <1>5

-------------------------------------------------------------------------------
(* The steps of a worker thread. *)

LEMMA Types ==
  ASSUME TypeOK
  PROVE  /\ thread \in [Threads -> ThreadRecord]
         /\ \A t \in Threads : thread[t].step \in ThreadSteps /\ thread[t].index \in Nat
         /\ \A t \in Threads : Working(t) => thread[t].index \in Index
         /\ dest \in [Index -> FileRecord]
         /\ copies \in [Index -> Nat]
         /\ sourceQueueIndex \in Nat /\ destQueueIndex \in Nat /\ progress \in Nat
         /\ sourceChecksums \in [Index -> Checksums]
         /\ destChecksums \in [Index -> Checksums]
BY DEF TypeOK, ThreadRecord, Working

\* What is left to show of a worker thread's step; there is no verdict yet.
LEMMA WorkerStep ==
  ASSUME SlingerInv, Running, UNCHANGED main,
         NEW t \in Threads, thread[t].step \notin {"unborn", "ended"},
         TypeOK', CopierLoops', HasherLoops',
         Distinct(Copiers)', Distinct(SourceHashers)', Distinct(DestHashers)',
         Copying => SharesQueue(Copiers, sourceQueueIndex)',
         Hashing => SharesQueue(SourceHashers, sourceQueueIndex)'
                    /\ SharesQueue(DestHashers, destQueueIndex)',
         CopiesInOrder', NoneLeftOut', HashesAgree',
         Copying \/ UNCHANGED copies
  PROVE  SlingerInv'
<1>1. pc' = pc /\ verdict' = verdict
  BY DEF main
<1>2. Copying' <=> Copying
  BY <1>1 DEF Copying
<1>3. Hashing' <=> Hashing
  BY <1>1 DEF Hashing
<1>4. verdict = "none"
  <2>1. pc \notin {"done", "aborted"}
    BY Groups DEF SlingerInv, CopierLoops, HasherLoops, Running, Copying
  <2> QED
    BY <2>1 DEF SlingerInv
<1>5. NoSharedElement'
  BY DEF NoSharedElement, Distinct
<1>6. CopiedExactlyOnce'
  <2>1. \A k \in Index : copies'[k] <= 1
    BY DEF CopiesInOrder
  <2>2. pc \notin {"spawn", "join", "aborted"} => \A k \in Index : copies'[k] = 1
    BY DEF SlingerInv, CopiedExactlyOnce, Copying
  <2> QED
    BY <1>1, <2>1, <2>2 DEF CopiedExactlyOnce
<1>7. VerdictRight'
  BY <1>1, <1>4 DEF VerdictRight
<1> QED
  BY <1>1, <1>2, <1>3, <1>4, <1>5, <1>6, <1>7 DEF SlingerInv

\* The files that the threads of a group are hashing.
InHand(group, k) == \E h \in group : thread[h].step = "hash" /\ thread[h].index = k

LEMMA Hashed ==
  ASSUME SlingerInv, Hashing
  PROVE  \A k \in Index :
           /\ k < sourceQueueIndex => sourceChecksums[k] = "whole" \/ InHand(SourceHashers, k)
           /\ k < destQueueIndex => destChecksums[k] = dest[k].content \/ InHand(DestHashers, k)
BY DEF SlingerInv, HashesAgree, InHand

LEMMA HandsKept ==
  ASSUME NEW t \in Threads, NEW group \in SUBSET Threads, NEW k,
         t \notin group \/ thread[t].step # "hash" \/ thread[t].index # k,
         \A u \in Threads : u # t => thread'[u] = thread[u],
         InHand(group, k)
  PROVE  InHand(group, k)'
<1>1. PICK h \in group : thread[h].step = "hash" /\ thread[h].index = k
  BY DEF InHand
<1>2. thread'[h] = thread[h]
  BY <1>1
<1> QED
  BY <1>1, <1>2 DEF InHand

LEMMA ClaimSourceInv ==
  ASSUME SlingerInv, NEW t \in Copiers \cup SourceHashers, ClaimSource(t)
  PROVE  SlingerInv'
<1>1. /\ TypeOK /\ t \in Threads /\ Running /\ thread[t].step = "claim"
      /\ Take(t, sourceQueueIndex, Work(t))
      /\ sourceQueueIndex' = sourceQueueIndex + 1
      /\ UNCHANGED <<dest, destQueueIndex, sourceChecksums, destChecksums, progress,
                     pc, i, verdict, copies>>
      /\ UNCHANGED main
  BY Groups DEF SlingerInv, ClaimSource, sums, main
<1>2. /\ t \in Copiers => Work(t) = "open" /\ Copying
      /\ t \in SourceHashers => Work(t) = "hash" /\ Hashing
      /\ Work(t) \in {"open", "hash"}
  BY <1>1, Phase, Groups DEF Work
<1>3. /\ thread' \in [Threads -> ThreadRecord]
      /\ thread'[t].step = IF sourceQueueIndex < NumFiles THEN Work(t) ELSE "ended"
      /\ thread'[t].index = sourceQueueIndex
      /\ \A u \in Threads : u # t => thread'[u] = thread[u]
  <2>1. Work(t) \in ThreadSteps
    BY <1>2 DEF ThreadSteps
  <2> QED
    BY <1>1, <2>1, Types, TakeFacts
<1>4. TypeOK'
  <2>1. sourceQueueIndex' \in Nat
    BY <1>1, Types
  <2>2. \A u \in Threads :
          thread'[u].step \in {"open", "execute", "account", "hash"} => thread'[u].index \in Index
    BY <1>1, <1>2, <1>3, Types, Numbers DEF Working
  <2> QED
    BY <1>1, <1>3, <2>1, <2>2 DEF TypeOK, ThreadRecord
<1>5. CopierLoops' /\ HasherLoops'
  BY <1>1, <1>2, <1>3, Groups, LoopsKept
<1>6. /\ t \in Copiers => SharesQueue(Copiers, sourceQueueIndex)
      /\ t \in SourceHashers =>
           SharesQueue(SourceHashers, sourceQueueIndex) /\ SharesQueue(DestHashers, destQueueIndex)
      /\ Distinct(Copiers) /\ Distinct(SourceHashers) /\ Distinct(DestHashers)
  BY <1>2, SharedElements DEF SlingerInv
<1>7. CASE t \in Copiers
  <2>1. /\ Distinct(Copiers)'
        /\ \A u \in Copiers : Working(u)' => thread'[u].index < sourceQueueIndex + 1
        /\ \A u \in Copiers : thread'[u].step = "ended" => sourceQueueIndex + 1 >= NumFiles
    BY <1>1, <1>2, <1>6, <1>7, Types, Groups, ClaimShares DEF ThreadSteps
  <2>2. Distinct(SourceHashers)' /\ Distinct(DestHashers)'
    BY <1>1, <1>3, <1>6, <1>7, Types, Groups, OtherGroupShares
  <2>3. SharesQueue(Copiers, sourceQueueIndex)'
    BY <1>1, <2>1 DEF SharesQueue
  <2>4. CopiesInOrder'
    <3>1. sourceQueueIndex < NumFiles =>
            /\ sourceQueueIndex \in Index /\ copies[sourceQueueIndex] = 0
            /\ dest[sourceQueueIndex] = Absent \/ dest[sourceQueueIndex].content = "old"
      BY <1>1, <1>2, <1>7, Numbers, Types DEF SlingerInv, NoneLeftOut
    <3> QED
      BY <1>1, <1>2, <1>3, <1>7, <3>1, Groups DEF SlingerInv, CopiesInOrder
  <2>5. NoneLeftOut'
    <3>1. ASSUME NEW k \in Index, k < sourceQueueIndex + 1, copies[k] = 0
          PROVE  \E c \in Copiers : thread'[c].step \in {"open", "execute"} /\ thread'[c].index = k
      <4>1. CASE k = sourceQueueIndex
        BY <1>2, <1>3, <1>7, <4>1, Numbers
      <4>2. CASE k < sourceQueueIndex
        <5>1. PICK c \in Copiers : thread[c].step \in {"open", "execute"} /\ thread[c].index = k
          BY <1>2, <1>7, <3>1, <4>2 DEF SlingerInv, NoneLeftOut
        <5> QED
          BY <1>1, <1>3, <5>1, Groups
      <4> QED
        BY <3>1, <4>1, <4>2, Types, Numbers, <1>1
    <3> QED
      BY <1>1, <1>2, <1>7, <3>1, Types, Numbers DEF SlingerInv, NoneLeftOut, Copying
  <2>6. HashesAgree'
    BY <1>1, <1>2, <1>7 DEF SlingerInv, HashesAgree, Copying, Hashing
  <2> QED
    BY <1>1, <1>2, <1>4, <1>5, <1>7, <2>1, <2>2, <2>3, <2>4, <2>5, <2>6, WorkerStep
    DEF Copying, Hashing
<1>8. CASE t \in SourceHashers
  <2>1. /\ Distinct(SourceHashers)'
        /\ \A u \in SourceHashers : Working(u)' => thread'[u].index < sourceQueueIndex + 1
        /\ \A u \in SourceHashers :
             thread'[u].step = "ended" => sourceQueueIndex + 1 >= NumFiles
    BY <1>1, <1>2, <1>6, <1>8, Types, Groups, ClaimShares DEF ThreadSteps
  <2>2. /\ Distinct(Copiers)' /\ Distinct(DestHashers)'
        /\ \A u \in DestHashers : Working(u)' => thread'[u].index < destQueueIndex
        /\ \A u \in DestHashers : thread'[u].step = "ended" => destQueueIndex >= NumFiles
    BY <1>1, <1>3, <1>6, <1>8, Types, Groups, OtherGroupShares
  <2>3. /\ SharesQueue(SourceHashers, sourceQueueIndex)'
        /\ SharesQueue(DestHashers, destQueueIndex)'
    BY <1>1, <2>1, <2>2 DEF SharesQueue
  <2>4. CopiesInOrder'
    BY <1>1, <1>3, <1>8, Groups DEF SlingerInv, CopiesInOrder
  <2>5. ~Copying
    BY <1>2, <1>8 DEF Copying, Hashing
  <2>6. NoneLeftOut'
    BY <1>1, <2>5 DEF NoneLeftOut, Copying
  <2>7. HashesAgree'
    <3>1. ASSUME NEW k \in Index, k < sourceQueueIndex + 1
          PROVE  \/ sourceChecksums[k] = "whole"
                 \/ InHand(SourceHashers, k)'
      <4>1. CASE k = sourceQueueIndex
        BY <1>2, <1>3, <1>8, <4>1, Numbers DEF InHand
      <4>2. CASE k < sourceQueueIndex
        BY <1>1, <1>2, <1>3, <1>8, <4>2, Groups, Hashed, HandsKept
      <4> QED
        BY <3>1, <4>1, <4>2, Types, Numbers, <1>1
    <3>2. ASSUME NEW k \in Index, k < destQueueIndex
          PROVE  \/ destChecksums[k] = dest[k].content
                 \/ InHand(DestHashers, k)'
      BY <1>1, <1>2, <1>3, <1>8, <3>2, Groups, Hashed, HandsKept
    <3> QED
      BY <1>1, <3>1, <3>2 DEF SlingerInv, HashesAgree, InHand
  <2> QED
    BY <1>1, <1>2, <1>4, <1>5, <1>8, <2>1, <2>2, <2>3, <2>4, <2>5, <2>6, <2>7, WorkerStep
<1> QED
  BY <1>7, <1>8

LEMMA ClaimDestInv ==
  ASSUME SlingerInv, NEW t \in DestHashers, ClaimDest(t)
  PROVE  SlingerInv'
<1>1. /\ TypeOK /\ t \in Threads /\ Running /\ thread[t].step = "claim"
      /\ Take(t, destQueueIndex, "hash")
      /\ destQueueIndex' = destQueueIndex + 1
      /\ UNCHANGED <<dest, sourceQueueIndex, sourceChecksums, destChecksums, progress,
                     pc, i, verdict, copies>>
      /\ UNCHANGED main
  BY Groups DEF SlingerInv, ClaimDest, sums, main, Work
<1>2. Hashing /\ ~Copying
  BY <1>1, Phase, Groups DEF Copying, Hashing
<1>3. /\ thread' \in [Threads -> ThreadRecord]
      /\ thread'[t].step = IF destQueueIndex < NumFiles THEN "hash" ELSE "ended"
      /\ thread'[t].index = destQueueIndex
      /\ \A u \in Threads : u # t => thread'[u] = thread[u]
  BY <1>1, Types, TakeFacts DEF ThreadSteps
<1>4. TypeOK'
  <2>1. destQueueIndex' \in Nat
    BY <1>1, Types
  <2>2. \A u \in Threads :
          thread'[u].step \in {"open", "execute", "account", "hash"} => thread'[u].index \in Index
    BY <1>1, <1>3, Types, Numbers DEF Working
  <2> QED
    BY <1>1, <1>3, <2>1, <2>2 DEF TypeOK, ThreadRecord
<1>5. CopierLoops' /\ HasherLoops'
  BY <1>1, <1>3, Groups, LoopsKept
<1>6. /\ SharesQueue(SourceHashers, sourceQueueIndex) /\ SharesQueue(DestHashers, destQueueIndex)
      /\ Distinct(Copiers) /\ Distinct(SourceHashers) /\ Distinct(DestHashers)
  BY <1>2, SharedElements DEF SlingerInv
<1>7. /\ Distinct(DestHashers)'
      /\ \A u \in DestHashers : Working(u)' => thread'[u].index < destQueueIndex + 1
      /\ \A u \in DestHashers : thread'[u].step = "ended" => destQueueIndex + 1 >= NumFiles
  BY <1>1, <1>6, Types, Groups, ClaimShares DEF ThreadSteps
<1>8. /\ Distinct(Copiers)' /\ Distinct(SourceHashers)'
      /\ \A u \in SourceHashers : Working(u)' => thread'[u].index < sourceQueueIndex
      /\ \A u \in SourceHashers : thread'[u].step = "ended" => sourceQueueIndex >= NumFiles
  BY <1>1, <1>3, <1>6, Types, Groups, OtherGroupShares
<1>9. /\ SharesQueue(SourceHashers, sourceQueueIndex)'
      /\ SharesQueue(DestHashers, destQueueIndex)'
  BY <1>1, <1>7, <1>8 DEF SharesQueue
<1>10. CopiesInOrder'
  BY <1>1, <1>3, Groups DEF SlingerInv, CopiesInOrder
<1>11. NoneLeftOut'
  BY <1>1, <1>2 DEF NoneLeftOut, Copying
<1>12. HashesAgree'
  <2>1. ASSUME NEW k \in Index, k < destQueueIndex + 1
        PROVE  \/ destChecksums[k] = dest[k].content
               \/ InHand(DestHashers, k)'
    <3>1. CASE k = destQueueIndex
      BY <1>3, <3>1, Numbers DEF InHand
    <3>2. CASE k < destQueueIndex
      BY <1>1, <1>2, <1>3, <3>2, Groups, Hashed, HandsKept
    <3> QED
      BY <2>1, <3>1, <3>2, Types, Numbers, <1>1
  <2>2. ASSUME NEW k \in Index, k < sourceQueueIndex
        PROVE  \/ sourceChecksums[k] = "whole"
               \/ InHand(SourceHashers, k)'
    BY <1>1, <1>2, <1>3, <2>2, Groups, Hashed, HandsKept
  <2> QED
    BY <1>1, <2>1, <2>2 DEF SlingerInv, HashesAgree, InHand
<1> QED
  BY <1>1, <1>2, <1>4, <1>5, <1>7, <1>8, <1>9, <1>10, <1>11, <1>12, WorkerStep

\* What the steps of a thread that works on a file, and keeps its index, have in common.
LEMMA WorkFacts ==
  ASSUME SlingerInv, Running, NEW t \in Threads, Working(t),
         NEW s \in {"claim", "execute", "account"}, GoTo(t, s), UNCHANGED <<main, queues>>,
         t \notin Copiers => s = "claim"
  PROVE  /\ thread' \in [Threads -> ThreadRecord]
         /\ thread'[t].step = s /\ thread'[t].index = thread[t].index
         /\ \A u \in Threads : u # t => thread'[u] = thread[u]
         /\ \A u \in Threads : Working(u)' => thread'[u].index \in Index
         /\ CopierLoops' /\ HasherLoops'
         /\ Distinct(Copiers)' /\ Distinct(SourceHashers)' /\ Distinct(DestHashers)'
         /\ Copying => SharesQueue(Copiers, sourceQueueIndex)'
         /\ Hashing => SharesQueue(SourceHashers, sourceQueueIndex)'
                       /\ SharesQueue(DestHashers, destQueueIndex)'
<1>1. TypeOK
  BY DEF SlingerInv
<1>2. /\ thread' \in [Threads -> ThreadRecord]
      /\ thread'[t].step = s /\ thread'[t].index = thread[t].index
      /\ \A u \in Threads : u # t => thread'[u] = thread[u]
  BY <1>1, Types, GoToFacts DEF ThreadSteps
<1>3. \A u \in Threads : Working(u)' => thread'[u].index \in Index
  BY <1>1, <1>2, Types DEF Working
<1>4. CopierLoops' /\ HasherLoops'
  BY <1>2, LoopsKept DEF Working
<1>5. sourceQueueIndex' = sourceQueueIndex /\ destQueueIndex' = destQueueIndex
  BY DEF queues
<1>6. Distinct(Copiers)' /\ Distinct(SourceHashers)' /\ Distinct(DestHashers)'
  <2>1. Distinct(Copiers) /\ Distinct(SourceHashers) /\ Distinct(DestHashers)
    BY SharedElements DEF SlingerInv
  <2> QED
    BY <1>1, <1>2, <2>1, Types, Groups, WorkShares
<1>7. ASSUME NEW group \in {Copiers, SourceHashers, DestHashers}, NEW q \in Nat,
             SharesQueue(group, q)
      PROVE  /\ \A u \in group : Working(u)' => thread'[u].index < q
             /\ \A u \in group : thread'[u].step = "ended" => q >= NumFiles
  BY <1>2, <1>7, Groups, WorkShares
<1>8. Copying => SharesQueue(Copiers, sourceQueueIndex)'
  BY <1>1, <1>5, <1>7, Types DEF SlingerInv, SharesQueue
<1>9. Hashing => SharesQueue(SourceHashers, sourceQueueIndex)'
  BY <1>1, <1>5, <1>7, Types DEF SlingerInv, SharesQueue
<1>10. Hashing => SharesQueue(DestHashers, destQueueIndex)'
  BY <1>1, <1>5, <1>7, Types DEF SlingerInv, SharesQueue
<1> QED
  BY <1>2, <1>3, <1>4, <1>6, <1>8, <1>9, <1>10

LEMMA OpenFilesInv ==
  ASSUME SlingerInv, NEW c \in Copiers, OpenFiles(c)
  PROVE  SlingerInv'
<1> DEFINE k == thread[c].index
           created == [content |-> "partial", size |-> 0]
<1>1. /\ TypeOK /\ c \in Threads /\ Running /\ thread[c].step = "open" /\ Working(c)
      /\ GoTo(c, "execute") /\ UNCHANGED <<main, queues>>
      /\ UNCHANGED <<sourceChecksums, destChecksums, progress, pc, i, verdict, copies,
                     sourceQueueIndex, destQueueIndex>>
      /\ dest' = IF dest[k] = Absent THEN [dest EXCEPT ![k] = created] ELSE dest
  BY Groups DEF SlingerInv, OpenFiles, sums, main, queues, Working
<1>2. /\ thread' \in [Threads -> ThreadRecord]
      /\ thread'[c].step = "execute" /\ thread'[c].index = thread[c].index
      /\ \A u \in Threads : u # c => thread'[u] = thread[u]
      /\ \A u \in Threads : Working(u)' => thread'[u].index \in Index
      /\ CopierLoops' /\ HasherLoops'
      /\ Distinct(Copiers)' /\ Distinct(SourceHashers)' /\ Distinct(DestHashers)'
      /\ Copying => SharesQueue(Copiers, sourceQueueIndex)'
      /\ Hashing => SharesQueue(SourceHashers, sourceQueueIndex)'
                    /\ SharesQueue(DestHashers, destQueueIndex)'
  BY <1>1, WorkFacts
<1>3. Copying /\ ~Hashing
  BY <1>1, Phase DEF Copying, Hashing
<1>4. /\ k \in Index /\ k < sourceQueueIndex /\ copies[k] = 0
      /\ dest[k] = Absent \/ dest[k].content = "old"
      /\ \A u \in Copiers : u # c /\ Working(u) => thread[u].index # k
  BY <1>1, <1>3, Types, Numbers, SharedElements
  DEF SlingerInv, SharesQueue, CopiesInOrder, Distinct
<1>5. created \in FileRecord /\ created.content = "partial"
  BY DEF FileRecord, Contents
<1> HIDE DEF created, k
<1>6. /\ dest' \in [Index -> FileRecord]
      /\ dest'[k].content \in {"partial", "old"}
      /\ \A n \in Index : n # k => dest'[n] = dest[n]
  BY <1>1, <1>4, <1>5, Types
<1>7. TypeOK'
  BY <1>1, <1>2, <1>6 DEF TypeOK, ThreadRecord, Working
<1>8. CopiesInOrder'
  <2>1. \A u \in Copiers :
          /\ thread'[u].step = "open" =>
               LET old == dest'[thread'[u].index] IN old = Absent \/ old.content = "old"
          /\ thread'[u].step = "execute" => dest'[thread'[u].index].content \in {"partial", "old"}
          /\ thread'[u].step \in {"open", "execute"} => copies[thread'[u].index] = 0
    BY <1>1, <1>2, <1>4, <1>6, Groups, Types DEF SlingerInv, CopiesInOrder, Working, k
  <2> QED
    BY <1>1, <1>4, <1>6, <2>1 DEF SlingerInv, CopiesInOrder
<1>9. NoneLeftOut'
  <2>1. ASSUME NEW n \in Index, n >= sourceQueueIndex
        PROVE  copies[n] = 0 /\ (dest'[n] = Absent \/ dest'[n].content = "old")
    BY <1>1, <1>3, <1>4, <1>6, <2>1, Numbers, Types DEF SlingerInv, NoneLeftOut
  <2>2. ASSUME NEW n \in Index, n < sourceQueueIndex, copies[n] = 0
        PROVE  \E u \in Copiers : thread'[u].step \in {"open", "execute"} /\ thread'[u].index = n
    <3>1. PICK u \in Copiers : thread[u].step \in {"open", "execute"} /\ thread[u].index = n
      BY <1>3, <2>2 DEF SlingerInv, NoneLeftOut
    <3> QED
      BY <1>2, <3>1, Groups
  <2> QED
    BY <1>1, <2>1, <2>2 DEF NoneLeftOut
<1>10. HashesAgree'
  <2>1. ASSUME NEW n \in Index, destChecksums[n] # ""
        PROVE  copies'[n] = 1 /\ destChecksums[n] = dest'[n].content
    <3>1. copies[n] = 1 /\ destChecksums[n] = dest[n].content
      BY <2>1 DEF SlingerInv, HashesAgree
    <3> QED
      BY <3>1, <1>1, <1>4, <1>6
  <2>2. ~Hashing'
    BY <1>1, <1>3 DEF Hashing
  <2> QED
    BY <1>1, <2>1, <2>2 DEF HashesAgree
<1> QED
  BY <1>1, <1>2, <1>3, <1>7, <1>8, <1>9, <1>10, WorkerStep

LEMMA ExecuteInv ==
  ASSUME SlingerInv, NEW c \in Copiers, Execute(c)
  PROVE  SlingerInv'
<1> DEFINE k == thread[c].index
           copied == [content |-> "whole", size |-> SourceSize[k]]
<1>1. /\ TypeOK /\ c \in Threads /\ Running /\ thread[c].step = "execute" /\ Working(c)
      /\ GoTo(c, "account") /\ UNCHANGED <<main, queues>>
      /\ UNCHANGED <<sourceChecksums, destChecksums, progress, pc, i, verdict,
                     sourceQueueIndex, destQueueIndex>>
      /\ dest' = IF dest[k].content = "partial" THEN [dest EXCEPT ![k] = copied] ELSE dest
      /\ copies' = [copies EXCEPT ![k] = @ + 1]
  BY Groups DEF SlingerInv, Execute, sums, main, queues, Working
<1>2. /\ thread' \in [Threads -> ThreadRecord]
      /\ thread'[c].step = "account" /\ thread'[c].index = thread[c].index
      /\ \A u \in Threads : u # c => thread'[u] = thread[u]
      /\ \A u \in Threads : Working(u)' => thread'[u].index \in Index
      /\ CopierLoops' /\ HasherLoops'
      /\ Distinct(Copiers)' /\ Distinct(SourceHashers)' /\ Distinct(DestHashers)'
      /\ Copying => SharesQueue(Copiers, sourceQueueIndex)'
      /\ Hashing => SharesQueue(SourceHashers, sourceQueueIndex)'
                    /\ SharesQueue(DestHashers, destQueueIndex)'
  BY <1>1, WorkFacts
<1>3. Copying /\ ~Hashing
  BY <1>1, Phase DEF Copying, Hashing
<1>4. /\ k \in Index /\ k < sourceQueueIndex /\ copies[k] = 0
      /\ dest[k].content \in {"partial", "old"}
      /\ \A u \in Copiers : u # c /\ Working(u) => thread[u].index # k
  BY <1>1, <1>3, Types, Numbers, SharedElements
  DEF SlingerInv, SharesQueue, CopiesInOrder, Distinct
<1>5. copied \in FileRecord /\ copied.content = "whole"
  BY <1>4, Numbers DEF FileRecord, Contents
<1> HIDE DEF copied, k
<1>6. /\ dest' \in [Index -> FileRecord]
      /\ dest'[k].content \in {"old", "whole"}
      /\ \A n \in Index : n # k => dest'[n] = dest[n]
  BY <1>1, <1>4, <1>5, Types
<1>7. /\ copies' \in [Index -> Nat] /\ copies'[k] = 1
      /\ \A n \in Index : n # k => copies'[n] = copies[n]
  BY <1>1, <1>4, Types
<1>8. TypeOK'
  BY <1>1, <1>2, <1>6, <1>7 DEF TypeOK, ThreadRecord, Working
<1>9. CopiesInOrder'
  <2>1. ASSUME NEW u \in Copiers, Working(u)', u # c
        PROVE  /\ thread'[u] = thread[u] /\ thread[u].index \in Index /\ thread[u].index # k
    BY <1>1, <1>2, <1>4, <2>1, Groups, Types DEF Working
  <2>2. \A u \in Copiers :
          /\ thread'[u].step = "open" =>
               LET old == dest'[thread'[u].index] IN old = Absent \/ old.content = "old"
          /\ thread'[u].step = "execute" => dest'[thread'[u].index].content \in {"partial", "old"}
          /\ thread'[u].step \in {"open", "execute"} => copies'[thread'[u].index] = 0
    BY <1>2, <1>6, <1>7, <2>1 DEF SlingerInv, CopiesInOrder, Working
  <2> QED
    BY <1>6, <1>7, <2>2 DEF SlingerInv, CopiesInOrder
<1>10. NoneLeftOut'
  <2>1. ASSUME NEW n \in Index, n >= sourceQueueIndex
        PROVE  copies'[n] = 0 /\ (dest'[n] = Absent \/ dest'[n].content = "old")
    BY <1>1, <1>3, <1>4, <1>6, <1>7, <2>1, Numbers, Types DEF SlingerInv, NoneLeftOut
  <2>2. ASSUME NEW n \in Index, n < sourceQueueIndex, copies'[n] = 0
        PROVE  \E u \in Copiers : thread'[u].step \in {"open", "execute"} /\ thread'[u].index = n
    <3>1. n # k /\ copies[n] = 0
      BY <1>7, <2>2
    <3>2. PICK u \in Copiers : thread[u].step \in {"open", "execute"} /\ thread[u].index = n
      BY <1>3, <2>2, <3>1 DEF SlingerInv, NoneLeftOut
    <3> QED
      BY <1>2, <3>1, <3>2, Groups DEF k
  <2> QED
    BY <1>1, <2>1, <2>2 DEF NoneLeftOut
<1>11. HashesAgree'
  <2>1. ASSUME NEW n \in Index, destChecksums[n] # ""
        PROVE  copies'[n] = 1 /\ destChecksums[n] = dest'[n].content
    <3>1. copies[n] = 1 /\ destChecksums[n] = dest[n].content
      BY <2>1 DEF SlingerInv, HashesAgree
    <3> QED
      BY <3>1, <1>1, <1>4, <1>6, <1>7
  <2>2. ~Hashing'
    BY <1>1, <1>3 DEF Hashing
  <2> QED
    BY <1>1, <2>1, <2>2 DEF HashesAgree
<1> QED
  BY <1>1, <1>2, <1>3, <1>8, <1>9, <1>10, <1>11, WorkerStep

LEMMA AccountInv ==
  ASSUME SlingerInv, NEW c \in Copiers, Account(c)
  PROVE  SlingerInv'
<1>1. /\ TypeOK /\ c \in Threads /\ Running /\ thread[c].step = "account" /\ Working(c)
      /\ GoTo(c, "claim") /\ UNCHANGED <<main, queues>>
      /\ UNCHANGED <<dest, sourceChecksums, destChecksums, pc, i, verdict, copies,
                     sourceQueueIndex, destQueueIndex>>
      /\ progress' = progress + dest[thread[c].index].size
  BY Groups DEF SlingerInv, Account, sums, main, queues, Working
<1>2. /\ thread' \in [Threads -> ThreadRecord]
      /\ thread'[c].step = "claim" /\ thread'[c].index = thread[c].index
      /\ \A u \in Threads : u # c => thread'[u] = thread[u]
      /\ \A u \in Threads : Working(u)' => thread'[u].index \in Index
      /\ CopierLoops' /\ HasherLoops'
      /\ Distinct(Copiers)' /\ Distinct(SourceHashers)' /\ Distinct(DestHashers)'
      /\ Copying => SharesQueue(Copiers, sourceQueueIndex)'
      /\ Hashing => SharesQueue(SourceHashers, sourceQueueIndex)'
                    /\ SharesQueue(DestHashers, destQueueIndex)'
  BY <1>1, WorkFacts
<1>3. Copying /\ ~Hashing
  BY <1>1, Phase DEF Copying, Hashing
<1>4. progress' \in Nat
  BY <1>1, Types DEF FileRecord
<1>5. TypeOK'
  BY <1>1, <1>2, <1>4 DEF TypeOK, ThreadRecord, Working
<1>6. CopiesInOrder'
  BY <1>1, <1>2, Groups DEF SlingerInv, CopiesInOrder
<1>7. NoneLeftOut'
  <2>1. ASSUME NEW n \in Index, n < sourceQueueIndex, copies[n] = 0
        PROVE  \E u \in Copiers : thread'[u].step \in {"open", "execute"} /\ thread'[u].index = n
    <3>1. PICK u \in Copiers : thread[u].step \in {"open", "execute"} /\ thread[u].index = n
      BY <1>3, <2>1 DEF SlingerInv, NoneLeftOut
    <3> QED
      BY <1>1, <1>2, <3>1, Groups
  <2> QED
    BY <1>1, <1>3, <2>1 DEF SlingerInv, NoneLeftOut
<1>8. HashesAgree'
  BY <1>1, <1>3 DEF SlingerInv, HashesAgree, Hashing
<1> QED
  BY <1>1, <1>2, <1>3, <1>5, <1>6, <1>7, <1>8, WorkerStep

LEMMA HashSourceInv ==
  ASSUME SlingerInv, NEW h \in SourceHashers, HashSource(h)
  PROVE  SlingerInv'
<1> DEFINE k == thread[h].index
<1>1. /\ TypeOK /\ h \in Threads /\ h \notin Copiers /\ h \notin DestHashers
      /\ Running /\ thread[h].step = "hash" /\ Working(h)
      /\ GoTo(h, "claim") /\ UNCHANGED <<main, queues>>
      /\ UNCHANGED <<dest, destChecksums, progress, pc, i, verdict, copies,
                     sourceQueueIndex, destQueueIndex>>
      /\ sourceChecksums' = [sourceChecksums EXCEPT ![k] = "whole"]
  BY Groups DEF SlingerInv, HashSource, main, queues, Working
<1>2. /\ thread' \in [Threads -> ThreadRecord]
      /\ thread'[h].step = "claim" /\ thread'[h].index = thread[h].index
      /\ \A u \in Threads : u # h => thread'[u] = thread[u]
      /\ \A u \in Threads : Working(u)' => thread'[u].index \in Index
      /\ CopierLoops' /\ HasherLoops'
      /\ Distinct(Copiers)' /\ Distinct(SourceHashers)' /\ Distinct(DestHashers)'
      /\ Copying => SharesQueue(Copiers, sourceQueueIndex)'
      /\ Hashing => SharesQueue(SourceHashers, sourceQueueIndex)'
                    /\ SharesQueue(DestHashers, destQueueIndex)'
  BY <1>1, WorkFacts
<1>3. Hashing /\ ~Copying
  BY <1>1, Phase DEF Copying, Hashing
<1>4. k \in Index
  BY <1>1, Types
<1> HIDE DEF k
<1>5. /\ sourceChecksums' \in [Index -> Checksums] /\ sourceChecksums'[k] = "whole"
      /\ \A n \in Index : n # k => sourceChecksums'[n] = sourceChecksums[n]
  BY <1>1, <1>4, Types DEF Checksums, Contents
<1>6. TypeOK'
  BY <1>1, <1>2, <1>5 DEF TypeOK, ThreadRecord, Working
<1>7. CopiesInOrder'
  BY <1>1, <1>2, Groups DEF SlingerInv, CopiesInOrder
<1>8. NoneLeftOut'
  BY <1>1, <1>3 DEF NoneLeftOut, Copying
<1>9. HashesAgree'
  <2>1. ASSUME NEW n \in Index, n < sourceQueueIndex
        PROVE  sourceChecksums'[n] = "whole" \/ InHand(SourceHashers, n)'
    <3>1. CASE n = k
      BY <1>5, <3>1
    <3>2. CASE n # k
      BY <1>1, <1>2, <1>3, <1>5, <2>1, <3>2, Groups, Hashed, HandsKept DEF k
    <3> QED
      BY <3>1, <3>2
  <2>2. ASSUME NEW n \in Index, n < destQueueIndex
        PROVE  destChecksums[n] = dest[n].content \/ InHand(DestHashers, n)'
    BY <1>1, <1>2, <1>3, <2>2, Groups, Hashed, HandsKept
  <2> QED
    BY <1>1, <2>1, <2>2 DEF SlingerInv, HashesAgree, InHand
<1> QED
  BY <1>1, <1>2, <1>3, <1>6, <1>7, <1>8, <1>9, WorkerStep

LEMMA HashDestInv ==
  ASSUME SlingerInv, NEW h \in DestHashers, HashDest(h)
  PROVE  SlingerInv'
<1> DEFINE k == thread[h].index
<1>1. /\ TypeOK /\ h \in Threads /\ h \notin Copiers /\ h \notin SourceHashers
      /\ Running /\ thread[h].step = "hash" /\ Working(h)
      /\ GoTo(h, "claim") /\ UNCHANGED <<main, queues>>
      /\ UNCHANGED <<dest, sourceChecksums, progress, pc, i, verdict, copies,
                     sourceQueueIndex, destQueueIndex>>
      /\ destChecksums' = [destChecksums EXCEPT ![k] = dest[k].content]
  BY Groups DEF SlingerInv, HashDest, main, queues, Working
<1>2. /\ thread' \in [Threads -> ThreadRecord]
      /\ thread'[h].step = "claim" /\ thread'[h].index = thread[h].index
      /\ \A u \in Threads : u # h => thread'[u] = thread[u]
      /\ \A u \in Threads : Working(u)' => thread'[u].index \in Index
      /\ CopierLoops' /\ HasherLoops'
      /\ Distinct(Copiers)' /\ Distinct(SourceHashers)' /\ Distinct(DestHashers)'
      /\ Copying => SharesQueue(Copiers, sourceQueueIndex)'
      /\ Hashing => SharesQueue(SourceHashers, sourceQueueIndex)'
                    /\ SharesQueue(DestHashers, destQueueIndex)'
  BY <1>1, WorkFacts
<1>3. Hashing /\ ~Copying
  BY <1>1, Phase DEF Copying, Hashing
<1>4. k \in Index /\ copies[k] = 1
  <2>1. k \in Index
    BY <1>1, Types
  <2> HIDE DEF k
  <2> QED
    BY <1>3, <2>1 DEF SlingerInv, CopiedExactlyOnce, Hashing
<1> HIDE DEF k
<1>5. /\ destChecksums' \in [Index -> Checksums] /\ destChecksums'[k] = dest[k].content
      /\ \A n \in Index : n # k => destChecksums'[n] = destChecksums[n]
  <2>1. dest[k].content \in Checksums
    BY <1>1, <1>4, Types DEF Checksums, FileRecord
  <2> QED
    BY <1>1, <1>4, <2>1, Types
<1>6. TypeOK'
  BY <1>1, <1>2, <1>5 DEF TypeOK, ThreadRecord, Working
<1>7. CopiesInOrder'
  BY <1>1, <1>2, Groups DEF SlingerInv, CopiesInOrder
<1>8. NoneLeftOut'
  BY <1>1, <1>3 DEF NoneLeftOut, Copying
<1>9. HashesAgree'
  <2>1. ASSUME NEW n \in Index, n < sourceQueueIndex
        PROVE  sourceChecksums[n] = "whole" \/ InHand(SourceHashers, n)'
    BY <1>1, <1>2, <1>3, <2>1, Groups, Hashed, HandsKept
  <2>2. ASSUME NEW n \in Index, n < destQueueIndex
        PROVE  destChecksums'[n] = dest[n].content \/ InHand(DestHashers, n)'
    <3>1. CASE n = k
      BY <1>5, <3>1
    <3>2. CASE n # k
      BY <1>1, <1>2, <1>3, <1>5, <2>2, <3>2, Groups, Hashed, HandsKept DEF k
    <3> QED
      BY <3>1, <3>2
  <2>3. ASSUME NEW n \in Index, destChecksums'[n] # ""
        PROVE  copies[n] = 1 /\ destChecksums'[n] = dest[n].content
    BY <1>4, <1>5, <2>3 DEF SlingerInv, HashesAgree
  <2> QED
    BY <1>1, <2>1, <2>2, <2>3 DEF HashesAgree, InHand
<1> QED
  BY <1>1, <1>2, <1>3, <1>6, <1>7, <1>8, <1>9, WorkerStep

\* A thread that throws stops all others where they are.
LEMMA ThrowInv ==
  ASSUME SlingerInv, NEW t \in Threads, Throw(t)
  PROVE  SlingerInv'
<1>1. /\ pc' = "aborted"
      /\ UNCHANGED <<dest, sourceQueueIndex, destQueueIndex, sourceChecksums, destChecksums,
                     progress, thread, i, verdict, copies>>
  BY DEF Throw, queues, sums
<1>2. TypeOK'
  BY <1>1 DEF SlingerInv, TypeOK
<1>3. CopierLoops' /\ HasherLoops'
  BY <1>1 DEF SlingerInv, CopierLoops, HasherLoops, Copying
<1>4. NoSharedElement'
  BY <1>1 DEF SlingerInv, NoSharedElement, Working
<1>5. CopiesInOrder' /\ NoneLeftOut' /\ HashesAgree'
  BY <1>1 DEF SlingerInv, CopiesInOrder, NoneLeftOut, HashesAgree, Copying, Hashing
<1>6. CopiedExactlyOnce' /\ VerdictRight'
  BY <1>1 DEF SlingerInv, CopiedExactlyOnce, VerdictRight
<1> QED
  BY <1>1, <1>2, <1>3, <1>4, <1>5, <1>6 DEF SlingerInv, Copying, Hashing

-------------------------------------------------------------------------------
(* The steps of the main thread. *)

\* It starts threads and touches no other.
Advanced ==
  \A t \in Threads :
    thread'[t] = thread[t] \/ (thread[t].step = "unborn" /\ thread'[t].step = "claim")

LEMMA MainFacts ==
  ASSUME SlingerInv, thread' \in [Threads -> ThreadRecord], Advanced,
         UNCHANGED <<dest, sums, progress, copies>>
  PROVE  /\ \A t \in Threads : Working(t)' => thread'[t] = thread[t] /\ Working(t)
         /\ \A t \in Threads : Working(t)' => thread'[t].index \in Index
         /\ NoSharedElement' /\ CopiesInOrder'
         /\ \A group \in {Copiers, SourceHashers, DestHashers}, q \in Nat :
              SharesQueue(group, q) =>
                /\ \A t \in group : Working(t)' => thread'[t].index < q
                /\ \A t \in group : thread'[t].step = "ended" => q >= NumFiles
         /\ \A k \in Index : destChecksums'[k] # "" =>
              copies'[k] = 1 /\ destChecksums'[k] = dest'[k].content
<1>1. \A t \in Threads : Working(t)' => thread'[t] = thread[t] /\ Working(t)
  BY DEF Advanced, Working
<1>2. \A t \in Threads : Working(t)' => thread'[t].index \in Index
  BY <1>1, Types DEF SlingerInv
<1>3. NoSharedElement'
  <2>1. ASSUME NEW group \in SUBSET Threads, Distinct(group)
        PROVE  Distinct(group)'
    BY <1>1, <2>1 DEF Distinct
  <2>2. Distinct(Copiers)' /\ Distinct(SourceHashers)' /\ Distinct(DestHashers)'
    BY <2>1, SharedElements, Groups DEF SlingerInv
  <2> QED
    BY <2>2 DEF Distinct, NoSharedElement
<1>4. CopiesInOrder'
  <2>1. \A c \in Copiers : /\ thread'[c].step = "open" => thread'[c] = thread[c]
                           /\ thread'[c].step = "execute" => thread'[c] = thread[c]
    BY <1>1, Groups DEF Working
  <2> QED
    BY <2>1 DEF SlingerInv, CopiesInOrder
<1>5. ASSUME NEW group \in SUBSET Threads, NEW q \in Nat, SharesQueue(group, q)
      PROVE  /\ \A t \in group : Working(t)' => thread'[t].index < q
             /\ \A t \in group : thread'[t].step = "ended" => q >= NumFiles
  BY <1>1, <1>5 DEF SharesQueue, Advanced
<1>6. \A k \in Index : destChecksums'[k] # "" =>
        copies'[k] = 1 /\ destChecksums'[k] = dest'[k].content
  BY DEF SlingerInv, HashesAgree, sums
<1> QED
  BY <1>1, <1>2, <1>3, <1>4, <1>5, <1>6, Groups

LEMMA SpawnCopierInv ==
  ASSUME SlingerInv, SpawnCopier
  PROVE  SlingerInv'
<1> DEFINE c == <<"copier", i>>
<1>1. /\ TypeOK /\ pc = "spawn" /\ Start({c})
      /\ IF i + 1 < NumCopiers THEN i' = i + 1 /\ pc' = "spawn" ELSE i' = 0 /\ pc' = "join"
      /\ UNCHANGED <<dest, sums, progress, copies>>
      /\ UNCHANGED <<sourceQueueIndex, destQueueIndex, sourceChecksums, destChecksums, verdict>>
  BY DEF SlingerInv, SpawnCopier, Round, queues, sums
<1>2. /\ i \in Nat /\ i < NumCopiers
      /\ \A m \in 0 .. NumCopiers - 1 : thread[<<"copier", m>>].step = "unborn" <=> m >= i
      /\ \A h \in SourceHashers \cup DestHashers : thread[h].step = "unborn"
      /\ SharesQueue(Copiers, sourceQueueIndex)
  BY <1>1 DEF SlingerInv, TypeOK, CopierLoops, HasherLoops, Spawned, Copying
<1>3. c \in Copiers /\ c \in Threads /\ thread[c].step = "unborn"
  BY <1>2, CopierNumbers, Groups, Numbers
<1>4. /\ thread' \in [Threads -> ThreadRecord]
      /\ thread'[c].step = "claim"
      /\ \A t \in Threads : t # c => thread'[t] = thread[t]
  BY <1>1, <1>3, Types, StartFacts
<1>5. Advanced
  BY <1>3, <1>4 DEF Advanced
<1>6. /\ \A t \in Threads : Working(t)' => thread'[t] = thread[t] /\ Working(t)
      /\ \A t \in Threads : Working(t)' => thread'[t].index \in Index
      /\ NoSharedElement' /\ CopiesInOrder'
      /\ \A group \in {Copiers, SourceHashers, DestHashers}, q \in Nat :
           SharesQueue(group, q) =>
             /\ \A t \in group : Working(t)' => thread'[t].index < q
             /\ \A t \in group : thread'[t].step = "ended" => q >= NumFiles
      /\ \A k \in Index : destChecksums'[k] # "" =>
           copies'[k] = 1 /\ destChecksums'[k] = dest'[k].content
  BY <1>1, <1>4, <1>5, MainFacts
<1>7. pc' \in {"spawn", "join"} /\ i' \in Nat
  BY <1>1, <1>2
<1>8. TypeOK'
  BY <1>1, <1>4, <1>6, <1>7 DEF TypeOK, ThreadRecord, Working
<1>9. CopierLoops'
  <2>1. \A u \in Copiers : thread'[u].step # "hash"
    BY <1>4, Groups DEF SlingerInv, CopierLoops
  <2>2. \A m \in 0 .. NumCopiers - 1 : thread'[<<"copier", m>>].step = "unborn" <=> m >= i + 1
    <3> SUFFICES ASSUME NEW m \in 0 .. NumCopiers - 1
                 PROVE  thread'[<<"copier", m>>].step = "unborn" <=> m >= i + 1
      OBVIOUS
    <3>1. CASE m = i
      BY <1>2, <1>4, <3>1
    <3>2. CASE m # i
      <4>1. <<"copier", m>> \in Threads /\ <<"copier", m>> # c
        BY <3>2, CopierNumbers, Groups
      <4>2. m >= i <=> m >= i + 1
        BY <1>2, <3>2
      <4> QED
        BY <1>2, <1>4, <4>1, <4>2
    <3> QED
      BY <3>1, <3>2
  <2>3. pc' = "spawn" => Spawned({"copier"}, NumCopiers)'
    BY <1>1, <2>2 DEF Spawned
  <2>4. pc' = "join" => Joined({"copier"}, NumCopiers)'
    BY <1>1, <1>2, <2>2, Numbers DEF Joined
  <2> QED
    BY <1>7, <2>1, <2>3, <2>4 DEF CopierLoops, Copying
<1>10. HasherLoops'
  BY <1>2, <1>3, <1>4, <1>7, Groups DEF HasherLoops
<1>11. SharesQueue(Copiers, sourceQueueIndex)'
  BY <1>1, <1>2, <1>6, Types DEF SharesQueue
<1>12. NoneLeftOut'
  <2>1. ASSUME NEW k \in Index, k < sourceQueueIndex, copies[k] = 0
        PROVE  \E u \in Copiers : thread'[u].step \in {"open", "execute"} /\ thread'[u].index = k
    <3>1. PICK u \in Copiers : thread[u].step \in {"open", "execute"} /\ thread[u].index = k
      BY <1>1, <2>1 DEF SlingerInv, NoneLeftOut, Copying
    <3> QED
      BY <1>3, <1>4, <3>1, Groups
  <2> QED
    BY <1>1, <2>1 DEF SlingerInv, NoneLeftOut, Copying
<1>13. HashesAgree'
  BY <1>6, <1>7 DEF HashesAgree, Hashing
<1>14. CopiedExactlyOnce'
  BY <1>1, <1>7 DEF SlingerInv, CopiedExactlyOnce
<1>15. verdict' = "none"
  BY <1>1 DEF SlingerInv
<1> QED
  BY <1>6, <1>7, <1>8, <1>9, <1>10, <1>11, <1>12, <1>13, <1>14, <1>15
  DEF SlingerInv, VerdictRight, Hashing

LEMMA JoinCopierInv ==
  ASSUME SlingerInv, JoinCopier
  PROVE  SlingerInv'
<1>1. /\ TypeOK /\ pc = "join" /\ Copying /\ thread[<<"copier", i>>].step = "ended"
      /\ IF i + 1 < NumCopiers THEN i' = i + 1 /\ pc' = "join" ELSE i' = 0 /\ pc' = "verify"
      /\ UNCHANGED <<dest, sourceQueueIndex, destQueueIndex, sourceChecksums, destChecksums,
                     progress, thread, verdict, copies>>
  BY DEF SlingerInv, JoinCopier, Round, queues, sums, Copying
<1>2. /\ i \in Nat /\ i < NumCopiers
      /\ \A m \in 0 .. NumCopiers - 1 : /\ thread[<<"copier", m>>].step # "unborn"
                                        /\ m < i => thread[<<"copier", m>>].step = "ended"
      /\ \A h \in SourceHashers \cup DestHashers : thread[h].step = "unborn"
      /\ SharesQueue(Copiers, sourceQueueIndex)
      /\ CopiesInOrder /\ NoneLeftOut
  BY <1>1 DEF SlingerInv, TypeOK, CopierLoops, HasherLoops, Joined, Copying
<1>3. pc' \in {"join", "verify"} /\ i' \in Nat
  BY <1>1, <1>2
<1>4. \A m \in 0 .. NumCopiers - 1 : m < i + 1 => thread[<<"copier", m>>].step = "ended"
  <2> SUFFICES ASSUME NEW m \in 0 .. NumCopiers - 1, m < i + 1
               PROVE  thread[<<"copier", m>>].step = "ended"
    OBVIOUS
  <2>1. m = i \/ m < i
    BY <1>2
  <2> QED
    BY <1>1, <1>2, <2>1
<1>5. pc' = "verify" => \A c \in Copiers : thread[c].step = "ended"
  <2> SUFFICES ASSUME pc' = "verify", NEW c \in Copiers PROVE thread[c].step = "ended"
    OBVIOUS
  <2>1. ~(i + 1 < NumCopiers)
    BY <1>1
  <2>2. PICK m \in 0 .. NumCopiers - 1 : c = <<"copier", m>>
    BY CopierNumbers
  <2>3. m < i + 1
    BY <1>2, <2>1, Numbers
  <2> QED
    BY <1>4, <2>2, <2>3
<1>6. pc' = "verify" => \A k \in Index : copies[k] = 1
  <2> SUFFICES ASSUME pc' = "verify", NEW k \in Index PROVE copies[k] = 1
    OBVIOUS
  <2>1. sourceQueueIndex >= NumFiles
    BY <1>2, <1>5, CopierNumbers DEF SharesQueue
  <2>2. k < sourceQueueIndex
    BY <1>1, <2>1, Numbers, Types
  <2> QED
    BY <1>1, <1>2, <1>5, <2>2 DEF CopiesInOrder, NoneLeftOut
<1>7. TypeOK'
  BY <1>1, <1>3 DEF TypeOK
<1>8. CopierLoops'
  BY <1>1, <1>2, <1>3, <1>4, <1>5 DEF SlingerInv, CopierLoops, Joined, Copying
<1>9. HasherLoops'
  BY <1>1, <1>2, <1>3 DEF HasherLoops
<1>10. NoSharedElement' /\ CopiesInOrder'
  BY <1>1 DEF SlingerInv, NoSharedElement, CopiesInOrder, Working
<1>11. NoneLeftOut'
  BY <1>1, <1>2 DEF NoneLeftOut
<1>12. HashesAgree'
  BY <1>1, <1>3 DEF SlingerInv, HashesAgree, Hashing
<1>13. CopiedExactlyOnce'
  BY <1>1, <1>3, <1>6 DEF SlingerInv, CopiedExactlyOnce
<1>14. SharesQueue(Copiers, sourceQueueIndex)'
  BY <1>1, <1>2 DEF SharesQueue, Working
<1>15. verdict' = "none"
  BY <1>1 DEF SlingerInv
<1> QED
  BY <1>3, <1>7, <1>8, <1>9, <1>10, <1>11, <1>12, <1>13, <1>14, <1>15
  DEF SlingerInv, VerdictRight, Hashing

LEMMA StartVerifyingInv ==
  ASSUME SlingerInv, StartVerifying
  PROVE  SlingerInv'
<1>1. /\ TypeOK /\ pc = "verify" /\ pc' = "spawnHashers"
      /\ sourceQueueIndex' = 0 /\ destQueueIndex' = 0
      /\ UNCHANGED <<dest, sourceChecksums, destChecksums, progress, thread, i, verdict, copies>>
  BY DEF SlingerInv, StartVerifying, sums
<1>2. /\ i = 0 /\ \A c \in Copiers : thread[c].step = "ended"
      /\ \A h \in SourceHashers \cup DestHashers : thread[h].step = "unborn"
  BY <1>1 DEF SlingerInv, CopierLoops, HasherLoops, Copying
<1>3. TypeOK'
  BY <1>1 DEF TypeOK
<1>4. CopierLoops'
  BY <1>1, <1>2 DEF CopierLoops
<1>5. HasherLoops'
  <2>1. Spawned({"sourceHasher", "destHasher"}, NumThreads)'
    <3>1. \A kind \in {"sourceHasher", "destHasher"}, m \in 0 .. NumThreads - 1 :
            thread[<<kind, m>>].step = "unborn"
      BY <1>2, HasherNumbers
    <3> QED
      BY <1>1, <1>2, <3>1, Numbers DEF Spawned
  <2> QED
    BY <1>1, <1>2, <2>1 DEF HasherLoops, Copying
<1>6. NoSharedElement' /\ CopiesInOrder'
  BY <1>1 DEF SlingerInv, NoSharedElement, CopiesInOrder, Working
<1>7. SharesQueue(SourceHashers, sourceQueueIndex)' /\ SharesQueue(DestHashers, destQueueIndex)'
  BY <1>1, <1>2 DEF SharesQueue, Working
<1>8. NoneLeftOut'
  BY <1>1 DEF NoneLeftOut, Copying
<1>9. HashesAgree'
  <2>1. \A k \in Index : destChecksums[k] # "" =>
          copies[k] = 1 /\ destChecksums[k] = dest[k].content
    BY DEF SlingerInv, HashesAgree
  <2>2. \A k \in Index : ~(k < 0)
    BY Numbers
  <2> QED
    BY <1>1, <2>1, <2>2 DEF HashesAgree
<1>10. CopiedExactlyOnce' /\ verdict' = "none"
  BY <1>1 DEF SlingerInv, CopiedExactlyOnce
<1> QED
  BY <1>1, <1>3, <1>4, <1>5, <1>6, <1>7, <1>8, <1>9, <1>10
  DEF SlingerInv, VerdictRight, Copying

LEMMA SpawnHashersInv ==
  ASSUME SlingerInv, SpawnHashers
  PROVE  SlingerInv'
<1> DEFINE kinds == {"sourceHasher", "destHasher"}
           started == {<<"sourceHasher", i>>, <<"destHasher", i>>}
<1>1. /\ TypeOK /\ pc = "spawnHashers" /\ Start(started) /\ Hashing
      /\ IF i + 1 < NumThreads THEN i' = i + 1 /\ pc' = "spawnHashers"
                               ELSE i' = 0 /\ pc' = "joinHashers"
      /\ UNCHANGED <<dest, sums, progress, copies>>
      /\ UNCHANGED <<sourceQueueIndex, destQueueIndex, sourceChecksums, destChecksums, verdict>>
  BY DEF SlingerInv, SpawnHashers, Round, queues, sums, Hashing
<1>2. /\ i \in Nat /\ i < NumThreads
      /\ \A kind \in kinds, m \in 0 .. NumThreads - 1 :
           thread[<<kind, m>>].step = "unborn" <=> m >= i
      /\ \A c \in Copiers : thread[c].step = "ended"
      /\ SharesQueue(SourceHashers, sourceQueueIndex) /\ SharesQueue(DestHashers, destQueueIndex)
  BY <1>1 DEF SlingerInv, TypeOK, CopierLoops, HasherLoops, Spawned, Copying
<1>3. \A kind \in kinds, m \in 0 .. NumThreads - 1 :
        <<kind, m>> \in Threads /\ <<kind, m>> \notin Copiers
  BY HasherNumbers, Groups
<1>4. \A t \in started : t \in Threads /\ t \notin Copiers /\ thread[t].step = "unborn"
  BY <1>2, <1>3, Numbers
<1>5. /\ thread' \in [Threads -> ThreadRecord]
      /\ \A t \in Threads : /\ t \in started => thread'[t].step = "claim"
                            /\ t \notin started => thread'[t] = thread[t]
  BY <1>1, Types, StartFacts
<1>6. Advanced
  BY <1>4, <1>5 DEF Advanced
<1>7. /\ \A t \in Threads : Working(t)' => thread'[t] = thread[t] /\ Working(t)
      /\ \A t \in Threads : Working(t)' => thread'[t].index \in Index
      /\ NoSharedElement' /\ CopiesInOrder'
      /\ \A group \in {Copiers, SourceHashers, DestHashers}, q \in Nat :
           SharesQueue(group, q) =>
             /\ \A t \in group : Working(t)' => thread'[t].index < q
             /\ \A t \in group : thread'[t].step = "ended" => q >= NumFiles
      /\ \A k \in Index : destChecksums'[k] # "" =>
           copies'[k] = 1 /\ destChecksums'[k] = dest'[k].content
  BY <1>1, <1>5, <1>6, MainFacts
<1>8. pc' \in {"spawnHashers", "joinHashers"} /\ i' \in Nat
  BY <1>1, <1>2
<1>9. TypeOK'
  BY <1>1, <1>5, <1>7, <1>8 DEF TypeOK, ThreadRecord, Working
<1>10. \A c \in Copiers : thread'[c].step = "ended"
  BY <1>2, <1>4, <1>5, Groups
<1>11. CopierLoops'
  BY <1>8, <1>10 DEF CopierLoops
<1>12. HasherLoops'
  <2>1. \A kind \in kinds, m \in 0 .. NumThreads - 1 :
          thread'[<<kind, m>>].step = "unborn" <=> m >= i + 1
    <3> SUFFICES ASSUME NEW kind \in kinds, NEW m \in 0 .. NumThreads - 1
                 PROVE  thread'[<<kind, m>>].step = "unborn" <=> m >= i + 1
      OBVIOUS
    <3>1. CASE m = i
      <4>1. <<kind, m>> \in started /\ <<kind, m>> \in Threads
        BY <1>3, <3>1
      <4> QED
        BY <1>2, <1>5, <3>1, <4>1
    <3>2. CASE m # i
      <4>1. <<kind, m>> \in Threads /\ <<kind, m>> \notin started
        BY <1>3, <3>2
      <4>2. m >= i <=> m >= i + 1
        BY <1>2, <3>2
      <4> QED
        BY <1>2, <1>5, <4>1, <4>2
    <3> QED
      BY <3>1, <3>2
  <2>2. pc' = "spawnHashers" => Spawned(kinds, NumThreads)'
    BY <1>1, <2>1 DEF Spawned
  <2>3. pc' = "joinHashers" => Joined(kinds, NumThreads)'
    BY <1>1, <1>2, <2>1, Numbers DEF Joined
  <2>4. \A h \in SourceHashers \cup DestHashers :
          thread'[h].step \in {"unborn", "claim", "hash", "ended"}
    BY <1>6, Groups DEF SlingerInv, HasherLoops, Advanced
  <2> QED
    BY <1>8, <2>2, <2>3, <2>4 DEF HasherLoops, Copying
<1>13. SharesQueue(SourceHashers, sourceQueueIndex)'
  BY <1>1, <1>2, <1>7, Types DEF SharesQueue
<1>14. SharesQueue(DestHashers, destQueueIndex)'
  BY <1>1, <1>2, <1>7, Types DEF SharesQueue
<1>15. NoneLeftOut'
  BY <1>8 DEF NoneLeftOut, Copying
<1>16. HashesAgree'
  <2>1. ASSUME NEW group \in SUBSET Threads, NEW k, InHand(group, k)
        PROVE  InHand(group, k)'
    BY <1>4, <1>5, <2>1 DEF InHand
  <2>2. \A k \in Index :
          /\ k < sourceQueueIndex =>
               sourceChecksums[k] = "whole" \/ InHand(SourceHashers, k)'
          /\ k < destQueueIndex =>
               destChecksums[k] = dest[k].content \/ InHand(DestHashers, k)'
    BY <1>1, <2>1, Hashed, Groups
  <2> QED
    BY <1>1, <1>7, <2>2 DEF HashesAgree, InHand
<1>17. CopiedExactlyOnce' /\ verdict' = "none"
  BY <1>1, <1>8 DEF SlingerInv, CopiedExactlyOnce
<1> QED
  BY <1>7, <1>8, <1>9, <1>11, <1>12, <1>13, <1>14, <1>15, <1>16, <1>17
  DEF SlingerInv, VerdictRight, Copying

LEMMA JoinHashersInv ==
  ASSUME SlingerInv, JoinHashers
  PROVE  SlingerInv'
<1> DEFINE kinds == {"sourceHasher", "destHasher"}
<1>1. /\ TypeOK /\ pc = "joinHashers" /\ Hashing
      /\ \A kind \in kinds : thread[<<kind, i>>].step = "ended"
      /\ IF i + 1 < NumThreads THEN i' = i + 1 /\ pc' = "joinHashers"
                               ELSE i' = 0 /\ pc' = "compare"
      /\ UNCHANGED <<dest, sourceQueueIndex, destQueueIndex, sourceChecksums, destChecksums,
                     progress, thread, verdict, copies>>
  BY DEF SlingerInv, JoinHashers, Round, queues, sums, Hashing
<1>2. /\ i \in Nat /\ i < NumThreads
      /\ \A kind \in kinds, m \in 0 .. NumThreads - 1 :
           /\ thread[<<kind, m>>].step # "unborn"
           /\ m < i => thread[<<kind, m>>].step = "ended"
      /\ \A c \in Copiers : thread[c].step = "ended"
      /\ SharesQueue(SourceHashers, sourceQueueIndex) /\ SharesQueue(DestHashers, destQueueIndex)
  BY <1>1 DEF SlingerInv, TypeOK, CopierLoops, HasherLoops, Joined, Copying
<1>3. pc' \in {"joinHashers", "compare"} /\ i' \in Nat
  BY <1>1, <1>2
<1>4. \A kind \in kinds, m \in 0 .. NumThreads - 1 :
        m < i + 1 => thread[<<kind, m>>].step = "ended"
  <2> SUFFICES ASSUME NEW kind \in kinds, NEW m \in 0 .. NumThreads - 1, m < i + 1
               PROVE  thread[<<kind, m>>].step = "ended"
    OBVIOUS
  <2>1. m = i \/ m < i
    BY <1>2
  <2> QED
    BY <1>1, <1>2, <2>1
<1>5. pc' = "compare" => \A h \in SourceHashers \cup DestHashers : thread[h].step = "ended"
  <2> SUFFICES ASSUME pc' = "compare", NEW h \in SourceHashers \cup DestHashers
               PROVE  thread[h].step = "ended"
    OBVIOUS
  <2>1. ~(i + 1 < NumThreads)
    BY <1>1
  <2>2. PICK kind \in kinds, m \in 0 .. NumThreads - 1 : h = <<kind, m>>
    BY HasherNumbers
  <2>3. m < i + 1
    BY <1>2, <2>1, Numbers
  <2> QED
    BY <1>4, <2>2, <2>3
<1>6. TypeOK'
  BY <1>1, <1>3 DEF TypeOK
<1>7. CopierLoops'
  BY <1>1, <1>2, <1>3 DEF CopierLoops
<1>8. HasherLoops'
  <2>1. pc' = "joinHashers" => Joined(kinds, NumThreads)'
    BY <1>1, <1>2, <1>4 DEF Joined
  <2> QED
    BY <1>1, <1>3, <1>5, <2>1 DEF SlingerInv, HasherLoops, Copying
<1>9. NoSharedElement' /\ CopiesInOrder'
  BY <1>1 DEF SlingerInv, NoSharedElement, CopiesInOrder, Working
<1>10. SharesQueue(SourceHashers, sourceQueueIndex)' /\ SharesQueue(DestHashers, destQueueIndex)'
  BY <1>1, <1>2 DEF SharesQueue, Working
<1>11. NoneLeftOut'
  BY <1>3 DEF NoneLeftOut, Copying
<1>12. HashesAgree'
  BY <1>1 DEF SlingerInv, HashesAgree
<1>13. CopiedExactlyOnce' /\ verdict' = "none"
  BY <1>1, <1>3 DEF SlingerInv, CopiedExactlyOnce
<1> QED
  BY <1>3, <1>6, <1>7, <1>8, <1>9, <1>10, <1>11, <1>12, <1>13
  DEF SlingerInv, VerdictRight, Copying

\* When all hashers have ended, every file is hashed twice.
LEMMA AllHashed ==
  ASSUME SlingerInv, pc = "compare"
  PROVE  \A k \in Index : sourceChecksums[k] = "whole" /\ destChecksums[k] = dest[k].content
<1> SUFFICES ASSUME NEW k \in Index
             PROVE  sourceChecksums[k] = "whole" /\ destChecksums[k] = dest[k].content
  OBVIOUS
<1>1. \A h \in SourceHashers \cup DestHashers : thread[h].step = "ended"
  BY DEF SlingerInv, HasherLoops
<1>2. sourceQueueIndex >= NumFiles /\ destQueueIndex >= NumFiles
  BY <1>1, HasherNumbers DEF SlingerInv, Hashing, SharesQueue
<1>3. k < sourceQueueIndex /\ k < destQueueIndex
  BY <1>2, Numbers, Types DEF SlingerInv
<1>4. ~InHand(SourceHashers, k) /\ ~InHand(DestHashers, k)
  BY <1>1 DEF InHand
<1> QED
  BY <1>3, <1>4, Hashed DEF Hashing

LEMMA CompareInv ==
  ASSUME SlingerInv, Compare
  PROVE  SlingerInv'
<1>1. /\ TypeOK /\ pc = "compare" /\ Hashing
      /\ verdict' = IF sourceChecksums = destChecksums THEN "match" ELSE "mismatch"
      /\ pc' \in {"done", "aborted"}
      /\ UNCHANGED <<dest, sourceQueueIndex, destQueueIndex, sourceChecksums, destChecksums,
                     progress, thread, i, copies>>
  BY DEF SlingerInv, Compare, queues, sums, Hashing
<1>2. sourceChecksums = destChecksums <=> \A k \in Index : dest[k].content = "whole"
  <2>1. sourceChecksums = destChecksums <=>
          \A k \in Index : sourceChecksums[k] = destChecksums[k]
    BY <1>1, Types
  <2> QED
    BY <1>1, <2>1, AllHashed
<1>3. VerdictRight'
  BY <1>1, <1>2 DEF VerdictRight
<1>4. TypeOK'
  BY <1>1 DEF TypeOK
<1>5. CopierLoops' /\ HasherLoops'
  BY <1>1 DEF SlingerInv, CopierLoops, HasherLoops, Copying
<1>6. NoSharedElement' /\ CopiesInOrder'
  BY <1>1 DEF SlingerInv, NoSharedElement, CopiesInOrder, Working
<1>7. SharesQueue(SourceHashers, sourceQueueIndex)' /\ SharesQueue(DestHashers, destQueueIndex)'
  BY <1>1 DEF SlingerInv, SharesQueue, Working
<1>8. NoneLeftOut'
  BY <1>1 DEF NoneLeftOut, Copying
<1>9. HashesAgree'
  BY <1>1 DEF SlingerInv, HashesAgree
<1>10. CopiedExactlyOnce'
  BY <1>1 DEF SlingerInv, CopiedExactlyOnce
<1> QED
  BY <1>1, <1>3, <1>4, <1>5, <1>6, <1>7, <1>8, <1>9, <1>10 DEF SlingerInv, Copying

-------------------------------------------------------------------------------
(* The invariant holds, and what follows from it. *)

LEMMA InitSlingerInv ==
  ASSUME Init
  PROVE  SlingerInv
<1>1. /\ dest \in [Index -> OldFiles] /\ sourceQueueIndex = 0 /\ destQueueIndex = 0
      /\ \A k \in Index : sourceChecksums[k] = "" /\ destChecksums[k] = ""
      /\ \A t \in Threads : thread[t].step = "unborn" /\ thread[t].index = 0
      /\ pc = "spawn" /\ i = 0 /\ verdict = "none"
  BY DEF Init
<1>11. \A k \in Index : copies[k] = 0
  BY DEF Init
<1>2. TypeOK
  <2>1. dest \in [Index -> FileRecord]
    BY <1>1, TreeSlingerAssumption
  <2>2. thread \in [Threads -> [step : ThreadSteps, index : Nat]]
    <3>1. [step |-> "unborn", index |-> 0] \in [step : ThreadSteps, index : Nat]
      BY DEF ThreadSteps
    <3> QED
      BY <3>1 DEF Init
  <2>3. /\ sourceChecksums \in [Index -> Checksums] /\ destChecksums \in [Index -> Checksums]
        /\ progress \in Nat /\ copies \in [Index -> Nat]
    BY DEF Init, Checksums
  <2> QED
    BY <1>1, <2>1, <2>2, <2>3 DEF TypeOK
<1>3. CopierLoops
  <2>1. \A kind \in {"copier"}, m \in 0 .. NumCopiers - 1 :
          thread[<<kind, m>>].step = "unborn"
    BY <1>1, Groups, CopierNumbers
  <2>2. Spawned({"copier"}, NumCopiers)
    <3>1. i = 0
      BY DEF Init
    <3>2. \A m \in 0 .. NumCopiers - 1 : m >= i
      BY <3>1
    <3> QED
      BY <2>1, <3>1, <3>2, Numbers DEF Spawned
  <2>3. \A c \in Copiers : thread[c].step # "hash"
    BY <1>1, Groups
  <2> QED
    BY <1>1, <2>2, <2>3 DEF CopierLoops, Copying
<1>4. HasherLoops
  BY <1>1, Groups DEF HasherLoops
<1>5. NoSharedElement /\ SharesQueue(Copiers, sourceQueueIndex)
  BY <1>1, Groups DEF NoSharedElement, SharesQueue, Working
<1>6. \A k \in Index : dest[k] = Absent \/ dest[k].content = "old"
  BY <1>1, TreeSlingerAssumption
<1>7. CopiesInOrder
  <2>1. \A k \in Index : copies[k] \in {0, 1} /\ copies[k] # 1
    BY <1>11
  <2>2. \A c \in Copiers : thread[c].step = "unborn"
    BY <1>1, Groups
  <2> QED
    BY <2>1, <2>2 DEF CopiesInOrder
<1>8. NoneLeftOut
  <2>1. \A k \in Index : ~(k < 0)
    BY Numbers
  <2> QED
    BY <1>1, <1>6, <1>11, <2>1 DEF NoneLeftOut
<1>9. HashesAgree
  BY <1>1 DEF HashesAgree, Hashing
<1>10. CopiedExactlyOnce
  <2>1. \A k \in Index : copies[k] <= 1
    BY <1>11
  <2>2. pc = "spawn"
    BY DEF Init
  <2> QED
    BY <2>1, <2>2 DEF CopiedExactlyOnce
<1> QED
  BY <1>1, <1>2, <1>3, <1>4, <1>5, <1>7, <1>8, <1>9, <1>10
  DEF SlingerInv, VerdictRight, Hashing

LEMMA NextSlingerInv ==
  ASSUME SlingerInv, [Next]_vars
  PROVE  SlingerInv'
<1>1. CASE MainStep
  BY <1>1, SpawnCopierInv, JoinCopierInv, StartVerifyingInv, SpawnHashersInv, JoinHashersInv,
     CompareInv DEF MainStep
<1>2. ASSUME NEW t \in Threads, ThreadStep(t)
      PROVE  SlingerInv'
  <2>1. CASE t \in Copiers /\ (ClaimSource(t) \/ OpenFiles(t) \/ Execute(t) \/ Account(t))
    BY <2>1, ClaimSourceInv, OpenFilesInv, ExecuteInv, AccountInv
  <2>2. CASE t \in SourceHashers /\ (ClaimSource(t) \/ HashSource(t))
    BY <2>2, ClaimSourceInv, HashSourceInv
  <2>3. CASE t \in DestHashers /\ (ClaimDest(t) \/ HashDest(t))
    BY <2>3, ClaimDestInv, HashDestInv
  <2>4. CASE Throw(t)
    BY <2>4, ThrowInv
  <2> QED
    BY <1>2, <2>1, <2>2, <2>3, <2>4 DEF ThreadStep
<1>3. CASE UNCHANGED vars
  <2>1. UNCHANGED <<dest, sourceQueueIndex, destQueueIndex, sourceChecksums, destChecksums,
                    progress, thread, pc, i, verdict, copies>>
    BY <1>3 DEF vars, queues, sums, main
  <2>2. TypeOK' /\ CopierLoops' /\ HasherLoops'
    BY <2>1 DEF SlingerInv, TypeOK, CopierLoops, HasherLoops, Spawned, Joined, Copying
  <2>3. NoSharedElement' /\ CopiesInOrder'
    BY <2>1 DEF SlingerInv, NoSharedElement, CopiesInOrder, Working
  <2>4. NoneLeftOut'
    BY <2>1 DEF SlingerInv, NoneLeftOut, Copying
  <2>5. HashesAgree'
    BY <2>1 DEF SlingerInv, HashesAgree, Hashing
  <2>6. CopiedExactlyOnce' /\ VerdictRight'
    BY <2>1 DEF SlingerInv, CopiedExactlyOnce, VerdictRight
  <2> QED
    BY <2>1, <2>2, <2>3, <2>4, <2>5, <2>6 DEF SlingerInv, SharesQueue, Working, Copying, Hashing
<1> QED
  BY <1>1, <1>2, <1>3 DEF Next

\* The queues, the loops of the main thread and the files fit together at every moment,
\* for any number of files and of threads.
THEOREM SlingerInvariant == Spec => []SlingerInv
<1>1. Init => SlingerInv
  BY InitSlingerInv
<1>2. SlingerInv /\ [Next]_vars => SlingerInv'
  BY NextSlingerInv
<1> QED
  BY <1>1, <1>2, PTL DEF Spec

\* Every variable keeps its type; an index at work is that of a file.
THEOREM SlingerTypes == Spec => []TypeOK
<1>1. SlingerInv => TypeOK
  BY DEF SlingerInv
<1> QED
  BY <1>1, SlingerInvariant, PTL

\* _get_next_source_index and _get_next_dest_index give no file to two threads at once.
THEOREM NoFileShared == Spec => []NoSharedElement
<1>1. SlingerInv => NoSharedElement
  BY DEF SlingerInv
<1> QED
  BY <1>1, SlingerInvariant, PTL

\* The copiers leave out no file and copy none twice, before their threads are joined.
THEOREM EachCopiedOnce == Spec => []CopiedExactlyOnce
<1>1. SlingerInv => CopiedExactlyOnce
  BY DEF SlingerInv
<1> QED
  BY <1>1, SlingerInvariant, PTL

\* verify_threaded hashes no destination file whose copy is not finished.
THEOREM HashedAfterCopy == Spec => []HashedWhenFinished
<1>1. SlingerInv => HashedWhenFinished
  BY DEF SlingerInv, HashesAgree, CopiesInOrder, HashedWhenFinished
<1> QED
  BY <1>1, SlingerInvariant, PTL

\* verify_threaded compares complete lists, and its result is right.
THEOREM VerdictIsRight == Spec => []VerdictRight
<1>1. SlingerInv => VerdictRight
  BY DEF SlingerInv
<1> QED
  BY <1>1, SlingerInvariant, PTL

-------------------------------------------------------------------------------
(* The progress. *)

Accounting(c, k) == thread[c].step = "account" /\ thread[c].index = k

\* What is counted is told by the copiers that are about to count and by the copies.
LEMMA CountedIs ==
  ASSUME NEW k
  PROVE  Counted(k) <=> copies[k] > 0 /\ \A c \in Copiers : ~ Accounting(c, k)
BY DEF Counted, Accounting

\* A step that copies nothing, and begins or ends no accounting, counts nothing.
LEMMA ProgressKept ==
  ASSUME ProgressInv, UNCHANGED <<copies, progress>>,
         \A c \in Copiers : thread'[c].step = "account" =>
           thread'[c] = thread[c] /\ dest'[thread[c].index] = dest[thread[c].index],
         \A c \in Copiers : thread[c].step = "account" => thread'[c] = thread[c]
  PROVE  ProgressInv'
<1>1. \A c \in Copiers, k \in Index : Accounting(c, k)' <=> Accounting(c, k)
  BY DEF Accounting
<1>2. \A k \in Index : Counted(k)' <=> Counted(k)
  BY <1>1, CountedIs DEF Counted, Accounting
<1>3. CountedFiles' = CountedFiles
  BY <1>2 DEF CountedFiles
<1>4. Debug => progress' = SumFunctionOnSet(SourceSize, CountedFiles')
  BY <1>3 DEF ProgressInv
<1>5. ASSUME NEW c \in Copiers, thread'[c].step = "account"
      PROVE  LET k == thread'[c].index IN
             copies'[k] = 1 /\ (Debug => dest'[k].size = SourceSize[k])
  BY <1>5 DEF ProgressInv
<1> QED
  BY <1>4, <1>5 DEF ProgressInv

\* What is copied is not counted before the copier has got the lock.
LEMMA ExecuteCounts ==
  ASSUME SlingerInv, ProgressInv, NEW c \in Copiers, Execute(c)
  PROVE  ProgressInv'
<1> DEFINE k == thread[c].index
           copied == [content |-> "whole", size |-> SourceSize[k]]
<1>1. /\ TypeOK /\ c \in Threads /\ thread[c].step = "execute" /\ Working(c) /\ k \in Index
      /\ GoTo(c, "account") /\ progress' = progress
      /\ copies' = [copies EXCEPT ![k] = @ + 1]
      /\ dest' = IF dest[k].content = "partial" THEN [dest EXCEPT ![k] = copied] ELSE dest
      /\ Debug => dest'[k].size = SourceSize[k]
  BY Groups, Types DEF SlingerInv, Execute, Working
<1>2. copies[k] = 0
  BY <1>1 DEF SlingerInv, CopiesInOrder
<1>3. copies'[k] = 1 /\ \A j \in Index : j # k => copies'[j] = copies[j] /\ dest'[j] = dest[j]
  BY <1>1, <1>2, Types
<1>4. /\ thread'[c].step = "account" /\ thread'[c].index = k
      /\ \A u \in Threads : u # c => thread'[u] = thread[u]
  BY <1>1, GoToFacts, Types DEF ThreadSteps
<1> HIDE DEF k, copied
<1>5. \A u \in Copiers : u # c /\ thread[u].step = "account" =>
        thread[u].index # k /\ thread[u].index \in Index
  BY <1>1, Groups, Types DEF SlingerInv, NoSharedElement, Working, k
<1>6. \A j \in Index : Counted(j)' <=> Counted(j)
  <2> TAKE j \in Index
  <2>1. CASE j = k
    BY <1>2, <1>4, <2>1 DEF Counted
  <2>2. CASE j # k
    <3>1. \A u \in Copiers : Accounting(u, j)' <=> Accounting(u, j)
      BY <1>1, <1>4, <2>2, Groups DEF Accounting, k
    <3> QED
      BY <1>3, <2>2, <3>1 DEF Counted, Accounting
  <2> QED
    BY <2>1, <2>2
<1>7. CountedFiles' = CountedFiles
  BY <1>6 DEF CountedFiles
<1>8. Debug => progress' = SumFunctionOnSet(SourceSize, CountedFiles')
  BY <1>1, <1>7 DEF ProgressInv
<1>9. ASSUME NEW u \in Copiers, thread'[u].step = "account"
      PROVE  LET j == thread'[u].index IN
             copies'[j] = 1 /\ (Debug => dest'[j].size = SourceSize[j])
  <2>1. CASE u = c
    BY <1>1, <1>3, <1>4, <2>1 DEF k
  <2>2. CASE u # c
    BY <1>3, <1>4, <1>5, <1>9, <2>2, Groups DEF ProgressInv
  <2> QED
    BY <2>1, <2>2
<1> QED
  BY <1>8, <1>9 DEF ProgressInv

\* _increment_progress adds the size of one file, which was not yet counted.
LEMMA AccountCounts ==
  ASSUME SlingerInv, ProgressInv, NEW c \in Copiers, Account(c)
  PROVE  ProgressInv'
<1> DEFINE k == thread[c].index
<1>1. /\ TypeOK /\ c \in Threads /\ thread[c].step = "account" /\ Working(c) /\ k \in Index
      /\ GoTo(c, "claim") /\ progress' = progress + dest[k].size
      /\ dest' = dest /\ copies' = copies
  BY Groups, Types DEF SlingerInv, Account, Working
<1>2. /\ thread'[c].step = "claim" /\ thread'[c].index = k
      /\ \A u \in Threads : u # c => thread'[u] = thread[u]
  BY <1>1, GoToFacts, Types DEF ThreadSteps
<1> HIDE DEF k
<1>3. copies[k] = 1 /\ (Debug => dest[k].size = SourceSize[k])
  BY <1>1 DEF ProgressInv, k
<1>4. \A u \in Copiers : u # c => ~ Accounting(u, k)
  BY <1>1, Groups DEF SlingerInv, NoSharedElement, Working, Accounting, k
<1>5. k \notin CountedFiles
  BY <1>1 DEF CountedFiles, Counted, k
<1>6. \A j \in Index : Counted(j)' <=> Counted(j) \/ j = k
  <2> TAKE j \in Index
  <2>1. CASE j = k
    BY <1>1, <1>2, <1>3, <1>4, <2>1, Groups DEF Counted, Accounting
  <2>2. CASE j # k
    <3>1. \A u \in Copiers : Accounting(u, j)' <=> Accounting(u, j)
      BY <1>1, <1>2, <2>2, Groups DEF Accounting, k
    <3> QED
      BY <1>1, <2>2, <3>1 DEF Counted, Accounting
  <2> QED
    BY <2>1, <2>2
<1>7. CountedFiles' = CountedFiles \cup {k}
  BY <1>1, <1>6 DEF CountedFiles
<1>8. ASSUME Debug PROVE progress' = SumFunctionOnSet(SourceSize, CountedFiles')
  <2>1. IsFiniteSet(Index)
    BY Numbers, FS_Interval DEF Index
  <2>2. /\ IsFiniteSet(CountedFiles') /\ k \in CountedFiles' /\ CountedFiles' \ {k} = CountedFiles
        /\ CountedFiles' \subseteq Index
    BY <1>1, <1>5, <1>7, <2>1, FS_Subset DEF CountedFiles
  <2>3. \A x \in CountedFiles' : SourceSize[x] \in Nat
    BY <2>2, Numbers
  <2> DEFINE now == CountedFiles'
  <2> HIDE DEF now
  <2>4. SumFunctionOnSet(SourceSize, now) = SourceSize[k] + SumFunctionOnSet(SourceSize, now \ {k})
    BY <2>2, <2>3, SumTakes DEF now
  <2>5. progress' = progress + SourceSize[k]
    BY <1>1, <1>3, <1>8
  <2>6. progress = SumFunctionOnSet(SourceSize, now \ {k}) /\ progress \in Nat
    BY <1>1, <1>8, <2>2 DEF ProgressInv, TypeOK, now
  <2>7. SourceSize[k] \in Nat
    BY <1>1, Numbers
  <2> QED
    BY <2>4, <2>5, <2>6, <2>7 DEF now
<1>9. ASSUME NEW u \in Copiers, thread'[u].step = "account"
      PROVE  LET j == thread'[u].index IN
             copies'[j] = 1 /\ (Debug => dest'[j].size = SourceSize[j])
  BY <1>1, <1>2, <1>9, Groups DEF ProgressInv
<1> QED
  BY <1>8, <1>9 DEF ProgressInv

\* The other steps of a thread.
LEMMA ThreadCounts ==
  ASSUME SlingerInv, ProgressInv, NEW t \in Threads, ThreadStep(t)
  PROVE  ProgressInv'
<1>0. /\ TypeOK /\ thread \in [Threads -> ThreadRecord] /\ copies \in [Index -> Nat]
      /\ sourceQueueIndex \in Nat /\ destQueueIndex \in Nat
  BY Types DEF SlingerInv, TypeOK
<1>1. ASSUME NEW q \in Nat, thread[t].step = "claim", Take(t, q, Work(t)),
             UNCHANGED <<dest, progress, copies>>
      PROVE  ProgressInv'
  <2>1. Work(t) \in ThreadSteps /\ Work(t) # "account"
    BY DEF Work, ThreadSteps
  <2>2. /\ thread'[t].step # "account"
        /\ \A u \in Threads : u # t => thread'[u] = thread[u]
    BY <1>0, <1>1, <2>1, TakeFacts
  <2> QED
    BY <1>1, <2>2, Groups, ProgressKept
<1>2. CASE t \in Copiers /\ OpenFiles(t)
  <2>1. /\ thread[t].step = "open" /\ GoTo(t, "execute") /\ Working(t)
        /\ UNCHANGED <<progress, copies>> /\ thread[t].index \in Index
        /\ \A j \in Index : j # thread[t].index => dest'[j] = dest[j]
    BY <1>0, <1>2, Types DEF OpenFiles, Working
  <2>2. /\ thread'[t].step = "execute"
        /\ \A u \in Threads : u # t => thread'[u] = thread[u]
    BY <1>0, <2>1, GoToFacts DEF ThreadSteps
  <2>3. \A u \in Copiers : u # t /\ thread[u].step = "account" =>
          thread[u].index # thread[t].index /\ thread[u].index \in Index
    BY <1>0, <1>2, <2>1, Groups, Types DEF SlingerInv, NoSharedElement, Working
  <2> QED
    BY <2>1, <2>2, <2>3, Groups, ProgressKept
<1>3. CASE (t \in SourceHashers /\ HashSource(t)) \/ (t \in DestHashers /\ HashDest(t))
  <2>1. /\ thread[t].step = "hash" /\ GoTo(t, "claim")
        /\ UNCHANGED <<dest, progress, copies>>
    BY <1>3 DEF HashSource, HashDest
  <2>2. /\ thread'[t].step = "claim"
        /\ \A u \in Threads : u # t => thread'[u] = thread[u]
    BY <1>0, <2>1, GoToFacts DEF ThreadSteps
  <2> QED
    BY <2>1, <2>2, Groups, ProgressKept
<1>4. CASE Throw(t)
  BY <1>4, ProgressKept DEF Throw
<1>5. CASE ClaimSource(t) /\ t \in Copiers \cup SourceHashers
  BY <1>0, <1>1, <1>5 DEF ClaimSource
<1>6. CASE ClaimDest(t)
  BY <1>0, <1>1, <1>6 DEF ClaimDest
<1>7. CASE t \in Copiers /\ (Execute(t) \/ Account(t))
  BY <1>7, ExecuteCounts, AccountCounts
<1> QED
  BY <1>2, <1>3, <1>4, <1>5, <1>6, <1>7 DEF ThreadStep

\* The main thread starts threads, which have nothing to count yet, and counts nothing.
LEMMA MainCounts ==
  ASSUME SlingerInv, ProgressInv, MainStep
  PROVE  ProgressInv'
<1>0. /\ TypeOK /\ thread \in [Threads -> ThreadRecord] /\ i \in Nat
  BY Types DEF SlingerInv, TypeOK
<1>1. CASE SpawnCopier
  <2>1. /\ Start({<<"copier", i>>}) /\ UNCHANGED <<dest, progress, copies>>
        /\ pc = "spawn"
    BY <1>1 DEF SpawnCopier, Round
  <2>2. thread[<<"copier", i>>].step = "unborn"
    <3>1. Spawned({"copier"}, NumCopiers)
      BY <2>1 DEF SlingerInv, CopierLoops
    <3>2. i \in 0 .. NumCopiers - 1
      BY <1>0, <3>1, Numbers DEF Spawned
    <3>3. thread[<<"copier", i>>].step = "unborn" <=> i >= i
      BY <3>1, <3>2 DEF Spawned
    <3> QED
      BY <1>0, <3>3
  <2>3. \A u \in Threads : /\ u = <<"copier", i>> => thread'[u].step = "claim"
                           /\ u # <<"copier", i>> => thread'[u] = thread[u]
    BY <1>0, <2>1, StartFacts
  <2> QED
    BY <2>1, <2>2, <2>3, Groups, ProgressKept
<1>2. CASE SpawnHashers
  <2> DEFINE started == {<<"sourceHasher", i>>, <<"destHasher", i>>}
  <2>1. Start(started) /\ UNCHANGED <<dest, progress, copies>>
    BY <1>2 DEF SpawnHashers
  <2>2. \A c \in Copiers : c \notin started
    BY DEF Copiers
  <2> HIDE DEF started
  <2>3. \A c \in Copiers : thread'[c] = thread[c]
    BY <1>0, <2>1, <2>2, Groups, StartFacts
  <2> QED
    BY <2>1, <2>3, ProgressKept
<1>3. CASE JoinCopier \/ StartVerifying \/ JoinHashers \/ Compare
  BY <1>3, ProgressKept DEF JoinCopier, StartVerifying, JoinHashers, Compare
<1> QED
  BY <1>1, <1>2, <1>3 DEF MainStep

LEMMA InitCounts ==
  ASSUME Init
  PROVE  ProgressInv
<1>1. /\ \A t \in Threads : thread[t].step = "unborn"
      /\ \A k \in Index : copies[k] = 0
      /\ progress = 0
  BY DEF Init
<1>2. CountedFiles = {}
  BY <1>1 DEF CountedFiles, Counted
<1>3. SumFunctionOnSet(SourceSize, {}) = 0
  <2>1. \A s : s = {} => SumFunctionOnSet(SourceSize, s) = 0
    BY FS_EmptySet, SumEquations
  <2> QED
    BY <2>1
<1> QED
  BY <1>1, <1>2, <1>3, Groups DEF ProgressInv

\* The progress is the sum of the sizes of the files whose copies have been counted.
THEOREM ProgressInvariant == Spec => []ProgressInv
<1>1. Init => ProgressInv
  BY InitCounts
<1>2. SlingerInv /\ ProgressInv /\ [Next]_vars => ProgressInv'
  <2>1. CASE UNCHANGED vars
    BY <2>1, ProgressKept DEF vars, queues, sums, main
  <2> QED
    BY <2>1, ThreadCounts, MainCounts DEF Next
<1> QED
  BY <1>1, <1>2, SlingerInvariant, PTL DEF Spec

\* is_complete() is true exactly when every file that has any bytes is copied and counted.
THEOREM CompleteIsCopied == Spec => []CompleteMeansCopied
<1>1. TypeOK /\ ProgressInv => CompleteMeansCopied
  <2> SUFFICES ASSUME TypeOK, ProgressInv, Debug
               PROVE  IsComplete <=>
                        TotalSize > 0 /\ \A k \in Index : SourceSize[k] > 0 => Counted(k)
    BY DEF CompleteMeansCopied
  <2>1. IsFiniteSet(Index) /\ CountedFiles \in SUBSET Index
    BY Numbers, FS_Interval DEF Index, CountedFiles
  <2>2. \A k \in Index : SourceSize[k] \in Nat
    BY Numbers
  <2>3. progress = SumFunctionOnSet(SourceSize, CountedFiles)
    BY DEF ProgressInv
  <2>4. /\ SumFunctionOnSet(SourceSize, CountedFiles) <= TotalSize
        /\ SumFunctionOnSet(SourceSize, CountedFiles) = TotalSize <=>
             \A k \in Index \ CountedFiles : SourceSize[k] = 0
    BY <2>1, <2>2, SumOfPart DEF TotalSize
  <2>5. TotalSize \in Nat /\ progress \in Nat
    BY <2>1, <2>2, SumIsNatural DEF TotalSize, TypeOK
  <2>6. progress >= TotalSize <=> \A k \in Index \ CountedFiles : SourceSize[k] = 0
    BY <2>3, <2>4, <2>5
  <2>7. (\A k \in Index \ CountedFiles : SourceSize[k] = 0) <=>
          \A k \in Index : SourceSize[k] > 0 => Counted(k)
    BY <2>2 DEF CountedFiles
  <2> QED
    BY <2>6, <2>7 DEF IsComplete
<1> QED
  BY <1>1, SlingerTypes, ProgressInvariant, PTL
===============================================================================
