---------------------------- MODULE TransferProofs ----------------------------
(***************************************************************************)
(* Proofs about Transfer, for every buffer length, every width of the      *)
(* counters and of the bar, every set of source lengths and of existing    *)
(* destinations, in both builds, with and without faults, _overwrite and   *)
(* inline hashing.                                                         *)
(***************************************************************************)
EXTENDS Transfer, FileCopyProofs, FiniteSetTheorems

-------------------------------------------------------------------------------
(* Type correctness. *)

LEMMA SourceLength ==
  \A n \in SourceSizes :
    n \in Nat /\ n < SizeMod /\ n + TotalWritableLength + BufferLength < SizeMod - 1
<1>1. ASSUME NEW n \in SourceSizes
      PROVE  n \in Nat /\ n < SizeMod /\ n + TotalWritableLength + BufferLength < SizeMod - 1
  <2> DEFINE half == SizeMod \div 2
  <2>1. n \in 0 .. half - 1
    BY TransferAssumption
  <2>2. half \in Int /\ half + half <= SizeMod
    BY Bounds
  <2> HIDE DEF half
  <2>3. IntHalf \in Nat /\ SizeMod > 2 * IntHalf /\ TotalWritableLength + BufferLength < IntHalf
        /\ TotalWritableLength \in Nat /\ BufferLength \in Nat /\ SizeMod \in Nat
    BY Bounds
  <2> QED
    BY <2>1, <2>2, <2>3
<1> QED
  BY <1>1

LEMMA TargetType ==
  \A t \in Targets : /\ t \in [dir : BOOLEAN, exists : BOOLEAN, data : Seq(Int)]
                     /\ t.exists => t.dir
                     /\ ~t.exists => t.data = <<>>
BY TransferAssumption

LEMMA BarTypes ==
  /\ NewProgress \in [maximum : Nat, state : 0 .. SizeMod - 1]
  /\ BlankText \in [0 .. Width - 1 -> {"?", "-", "#"}]
<1>1. 0 \in 0 .. SizeMod - 1
  BY Bounds
<1> QED
  BY <1>1 DEF NewProgress, BlankText

\* A count of a size_t is one after an addition too.
LEMMA SizeModulo ==
  ASSUME NEW x \in Nat
  PROVE  x % SizeMod \in 0 .. SizeMod - 1
<1>1. SizeMod \in Nat /\ SizeMod > 0
  BY Bounds
<1> QED
  BY <1>1

\* The text printed is one of the characters of a bar.
LEMMA GetBarType ==
  ASSUME NEW b, NEW t \in [0 .. Width - 1 -> {"?", "-", "#"}], NEW m,
         NEW drawn \in GetBar(b, t, m)
  PROVE  drawn \in [0 .. Width - 1 -> {"?", "-", "#"}]
<1>1. ASSUME NEW e PROVE Draw(t, e) \in [0 .. Width - 1 -> {"?", "-", "#"}]
  BY DEF Draw
<1>2. drawn = t \/ drawn = Draw(t, 0) \/ drawn = Draw(t, Elapsed(b))
  BY DEF GetBar
<1> QED
  BY <1>1, <1>2

LEMMA InitType == ASSUME Init PROVE TypeOK
<1>1. /\ srcLen \in Nat
      /\ target \in [dir : BOOLEAN, exists : BOOLEAN, data : Seq(Int)]
  BY SourceLength, TargetType DEF Init
<1>2. FileCopyTypeOK
  BY <1>1, ConstructInitType DEF Init
<1> QED
  BY <1>2, BarTypes DEF Init, TypeOK, ProgramCounters

\* The bytes at the processing cursor.
LEMMA ProcessingBytesSeq ==
  ASSUME buff \in RingRecord, NEW k \in 0 .. BufferLength
  PROVE  /\ ProcessingBytes(k) \in Seq(Int)
         /\ Len(ProcessingBytes(k)) = k
         /\ \A j \in 1 .. k :
              ProcessingBytes(k)[j] = buff.ring[buff.processingIndex][j - 1]
<1>1. /\ buff.processingIndex \in SlotIndex
      /\ buff.ring \in [SlotIndex -> [SampleIndex -> Int]]
  BY DEF RingRecord, Sample
<1>2. k \in Nat /\ \A j \in 1 .. k : j - 1 \in SampleIndex
  BY Bounds
<1>3. ProcessingBytes(k) \in [1 .. k -> Int]
  BY <1>1, <1>2 DEF ProcessingBytes
<1>4. ProcessingBytes(k) \in Seq(Int)
  BY <1>2, <1>3, SeqDef
<1>5. Len(ProcessingBytes(k)) = k
  BY <1>2, <1>3, <1>4, LenProperties
<1> QED
  BY <1>4, <1>5 DEF ProcessingBytes

LEMMA HashType ==
  ASSUME TypeOK, LoopHash
  PROVE  FileCopyTypeOK' /\ hashed' \in Nat \cup {Foreign}
<1>1. buff \in RingRecord /\ buff.buffered \in Int
  BY RingTypes DEF TypeOK
<1> DEFINE k == WriteLength(buff.buffered)
<1>2. k \in 0 .. BufferLength /\ BufferLength \in Nat
  BY <1>1, WriteLengthBound, Bounds
<1> HIDE DEF k
<1>3. buff' \in RingRecord
  <2>1. buff' = RotatePartialProcessing(buff, k)
    BY DEF LoopHash, k
  <2> QED
    BY <1>1, <1>2, <2>1, RotatePartialProcessingFields
<1>4. FileCopyTypeOK'
  BY <1>3 DEF TypeOK, LoopHash, FileCopyTypeOK, environment, counters
<1> DEFINE bytes == ProcessingBytes(k)
<1>5. Len(bytes) \in Nat
  BY <1>1, <1>2, ProcessingBytesSeq
<1> HIDE DEF bytes
<1>6. hashed' = Fed(bytes)
  BY DEF LoopHash, k, bytes
<1>7. hashed \in Nat \cup {Foreign}
  BY DEF TypeOK
<1>8. hashed' \in Nat \cup {Foreign}
  BY <1>5, <1>6, <1>7 DEF Fed
<1> QED
  BY <1>4, <1>8

LEMMA FinishType ==
  ASSUME FileCopyTypeOK, Finish
  PROVE  FileCopyTypeOK'
<1>1. /\ CloseDest /\ inStream' = CloseIn
      /\ destSize' = IF target.exists THEN Len(target'.data) ELSE destSize
  BY DEF Finish, CloseStreams
<1>2. /\ inStream' \in [open : BOOLEAN, pos : Nat, fail : BOOLEAN]
      /\ outStream' \in [open : BOOLEAN, fail : BOOLEAN, held : Seq(Int)]
      /\ Len(outStream'.held) < BufferLength /\ (~outStream'.open => outStream'.held = <<>>)
      /\ target' \in [dir : BOOLEAN, exists : BOOLEAN, data : Seq(Int)]
  BY <1>1, CloseDestAppends, Bounds DEF CloseIn, FileCopyTypeOK
<1>3. destSize' \in Nat
  <2>1. Len(target'.data) \in Nat
    BY <1>2, LenProperties
  <2> QED
    BY <1>1, <2>1 DEF FileCopyTypeOK
<1>4. thrown' \in Exceptions \cup {"none"}
  BY DEF Finish, Verdicts, ChecksumVerdicts, Exceptions
<1> QED
  BY <1>2, <1>3, <1>4 DEF Finish, FileCopyTypeOK

LEMMA UnchangedType ==
  ASSUME FileCopyTypeOK, UNCHANGED fileCopyVars
  PROVE  FileCopyTypeOK'
BY DEF FileCopyTypeOK, fileCopyVars, environment, copier, counters

LEMMA PrintType ==
  ASSUME TypeOK, FileCopyTypeOK', PrintBar
  PROVE  /\ bar' \in [maximum : Nat, state : 0 .. SizeMod - 1]
         /\ text' \in [0 .. Width - 1 -> {"?", "-", "#"}]
<1> DEFINE added == AsSize(bytesWritten' - bytesWritten)
           sum   == bar.state + added
<1>1. added \in Nat
  <2>1. bytesWritten' - bytesWritten \in Int
    BY DEF TypeOK, FileCopyTypeOK
  <2> QED
    BY <2>1, AsSizeNat
<1>2. bar \in [maximum : Nat, state : 0 .. SizeMod - 1] /\ sum \in Nat
  BY <1>1 DEF TypeOK
<1>3. bar' = [bar EXCEPT !.state = sum % SizeMod]
  BY DEF PrintBar, IncrementProgress
<1> HIDE DEF sum
<1>4. sum % SizeMod \in 0 .. SizeMod - 1
  BY <1>2, SizeModulo
<1>5. bar' \in [maximum : Nat, state : 0 .. SizeMod - 1]
  BY <1>2, <1>3, <1>4
<1>6. text \in [0 .. Width - 1 -> {"?", "-", "#"}]
      /\ text' \in GetBar(bar', text, IntHalf - 1)
  BY DEF TypeOK, PrintBar
<1> QED
  BY <1>5, <1>6, GetBarType

LEMMA NextType == ASSUME TypeOK, [Next]_vars PROVE TypeOK'
<1>1. /\ FileCopyTypeOK /\ pc \in ProgramCounters
      /\ inline \in BOOLEAN /\ stopped \in BOOLEAN
      /\ hashed \in Nat \cup {Foreign}
      /\ bar \in [maximum : Nat, state : 0 .. SizeMod - 1]
      /\ text \in [0 .. Width - 1 -> {"?", "-", "#"}]
      /\ sourceSize \in Nat
  BY DEF TypeOK, FileCopyTypeOK
<1>2. ASSUME NextFile PROVE TypeOK'
  <2>1. /\ srcLen' \in Nat
        /\ target' \in [dir : BOOLEAN, exists : BOOLEAN, data : Seq(Int)]
    BY <1>2, SourceLength, TargetType DEF NextFile
  <2>2. FileCopyTypeOK'
    BY <1>1, <1>2, <2>1, ResetType DEF NextFile
  <2> QED
    BY <1>1, <1>2, <2>2, BarTypes DEF NextFile, TypeOK, ProgramCounters
<1>3. ASSUME DoOpenSource PROVE TypeOK'
  BY <1>1, <1>3, OpenSourceType DEF DoOpenSource, TypeOK, ProgramCounters, call, progress
<1>4. ASSUME DoOpenDest PROVE TypeOK'
  BY <1>1, <1>4, OpenDestType DEF DoOpenDest, Goto, TypeOK, ProgramCounters, call, progress
<1>5. ASSUME Prefetch PROVE TypeOK'
  <2>1. bar' \in [maximum : Nat, state : 0 .. SizeMod - 1]
    BY <1>1, <1>5, BarTypes DEF Prefetch, SetMaximum
  <2>2. FileCopyTypeOK'
    BY <1>1, <1>5, ReadToBufferType DEF Prefetch
  <2> QED
    BY <1>1, <1>5, <2>1, <2>2 DEF Prefetch, Goto, TypeOK, ProgramCounters, call
<1>6. ASSUME LoopTest PROVE TypeOK'
  BY <1>1, <1>6, UnchangedType DEF LoopTest, TypeOK, ProgramCounters, call, progress
<1>7. ASSUME LoopRead PROVE TypeOK'
  BY <1>1, <1>7, ReadToBufferType
  DEF LoopRead, Goto, TypeOK, ProgramCounters, call, progress
<1>8. ASSUME LoopHash PROVE TypeOK'
  BY <1>1, <1>8, HashType DEF LoopHash, Goto, TypeOK, ProgramCounters, call, progress
<1>9. ASSUME LoopWrite PROVE TypeOK'
  <2>1. FileCopyTypeOK'
    <3>1. buff.buffered \in Int /\ buff.samplesProcessed \in Int
      BY <1>1 DEF FileCopyTypeOK, RingRecord
    <3> QED
      BY <1>1, <1>9, <3>1, WriteOutType
      DEF LoopWrite, WriteFromBuffer, WriteProcessedFromBuffer
  <2>2. /\ bar' \in [maximum : Nat, state : 0 .. SizeMod - 1]
        /\ text' \in [0 .. Width - 1 -> {"?", "-", "#"}]
    BY <1>1, <1>9, <2>1, PrintType DEF LoopWrite, progress
  <2> QED
    BY <1>1, <1>9, <2>1, <2>2 DEF LoopWrite, TypeOK, ProgramCounters, call
<1>10. ASSUME Finish PROVE TypeOK'
  BY <1>1, <1>10, FinishType DEF Finish, TypeOK, ProgramCounters, call, progress
<1>11. ASSUME UNCHANGED vars PROVE TypeOK'
  BY <1>1, <1>11, UnchangedType DEF vars, TypeOK, call, progress
<1> QED
  BY <1>2, <1>3, <1>4, <1>5, <1>6, <1>7, <1>8, <1>9, <1>10, <1>11
  DEF Next, Transferring

\* Every state of a transfer has the types the code declares: the ring's counts and
\* cursors, the size_t counters, the streams, and a bar of Width characters.
THEOREM TransferTypes == Spec => []TypeOK
<1>1. Init => TypeOK
  BY InitType
<1>2. TypeOK /\ [Next]_vars => TypeOK'
  BY NextType
<1> QED
  BY <1>1, <1>2, PTL DEF Spec

-------------------------------------------------------------------------------
(* Every step keeps the inductive invariant. *)

\* What the actions need of a state.
LEMMA InvFacts ==
  ASSUME TransferInv
  PROVE  /\ TypeOK /\ FileCopyTypeOK
         /\ srcLen \in Nat /\ srcLen < SizeMod
         /\ srcLen + TotalWritableLength + BufferLength < SizeMod - 1
         /\ bytesRead \in Nat /\ bytesWritten \in Nat /\ buff.buffered \in Int
         /\ buff \in RingRecord /\ buff.samplesProcessed \in Int
         /\ hashed \in Nat \cup {Foreign} /\ Foreign \notin Nat
         /\ inline \in BOOLEAN /\ stopped \in BOOLEAN
         /\ target.data \in Seq(Int) /\ Len(target.data) \in Nat
         /\ outStream \in [open : BOOLEAN, fail : BOOLEAN, held : Seq(Int)]
         /\ outStream.held \in Seq(Int) /\ Len(outStream.held) \in Nat
         /\ ~outStream.open => outStream.held = <<>>
BY SourceLength, LenProperties
DEF TransferInv, TypeOK, FileCopyTypeOK, RingRecord, Foreign

\* A ring holds at most what fits, so what is written or hashed next is a whole buffer
\* or all there is.
LEMMA NextLength ==
  ASSUME NEW n \in 0 .. TotalWritableLength
  PROVE  /\ WriteLength(n) = IF n <= BufferLength THEN n ELSE BufferLength
         /\ WriteLength(n) \in 0 .. BufferLength
<1>1. AsUInt(n) = n
  BY Bounds, AsUIntNat
<1> QED
  BY <1>1, Bounds DEF WriteLength, Lesser

\* A stream is open only while a file is transferred, or after a failed write.
LEMMA OpenWhileRunning ==
  ASSUME TransferInv, outStream.open, ~outStream.fail
  PROVE  Running
BY DEF TransferInv, TypeOK, ProgramCounters, Running, FreshTransfer, ControlInOrder

\* Nothing hashed is written before: a consequence of the invariant's parts.
LEMMA InvHashed == ASSUME TransferInv PROVE HashedThenWritten
<1> SUFFICES ASSUME inline, ~stopped, outStream.open, ~outStream.fail
             PROVE  /\ hashed # Foreign
                    /\ hashed = bytesWritten + buff.samplesProcessed
                    /\ hashed <= bytesRead
  BY DEF HashedThenWritten
<1>1. Running /\ Created /\ ~Lost /\ Clean
  BY OpenWhileRunning DEF Created, Lost, Clean
<1>2. ~Overrun
  BY <1>1 DEF TransferInv, RingOrdered
<1>3. hashed = bytesWritten + Ahead /\ buff.samplesProcessed = Ahead /\ CountersAgree
  BY <1>1, <1>2 DEF TransferInv, HashedAhead, RingOrdered
<1>4. Ahead \in Nat /\ Ahead <= buff.buffered
  BY <1>3, NextLength, Bounds DEF Ahead, CountersAgree
<1> QED
  BY <1>3, <1>4, InvFacts DEF CountersAgree

LEMMA InitInv == ASSUME Init PROVE TransferInv
<1>1. TypeOK /\ srcLen \in SourceSizes /\ pc = "source"
  BY InitType DEF Init
<1>2. /\ inStream = ClosedIn /\ outStream = ClosedOut /\ thrown = "none"
      /\ started = FALSE /\ firstWritten = FALSE
      /\ sourceSize = 0 /\ bytesRead = 0 /\ bytesWritten = 0 /\ hashed = 0
      /\ buff = NewRing
  BY DEF Init, ConstructInit
<1>3. /\ buff.buffered = 0 /\ buff.readIndex = 0 /\ buff.writeIndex = 1
      /\ buff.processingIndex = 0 /\ buff.samplesProcessed = 0
  BY <1>2 DEF NewRing
<1>4. FreshTransfer
  BY <1>1, <1>2, <1>3 DEF FreshTransfer, Running, ClosedIn, ClosedOut
<1>5. DestCounted
  BY <1>1, <1>2, TargetType DEF Init, DestCounted, Running, Lost, ClosedOut
<1>6. RingOrdered
  BY <1>1 DEF RingOrdered, Running
<1>7. HashedAhead
  <2>1. 0 \in 0 .. TotalWritableLength
    BY Bounds
  <2> QED
    BY <1>1, <1>3, <2>1 DEF HashedAhead, Running
<1>8. ControlInOrder
  BY <1>1, <1>2 DEF ControlInOrder
<1>9. VerifiedWhole
  BY <1>1 DEF VerifiedWhole
<1>10. AlarmsAreReal
  BY <1>2 DEF AlarmsAreReal
<1> QED
  BY <1>1, <1>4, <1>5, <1>6, <1>7, <1>8, <1>9, <1>10 DEF TransferInv

LEMMA NextFileInv == ASSUME TransferInv, TypeOK', NextFile PROVE TransferInv'
<1>1. /\ pc \in {"returned", "failed"} /\ pc' = "source" /\ srcLen' \in SourceSizes
      /\ target' \in Targets /\ stopped' = (stopped \/ pc = "failed") /\ hashed' = 0
  BY DEF NextFile
<1>2. /\ inStream' = ClosedIn /\ outStream' = ClosedOut /\ thrown' = "none"
      /\ started' = FALSE /\ firstWritten' = FALSE
      /\ sourceSize' = 0 /\ bytesRead' = 0 /\ bytesWritten' = 0
      /\ buff' = ForgetSource(ResetRing(buff))
  BY DEF NextFile, ResetCopier, ClearMembers
<1>3. /\ buff'.buffered = 0 /\ buff'.readIndex = 0 /\ buff'.writeIndex = 1
      /\ buff'.processingIndex = 0 /\ buff'.samplesProcessed = buff.samplesProcessed
  <2>1. buff \in RingRecord /\ 0 \in Nat
    BY InvFacts
  <2> QED
    BY <1>2, <2>1, ResetRingFields, WriteSideCounts
<1>4. FreshTransfer'
  BY <1>1, <1>2, <1>3 DEF FreshTransfer, Running, ClosedIn, ClosedOut
<1>5. DestCounted'
  BY <1>1, <1>2, TargetType DEF DestCounted, Running, Lost, ClosedOut
<1>6. RingOrdered'
  BY <1>1 DEF RingOrdered, Running
<1>7. HashedAhead'
  <2>1. HashedAhead /\ ~Running
    BY <1>1 DEF TransferInv, Running
  <2>2. buff.samplesProcessed \in 0 .. TotalWritableLength
    BY <2>1 DEF HashedAhead
  <2>3. Clean' => buff.samplesProcessed = 0
    BY <1>1, <2>1 DEF HashedAhead, Clean
  <2> QED
    BY <1>1, <1>3, <2>2, <2>3 DEF HashedAhead, Running
<1>8. ControlInOrder'
  BY <1>1, <1>2 DEF ControlInOrder
<1>9. VerifiedWhole'
  BY <1>1 DEF VerifiedWhole
<1>10. AlarmsAreReal'
  BY <1>2 DEF AlarmsAreReal
<1> QED
  BY <1>1, <1>4, <1>5, <1>6, <1>7, <1>8, <1>9, <1>10 DEF TransferInv

LEMMA OpenSourceInv == ASSUME TransferInv, TypeOK', DoOpenSource PROVE TransferInv'
<1>1. /\ pc = "source" /\ pc' = IF thrown' = "none" THEN "dest" ELSE "failed"
      /\ UNCHANGED <<srcLen, target, outStream, started, firstWritten, bytesRead,
                     bytesWritten, buff, inline, stopped, hashed>>
      /\ SourceMissing \/ OpenSourceStream
  BY DEF DoOpenSource, OpenSource, environment, call
<1>2. FreshTransfer /\ thrown = "none" /\ sourceSize = 0
  BY <1>1 DEF TransferInv, ControlInOrder, FreshTransfer
<1>3. \/ thrown' = "filesystem_error" /\ pc' = "failed"
      \/ /\ thrown' = "none" /\ pc' = "dest"
         /\ sourceSize' = srcLen /\ inStream'.pos = 0
  <2>1. CASE SourceMissing
    BY <1>1, <2>1 DEF SourceMissing
  <2>2. CASE OpenSourceStream
    <3>1. thrown' = thrown /\ sourceSize' = srcLen
      BY <1>2, <2>2 DEF OpenSourceStream
    <3>2. inStream'.pos = 0
      <4>1. PICK ok : inStream' = [open |-> ok, pos |-> 0, fail |-> ~ok]
        BY <2>2 DEF OpenSourceStream
      <4> QED
        BY <4>1
    <3> QED
      BY <1>1, <1>2, <3>1, <3>2
  <2> QED
    BY <1>1, <2>1, <2>2
<1>4. FreshTransfer'
  BY <1>1, <1>2, <1>3 DEF FreshTransfer, Running
<1>5. DestCounted'
  BY <1>1, <1>3 DEF TransferInv, DestCounted, Running, Lost
<1>6. RingOrdered'
  BY <1>3 DEF RingOrdered, Running
<1>7. HashedAhead'
  BY <1>1, <1>3 DEF TransferInv, HashedAhead, Running, Clean
<1>8. ControlInOrder'
  BY <1>1, <1>2, <1>3 DEF ControlInOrder, FreshTransfer
<1>9. VerifiedWhole'
  BY <1>3 DEF VerifiedWhole
<1>10. AlarmsAreReal'
  BY <1>3 DEF AlarmsAreReal
<1> QED
  BY <1>1, <1>4, <1>5, <1>6, <1>7, <1>8, <1>9, <1>10 DEF TransferInv

\* A file that is opened is empty, and only then counted.
LEMMA OpenDestInv == ASSUME TransferInv, TypeOK', DoOpenDest PROVE TransferInv'
<1>1. /\ pc = "dest" /\ pc' = "prefetch"
      /\ UNCHANGED <<srcLen, inStream, started, firstWritten, sourceSize, bytesRead,
                     bytesWritten, buff, thrown, inline, stopped, hashed>>
      /\ KeepDest \/ CreateDest
  BY DEF DoOpenDest, OpenDest, Goto, call
<1>2. /\ bytesRead = 0 /\ bytesWritten = 0 /\ ~started /\ ~firstWritten /\ hashed = 0
      /\ buff.buffered = 0 /\ buff.readIndex = 0 /\ buff.writeIndex = 1
      /\ inStream.open => inStream.pos = 0
      /\ ~outStream.open /\ thrown = "none" /\ firstWritten = FALSE
      /\ FreshTransfer
  BY <1>1 DEF TransferInv, TypeOK, FileCopyTypeOK, ControlInOrder, FreshTransfer
<1>3. FreshTransfer'
  BY <1>1, <1>2 DEF FreshTransfer, Running
<1>4. CountersAgree' /\ RingFilledInOrder'
  BY <1>1, <1>2, EmptyRingAfter DEF TypeOK
<1>5. ~Lost' /\ ~Overrun'
  BY <1>1, <1>2 DEF Lost, Overrun
<1>6. DestCounted'
  <2>1. target \in [dir : BOOLEAN, exists : BOOLEAN, data : Seq(Int)]
        /\ (target.exists => target.dir) /\ srcLen \in Nat
    BY DEF TransferInv, TypeOK, FileCopyTypeOK, DestCounted
  <2>2. CASE KeepDest
    BY <1>1, <1>2, <1>5, <2>1, <2>2 DEF KeepDest, DestCounted, Created, Lost
  <2>3. CASE CreateDest /\ ~target.dir
    BY <1>1, <1>2, <1>5, <2>1, <2>3 DEF CreateDest, OpenedOut, DestCounted, Created, Lost
  <2>4. CASE CreateDest /\ target.dir
    <3>1. /\ outStream' = [open |-> TRUE, fail |-> FALSE, held |-> <<>>]
          /\ target' = [target EXCEPT !.exists = TRUE, !.data = <<>>]
      BY <2>1, <2>4 DEF CreateDest, OpenedOut
    <3>2. target'.exists /\ target'.dir /\ target'.data = <<>>
          /\ Len(target'.data) = 0
      BY <2>1, <2>4, <3>1
    <3>3. IsSourcePrefix(target.data)'
      BY <1>1, <2>1, <3>2 DEF IsSourcePrefix
    <3>4. outStream'.held = <<>> /\ Len(outStream'.held) = 0
      BY <3>1
    <3>5. HeldFollows' /\ HeldIsTail'
      BY <1>1, <2>1, <3>2, <3>4 DEF HeldFollows, HeldIsTail
    <3> QED
      BY <1>1, <1>2, <1>5, <3>1, <3>2, <3>3, <3>4, <3>5 DEF DestCounted, Created
  <2> QED
    BY <1>1, <2>2, <2>3, <2>4
<1>7. RingOrdered'
  <2>1. 0 <= srcLen
    BY DEF TransferInv, TypeOK, FileCopyTypeOK
  <2> QED
    BY <1>1, <1>2, <1>4, <1>5, <2>1 DEF RingOrdered
<1>8. HashedAhead'
  <2>1. /\ buff.samplesProcessed \in 0 .. TotalWritableLength
        /\ Clean => buff.samplesProcessed = 0
    BY <1>1 DEF TransferInv, HashedAhead, Running
  <2>2. Ahead' = 0
    BY <1>1 DEF Ahead
  <2> QED
    BY <1>1, <1>2, <2>1, <2>2 DEF HashedAhead, Clean
<1>9. ControlInOrder' /\ VerifiedWhole' /\ AlarmsAreReal'
  BY <1>1, <1>2 DEF ControlInOrder, VerifiedWhole, AlarmsAreReal
<1> QED
  BY <1>1, <1>3, <1>6, <1>7, <1>8, <1>9 DEF TransferInv

\* A step of the loop ends with no verdict.
LEMMA NoVerdict ==
  ASSUME thrown' = "none", pc' # "returned"
  PROVE  VerifiedWhole' /\ AlarmsAreReal'
BY DEF VerifiedWhole, AlarmsAreReal

LEMMA LoopTestInv == ASSUME TransferInv, TypeOK', LoopTest PROVE TransferInv'
<1>1. /\ pc = "test"
      /\ pc' = IF Complete(inStream, outStream) THEN "finish" ELSE "read"
      /\ UNCHANGED <<srcLen, target, inStream, outStream, started, firstWritten, sourceSize,
                     bytesRead, bytesWritten, buff, thrown, inline, stopped, hashed>>
      /\ UNCHANGED fileCopyVars
  BY DEF LoopTest, fileCopyVars, environment, copier, counters, call
<1>2. /\ pc' \in {"finish", "read"} /\ Running /\ Running' /\ thrown = "none"
      /\ FreshTransfer /\ DestCounted /\ RingOrdered /\ HashedAhead
  BY <1>1 DEF Running, TransferInv, ControlInOrder
<1>3. FreshTransfer'
  BY <1>1, <1>2 DEF FreshTransfer
<1>4. /\ (Created' <=> Created) /\ (Lost' <=> Lost) /\ (Overrun' <=> Overrun)
      /\ Ahead = 0 /\ Ahead' = 0 /\ (Clean' <=> Clean)
  BY <1>1, <1>2 DEF Created, Lost, Overrun, Ahead, Clean
<1>5. DestCounted'
  <2>1. /\ IsSourcePrefix(target.data) => IsSourcePrefix(target.data)'
        /\ HeldFollows => HeldFollows'
        /\ HeldIsTail => HeldIsTail'
    BY <1>1, HeldUnchanged
  <2> QED
    BY <1>1, <1>2, <1>4, <2>1 DEF DestCounted, MaxLoss
<1>6. (CountersAgree => CountersAgree') /\ (RingFilledInOrder => RingFilledInOrder')
  BY <1>1, RingUnchanged
<1>7. RingOrdered'
  BY <1>1, <1>2, <1>4, <1>6 DEF RingOrdered
<1>8. HashedAhead'
  <2>1. ReadCursor' = ReadCursor
    BY <1>1 DEF ReadCursor, ReadCursorReady
  <2> QED
    BY <1>1, <1>2, <1>4, <2>1 DEF HashedAhead
<1>9. ControlInOrder'
  <2>1. Complete(inStream, outStream) => Complete(inStream, outStream)'
    BY <1>1 DEF Complete, Ready, BytesRemaining, AsSize
  <2> QED
    BY <1>1, <1>2, <2>1 DEF ControlInOrder
<1> QED
  BY <1>1, <1>2, <1>3, <1>5, <1>7, <1>8, <1>9, NoVerdict DEF TransferInv

\* A read, of the chunk ahead or in the loop: nothing is hashed or written, and what is
\* read goes behind what is in the ring.
LEMMA ReadInv ==
  ASSUME TransferInv, TypeOK', ReadToBuffer, Running, pc # "write", pc' # "finish",
         Running', pc' # "prefetch", pc' = "hash" => inline, pc' = "write" => ~inline,
         UNCHANGED <<inline, stopped, hashed>>
  PROVE  TransferInv'
<1>1. /\ FileCopyTypeOK /\ FileCopyTypeOK' /\ thrown = "none"
      /\ FreshTransfer /\ DestCounted /\ RingOrdered /\ HashedAhead
      /\ srcLen \in SourceSizes
  BY DEF TransferInv, TypeOK, ControlInOrder, Running
<1>2. /\ srcLen \in Nat /\ srcLen < SizeMod /\ bytesRead \in Nat /\ bytesWritten \in Nat
      /\ buff.buffered \in Int /\ buff \in RingRecord /\ Foreign \notin Nat
  BY InvFacts
<1>3. /\ bytesRead <= srcLen /\ (inStream.open => inStream.pos = bytesRead)
      /\ sourceSize = srcLen
  BY <1>1 DEF RingOrdered, FreshTransfer
<1>4. /\ UNCHANGED <<srcLen, target, outStream, firstWritten, sourceSize, destSize,
                     bytesWritten, thrown>>
      /\ started' = TRUE
      /\ bytesRead <= bytesRead' /\ bytesRead' <= srcLen
      /\ inStream'.open => inStream'.pos = bytesRead'
      /\ ~inStream.open => ~inStream'.open /\ bytesRead' = bytesRead
                           /\ buff'.buffered = buff.buffered
      /\ inStream'.open /\ CountersAgree /\ CountersAgree' => buff'.buffered # 0
  BY <1>1, <1>2, <1>3, ReadFacts
<1>5. /\ buff'.samplesProcessed = buff.samplesProcessed
      /\ buff'.processingIndex = IF started THEN buff.processingIndex
                                 ELSE NextIndex(buff.processingIndex)
      /\ ReadCursor' = ReadCursor
      /\ inStream.open /\ inStream.fail => ~inStream'.open \/ inStream' = inStream
      /\ ~inStream.open \/ inStream.fail =>
           bytesRead' = bytesRead /\ buff'.buffered = buff.buffered
      /\ inStream.open /\ inStream.fail /\ buff.buffered = 0 => ~inStream'.open
  BY <1>1, ReadLeavesProcessed
<1>6. /\ (Created' <=> Created) /\ (Lost' <=> Lost)
      /\ Ahead = 0 /\ Ahead' = 0 /\ (Clean' <=> Clean)
  BY <1>4 DEF Created, Lost, Ahead, Clean
<1>7. ~Lost /\ ~Overrun => CountersAgree /\ RingFilledInOrder
                           /\ CountersAgree' /\ RingFilledInOrder'
  BY <1>1, <1>2, ReadKeepsOrder DEF RingOrdered
<1>8. ~Lost => (Overrun' <=> Overrun)
  <2>1. ASSUME ~Lost, ~Overrun PROVE ~Overrun'
    <3>1. bytesRead' - bytesWritten' = buff'.buffered /\ buff'.buffered >= 0
      BY <1>7, <2>1, Bounds DEF CountersAgree
    <3>2. bytesRead' \in Int /\ bytesWritten' \in Int
      BY <1>1 DEF FileCopyTypeOK
    <3> QED
      BY <3>1, <3>2 DEF Overrun
  <2>2. ASSUME ~Lost, Overrun PROVE Overrun'
    <3>1. inStream.open => inStream.fail
      BY <1>1, <2>2 DEF RingOrdered
    <3> QED
      BY <1>4, <1>5, <2>2, <3>1 DEF Overrun
  <2> QED
    BY <2>1, <2>2
<1>9. FreshTransfer'
  BY <1>3, <1>4 DEF FreshTransfer, Running
<1>10. DestCounted'
  <2>1. IsSourcePrefix(target.data) => IsSourcePrefix(target.data)'
    BY <1>4 DEF IsSourcePrefix
  <2>2. HeldFollows /\ HeldIsTail => HeldFollows' /\ HeldIsTail'
    BY <1>1, ReadKeepsHeld
  <2> QED
    BY <1>1, <1>4, <1>6, <1>8, <2>1, <2>2 DEF DestCounted, MaxLoss
<1>11. RingOrdered'
  <2>1. ASSUME ~Lost, ~Overrun
        PROVE  /\ CountersAgree' /\ RingFilledInOrder'
               /\ inStream'.open => buff'.buffered # 0
               /\ firstWritten' /\ ~outStream'.open =>
                    buff'.buffered = 0 /\ ~inStream'.open
    BY <1>1, <1>4, <1>7, <2>1 DEF RingOrdered
  <2>2. ASSUME ~Lost, Overrun
        PROVE  /\ inline' /\ ~Clean' /\ firstWritten' /\ buff'.buffered = 0
               /\ inStream'.open => inStream'.fail
               /\ bytesWritten' + buff'.samplesProcessed <= srcLen' + TotalWritableLength
    <3>1. /\ inline /\ ~Clean /\ firstWritten /\ buff.buffered = 0
          /\ inStream.open => inStream.fail
          /\ bytesWritten + buff.samplesProcessed <= srcLen + TotalWritableLength
      BY <1>1, <2>2 DEF RingOrdered
    <3>2. inStream'.open => inStream'.fail
      BY <1>4, <1>5, <3>1
    <3>3. buff'.buffered = 0
      BY <1>5, <3>1
    <3> QED
      BY <1>4, <1>5, <1>6, <3>1, <3>2, <3>3
  <2> QED
    BY <1>4, <1>6, <1>8, <2>1, <2>2 DEF RingOrdered
<1>12. HashedAhead'
  <2>1. ~Lost => buff'.samplesProcessed \in 0 .. TotalWritableLength
    BY <1>1, <1>5 DEF HashedAhead
  <2>2. ASSUME ~Lost, ~Overrun, Created \/ bytesRead' = 0
        PROVE  /\ Clean' => buff'.samplesProcessed = Ahead'
               /\ buff'.samplesProcessed >= Ahead'
               /\ inline' => hashed' = bytesWritten' + Ahead'
               /\ inline' /\ (inStream'.open \/ buff'.buffered > 0) =>
                    buff'.processingIndex = ReadCursor'
    <3>1. Created \/ bytesRead = 0
      BY <1>2, <1>4, <2>2
    <3>2. /\ Clean => buff.samplesProcessed = Ahead
          /\ buff.samplesProcessed >= Ahead
          /\ inline => hashed = bytesWritten + Ahead
          /\ inline /\ started /\ (inStream.open \/ buff.buffered > 0) =>
               buff.processingIndex = ReadCursor
      BY <1>1, <2>2, <3>1 DEF HashedAhead
    <3>3. ASSUME inline, inStream'.open \/ buff'.buffered > 0
          PROVE  buff'.processingIndex = ReadCursor'
      <4>1. inStream.open \/ buff.buffered > 0
        BY <1>4, <3>3
      <4>2. CASE started
        BY <1>5, <3>2, <3>3, <4>1, <4>2
      <4>3. CASE ~started
        <5>1. ~firstWritten /\ buff.readIndex = 0 /\ buff.processingIndex = 0
          BY <1>1, <4>3 DEF FreshTransfer
        <5>2. ReadCursor = NextIndex(0)
          BY <1>1, <5>1, RingTypes
        <5> QED
          BY <1>5, <4>3, <5>1, <5>2
      <4> QED
        BY <4>2, <4>3
    <3> QED
      BY <1>4, <1>5, <1>6, <3>2, <3>3
  <2>3. inline' /\ pc' = "write" => FALSE
    OBVIOUS
  <2>4. pc' \notin {"source", "dest", "returned", "failed"}
    BY DEF Running
  <2> QED
    BY <1>4, <1>6, <1>8, <2>1, <2>2, <2>3, <2>4 DEF HashedAhead
<1>13. ControlInOrder'
  BY <1>1, <1>4 DEF ControlInOrder, Running
<1>14. thrown' = "none" /\ pc' # "returned" /\ srcLen' \in SourceSizes
  BY <1>1, <1>4 DEF Running
<1> QED
  BY <1>9, <1>10, <1>11, <1>12, <1>13, <1>14, NoVerdict DEF TransferInv

\* Hashing moves the processing cursor and its count, and nothing reading or writing
\* goes by.
LEMMA HashKeepsOrder ==
  ASSUME FileCopyTypeOK, FileCopyTypeOK',
         UNCHANGED <<srcLen, inStream, firstWritten, bytesRead, bytesWritten>>,
         buff'.readIndex = buff.readIndex, buff'.writeIndex = buff.writeIndex,
         buff'.buffered = buff.buffered, buff'.ring = buff.ring
  PROVE  /\ ReadCursor' = ReadCursor
         /\ CountersAgree => CountersAgree'
         /\ RingFilledInOrder => RingFilledInOrder'
<1>1. ReadCursor' = ReadCursor
  <2>1. /\ ReadCursor = IF firstWritten THEN buff.readIndex ELSE NextIndex(buff.readIndex)
        /\ ReadCursor' = IF firstWritten' THEN buff'.readIndex
                         ELSE NextIndex(buff'.readIndex)
    <3>1. /\ ReadCursorReady.readIndex =
               IF firstWritten THEN buff.readIndex ELSE NextIndex(buff.readIndex)
          /\ buff \in RingRecord /\ buff' \in RingRecord
      BY RingTypes, ReadCursorReadyFields DEF FileCopyTypeOK
    <3>2. ReadCursor' = IF firstWritten' THEN buff'.readIndex
                        ELSE NextIndex(buff'.readIndex)
      BY <3>1 DEF ReadCursor, ReadCursorReady, RotateReadIndex, RingRecord
    <3> QED
      BY <3>1, <3>2 DEF ReadCursor
  <2> QED
    BY <2>1
<1>2. CountersAgree => CountersAgree'
  BY DEF CountersAgree
<1>3. ChunksInRing' = ChunksInRing
  BY <1>1 DEF ChunksInRing
<1>4. RingFilledInOrder => RingFilledInOrder'
  BY <1>1, <1>3 DEF RingFilledInOrder, SlotHolds
<1> QED
  BY <1>1, <1>2, <1>4

\* Feeding the bytes that follow, none included.
LEMMA FedNext ==
  ASSUME hashed \in Nat, NEW k \in Nat, NEW bytes \in Seq(Int), Len(bytes) = k,
         \A j \in 1 .. k : bytes[j] = hashed + j
  PROVE  Fed(bytes) = hashed + k
<1>1. CASE k = 0
  <2>1. bytes = <<>>
    BY <1>1, EmptySeq
  <2> QED
    BY <1>1, <2>1 DEF Fed
<1>2. CASE k # 0
  <2>1. bytes # <<>>
    BY <1>2, EmptySeq
  <2>2. hashed # Foreign
    BY DEF Foreign
  <2> QED
    BY <2>1, <2>2 DEF Fed
<1> QED
  BY <1>1, <1>2

\* Hashing the next chunk to be written.
LEMMA HashInv == ASSUME TransferInv, TypeOK', LoopHash PROVE TransferInv'
<1>1. /\ pc = "hash" /\ pc' = "write"
      /\ UNCHANGED <<srcLen, target, inStream, outStream, started, firstWritten, sourceSize,
                     bytesRead, bytesWritten, thrown, inline, stopped>>
  BY DEF LoopHash, Goto, environment, counters, call
<1>2. /\ FileCopyTypeOK /\ FileCopyTypeOK' /\ thrown = "none" /\ inline
      /\ FreshTransfer /\ DestCounted /\ RingOrdered /\ HashedAhead
      /\ srcLen \in SourceSizes /\ Running /\ Running'
  BY <1>1 DEF TransferInv, TypeOK, ControlInOrder, Running
<1>3. /\ srcLen \in Nat /\ srcLen < SizeMod /\ bytesRead \in Nat /\ bytesWritten \in Nat
      /\ buff.buffered \in Int /\ buff \in RingRecord /\ Foreign \notin Nat
      /\ hashed \in Nat \cup {Foreign}
  BY InvFacts
<1> DEFINE k == WriteLength(buff.buffered)
           bytes == ProcessingBytes(k)
<1>4. /\ hashed' = Fed(bytes)
      /\ buff' = RotatePartialProcessing(buff, k)
  BY DEF LoopHash
<1>5. k \in 0 .. BufferLength /\ k \in Nat
  BY <1>3, WriteLengthBound, Bounds
<1>6. /\ bytes \in Seq(Int) /\ Len(bytes) = k
      /\ \A j \in 1 .. k : bytes[j] = buff.ring[buff.processingIndex][j - 1]
  BY <1>3, <1>5, ProcessingBytesSeq
<1> HIDE DEF k, bytes
<1>7. /\ buff'.readIndex = buff.readIndex /\ buff'.writeIndex = buff.writeIndex
      /\ buff'.buffered = buff.buffered /\ buff'.ring = buff.ring
      /\ buff'.processingIndex = NextIndex(buff.processingIndex)
      /\ buff.samplesProcessed \in 0 .. TotalWritableLength
           => buff'.samplesProcessed = More(buff.samplesProcessed, k)
  BY <1>3, <1>4, <1>5, RotatePartialProcessingFields
<1>8. /\ ReadCursor' = ReadCursor
      /\ CountersAgree => CountersAgree'
      /\ RingFilledInOrder => RingFilledInOrder'
  BY <1>1, <1>2, <1>7, HashKeepsOrder
<1>9. /\ (Created' <=> Created) /\ (Lost' <=> Lost) /\ (Overrun' <=> Overrun)
      /\ Ahead = 0 /\ Ahead' = k /\ (Clean' <=> Clean)
  BY <1>1, <1>2, <1>7 DEF Created, Lost, Overrun, Ahead, Clean, k
<1>10. FreshTransfer'
  BY <1>1, <1>2 DEF FreshTransfer
<1>11. DestCounted'
  <2>1. /\ IsSourcePrefix(target.data) => IsSourcePrefix(target.data)'
        /\ HeldFollows => HeldFollows'
        /\ HeldIsTail => HeldIsTail'
    BY <1>1, <1>7 DEF IsSourcePrefix, HeldFollows, HeldIsTail
  <2> QED
    BY <1>1, <1>2, <1>9, <2>1 DEF DestCounted, MaxLoss
<1>12. ~Lost => /\ buff.samplesProcessed \in 0 .. TotalWritableLength
                /\ buff'.samplesProcessed = More(buff.samplesProcessed, k)
                /\ buff'.samplesProcessed \in k .. TotalWritableLength
                /\ buff.samplesProcessed = 0 => buff'.samplesProcessed = k
                /\ k = 0 => buff'.samplesProcessed = buff.samplesProcessed
  <2>1. ASSUME ~Lost
        PROVE  /\ buff.samplesProcessed \in 0 .. TotalWritableLength
               /\ buff'.samplesProcessed = More(buff.samplesProcessed, k)
    BY <1>2, <1>7, <2>1 DEF HashedAhead
  <2> QED
    BY <1>5, <2>1, Bounds DEF More
<1>13. buff.buffered = 0 => k = 0
  BY NextLength, Bounds DEF k
<1>14. RingOrdered'
  <2>1. ASSUME ~Lost, ~Overrun
        PROVE  /\ CountersAgree' /\ RingFilledInOrder'
               /\ inStream'.open => buff'.buffered # 0
               /\ firstWritten' /\ ~outStream'.open =>
                    buff'.buffered = 0 /\ ~inStream'.open
    BY <1>1, <1>2, <1>7, <1>8, <2>1 DEF RingOrdered
  <2>2. ASSUME ~Lost, Overrun
        PROVE  /\ inline' /\ ~Clean' /\ firstWritten' /\ buff'.buffered = 0
               /\ inStream'.open => inStream'.fail
               /\ bytesWritten' + buff'.samplesProcessed <= srcLen' + TotalWritableLength
    BY <1>1, <1>2, <1>7, <1>9, <1>12, <1>13, <2>2 DEF RingOrdered
  <2>3. bytesRead' <= srcLen' /\ (inStream'.open => inStream'.pos = bytesRead')
    BY <1>1, <1>2 DEF RingOrdered
  <2> QED
    BY <1>9, <2>1, <2>2, <2>3 DEF RingOrdered
<1>15. HashedAhead'
  <2>1. ~Lost => buff'.samplesProcessed \in 0 .. TotalWritableLength
    BY <1>5, <1>12
  <2>2. ASSUME ~Lost, ~Overrun, Created \/ bytesRead = 0
        PROVE  /\ Clean => buff'.samplesProcessed = k
               /\ buff'.samplesProcessed >= k
               /\ hashed' = bytesWritten + k
               /\ inStream'.open \/ buff'.buffered > 0 =>
                    buff'.processingIndex = NextIndex(ReadCursor)
    <3>1. /\ Clean => buff.samplesProcessed = Ahead
          /\ hashed = bytesWritten + Ahead
          /\ started
          /\ inStream.open \/ buff.buffered > 0 => buff.processingIndex = ReadCursor
      BY <1>1, <1>2, <2>2 DEF HashedAhead, FreshTransfer
    <3>2. hashed = bytesWritten /\ hashed \in Nat
      BY <1>3, <1>9, <3>1
    <3>3. \A j \in 1 .. k : bytes[j] = hashed + j
      <4>1. CASE buff.buffered = 0
        BY <1>13, <4>1
      <4>2. CASE buff.buffered # 0
        <5>1. CountersAgree /\ RingFilledInOrder /\ buff.buffered > 0
          <6>1. CountersAgree /\ RingFilledInOrder
            BY <1>2, <2>2 DEF RingOrdered
          <6> QED
            BY <4>2, <6>1, Bounds DEF CountersAgree
        <5>2. buff.processingIndex = ReadCursor
          BY <3>1, <5>1
        <5>3. /\ ReadCursorReady \in RingRecord /\ ReadCursorReady.ring = buff.ring
              /\ ReadCursorReady.readIndex = ReadCursor
          BY <1>3, ReadCursorReadyFields DEF ReadCursor
        <5>4. \A j \in 1 .. k : ReadBufferBytes(ReadCursorReady, k)[j] = bytesWritten + j
          BY <1>2, <1>3, <5>1, NextChunk DEF k
        <5>5. \A j \in 1 .. k : ReadBufferBytes(ReadCursorReady, k)[j]
                                = buff.ring[ReadCursor][j - 1]
          BY <1>5, <5>3, ReadBufferBytesSeq
        <5> QED
          BY <1>6, <3>2, <5>2, <5>4, <5>5
      <4> QED
        BY <4>1, <4>2
    <3>4. hashed' = hashed + k
      BY <1>4, <1>5, <1>6, <3>2, <3>3, FedNext
    <3> QED
      BY <1>1, <1>7, <1>9, <1>12, <2>2, <3>1, <3>2, <3>4
  <2>3. ASSUME ~Lost', ~Overrun', Created' \/ bytesRead' = 0
        PROVE  /\ Clean' => buff'.samplesProcessed = Ahead'
               /\ buff'.samplesProcessed >= Ahead'
               /\ hashed' = bytesWritten' + Ahead'
               /\ inStream'.open \/ buff'.buffered > 0 =>
                    buff'.processingIndex = NextIndex(ReadCursor')
    BY <1>1, <1>8, <1>9, <2>2, <2>3
  <2> QED
    BY <1>1, <1>2, <1>9, <2>1, <2>3 DEF HashedAhead
<1>16. ControlInOrder' /\ thrown' = "none" /\ pc' # "returned" /\ srcLen' \in SourceSizes
  BY <1>1, <1>2 DEF ControlInOrder
<1> QED
  BY <1>10, <1>11, <1>14, <1>15, <1>16, NoVerdict DEF TransferInv

\* The count that a write of the loop looks at.
Pending == IF inline THEN buff.samplesProcessed ELSE buff.buffered

\* What every write of the loop leaves alone, and how it may go.
LEMMA WriteStep ==
  ASSUME TransferInv, TypeOK', LoopWrite
  PROVE  /\ pc = "write" /\ pc' = (IF thrown' = "none" THEN "test" ELSE "failed")
         /\ UNCHANGED <<srcLen, inStream, sourceSize, bytesRead, inline, stopped, hashed>>
         /\ started /\ started' /\ thrown = "none" /\ sourceSize = srcLen
         /\ target'.exists = target.exists /\ target'.dir = target.dir
         /\ outStream.open /\ ~outStream.fail /\ outStream'.fail => "write" \in Faults
         /\ outStream.open =>
              Lost \/ (~outStream.fail
                        /\ Len(target.data) + Len(outStream.held) = bytesWritten)
         /\ Pending \in Int /\ WriteOut(Pending)
         /\ \/ NotOpen \/ NothingPending(Pending) \/ Written(Pending)
            \/ WriteThrows(Pending) \/ WriteFails(Pending)
<1>1. /\ pc = "write" /\ pc' = (IF thrown' = "none" THEN "test" ELSE "failed")
      /\ UNCHANGED <<inline, stopped, hashed>>
  BY DEF LoopWrite, call
<1>2. /\ FileCopyTypeOK /\ FileCopyTypeOK' /\ thrown = "none" /\ srcLen \in SourceSizes
      /\ started /\ sourceSize = srcLen /\ Running
      /\ DestCounted /\ RingOrdered /\ HashedAhead
  BY <1>1 DEF TransferInv, TypeOK, ControlInOrder, Running, FreshTransfer
<1>3. /\ bytesRead \in Nat /\ bytesWritten \in Nat /\ srcLen \in Nat
      /\ buff.buffered \in Int /\ buff.samplesProcessed \in Int /\ inline \in BOOLEAN
      /\ srcLen + TotalWritableLength + BufferLength < SizeMod - 1
  BY InvFacts
<1>4. Pending \in Int /\ WriteOut(Pending)
  BY <1>3 DEF LoopWrite, WriteFromBuffer, WriteProcessedFromBuffer, Pending
<1>5. outStream.open =>
        bytesWritten = IF outStream.fail THEN SizeMod - 1
                       ELSE Len(target.data) + Len(outStream.held)
  BY <1>2 DEF DestCounted, Created, Lost
<1>6. outStream.open =>
        Lost \/ (~outStream.fail /\ Len(target.data) + Len(outStream.held) = bytesWritten)
  BY <1>2, <1>5 DEF DestCounted, Lost
<1>7. ASSUME outStream.open, ~outStream.fail
      PROVE  bytesWritten + BufferLength < SizeMod
  <2>1. ~Lost
    BY <1>7 DEF Lost
  <2>2. CASE ~Overrun
    BY <1>2, <1>3, <2>1, <2>2, Bounds DEF RingOrdered, Overrun
  <2>3. CASE Overrun
    <3>1. /\ bytesWritten + buff.samplesProcessed <= srcLen + TotalWritableLength
          /\ buff.samplesProcessed \in 0 .. TotalWritableLength
      BY <1>2, <2>1, <2>3 DEF RingOrdered, HashedAhead
    <3> QED
      BY <1>3, <3>1, Bounds
  <2> QED
    BY <2>2, <2>3
<1>8. /\ UNCHANGED <<srcLen, inStream, sourceSize, destSize, bytesRead>>
      /\ started' = TRUE
      /\ target'.exists = target.exists /\ target'.dir = target.dir
      /\ outStream.open /\ ~outStream.fail /\ outStream'.fail => "write" \in Faults
      /\ \/ NotOpen \/ NothingPending(Pending) \/ Written(Pending)
         \/ WriteThrows(Pending) \/ WriteFails(Pending)
  <2> HIDE DEF Pending
  <2> DEFINE k == WriteLength(Pending)
  <2>1. k \in 0 .. BufferLength
    BY <1>4, WriteLengthBound
  <2> HIDE DEF k
  <2>2. outStream.open /\ ~outStream.fail => bytesWritten + k < SizeMod
    BY <1>3, <1>7, <2>1, Bounds
  <2> QED
    BY <1>2, <1>4, <1>5, <2>2, WriteOutcomes DEF k
<1> QED
  BY <1>1, <1>2, <1>4, <1>6, <1>8

\* As long as the processed samples are counted right, a write takes the next chunk.
LEMMA WritesNextChunk ==
  ASSUME TransferInv, Clean, pc = "write", outStream.open, ~outStream.fail, Pending > 0
  PROVE  /\ buff.buffered > 0 /\ WriteLength(Pending) = WriteLength(buff.buffered)
         /\ CountersAgree /\ RingFilledInOrder
<1>1. Running /\ Created /\ ~Lost /\ RingOrdered /\ HashedAhead
  BY DEF Running, Created, Lost, TransferInv
<1>2. ~Overrun
  BY <1>1 DEF RingOrdered
<1>3. /\ CountersAgree /\ RingFilledInOrder /\ buff.samplesProcessed = Ahead
  BY <1>1, <1>2 DEF RingOrdered, HashedAhead
<1>4. buff.buffered \in 0 .. TotalWritableLength
  BY <1>3 DEF CountersAgree
<1>5. /\ WriteLength(buff.buffered) = IF buff.buffered <= BufferLength THEN buff.buffered
                                      ELSE BufferLength
      /\ WriteLength(WriteLength(buff.buffered)) = WriteLength(buff.buffered)
  <2> DEFINE k == WriteLength(buff.buffered)
  <2>1. k = (IF buff.buffered <= BufferLength THEN buff.buffered ELSE BufferLength)
    BY <1>4, NextLength
  <2> HIDE DEF k
  <2>2. k \in 0 .. TotalWritableLength /\ k <= BufferLength
    BY <1>4, <2>1, Bounds
  <2>3. WriteLength(k) = k
    BY <2>2, NextLength
  <2> QED
    BY <2>1, <2>3 DEF k
<1>6. CASE inline
  <2>1. Pending = WriteLength(buff.buffered)
    BY <1>3, <1>6 DEF Pending, Ahead
  <2> QED
    BY <1>3, <1>4, <1>5, <2>1, Bounds
<1>7. CASE ~inline
  <2>1. Pending = buff.buffered
    BY <1>7 DEF Pending
  <2> QED
    BY <1>3, <2>1
<1> QED
  BY <1>6, <1>7

\* What is left to show of a write.
LEMMA WriteEnds ==
  ASSUME TransferInv, TypeOK', LoopWrite, DestCounted', RingOrdered', HashedAhead',
         thrown' = "none" \/ (thrown' = "out_of_range" /\ outStream'.fail)
  PROVE  TransferInv'
<1>1. pc' \in {"test", "failed"} /\ (pc' = "failed" => thrown' # "none")
      /\ (thrown' # "none" => pc' = "failed")
  BY WriteStep
<1>2. srcLen' \in SourceSizes /\ FreshTransfer'
  BY <1>1, WriteStep DEF TransferInv, FreshTransfer, Running
<1>3. ControlInOrder'
  BY <1>1 DEF ControlInOrder
<1>4. VerifiedWhole' /\ AlarmsAreReal'
  BY <1>1 DEF VerifiedWhole, AlarmsAreReal
<1> QED
  BY <1>2, <1>3, <1>4 DEF TransferInv

\* A write that throws, or that fails or has failed.
LEMMA WriteLostInv ==
  ASSUME TransferInv, TypeOK', LoopWrite, WriteThrows(Pending) \/ WriteFails(Pending)
  PROVE  TransferInv'
<1>1. /\ FileCopyTypeOK /\ FileCopyTypeOK' /\ Running
      /\ DestCounted /\ RingOrdered /\ HashedAhead
  BY WriteStep DEF TransferInv, TypeOK, Running
<1>2. /\ outStream.open /\ outStream'.fail /\ firstWritten' = TRUE
      /\ thrown' = "none" \/ thrown' = "out_of_range"
      /\ Lost' /\ Created'
  BY WriteStep DEF WriteThrows, WriteFails, Lost, Created
<1>3. "write" \in Faults /\ target'.exists /\ target'.dir
  <2>1. target.exists /\ target.dir
    BY <1>1, <1>2 DEF DestCounted, Created
  <2>2. "write" \in Faults
    BY <1>1, <1>2, WriteStep DEF DestCounted
  <2> QED
    BY <2>1, <2>2, WriteStep
<1>4. DestCounted'
  <2>1. Running' => bytesWritten' = SizeMod - 1
    <3>1. CASE WriteThrows(Pending)
      BY <3>1, WriteStep DEF WriteThrows, Running
    <3>2. CASE WriteFails(Pending)
      BY <3>2 DEF WriteFails
    <3> QED
      BY <3>1, <3>2
  <2>2. Running' /\ Clean' => outStream'.held = <<>>
    <3>1. CASE WriteThrows(Pending)
      BY <3>1, WriteStep DEF WriteThrows, Running
    <3>2. CASE WriteFails(Pending)
      <4>1. outStream'.held = outStream.held /\ outStream.open /\ Pending > 0
            /\ pc = "write" /\ (Clean' <=> Clean)
        BY <3>2, WriteStep DEF WriteFails, Clean
      <4>2. ASSUME Clean PROVE outStream.held = <<>>
        <5>1. Created
          BY <4>1 DEF Created
        <5>2. CASE Lost
          BY <1>1, <4>2, <5>1, <5>2 DEF DestCounted
        <5>3. CASE ~Lost
          <6>1. ~outStream.fail /\ ~Overrun /\ HeldIsTail
            BY <1>1, <4>1, <4>2, <5>1, <5>3 DEF DestCounted, RingOrdered, Lost
          <6>2. buff.buffered > 0
            BY <4>1, <4>2, <6>1, WritesNextChunk
          <6> QED
            BY <6>1, <6>2 DEF HeldIsTail
        <5> QED
          BY <5>2, <5>3
      <4> QED
        BY <4>1, <4>2
    <3> QED
      BY <3>1, <3>2
  <2> QED
    BY <1>2, <1>3, <2>1, <2>2 DEF DestCounted
<1>5. RingOrdered'
  BY <1>1, <1>2, WriteStep DEF RingOrdered
<1>6. HashedAhead'
  <2>1. CASE WriteThrows(Pending)
    <3>1. /\ pc' = "failed" /\ Debug /\ buff' = ReadCursorReady /\ ~Lost
      BY <2>1, WriteStep DEF WriteThrows, Lost
    <3>2. buff'.samplesProcessed = buff.samplesProcessed
      <4>1. buff \in RingRecord /\ 0 \in Nat
        BY InvFacts
      <4> QED
        BY <3>1, <4>1, WriteSideCounts DEF ReadCursorReady
    <3>3. buff'.samplesProcessed \in 0 .. TotalWritableLength
      BY <1>1, <3>1, <3>2 DEF HashedAhead
    <3>4. ~NeverThrown
      BY <1>3, <3>1 DEF NeverThrown
    <3> QED
      BY <3>1, <3>3, <3>4 DEF HashedAhead, Running
  <2>2. CASE WriteFails(Pending)
    <3>1. pc' = "test"
      BY <2>2, WriteStep DEF WriteFails
    <3> QED
      BY <1>2, <3>1 DEF HashedAhead, Running
  <2> QED
    BY <2>1, <2>2
<1> QED
  BY <1>2, <1>4, <1>5, <1>6, WriteEnds

\* A write with no file open or nothing pending: what is created has all that was read.
LEMMA WriteIdleInv ==
  ASSUME TransferInv, TypeOK', LoopWrite, NotOpen \/ NothingPending(Pending)
  PROVE  TransferInv'
<1>1. /\ FileCopyTypeOK /\ FileCopyTypeOK' /\ Running /\ inline \in BOOLEAN
      /\ DestCounted /\ RingOrdered /\ HashedAhead
  BY WriteStep DEF TransferInv, TypeOK, Running
<1>2. /\ UNCHANGED <<buff, bytesWritten, firstWritten, thrown>>
      /\ \/ UNCHANGED <<target, outStream>>
         \/ /\ outStream.open /\ CloseDest
            /\ outStream.fail \/ Len(target.data) + Len(outStream.held) > 0
      /\ outStream' = outStream \/ ~outStream'.open
      /\ outStream'.fail = outStream.fail
  <2>1. CloseDest => ~outStream'.open /\ outStream'.fail = outStream.fail
    BY <1>1, CloseDestAppends
  <2> QED
    BY <2>1 DEF NotOpen, NothingPending
<1>3. pc' = "test" /\ Running' /\ Ahead' = 0
  BY <1>2, WriteStep DEF Running, Ahead
<1>4. (Lost' <=> Lost) /\ (Clean' <=> Clean) /\ (Overrun' <=> Overrun)
  BY <1>2, WriteStep DEF Lost, Clean, Overrun
<1>5. Created' <=> Created
  <2>1. CASE outStream' = outStream
    BY <1>2, <2>1 DEF Created
  <2>2. CASE outStream' # outStream
    <3>1. outStream.open /\ (outStream.fail \/ Len(target.data) + Len(outStream.held) > 0)
      BY <1>2, <2>2
    <3>2. firstWritten
      <4>1. outStream.open =>
              Lost \/ (~outStream.fail
                        /\ Len(target.data) + Len(outStream.held) = bytesWritten)
        BY WriteStep
      <4>2. ~firstWritten => bytesWritten = 0 /\ ~(outStream.open /\ outStream.fail)
        BY <1>1 DEF DestCounted
      <4>3. Lost => firstWritten
        BY DEF Lost
      <4> DEFINE n == Len(target.data) + Len(outStream.held)
      <4>4. /\ outStream.open /\ (outStream.fail \/ n > 0)
            /\ outStream.open => Lost \/ n = bytesWritten
        BY <3>1, <4>1
      <4> HIDE DEF n
      <4> QED
        BY <4>2, <4>3, <4>4
    <3> QED
      BY <1>2, <3>1, <3>2 DEF Created
  <2> QED
    BY <2>1, <2>2
<1>6. /\ UNCHANGED <<srcLen, inStream, bytesRead, inline, stopped, hashed>>
      /\ target'.exists = target.exists /\ target'.dir = target.dir
      /\ started'
  BY WriteStep
<1>7. ASSUME ~Lost, ~Overrun
      PROVE  /\ CountersAgree /\ RingFilledInOrder
             /\ Created \/ bytesRead = 0 => buff.buffered = 0 /\ Ahead = 0 /\ ~inStream.open
  <2>1. /\ CountersAgree /\ RingFilledInOrder
        /\ inStream.open => buff.buffered # 0
        /\ firstWritten /\ ~outStream.open => buff.buffered = 0
    BY <1>1, <1>7, WriteStep DEF RingOrdered
  <2>2. /\ buff.buffered \in 0 .. TotalWritableLength
        /\ bytesRead - bytesWritten = buff.buffered
    BY <2>1 DEF CountersAgree
  <2>3. ASSUME outStream.open PROVE buff.buffered = 0
    <3>1. Pending <= 0
      BY <2>3 DEF NotOpen, NothingPending
    <3>2. CASE inline
      <4>1. buff.samplesProcessed >= Ahead /\ buff.samplesProcessed \in Int
        BY <1>1, <1>7, <2>3, InvFacts DEF HashedAhead, Created
      <4>2. Ahead = WriteLength(buff.buffered)
        BY <3>2, WriteStep DEF Ahead
      <4> QED
        BY <2>2, <3>1, <3>2, <4>1, <4>2, NextLength, Bounds DEF Pending
    <3>3. CASE ~inline
      BY <2>2, <3>1, <3>3, Bounds DEF Pending
    <3> QED
      BY <3>2, <3>3
  <2>4. ASSUME bytesRead = 0 PROVE buff.buffered = 0
    <3>1. bytesWritten \in Nat
      BY InvFacts
    <3> QED
      BY <2>2, <2>4, <3>1, Bounds
  <2>5. Created \/ bytesRead = 0 => buff.buffered = 0
    BY <2>1, <2>3, <2>4 DEF Created
  <2>6. buff.buffered = 0 => Ahead = 0
    BY NextLength, Bounds DEF Ahead
  <2> QED
    BY <2>1, <2>5, <2>6
<1>8. DestCounted'
  <2>1. CASE UNCHANGED <<target, outStream>>
    <3>1. ~Lost /\ ~Overrun /\ Created =>
            IsSourcePrefix(target.data) /\ HeldFollows /\ HeldIsTail
      BY <1>1 DEF DestCounted
    <3>2. ~Lost /\ ~Overrun /\ Created =>
            IsSourcePrefix(target.data)' /\ HeldFollows' /\ HeldIsTail'
      BY <1>2, <1>6, <2>1, <3>1, HeldUnchanged
    <3> QED
      BY <1>1, <1>2, <1>3, <1>4, <1>5, <1>6, <2>1, <3>2 DEF DestCounted, MaxLoss
  <2>2. CASE outStream.open /\ CloseDest
    <3>1. /\ ~outStream'.open /\ outStream'.held = <<>> /\ Len(outStream'.held) = 0
          /\ Created /\ MaxLoss' = MaxLoss
      BY <1>1, <2>2, CloseDestAppends DEF Created, MaxLoss
    <3>2. ~Lost => bytesWritten - Len(target'.data) \in 0 .. MaxLoss
      <4>1. ASSUME ~Lost PROVE bytesWritten = Len(target.data) + Len(outStream.held)
        BY <1>1, <2>2, <3>1, <4>1 DEF DestCounted
      <4>2. /\ Len(target.data) + Len(outStream.held) - Len(target'.data) \in 0 .. MaxLoss
            /\ Len(target'.data) \in Nat
        BY <1>1, <2>2, CloseLoses
      <4>3. /\ Len(target.data) \in Nat /\ Len(outStream.held) \in Nat
            /\ MaxLoss \in Int
        BY InvFacts, Bounds DEF MaxLoss
      <4> QED
        BY <4>1, <4>2, <4>3, LossKept
    <3>3. ~Lost /\ ~Overrun => IsSourcePrefix(target.data)'
      <4>1. ~Lost /\ ~Overrun => IsSourcePrefix(target.data) /\ HeldFollows
        BY <1>1, <3>1 DEF DestCounted
      <4> QED
        BY <1>1, <1>6, <2>2, <4>1, CloseKeepsOrder
    <3>4. ~Lost /\ ~Overrun => HeldFollows' /\ HeldIsTail'
      <4>1. Len(target'.data) \in Nat
        BY <1>1, <2>2, CloseLoses
      <4>2. IsSourcePrefix(target.data)' => Len(target'.data) <= srcLen'
        BY DEF IsSourcePrefix
      <4> QED
        BY <3>1, <3>3, <4>1, <4>2 DEF HeldFollows, HeldIsTail
    <3> QED
      BY <1>1, <1>2, <1>3, <1>4, <1>5, <1>6, <3>1, <3>2, <3>3, <3>4 DEF DestCounted
  <2> QED
    BY <1>2, <2>1, <2>2
<1>9. RingOrdered'
  <2>1. (CountersAgree => CountersAgree') /\ (RingFilledInOrder => RingFilledInOrder')
    BY <1>2, <1>6, RingUnchanged
  <2>2. ASSUME ~Lost, ~Overrun
        PROVE  /\ CountersAgree' /\ RingFilledInOrder'
               /\ firstWritten' /\ ~outStream'.open =>
                    buff'.buffered = 0 /\ ~inStream'.open
    BY <1>2, <1>5, <1>6, <1>7, <2>1, <2>2 DEF Created
  <2>3. ASSUME ~Lost, Overrun
        PROVE  /\ inline' /\ ~Clean' /\ firstWritten' /\ buff'.buffered = 0
               /\ inStream'.open => inStream'.fail
               /\ bytesWritten' + buff'.samplesProcessed <= srcLen' + TotalWritableLength
    BY <1>1, <1>2, <1>4, <1>6, <2>3 DEF RingOrdered
  <2>4. bytesRead' <= srcLen' /\ (inStream'.open => inStream'.pos = bytesRead')
    BY <1>1, <1>6 DEF RingOrdered
  <2> QED
    BY <1>3, <1>4, <2>2, <2>3, <2>4 DEF RingOrdered
<1>10. HashedAhead'
  <2>1. ~Lost => buff'.samplesProcessed \in 0 .. TotalWritableLength
    BY <1>1, <1>2 DEF HashedAhead
  <2>2. ASSUME ~Lost', ~Overrun', Created' \/ bytesRead' = 0
        PROVE  /\ Clean' => buff'.samplesProcessed = Ahead'
               /\ buff'.samplesProcessed >= Ahead'
               /\ inline' => hashed' = bytesWritten' + Ahead'
               /\ ~(inStream'.open \/ buff'.buffered > 0)
    <3>1. ~Lost /\ ~Overrun /\ (Created \/ bytesRead = 0)
      BY <1>4, <1>5, <1>6, <2>2
    <3>2. /\ Clean => buff.samplesProcessed = Ahead
          /\ buff.samplesProcessed >= Ahead
          /\ inline => hashed = bytesWritten + Ahead
      BY <1>1, <3>1 DEF HashedAhead
    <3>3. buff.buffered = 0 /\ Ahead = 0 /\ ~inStream.open
      BY <1>7, <3>1
    <3> QED
      BY <1>2, <1>3, <1>4, <1>6, <3>2, <3>3
  <2> QED
    BY <1>3, <1>4, <2>1, <2>2 DEF HashedAhead
<1> QED
  BY <1>2, <1>8, <1>9, <1>10, WriteStep, WriteEnds

\* What a counted write does to the ring.
LEMMA WrittenFacts ==
  ASSUME TransferInv, TypeOK', LoopWrite, Written(Pending)
  PROVE  LET k == WriteLength(Pending)
         IN  /\ pc' = "test" /\ Running' /\ Ahead' = 0 /\ thrown' = "none"
             /\ outStream.open /\ ~outStream.fail /\ outStream'.open /\ ~outStream'.fail
             /\ Created /\ Created' /\ ~Lost /\ ~Lost' /\ firstWritten'
             /\ (Clean' <=> Clean)
             /\ k \in 0 .. BufferLength /\ Pending > 0
             /\ bytesWritten' = bytesWritten + k
             /\ target.exists /\ target.dir /\ target'.exists
             /\ Len(target'.data) + Len(outStream'.held) = bytesWritten'
             /\ buff' = RotatePartialRead(ReadCursorReady, k)
             /\ buff.samplesProcessed \in 0 .. TotalWritableLength
             /\ buff'.samplesProcessed = Less(buff.samplesProcessed, k)
             /\ buff'.processingIndex = buff.processingIndex
             /\ buff.buffered \in 0 .. TotalWritableLength =>
                  buff'.buffered = Less(buff.buffered, k)
             /\ ReadCursor' = NextIndex(ReadCursor)
             /\ bytesRead' <= srcLen' /\ (inStream'.open => inStream'.pos = bytesRead')
<1> DEFINE k == WriteLength(Pending)
<1>1. k \in 0 .. BufferLength
  BY WriteStep, WriteLengthBound
<1>2. /\ outStream.open /\ Pending > 0 /\ ~outStream.fail
      /\ outStream'.open /\ ~outStream'.fail /\ firstWritten' = TRUE /\ thrown' = thrown
      /\ Len(target'.data) + Len(outStream'.held)
           = Len(target.data) + Len(outStream.held) + k
      /\ bytesWritten' = bytesWritten + k
      /\ buff' = RotatePartialRead(ReadCursorReady, k)
  BY DEF Written
<1>3. pc' = "test" /\ Running' /\ Ahead' = 0 /\ thrown' = "none"
  BY <1>2, WriteStep DEF Running, Ahead
<1>4. Created /\ Created' /\ ~Lost /\ ~Lost' /\ (Clean' <=> Clean)
  BY <1>2, WriteStep DEF Created, Lost, Clean
<1>5. /\ DestCounted /\ RingOrdered /\ HashedAhead /\ Running
      /\ FileCopyTypeOK /\ FileCopyTypeOK'
  BY WriteStep DEF TransferInv, TypeOK, Running
<1>6. /\ target.exists /\ target.dir /\ target'.exists
      /\ Len(target'.data) + Len(outStream'.held) = bytesWritten'
  BY <1>2, <1>4, <1>5, WriteStep DEF DestCounted
<1> HIDE DEF k
<1>7. /\ ReadCursorReady \in RingRecord
      /\ ReadCursorReady.readIndex = ReadCursor
      /\ ReadCursorReady.buffered = buff.buffered
      /\ ReadCursorReady.samplesProcessed = buff.samplesProcessed
      /\ ReadCursorReady.processingIndex = buff.processingIndex
  <2>1. buff \in RingRecord /\ 0 \in Nat
    BY InvFacts
  <2> QED
    BY <2>1, ReadCursorReadyFields, WriteSideCounts DEF ReadCursor, ReadCursorReady
<1>8. buff.samplesProcessed \in 0 .. TotalWritableLength
  BY <1>4, <1>5 DEF HashedAhead
<1>9. /\ buff'.processingIndex = buff.processingIndex
      /\ buff'.samplesProcessed = Less(buff.samplesProcessed, k)
      /\ buff.buffered \in 0 .. TotalWritableLength =>
           buff'.buffered = Less(buff.buffered, k)
  BY <1>1, <1>2, <1>7, <1>8, RotatePartialReadCounts
<1>10. ReadCursor' = NextIndex(ReadCursor)
  <2>1. k \in Nat
    BY <1>1, Bounds
  <2>2. buff'.readIndex = NextIndex(ReadCursor)
    BY <1>2, <1>7, <2>1, RotatePartialReadFields
  <2> QED
    BY <1>2, <2>2 DEF ReadCursor, ReadCursorReady
<1>11. bytesRead' <= srcLen' /\ (inStream'.open => inStream'.pos = bytesRead')
  BY <1>5, WriteStep DEF RingOrdered
<1> QED
  BY <1>1, <1>2, <1>3, <1>4, <1>6, <1>8, <1>9, <1>10, <1>11 DEF k

\* A write from which the invariant's parts follow.
LEMMA WrittenInOrderInv ==
  ASSUME TransferInv, TypeOK', LoopWrite, Written(Pending), ~Overrun,
         buff.buffered > 0, WriteLength(Pending) = WriteLength(buff.buffered)
  PROVE  TransferInv'
<1> DEFINE k == WriteLength(Pending)
<1>1. /\ pc' = "test" /\ Running' /\ Ahead' = 0 /\ thrown' = "none"
      /\ outStream.open /\ ~outStream.fail /\ outStream'.open /\ ~outStream'.fail
      /\ Created /\ Created' /\ ~Lost /\ ~Lost' /\ firstWritten'
      /\ (Clean' <=> Clean)
      /\ k \in 0 .. BufferLength
      /\ bytesWritten' = bytesWritten + k
      /\ target.exists /\ target.dir /\ target'.exists
      /\ Len(target'.data) + Len(outStream'.held) = bytesWritten'
      /\ buff.samplesProcessed \in 0 .. TotalWritableLength
      /\ buff'.samplesProcessed = Less(buff.samplesProcessed, k)
      /\ buff'.processingIndex = buff.processingIndex
      /\ ReadCursor' = NextIndex(ReadCursor)
      /\ bytesRead' <= srcLen' /\ (inStream'.open => inStream'.pos = bytesRead')
  BY WrittenFacts
<1>2. /\ DestCounted /\ RingOrdered /\ HashedAhead /\ Running /\ pc = "write" /\ started
      /\ FileCopyTypeOK /\ FileCopyTypeOK' /\ srcLen < SizeMod
  BY WriteStep, InvFacts DEF TransferInv, TypeOK, Running
<1>3. /\ CountersAgree /\ RingFilledInOrder
      /\ IsSourcePrefix(target.data) /\ HeldFollows /\ HeldIsTail
      /\ Len(target.data) + Len(outStream.held) = bytesWritten
  BY <1>1, <1>2 DEF RingOrdered, DestCounted
<1>4. /\ IsSourcePrefix(target.data)' /\ HeldFollows' /\ HeldIsTail'
      /\ CountersAgree' /\ RingFilledInOrder'
  <2>1. Pending \in Int /\ WriteOut(Pending)
    BY WriteStep
  <2> HIDE DEF Pending
  <2> QED
    BY <1>1, <1>2, <1>3, <2>1, WriteKeepsOrder
<1>5. ~Overrun'
  <2>1. bytesRead' \in Int /\ bytesWritten' \in Int
    BY <1>2 DEF FileCopyTypeOK
  <2> QED
    BY <1>4, <2>1, Bounds DEF CountersAgree, Overrun
<1>6. DestCounted'
  BY <1>1, <1>2, <1>4, WriteStep DEF DestCounted
<1>7. RingOrdered'
  BY <1>1, <1>4, <1>5 DEF RingOrdered
<1>8. HashedAhead'
  <2>1. /\ Clean => buff.samplesProcessed = Ahead
        /\ buff.samplesProcessed >= Ahead
        /\ inline => hashed = bytesWritten + Ahead
        /\ inline => buff.processingIndex = NextIndex(ReadCursor)
    BY <1>1, <1>2 DEF HashedAhead
  <2>2. Ahead = IF inline THEN k ELSE 0
    BY <1>2 DEF Ahead
  <2>3. /\ buff'.samplesProcessed \in 0 .. TotalWritableLength
        /\ Clean => buff'.samplesProcessed = 0
    <3> HIDE DEF k
    <3> QED
      BY <1>1, <2>1, <2>2, Bounds DEF Less
  <2>4. /\ inline' => hashed' = bytesWritten' + 0
        /\ inline' => buff'.processingIndex = ReadCursor'
    <3>1. inline' = inline /\ hashed' = hashed /\ bytesWritten \in Nat
      BY WriteStep, InvFacts
    <3> HIDE DEF k
    <3> QED
      BY <1>1, <2>1, <2>2, <3>1, Bounds
  <2> QED
    BY <1>1, <2>3, <2>4 DEF HashedAhead
<1> QED
  BY <1>1, <1>6, <1>7, <1>8, WriteEnds

\* A write of more than there is in the ring: the count of processed samples is stale.
LEMMA WrittenStaleInv ==
  ASSUME TransferInv, TypeOK', LoopWrite, Written(Pending),
         Overrun \/ buff.buffered <= 0 \/ WriteLength(Pending) # WriteLength(buff.buffered)
  PROVE  TransferInv'
<1> DEFINE k == WriteLength(Pending)
<1>1. /\ pc' = "test" /\ Running' /\ Ahead' = 0 /\ thrown' = "none"
      /\ outStream.open /\ ~outStream.fail /\ outStream'.open /\ ~outStream'.fail
      /\ Created /\ Created' /\ ~Lost /\ ~Lost' /\ firstWritten'
      /\ (Clean' <=> Clean)
      /\ k \in 0 .. BufferLength /\ Pending > 0
      /\ bytesWritten' = bytesWritten + k
      /\ target.exists /\ target.dir /\ target'.exists
      /\ Len(target'.data) + Len(outStream'.held) = bytesWritten'
      /\ buff.samplesProcessed \in 0 .. TotalWritableLength
      /\ buff'.samplesProcessed = Less(buff.samplesProcessed, k)
      /\ buff.buffered \in 0 .. TotalWritableLength =>
           buff'.buffered = Less(buff.buffered, k)
      /\ bytesRead' <= srcLen' /\ (inStream'.open => inStream'.pos = bytesRead')
  BY WrittenFacts
<1>2. /\ DestCounted /\ RingOrdered /\ HashedAhead /\ Running /\ pc = "write"
      /\ UNCHANGED <<srcLen, inStream, bytesRead, inline>>
  BY WriteStep DEF TransferInv, Running
<1>3. /\ bytesRead \in Nat /\ bytesWritten \in Nat /\ buff.buffered \in Int
      /\ srcLen \in Nat /\ inline \in BOOLEAN
  BY InvFacts
<1> USE Bounds
<1>4. /\ inline /\ ~Clean
      /\ inStream.open => inStream.fail
      /\ buff.buffered \in 0 .. TotalWritableLength /\ buff.buffered <= k
      /\ bytesWritten + k > bytesRead
      /\ bytesWritten + buff.samplesProcessed <= srcLen + TotalWritableLength
  <2>1. CASE Overrun
    <3>1. /\ inline /\ ~Clean /\ buff.buffered = 0
          /\ inStream.open => inStream.fail
          /\ bytesWritten + buff.samplesProcessed <= srcLen + TotalWritableLength
      BY <1>1, <1>2, <2>1 DEF RingOrdered
    <3> HIDE DEF k
    <3> QED
      BY <1>1, <1>3, <2>1, <3>1 DEF Overrun
  <2>2. CASE ~Overrun
    <3>1. /\ CountersAgree /\ RingFilledInOrder /\ (inStream.open => buff.buffered # 0)
          /\ buff.samplesProcessed >= Ahead /\ (Clean => buff.samplesProcessed = Ahead)
      BY <1>1, <1>2, <2>2 DEF RingOrdered, HashedAhead
    <3>2. /\ buff.buffered \in 0 .. TotalWritableLength
          /\ bytesRead - bytesWritten = buff.buffered /\ bytesRead <= srcLen
      BY <3>1 DEF CountersAgree
    <3>3. inline
      <4>1. ASSUME ~inline PROVE FALSE
        <5>1. Pending = buff.buffered
          BY <4>1 DEF Pending
        <5>2. Pending > 0
          BY <1>1
        <5>3. WriteLength(Pending) = WriteLength(buff.buffered)
          BY <5>1
        <5>4. ~(buff.buffered <= 0)
          BY <1>3, <5>1, <5>2
        <5> QED
          BY <2>2, <5>3, <5>4
      <4> QED
        BY <4>1
    <3>4. /\ k = IF buff.samplesProcessed <= BufferLength THEN buff.samplesProcessed
                 ELSE BufferLength
          /\ Ahead = IF buff.buffered <= BufferLength THEN buff.buffered ELSE BufferLength
          /\ buff.samplesProcessed > 0
          /\ buff.buffered <= 0 \/ k # Ahead
      BY <1>1, <1>2, <2>2, <3>2, <3>3, NextLength DEF Ahead, Pending
    <3> HIDE DEF k
    <3>5. buff.buffered < k /\ buff.buffered < BufferLength /\ buff.samplesProcessed # Ahead
      BY <1>1, <3>1, <3>2, <3>4
    <3>6. inStream.open => inStream.fail
      <4>1. inStream.open /\ ~inStream.fail => buff.buffered = ChunksInRing * BufferLength
            /\ ChunksInRing \in 0 .. 3
        BY <3>1 DEF RingFilledInOrder
      <4>2. ChunksInRing \in 0 .. 3
        BY <3>1 DEF RingFilledInOrder
      <4>3. ASSUME NEW c \in 0 .. 3, buff.buffered = c * BufferLength PROVE buff.buffered = 0
        BY <3>5, <4>3
      <4> QED
        BY <3>1, <4>1, <4>2, <4>3
    <3>7. ~Clean
      BY <3>1, <3>5
    <3>8. /\ bytesWritten + k > bytesRead
          /\ bytesWritten + buff.samplesProcessed <= srcLen + TotalWritableLength
      BY <1>1, <1>3, <3>2, <3>5
    <3> QED
      BY <3>2, <3>3, <3>5, <3>6, <3>7, <3>8, <1>1, <1>3
  <2> QED
    BY <2>1, <2>2
<1>5. k <= buff.samplesProcessed
  BY <1>1, <1>4, NextLength DEF Pending
<1> HIDE DEF k
<1>6. Overrun'
  BY <1>1, <1>2, <1>3, <1>4 DEF Overrun
<1>7. DestCounted'
  BY <1>1, <1>2, <1>6, WriteStep DEF DestCounted
<1>8. buff'.buffered = 0
  BY <1>1, <1>4 DEF Less
<1>9. bytesWritten' + buff'.samplesProcessed <= srcLen' + TotalWritableLength
  BY <1>1, <1>2, <1>3, <1>4, <1>5 DEF Less
<1>10. RingOrdered'
  BY <1>1, <1>2, <1>4, <1>6, <1>8, <1>9 DEF RingOrdered
<1>11. HashedAhead'
  <2>1. buff'.samplesProcessed \in 0 .. TotalWritableLength
    BY <1>1, <1>5 DEF Less
  <2> QED
    BY <1>1, <1>6, <2>1 DEF HashedAhead
<1> QED
  BY <1>1, <1>7, <1>10, <1>11, WriteEnds

LEMMA WriteInv == ASSUME TransferInv, TypeOK', LoopWrite PROVE TransferInv'
<1>1. NotOpen \/ NothingPending(Pending) \/ Written(Pending)
      \/ WriteThrows(Pending) \/ WriteFails(Pending)
  BY WriteStep
<1>2. buff.buffered \in Int
  BY InvFacts
<1> QED
  BY <1>1, <1>2, WriteIdleInv, WriteLostInv, WrittenInOrderInv, WrittenStaleInv

\* The remainder of a number just below zero.
LEMMA RemainderBelowZero ==
  ASSUME NEW x \in Int, NEW d \in Int, d > 0, x < 0, x > -d
  PROVE  x % d = x + d
BY SMTT(30)

\* Counters that differ leave bytes remaining.
LEMMA NothingRemains ==
  ASSUME FileCopyTypeOK, bytesRead < SizeMod, bytesWritten < SizeMod, BytesRemaining = 0
  PROVE  bytesRead = bytesWritten
<1> DEFINE x == bytesRead - bytesWritten
<1>1. x \in Int /\ x < SizeMod /\ x > -SizeMod /\ bytesRead \in Nat /\ bytesWritten \in Nat
  BY Bounds DEF FileCopyTypeOK
<1>2. AsSize(x) = 0
  BY DEF BytesRemaining
<1> HIDE DEF x
<1>3. x >= 0 => x = 0
  <2>1. x >= 0 => x \in 0 .. SizeMod - 1
    BY <1>1, Bounds
  <2> QED
    BY <1>1, <1>2, <2>1, AsSizeNat
<1>4. x < 0 => FALSE
  <2>1. x < 0 => x % SizeMod = x + SizeMod
    BY <1>1, Bounds, RemainderBelowZero
  <2>2. x < 0 => AsSize(x) = x % SizeMod
    BY <1>1 DEF AsSize
  <2> QED
    BY <1>1, <1>2, <2>1, <2>2, Bounds
<1>5. x = 0
  BY <1>1, <1>3, <1>4
<1> QED
  BY <1>1, <1>5 DEF x

LEMMA FirstBytesSeq ==
  ASSUME NEW n \in Nat
  PROVE  /\ FirstBytes(n) \in Seq(Int) /\ Len(FirstBytes(n)) = n
         /\ \A k \in 1 .. n : FirstBytes(n)[k] = k
<1>1. FirstBytes(n) \in [1 .. n -> Int]
  BY DEF FirstBytes
<1>2. FirstBytes(n) \in Seq(Int)
  BY <1>1, SeqDef
<1>3. Len(FirstBytes(n)) = n
  BY <1>1, <1>2, LenProperties
<1> QED
  BY <1>2, <1>3 DEF FirstBytes

\* A prefix of the source as long as the source is the source.
LEMMA WholePrefix ==
  ASSUME NEW data \in Seq(Int), srcLen \in Nat, IsSourcePrefix(data), Len(data) = srcLen
  PROVE  data = FirstBytes(srcLen)
<1>1. \A k \in 1 .. Len(data) : data[k] = FirstBytes(srcLen)[k]
  BY FirstBytesSeq DEF IsSourcePrefix
<1> QED
  BY <1>1, FirstBytesSeq, SeqEqual

\* A file that can be read through is hashed whole.
LEMMA HashedWhole ==
  ASSUME NEW data \in Seq(Int), "read" \notin Faults
  PROVE  HashedFromFile(data) = {data}
<1>1. SubSeq(data, 1, Len(data)) = data
  BY SubSeqFull
<1> QED
  BY <1>1 DEF HashedFromFile

\* At the end of the loop everything that was read is written, and everything that is
\* written was hashed.
LEMMA FinishFacts ==
  ASSUME TransferInv, pc = "finish"
  PROVE  /\ bytesRead = bytesWritten /\ bytesRead <= srcLen /\ sourceSize = srcLen
         /\ ~Lost
         /\ buff.samplesProcessed \in 0 .. TotalWritableLength
         /\ Clean => buff.samplesProcessed = 0
         /\ inline => hashed = bytesWritten
         /\ Created =>
              /\ IsSourcePrefix(target.data) /\ HeldFollows
              /\ outStream.open => bytesWritten = Len(target.data) + Len(outStream.held)
              /\ ~outStream.open => bytesWritten - Len(target.data) \in 0 .. MaxLoss
         /\ ~firstWritten => bytesWritten = 0
<1>1. /\ FreshTransfer /\ DestCounted /\ RingOrdered /\ HashedAhead
      /\ Complete(inStream, outStream) /\ FileCopyTypeOK /\ Running
  BY DEF TransferInv, TypeOK, ControlInOrder, Running
<1>2. /\ srcLen \in Nat /\ bytesRead \in Nat /\ bytesWritten \in Nat
      /\ srcLen + TotalWritableLength + BufferLength < SizeMod - 1
  BY InvFacts
<1>3. bytesRead <= srcLen /\ sourceSize = srcLen
  BY <1>1 DEF RingOrdered, FreshTransfer
<1>4. Lost => bytesWritten = SizeMod - 1
  BY <1>1 DEF DestCounted, Created, Lost
<1>5. bytesWritten < SizeMod
  <2>1. CASE Lost
    BY <1>2, <1>4, <2>1, Bounds
  <2>2. CASE ~Lost /\ Overrun
    BY <1>1, <1>2, <2>2, Bounds DEF RingOrdered, HashedAhead
  <2>3. CASE ~Lost /\ ~Overrun
    BY <1>2, <1>3, <2>3, Bounds DEF Overrun
  <2> QED
    BY <2>1, <2>2, <2>3
<1>6. bytesRead = bytesWritten
  <2>1. BytesRemaining = 0 /\ bytesRead < SizeMod
    BY <1>1, <1>2, <1>3, Bounds DEF Complete
  <2> QED
    BY <1>1, <1>5, <2>1, NothingRemains
<1>7. ~Lost /\ ~Overrun
  BY <1>2, <1>3, <1>4, <1>6, Bounds DEF Overrun
<1>8. ~firstWritten => bytesWritten = 0
  BY <1>1 DEF DestCounted
<1>9. Ahead = 0 /\ (Created \/ bytesRead = 0)
  BY <1>6, <1>8 DEF Ahead, Created
<1>10. /\ buff.samplesProcessed \in 0 .. TotalWritableLength
       /\ Clean => buff.samplesProcessed = Ahead
       /\ inline => hashed = bytesWritten + Ahead
  BY <1>1, <1>7, <1>9 DEF HashedAhead
<1>11. Created =>
         /\ IsSourcePrefix(target.data) /\ HeldFollows
         /\ outStream.open => bytesWritten = Len(target.data) + Len(outStream.held)
         /\ ~outStream.open => bytesWritten - Len(target.data) \in 0 .. MaxLoss
  BY <1>1, <1>7 DEF DestCounted
<1>12. inline => hashed = bytesWritten
  BY <1>2, <1>9, <1>10
<1>13. Clean => buff.samplesProcessed = 0
  BY <1>9, <1>10
<1>14. buff.samplesProcessed \in 0 .. TotalWritableLength
  BY <1>10
<1> QED
  BY <1>3, <1>6, <1>7, <1>8, <1>11, <1>12, <1>13, <1>14

\* The last close() adds to the destination what its stream holds, or a part of that.
LEMMA LastClose ==
  ASSUME TransferInv, Finish
  PROVE  /\ target' = target \/ (outStream.open /\ TargetGrows)
         /\ target'.exists = target.exists /\ target'.dir = target.dir
         /\ target'.data \in Seq(Int) /\ Len(target'.data) \in Nat
         /\ ~outStream'.open /\ outStream'.fail = outStream.fail
         /\ ~Created => target' = target
         /\ Created => /\ IsSourcePrefix(target'.data)
                       /\ bytesWritten - Len(target'.data) \in 0 .. MaxLoss
<1>1. CloseDest /\ srcLen' = srcLen /\ pc = "finish"
  BY DEF Finish, CloseStreams
<1>2. /\ FileCopyTypeOK /\ Len(outStream.held) \in Nat
      /\ Len(target.data) \in Nat /\ target.data \in Seq(Int)
      /\ ~outStream.open => outStream.held = <<>>
  BY InvFacts
<1>3. /\ target'.exists = target.exists /\ target'.dir = target.dir
      /\ target'.data \in Seq(Int) /\ Len(target'.data) \in Nat
      /\ ~outStream'.open /\ outStream'.fail = outStream.fail
  BY <1>1, <1>2, CloseDestAppends, CloseLoses
<1>4. CASE outStream.open
  <2>1. /\ Created /\ IsSourcePrefix(target.data) /\ HeldFollows
        /\ bytesWritten = Len(target.data) + Len(outStream.held)
    BY <1>1, <1>4, FinishFacts DEF Created
  <2>2. /\ IsSourcePrefix(target.data)' /\ TargetGrows
        /\ Len(target.data) + Len(outStream.held) - Len(target'.data) \in 0 .. MaxLoss
    BY <1>1, <1>2, <2>1, CloseKeepsOrder
  <2>3. bytesWritten - Len(target'.data) \in 0 .. MaxLoss
    <3>1. MaxLoss \in Int
      BY Bounds DEF MaxLoss
    <3> QED
      BY <1>2, <1>3, <2>1, <2>2, <3>1, LossKept
  <2>4. IsSourcePrefix(target'.data)
    BY <1>1, <2>2 DEF IsSourcePrefix
  <2> QED
    BY <1>3, <1>4, <2>1, <2>2, <2>3, <2>4
<1>5. CASE ~outStream.open
  <2>1. target' = target
    BY <1>1, <1>2, <1>5, CloseDestAppends
  <2>2. Created => /\ IsSourcePrefix(target.data)
                   /\ bytesWritten - Len(target.data) \in 0 .. MaxLoss
    BY <1>1, <1>5, FinishFacts
  <2> QED
    BY <1>3, <2>1, <2>2
<1> QED
  BY <1>4, <1>5

\* What an accepting verdict of the checksums says of a file as long as the source.
LEMMA ChecksumAccepts ==
  ASSUME TransferInv, pc = "finish", NEW data \in Seq(Int), Len(data) = srcLen,
         firstWritten => IsSourcePrefix(data),
         firstWritten \/ ("none" \in ChecksumVerdicts(data) /\ "read" \notin Faults)
  PROVE  data = FirstBytes(srcLen)
<1>1. srcLen \in Nat
  BY InvFacts
<1>2. CASE firstWritten
  BY <1>1, <1>2, WholePrefix
<1>3. CASE ~firstWritten
  <2>1. "read" \notin Faults /\ "none" \in ChecksumVerdicts(data)
    BY <1>3
  <2>2. PICK source \in SourceHashes, dest \in HashedFromFile(data) :
          "none" = IF source = dest THEN "none" ELSE "CHECKSUM_MISMATCH"
    BY <2>1 DEF ChecksumVerdicts
  <2>3. source = dest /\ dest = data
    BY <2>1, <2>2, HashedWhole
  <2>4. CASE ~inline
    <3>1. FirstBytes(srcLen) \in Seq(Int)
      BY <1>1, FirstBytesSeq
    <3> QED
      BY <2>1, <2>2, <2>3, <2>4, <3>1, HashedWhole DEF SourceHashes
  <2>5. CASE inline
    <3>1. hashed = 0
      BY <1>3, <2>5, FinishFacts
    <3>2. source = FirstBytes(0)
      BY <2>2, <2>5, <3>1 DEF SourceHashes, Foreign
    <3>3. srcLen = 0
      BY <2>3, <3>2, FirstBytesSeq
    <3> QED
      BY <2>3, <3>2, <3>3
  <2> QED
    BY <2>4, <2>5
<1> QED
  BY <1>2, <1>3

\* The checksums of a whole copy are equal, when both files can be read through and all
\* of the source was written.
LEMMA ChecksumBlames ==
  ASSUME TransferInv, pc = "finish", NEW data \in Seq(Int), Len(data) = srcLen,
         firstWritten, IsSourcePrefix(data), bytesWritten >= srcLen,
         "CHECKSUM_MISMATCH" \in ChecksumVerdicts(data)
  PROVE  "read" \in Faults
<1> SUFFICES ASSUME "read" \notin Faults PROVE FALSE
  OBVIOUS
<1>1. srcLen \in Nat /\ Foreign \notin Nat
  BY InvFacts
<1>2. data = FirstBytes(srcLen) /\ FirstBytes(srcLen) \in Seq(Int)
  BY <1>1, ChecksumAccepts, FirstBytesSeq
<1>3. PICK source \in SourceHashes, dest \in HashedFromFile(data) :
        "CHECKSUM_MISMATCH" = IF source = dest THEN "none" ELSE "CHECKSUM_MISMATCH"
  BY DEF ChecksumVerdicts
<1>4. source # dest /\ dest = data
  BY <1>3, HashedWhole
<1>5. CASE ~inline
  BY <1>2, <1>3, <1>4, <1>5, HashedWhole DEF SourceHashes
<1>6. CASE inline
  <2>1. hashed = srcLen
    <3>1. hashed = bytesWritten /\ bytesWritten <= srcLen /\ bytesWritten \in Nat
      BY <1>6, FinishFacts, InvFacts
    <3> QED
      BY <1>1, <3>1
  <2>2. source = FirstBytes(srcLen)
    BY <1>1, <1>3, <1>6, <2>1 DEF SourceHashes
  <2> QED
    BY <1>2, <1>4, <2>2
<1> QED
  BY <1>5, <1>6

\* The checks are made in order, and the byte counts pass.
LEMMA FinishVerdict ==
  ASSUME TransferInv, Finish
  PROVE  /\ thrown' # "READ_WRITE_MISMATCH"
         /\ thrown' = "FILESIZE_MISMATCH" => srcLen # Len(target'.data)
         /\ thrown' \in {"none", "CHECKSUM_MISMATCH"} =>
              /\ thrown' \in ChecksumVerdicts(target'.data)
              /\ target.exists /\ Len(target'.data) = srcLen
<1> DEFINE verdict == thrown'
           data == target'.data
<1>1. bytesRead = bytesWritten /\ sourceSize = srcLen
  BY FinishFacts DEF Finish
<1>2. verdict \in Verdicts(data)
  BY DEF Finish
<1> HIDE DEF verdict, data
<1>3. "READ_WRITE_MISMATCH" \notin ChecksumVerdicts(data)
      /\ "FILESIZE_MISMATCH" \notin ChecksumVerdicts(data)
  BY DEF ChecksumVerdicts
<1>4. /\ verdict # "READ_WRITE_MISMATCH"
      /\ verdict = "FILESIZE_MISMATCH" => srcLen # Len(data)
      /\ verdict \in {"none", "CHECKSUM_MISMATCH"} =>
           /\ verdict \in ChecksumVerdicts(data)
           /\ target.exists /\ Len(data) = srcLen
  BY <1>1, <1>2, <1>3 DEF Verdicts
<1> QED
  BY <1>4 DEF verdict, data

LEMMA FinishInv == ASSUME TransferInv, TypeOK', Finish PROVE TransferInv'
<1>1. /\ pc = "finish" /\ pc' = (IF thrown' = "none" THEN "returned" ELSE "failed")
      /\ UNCHANGED <<srcLen, started, firstWritten, sourceSize, bytesRead,
                     bytesWritten, buff, inline, stopped, hashed>>
  BY DEF Finish, call
<1>2. /\ bytesRead = bytesWritten /\ bytesRead <= srcLen /\ sourceSize = srcLen
      /\ ~Lost
      /\ buff.samplesProcessed \in 0 .. TotalWritableLength
      /\ Clean => buff.samplesProcessed = 0
      /\ bytesRead \in Nat /\ bytesWritten \in Nat /\ srcLen \in Nat
  BY <1>1, FinishFacts, InvFacts
<1> DEFINE data == target'.data
<1>3. /\ ~outStream'.open /\ outStream'.fail = outStream.fail
      /\ target'.exists = target.exists /\ target'.dir = target.dir
      /\ data \in Seq(Int) /\ Len(data) \in Nat
      /\ firstWritten => IsSourcePrefix(data) /\ bytesWritten - Len(data) \in 0 .. MaxLoss
  BY LastClose DEF Created
<1>4. pc' \in {"returned", "failed"} /\ (pc' = "returned" => thrown' = "none")
      /\ (thrown' = "none" => pc' = "returned") /\ ~Running'
  BY <1>1 DEF Running
<1>5. FreshTransfer'
  BY <1>4 DEF FreshTransfer, Running
<1>6. DestCounted'
  BY <1>1, <1>2, <1>3, <1>4 DEF TransferInv, DestCounted, Lost
<1>7. RingOrdered'
  BY <1>4 DEF RingOrdered
<1>8. HashedAhead'
  BY <1>1, <1>2, <1>4 DEF HashedAhead, Clean, NeverThrown
<1>9. ControlInOrder'
  BY <1>3, <1>4 DEF ControlInOrder
<1>10. /\ thrown' # "READ_WRITE_MISMATCH"
       /\ thrown' = "FILESIZE_MISMATCH" => srcLen # Len(data)
       /\ thrown' \in {"none", "CHECKSUM_MISMATCH"} =>
            thrown' \in ChecksumVerdicts(data) /\ Len(data) = srcLen
  BY FinishVerdict
<1>11. VerifiedWhole'
  <2>1. ASSUME pc' = "returned", firstWritten \/ "read" \notin Faults
        PROVE  data = FirstBytes(srcLen)
    <3>1. thrown' = "none"
      BY <1>4, <2>1
    <3>2. "none" \in ChecksumVerdicts(data) /\ Len(data) = srcLen
      BY <1>10, <3>1
    <3> HIDE DEF data
    <3> QED
      BY <1>1, <1>3, <2>1, <3>2, ChecksumAccepts
  <2> QED
    BY <1>1, <2>1 DEF VerifiedWhole, IsSource, FirstBytes
<1>12. AlarmsAreReal'
  <2>1. ASSUME thrown' = "FILESIZE_MISMATCH", firstWritten
        PROVE  bytesRead < srcLen \/ LostOnClose'
    <3> DEFINE d == Len(data)
    <3>1. d \in Nat /\ srcLen # d /\ bytesWritten - d \in 0 .. MaxLoss
      BY <1>3, <1>10, <2>1
    <3> HIDE DEF d
    <3>2. CASE d = bytesWritten
      BY <1>2, <3>1, <3>2
    <3>3. CASE d # bytesWritten
      <4>1. "write" \in Faults
        BY <1>2, <3>1, <3>3 DEF MaxLoss
      <4>2. d \in bytesWritten - BufferLength + 1 .. bytesWritten - 1
        BY <1>2, <3>1, <3>3, <4>1, Bounds DEF MaxLoss
      <4> QED
        BY <1>1, <4>1, <4>2 DEF LostOnClose, d
    <3> QED
      BY <3>2, <3>3
  <2>2. ASSUME thrown' = "CHECKSUM_MISMATCH", firstWritten PROVE "read" \in Faults
    <3>1. "CHECKSUM_MISMATCH" \in ChecksumVerdicts(data) /\ Len(data) = srcLen
      BY <1>10, <2>2
    <3>2. IsSourcePrefix(data) /\ bytesWritten >= srcLen
      <4> DEFINE d == Len(data)
      <4>1. d = srcLen /\ bytesWritten - d \in 0 .. MaxLoss
        BY <1>3, <2>2, <3>1
      <4> HIDE DEF d
      <4>2. bytesWritten >= srcLen
        BY <1>2, <4>1
      <4> QED
        BY <1>3, <2>2, <4>2
    <3> HIDE DEF data
    <3> QED
      BY <1>1, <1>3, <2>2, <3>1, <3>2, ChecksumBlames
  <2> QED
    BY <1>1, <1>10, <2>1, <2>2 DEF AlarmsAreReal
<1>13. srcLen' \in SourceSizes
  BY <1>1 DEF TransferInv
<1> QED
  BY <1>5, <1>6, <1>7, <1>8, <1>9, <1>11, <1>12, <1>13 DEF TransferInv

LEMMA StutterInv == ASSUME TransferInv, TypeOK', UNCHANGED vars PROVE TransferInv'
<1>1. /\ UNCHANGED <<srcLen, target, inStream, outStream, started, firstWritten, sourceSize,
                     bytesRead, bytesWritten, buff, thrown, inline, stopped, hashed, pc>>
  BY DEF vars, fileCopyVars, environment, copier, counters, call
<1>2. /\ FreshTransfer' <=> FreshTransfer
      /\ DestCounted' <=> DestCounted
      /\ RingOrdered' <=> RingOrdered
  BY <1>1 DEF FreshTransfer, Running, DestCounted, RingOrdered, Created, Lost, Overrun, Clean,
              NeverThrown, IsSourcePrefix, CountersAgree, RingFilledInOrder, ChunksInRing,
              ReadCursor, ReadCursorReady, AheadOf, SlotHolds, HeldFollows, HeldIsTail, MaxLoss
<1>3. HashedAhead' <=> HashedAhead
  BY <1>1 DEF HashedAhead, Running, Created, Lost, Overrun, Clean, NeverThrown, Ahead,
              ReadCursor, ReadCursorReady, WriteLength
<1>4. ControlInOrder' <=> ControlInOrder
  BY <1>1 DEF ControlInOrder, Complete, Ready, BytesRemaining
<1>5. VerifiedWhole => VerifiedWhole'
  BY <1>1 DEF VerifiedWhole, IsSource
<1>6. AlarmsAreReal => AlarmsAreReal'
  BY <1>1 DEF AlarmsAreReal, LostOnClose
<1> QED
  BY <1>1, <1>2, <1>3, <1>4, <1>5, <1>6 DEF TransferInv

LEMMA NextInv == ASSUME TransferInv, [Next]_vars PROVE TransferInv'
<1>1. TypeOK'
  BY NextType DEF TransferInv
<1>2. ASSUME Prefetch PROVE TransferInv'
  <2>1. /\ pc = "prefetch" /\ pc' = "test" /\ ReadToBuffer
        /\ UNCHANGED <<inline, stopped, hashed>>
    BY <1>2 DEF Prefetch, Goto, call
  <2> QED
    BY <1>1, <2>1, ReadInv DEF Running
<1>3. ASSUME LoopRead PROVE TransferInv'
  <2>1. /\ pc = "read" /\ pc' = (IF inline THEN "hash" ELSE "write") /\ ReadToBuffer
        /\ UNCHANGED <<inline, stopped, hashed>>
    BY <1>3 DEF LoopRead, Goto, call
  <2> QED
    BY <1>1, <2>1, ReadInv DEF Running
<1> QED
  BY <1>1, <1>2, <1>3, NextFileInv, OpenSourceInv, OpenDestInv, LoopTestInv, HashInv, WriteInv,
     FinishInv, StutterInv
  DEF Next, Transferring

\* Whatever is read short, written badly or thrown: the ring holds what was read and not
\* written, in the order of the source, the destination and its stream what was written,
\* the processing cursor is ahead of the read cursor by the chunk that is hashed, and a write that
\* overtakes the reads happens only after an exception has left processed samples counted.
THEOREM TransferInvariant == Spec => []TransferInv
<1>1. Init => TransferInv
  BY InitInv
<1>2. TransferInv /\ [Next]_vars => TransferInv'
  BY NextInv
<1> QED
  BY <1>1, <1>2, PTL DEF Spec

\* Inline, every byte that execute_transfer writes was hashed before, once and in order.
THEOREM HashedBeforeWritten == Spec => []HashedThenWritten
<1>1. TransferInv => HashedThenWritten
  BY InvHashed
<1> QED
  BY <1>1, TransferInvariant, PTL

\* execute_transfer returns only with the whole source at a destination it has written,
\* whatever was read short or written badly; and only with the whole source at one that
\* it has not, if both files can be read through.
THEOREM VerifiedCopies == Spec => []VerifiedWhole
<1>1. TransferInv => VerifiedWhole
  BY DEF TransferInv
<1> QED
  BY <1>1, TransferInvariant, PTL

\* What the checks at the end of execute_transfer throw for a file that was written is
\* true of it: its source came up short, close() lost a part of what was counted as
\* written, or a file could not be read through.
THEOREM AlarmsReal == Spec => []AlarmsAreReal
<1>1. TransferInv => AlarmsAreReal
  BY DEF TransferInv
<1> QED
  BY <1>1, TransferInvariant, PTL

-------------------------------------------------------------------------------
(* A transfer implements CopySpec, when no exception leaves processed samples counted. *)

\* The status of the abstract copy, before and after a step.
LEMMA StatusBefore ==
  ASSUME TransferInv
  PROVE  /\ pc \in {"source", "dest"} => CopyStatus = "waiting"
         /\ Running => CopyStatus = IF Created THEN "copying" ELSE "waiting"
         /\ pc = "returned" => CopyStatus = "done"
         /\ pc = "failed" => CopyStatus = "failed"
         /\ pc \in {"source", "dest", "returned", "failed"} \/ Running
<1>1. /\ pc \in ProgramCounters
      /\ pc \in {"source", "dest"} => ~firstWritten /\ ~outStream.open
  BY DEF TransferInv, TypeOK, FreshTransfer
<1> QED
  BY <1>1 DEF CopyStatus, ProgramCounters, Running, Created

LEMMA StatusAfter ==
  ASSUME TransferInv'
  PROVE  /\ pc' \in {"source", "dest"} => CopyStatus' = "waiting"
         /\ Running' => CopyStatus' = IF Created' THEN "copying" ELSE "waiting"
         /\ pc' = "returned" => CopyStatus' = "done"
         /\ pc' = "failed" => CopyStatus' = "failed"
<1>1. /\ pc' \in ProgramCounters
      /\ pc' \in {"source", "dest"} => ~firstWritten' /\ ~outStream'.open
  BY DEF TransferInv, TypeOK, FreshTransfer
<1> QED
  BY <1>1 DEF CopyStatus, ProgramCounters, Running, Created

\* A transfer that stops without touching the file is a copy that fails.
LEMMA StopsAreFailures ==
  ASSUME TransferInv, TransferInv', pc # "failed", pc' = "failed",
         UNCHANGED <<srcLen, target>>
  PROVE  Copy!Fail
<1>1. /\ FileCopyTypeOK /\ Len(target.data) \in Nat
      /\ CopyStatus \in {"waiting", "copying", "done"} /\ CopyStatus' = "failed"
  BY StatusBefore, StatusAfter, InvFacts
<1>2. PICK n \in Len(target.data) .. Len(target.data) :
        target' = [target EXCEPT !.data = SubSeq(@, 1, n)]
  BY <1>1, UncutFile
<1>3. n \in 0 .. Len(target.data)
  BY <1>1
<1> QED
  BY <1>1, <1>2, <1>3 DEF Copy!Fail

\* What a write adds to the destination is what the abstract copy grows by.
LEMMA TransferGrows ==
  ASSUME TransferInv, TypeOK', NeverThrown, LoopWrite, target' # target
  PROVE  outStream.open /\ Copy!Grown
<1>1. /\ pc = "write" /\ Pending \in Int /\ WriteOut(Pending)
      /\ FileCopyTypeOK /\ FileCopyTypeOK' /\ srcLen < SizeMod /\ DestCounted /\ RingOrdered
      /\ Running /\ Clean
  BY WriteStep, InvFacts DEF TypeOK, TransferInv, Running, Clean
<1> HIDE DEF Pending
<1>2. outStream.open
  BY <1>1 DEF WriteOut, WriteEnd, WriteNothing, WriteChunk
<1>3. ~outStream.fail
  <2>1. ASSUME outStream.fail PROVE target' = target
    <3>1. outStream.held = <<>>
      BY <1>1, <1>2, <2>1 DEF DestCounted, Lost, Created
    <3>2. CloseDest => target' = target
      BY <1>1, <3>1, CloseDestAppends
    <3> QED
      BY <1>1, <2>1, <3>2
      DEF WriteOut, WriteEnd, WriteNothing, WriteChunk, StreamWrite, WriteThrough, HoldBack,
          WriteBadly
  <2> QED
    BY <2>1
<1>4. Created /\ ~Lost /\ ~Overrun
  BY <1>1, <1>2, <1>3 DEF Created, Lost, RingOrdered
<1>5. /\ CountersAgree /\ RingFilledInOrder
      /\ IsSourcePrefix(target.data) /\ HeldFollows /\ HeldIsTail
      /\ Len(target.data) + Len(outStream.held) = bytesWritten
  BY <1>1, <1>2, <1>4 DEF RingOrdered, DestCounted
<1>6. Pending > 0 => buff.buffered > 0 /\ WriteLength(Pending) = WriteLength(buff.buffered)
  BY <1>1, <1>2, <1>3, WritesNextChunk
<1>7. TargetGrows
  BY <1>1, <1>2, <1>3, <1>5, <1>6, WriteKeepsOrder
<1> QED
  BY <1>2, <1>7 DEF TargetGrows, IsSourcePrefix, Copy!IsPrefix, Copy!Grown

\* Every step of a transfer is a step of the abstract copy or leaves it as it is.
LEMMA TransferStep ==
  ASSUME NeverThrown, TransferInv, TransferInv', [Next]_vars
  PROVE  [Copy!Next]_(Copy!vars)
<1> DEFINE Stutter == UNCHANGED <<srcLen, target, CopyStatus>>
<1>1. Stutter => UNCHANGED Copy!vars
  BY DEF Copy!vars
<1>2. ASSUME NextFile PROVE Copy!NextFile
  <2>1. /\ pc \in {"returned", "failed"} /\ pc' = "source"
        /\ srcLen' \in SourceSizes /\ target' \in Targets
    BY <1>2 DEF NextFile
  <2> QED
    BY <2>1, StatusBefore, StatusAfter DEF Copy!NextFile
<1>3. ASSUME DoOpenSource PROVE Stutter \/ Copy!Fail
  <2>1. pc = "source" /\ pc' \in {"dest", "failed"} /\ UNCHANGED <<srcLen, target>>
    BY <1>3 DEF DoOpenSource, OpenSource, environment
  <2> QED
    BY <2>1, StatusBefore, StatusAfter, StopsAreFailures
<1>4. ASSUME DoOpenDest PROVE Stutter \/ Copy!Create
  <2>1. /\ pc = "dest" /\ pc' = "prefetch" /\ (KeepDest \/ CreateDest)
        /\ srcLen' = srcLen /\ firstWritten' = firstWritten
    BY <1>4 DEF DoOpenDest, OpenDest, Goto
  <2>2. ~firstWritten /\ ~outStream.open /\ FileCopyTypeOK
    BY <2>1 DEF TransferInv, TypeOK, FreshTransfer
  <2>3. CopyStatus = "waiting"
        /\ CopyStatus' = IF outStream'.open THEN "copying" ELSE "waiting"
    BY <2>1, <2>2, StatusBefore, StatusAfter DEF Running, Created
  <2>4. CASE KeepDest \/ ~target.dir
    <3>1. target' = target /\ ~outStream'.open
      BY <2>1, <2>2, <2>4 DEF KeepDest, CreateDest, OpenedOut, FileCopyTypeOK
    <3> QED
      BY <2>1, <2>3, <3>1
  <2>5. CASE CreateDest /\ target.dir
    <3>1. /\ Overwrite \/ ~target.exists
          /\ outStream'.open
          /\ target' = [target EXCEPT !.exists = TRUE, !.data = <<>>]
      BY <2>2, <2>5 DEF CreateDest, OpenedOut
    <3> QED
      BY <2>1, <2>3, <2>5, <3>1 DEF Copy!Create
  <2> QED
    BY <2>1, <2>4, <2>5
<1>5. ASSUME Prefetch \/ LoopTest \/ LoopRead \/ LoopHash PROVE Stutter
  <2>1. /\ UNCHANGED <<srcLen, target, outStream, firstWritten>>
        /\ Running /\ Running'
    BY <1>5
    DEF Prefetch, LoopTest, LoopRead, LoopHash, ReadToBuffer, Goto, Running, fileCopyVars,
        environment, copier
  <2>2. Created' = Created
    BY <2>1 DEF Created
  <2> QED
    BY <2>1, <2>2, StatusBefore, StatusAfter
<1>6. ASSUME LoopWrite PROVE Stutter \/ Copy!Grow \/ Copy!FailGrowing \/ Copy!Fail
  <2>1. /\ pc = "write" /\ pc' \in {"test", "failed"} /\ srcLen' = srcLen
        /\ Running /\ (pc' = "test" => Running') /\ TypeOK'
    BY <1>6, WriteStep DEF TransferInv, Running
  <2>5. Created' <=> Created
    <3>1. CASE NotOpen \/ NothingPending(Pending)
      <4>1. firstWritten' = firstWritten
            /\ \/ outStream' = outStream
               \/ outStream.open /\ (Lost \/ Len(target.data) + Len(outStream.held) > 0)
        <5>1. outStream.open => Lost \/ ~outStream.fail
          BY <1>6, <2>1, WriteStep
        <5> HIDE DEF Pending
        <5> QED
          BY <3>1, <5>1 DEF NotOpen, NothingPending
      <4>2. outStream.open /\ (Lost \/ Len(target.data) + Len(outStream.held) > 0)
            => firstWritten
        <5>1. outStream.open =>
                Lost \/ (~outStream.fail
                          /\ Len(target.data) + Len(outStream.held) = bytesWritten)
          BY <1>6, <2>1, WriteStep
        <5>2. ~firstWritten => bytesWritten = 0
          BY DEF TransferInv, DestCounted
        <5>3. Lost => firstWritten
          BY DEF Lost
        <5> DEFINE n == Len(target.data) + Len(outStream.held)
        <5>4. outStream.open /\ (Lost \/ n > 0) => Lost \/ (n = bytesWritten /\ n > 0)
          BY <5>1
        <5> HIDE DEF n
        <5>5. outStream.open /\ (Lost \/ n > 0) => firstWritten
          BY <5>2, <5>3, <5>4
        <5> QED
          BY <5>5 DEF n
      <4>3. CASE outStream' = outStream
        BY <4>1, <4>3 DEF Created
      <4>4. CASE outStream' # outStream
        BY <4>1, <4>2, <4>4 DEF Created
      <4> QED
        BY <4>3, <4>4
    <3>2. CASE Written(Pending) \/ WriteThrows(Pending) \/ WriteFails(Pending)
      <4>1. outStream.open /\ firstWritten' = TRUE
        BY <3>2 DEF Written, WriteThrows, WriteFails
      <4>2. Created /\ Created'
        BY <4>1 DEF Created
      <4> QED
        BY <4>2
    <3> QED
      <4>1. \/ NotOpen \/ NothingPending(Pending) \/ Written(Pending)
            \/ WriteThrows(Pending) \/ WriteFails(Pending)
        BY <1>6, <2>1, WriteStep
      <4> QED
        BY <3>1, <3>2, <4>1
  <2>2. CASE target' # target
    <3>1. outStream.open /\ Copy!Grown
      BY <1>6, <2>1, <2>2, TransferGrows
    <3>2. CopyStatus = "copying"
          /\ CopyStatus' = IF pc' = "test" THEN "copying" ELSE "failed"
      BY <2>1, <2>5, <3>1, StatusBefore, StatusAfter DEF Created
    <3>3. pc' = "test" => Copy!Grow
      BY <2>1, <3>1, <3>2 DEF Copy!Grow
    <3>4. pc' = "failed" => Copy!FailGrowing
      BY <2>1, <3>1, <3>2 DEF Copy!FailGrowing
    <3> QED
      BY <2>1, <3>3, <3>4
  <2>3. CASE target' = target /\ pc' = "test"
    BY <2>1, <2>3, <2>5, StatusBefore, StatusAfter
  <2>4. CASE target' = target /\ pc' = "failed"
    BY <2>1, <2>4, StopsAreFailures
  <2> QED
    BY <2>1, <2>2, <2>3, <2>4
<1>7. ASSUME Finish PROVE Copy!Complete \/ Copy!Keep \/ Copy!Fail \/ Copy!FailGrowing
  <2>1. /\ pc = "finish" /\ Running /\ srcLen' = srcLen /\ FileCopyTypeOK /\ srcLen \in Nat
        /\ pc' = IF thrown' = "none" THEN "returned" ELSE "failed"
    BY <1>7, InvFacts DEF Finish, Running
  <2>2. /\ target' = target \/ (outStream.open /\ TargetGrows)
        /\ ~Created => target' = target
        /\ Created => IsSourcePrefix(target'.data)
    BY <1>7, LastClose
  <2>3. TargetGrows => Copy!Grown
    BY DEF TargetGrows, IsSourcePrefix, Copy!IsPrefix, Copy!Grown
  <2>4. CASE thrown' = "none"
    <3>1. target.exists /\ Len(target'.data) = srcLen
      BY <1>7, <2>4, FinishVerdict
    <3>2. CopyStatus' = "done" /\ CopyStatus = IF Created THEN "copying" ELSE "waiting"
      BY <2>1, <2>4, StatusBefore, StatusAfter
    <3>3. CASE Created
      <4>1. srcLen - Len(target'.data) <= 0
        BY <2>1, <3>1
      <4>2. Copy!Grown
        <5>1. target' = target => TargetGrows
          BY <2>1, <2>2, <3>3, UnchangedGrows
        <5> QED
          BY <2>2, <2>3, <5>1
      <4> QED
        BY <2>1, <3>2, <3>3, <4>1, <4>2 DEF Copy!Complete
    <3>4. CASE ~Created
      <4>1. ~Overwrite
        BY <2>1, <3>1, <3>4 DEF TransferInv, DestCounted
      <4> QED
        BY <2>1, <2>2, <3>1, <3>2, <3>4, <4>1 DEF Copy!Keep
    <3> QED
      BY <3>3, <3>4
  <2>5. CASE thrown' # "none" /\ target' = target
    BY <2>1, <2>5, StopsAreFailures
  <2>6. CASE thrown' # "none" /\ outStream.open /\ TargetGrows
    <3>1. CopyStatus = "copying" /\ CopyStatus' = "failed"
      BY <2>1, <2>6, StatusBefore, StatusAfter DEF Created
    <3> QED
      BY <2>1, <2>3, <2>6, <3>1 DEF Copy!FailGrowing
  <2> QED
    BY <2>2, <2>4, <2>5, <2>6
<1>8. ASSUME UNCHANGED vars PROVE Stutter
  <2>1. UNCHANGED <<srcLen, target, pc, outStream, firstWritten>>
    BY <1>8 DEF vars, fileCopyVars, environment, copier
  <2> QED
    BY <2>1 DEF CopyStatus
<1> QED
  BY <1>1, <1>2, <1>3, <1>4, <1>5, <1>6, <1>7, <1>8
  DEF Next, Transferring, Copy!Next

\* execute_transfer, with its ring, its hashing and its faults, implements the same
\* abstract copy as FileCopy::execute(): in a release build always, and in a debug build
\* if no write fails.
THEOREM TransferRefinement ==
  ASSUME NeverThrown PROVE Spec => ImplementsCopy
<1>1. Init => Copy!Init
  BY DEF Init, Copy!Init, CopyStatus, ConstructInit, ClosedOut
<1>2. TransferInv /\ TransferInv' /\ [Next]_vars => [Copy!Next]_(Copy!vars)
  BY TransferStep
<1> QED
  BY <1>1, <1>2, TransferInvariant, PTL DEF Spec, ImplementsCopy, Copy!Spec

-------------------------------------------------------------------------------
(* A transfer that hangs hangs for ever. *)

LEMMA RunningTypes ==
  ASSUME TransferInv
  PROVE  /\ FileCopyTypeOK /\ srcLen < SizeMod /\ srcLen \in Nat /\ bytesRead \in Nat
         /\ Running => bytesRead <= srcLen /\ bytesRead < SizeMod
                       /\ (inStream.open => inStream.pos = bytesRead)
<1>1. /\ FileCopyTypeOK /\ bytesRead \in Nat
      /\ Running => bytesRead <= srcLen /\ (inStream.open => inStream.pos = bytesRead)
  BY DEF TransferInv, TypeOK, FileCopyTypeOK, RingOrdered
<1>2. srcLen \in Nat /\ srcLen < SizeMod
  BY SourceLength DEF TransferInv
<1> QED
  BY <1>1, <1>2, Bounds

\* open_source leaves a stream without failbit, or none.
LEMMA StartsUnread ==
  ASSUME UnreadAtStart, [Next]_vars PROVE UnreadAtStart'
<1>1. ASSUME DoOpenSource PROVE UnreadAtStart'
  <2>1. /\ pc' \in {"dest", "failed"}
        /\ pc' = "dest" => (SourceMissing /\ thrown' = "none") \/ OpenSourceStream
    BY <1>1 DEF DoOpenSource, OpenSource
  <2>2. SourceMissing => thrown' # "none"
    BY DEF SourceMissing
  <2>3. OpenSourceStream => inStream'.fail = ~inStream'.open
    BY DEF OpenSourceStream
  <2> QED
    BY <2>1, <2>2, <2>3 DEF UnreadAtStart
<1>2. ASSUME DoOpenDest PROVE UnreadAtStart'
  BY <1>2 DEF DoOpenDest, OpenDest, Goto, UnreadAtStart
<1>3. ASSUME UNCHANGED vars PROVE UnreadAtStart'
  BY <1>3 DEF vars, fileCopyVars, copier, UnreadAtStart
<1>4. ASSUME NextFile \/ Prefetch \/ LoopTest \/ LoopRead \/ LoopHash \/ LoopWrite \/ Finish
      PROVE  UnreadAtStart'
  <2>1. pc' \notin {"dest", "prefetch"}
    BY <1>4
    DEF NextFile, Prefetch, LoopTest, LoopRead, LoopHash, LoopWrite, Finish, Goto
  <2> QED
    BY <2>1 DEF UnreadAtStart
<1> QED
  BY <1>1, <1>2, <1>3, <1>4 DEF Next, Transferring

\* The chunk read ahead has something in it.
LEMMA HangsFromStart ==
  ASSUME TransferInv, TransferInv', UnreadAtStart, Prefetch, Stuck, "read" \notin Faults
  PROVE  WaitsForDest'
<1>1. pc = "prefetch" /\ pc' = "test" /\ ReadToBuffer /\ Running
  BY DEF Prefetch, Goto, Running
<1>2. /\ bytesRead = 0 /\ bytesWritten = 0 /\ buff.buffered = 0
      /\ inStream.open /\ ~inStream.fail /\ ~outStream.open /\ srcLen > 0
  BY <1>1 DEF TransferInv, FreshTransfer, UnreadAtStart, Stuck
<1>3. BuffersAvailable(buff) # 0 /\ bytesRead # srcLen
  BY <1>2, EmptyRingReads
<1>4. /\ FileCopyTypeOK /\ FileCopyTypeOK' /\ srcLen < SizeMod /\ bytesRead' \in Nat
      /\ bytesRead <= srcLen /\ inStream.pos = bytesRead
  BY <1>1, <1>2, RunningTypes DEF TransferInv, TypeOK, FileCopyTypeOK
<1>5. bytesRead < bytesRead'
  BY <1>1, <1>2, <1>3, <1>4, ReadsThrough
<1>6. bytesRead' # 0
  BY <1>2, <1>5
<1>7. UNCHANGED <<outStream, bytesWritten>>
  BY <1>1 DEF ReadToBuffer
<1> QED
  BY <1>1, <1>2, <1>6, <1>7 DEF WaitsForDest

LEMMA WaitsForDestStays ==
  ASSUME TransferInv, TransferInv', WaitsForDest, Transferring
  PROVE  WaitsForDest'
<1>1. /\ Running /\ pc \in {"test", "read", "hash", "write"} /\ thrown = "none"
      /\ ~outStream.open /\ bytesWritten = 0 /\ bytesRead # 0
  BY DEF WaitsForDest, Running, TransferInv, ControlInOrder
<1>2. /\ FileCopyTypeOK /\ srcLen < SizeMod /\ bytesRead \in Nat /\ bytesRead < SizeMod
      /\ bytesRead <= srcLen /\ (inStream.open => inStream.pos = bytesRead)
  BY <1>1, RunningTypes
<1>3. ASSUME LoopTest PROVE WaitsForDest'
  <2>1. /\ pc = "test" /\ UNCHANGED <<outStream, bytesRead, bytesWritten>>
        /\ pc' = IF Complete(inStream, outStream) THEN "finish" ELSE "read"
    BY <1>3 DEF LoopTest, fileCopyVars, copier, counters
  <2>2. bytesRead - bytesWritten = bytesRead
    BY <1>1, <1>2
  <2>3. AsSize(bytesRead) = bytesRead
    BY <1>2, AsSizeNat, Bounds
  <2>4. ~Complete(inStream, outStream)
    BY <1>1, <2>2, <2>3 DEF Complete, BytesRemaining
  <2> QED
    BY <1>1, <2>1, <2>4 DEF WaitsForDest
<1>4. ASSUME LoopRead PROVE WaitsForDest'
  <2>1. ReadToBuffer /\ pc' \in {"hash", "write"}
    BY <1>4 DEF LoopRead, Goto
  <2>2. FileCopyTypeOK' /\ bytesRead' \in Nat
    BY DEF TransferInv, TypeOK, FileCopyTypeOK
  <2>3. UNCHANGED <<outStream, bytesWritten>> /\ bytesRead <= bytesRead'
    BY <1>2, <2>1, <2>2, ReadFacts
  <2>4. bytesRead' # 0
    BY <1>1, <1>2, <2>2, <2>3
  <2> QED
    BY <1>1, <2>1, <2>3, <2>4 DEF WaitsForDest
<1>5. ASSUME LoopHash PROVE WaitsForDest'
  BY <1>1, <1>5 DEF LoopHash, Goto, counters, WaitsForDest
<1>6. ASSUME LoopWrite PROVE WaitsForDest'
  <2>1. /\ WriteNothing /\ UNCHANGED bytesRead
    BY <1>1, <1>6
    DEF LoopWrite, WriteFromBuffer, WriteProcessedFromBuffer, WriteOut, WriteChunk, WriteEnd
  <2>2. thrown' = "none" /\ UNCHANGED <<outStream, bytesWritten>>
    BY <1>1, <2>1 DEF WriteNothing
  <2>3. pc' = "test"
    BY <1>6, <2>2 DEF LoopWrite
  <2> QED
    BY <1>1, <2>1, <2>2, <2>3 DEF WaitsForDest
<1>7. ASSUME DoOpenSource \/ DoOpenDest \/ Prefetch \/ Finish PROVE FALSE
  BY <1>1, <1>7 DEF DoOpenSource, DoOpenDest, Prefetch, Finish, Goto
<1> QED
  BY <1>3, <1>4, <1>5, <1>6, <1>7 DEF Transferring

LEMMA HangingStays ==
  ASSUME TransferInv, TransferInv', UnreadAtStart, Hanging, [Next]_vars,
         "read" \notin Faults
  PROVE  Hanging'
<1>1. pc \in {"prefetch", "test", "read", "hash", "write"}
  BY DEF Hanging, WaitsForDest
<1>2. ASSUME UNCHANGED vars PROVE Hanging'
  <2>1. UNCHANGED <<pc, srcLen, inStream, outStream, bytesRead, bytesWritten>>
    BY <1>2 DEF vars, fileCopyVars, environment, copier, counters
  <2> QED
    BY <2>1 DEF Hanging, Stuck, WaitsForDest
<1>3. ASSUME NextFile PROVE FALSE
  BY <1>1, <1>3 DEF NextFile
<1>4. ASSUME Transferring PROVE Hanging'
  <2>1. CASE pc = "prefetch" /\ Stuck
    <3>1. Prefetch
      BY <1>4, <2>1
      DEF Transferring, DoOpenSource, DoOpenDest, LoopTest, LoopRead, LoopHash, LoopWrite,
          Finish, Goto
    <3> QED
      BY <2>1, <3>1, HangsFromStart DEF Hanging
  <2> QED
    BY <1>4, <2>1, WaitsForDestStays DEF Hanging
<1> QED
  BY <1>2, <1>3, <1>4 DEF Next

\* When no read fails, execute_transfer never ends for a destination that open_dest has
\* left closed, whatever the size of the source and with either way of hashing.
THEOREM StuckTransfers ==
  ASSUME "read" \notin Faults PROVE Spec => StuckForever
<1>1. Init => UnreadAtStart
  BY DEF Init, UnreadAtStart
<1>2. UnreadAtStart /\ [Next]_vars => UnreadAtStart'
  BY StartsUnread
<1>3. TransferInv /\ TransferInv' /\ UnreadAtStart /\ Hanging /\ [Next]_vars => Hanging'
  BY HangingStays
<1>4. (pc = "prefetch" /\ Stuck) => Hanging
  BY DEF Hanging
<1>5. Hanging => ~Ended
  BY DEF Hanging, WaitsForDest, Ended
<1> QED
  BY <1>1, <1>2, <1>3, <1>4, <1>5, TransferInvariant, PTL DEF Spec, StuckForever

-------------------------------------------------------------------------------
(* The progress bar, for every width of it that an int holds and every size of *)
(* file and buffer.                                                             *)

\* Quotients are in the order of their dividends.
LEMMA QuotientBounds ==
  ASSUME NEW x \in Int, NEW d \in Int, d > 0
  PROVE  x \div d \in Int /\ d * (x \div d) <= x /\ x < d * (x \div d) + d
BY SMTT(30)

LEMMA ProductGrows ==
  ASSUME NEW d \in Int, d > 0, NEW p \in Int, NEW q \in Int, p <= q
  PROVE  d * p \in Int /\ d * q \in Int /\ d * p <= d * q
BY SMTT(30)

LEMMA QuotientBelow ==
  ASSUME NEW x \in Int, NEW d \in Int, d > 0, NEW q \in Int, x < d * q + d
  PROVE  x \div d <= q
<1> DEFINE p == x \div d
<1>1. p \in Int /\ d * p <= x
  BY QuotientBounds
<1>2. ASSUME p > q PROVE FALSE
  <2>1. d * (q + 1) <= d * p
    BY <1>1, <1>2, ProductGrows
  <2>2. d * (q + 1) = d * q + d
    BY SMTT(30)
  <2> QED
    BY <1>1, <2>1, <2>2, ProductGrows
<1> QED
  BY <1>1, <1>2

LEMMA QuotientGrows ==
  ASSUME NEW x \in Int, NEW y \in Int, x <= y, NEW d \in Int, d > 0
  PROVE  x \div d <= y \div d
<1>1. y \div d \in Int /\ y < d * (y \div d) + d
  BY QuotientBounds
<1> DEFINE q == y \div d
<1> HIDE DEF q
<1>2. q \in Int /\ d * q \in Int /\ y < d * q + d
  BY <1>1, ProductGrows DEF q
<1>3. x < d * q + d
  BY <1>2
<1> QED
  BY <1>2, <1>3, QuotientBelow DEF q

\* Half up: less than half a character rounds to none.
LEMMA ElapsedBounds ==
  ASSUME NEW b, b.maximum \in Nat, b.maximum > 0, b.state \in 0 .. b.maximum
  PROVE  /\ Elapsed(b) \in 0 .. Width
         /\ b.state = 0 => Elapsed(b) = 0
<1> DEFINE m == b.maximum
           d == 2 * m
           x == 2 * b.state * Width + m
<1>1. m \in Nat /\ m > 0 /\ d \in Int /\ d > 0 /\ b.state \in Int /\ 0 <= b.state
      /\ b.state <= m
  OBVIOUS
<1>2. Width \in Int /\ Width >= 0
  BY ProgressAssumption
<1>3. x \in Int /\ x >= 0 /\ x < d * Width + d
  <2>1. \A k \in Int : k >= 0 => 2 * k * Width = (2 * Width) * k
    BY <1>2, SMTT(30)
  <2> DEFINE w == 2 * Width
  <2>2. w * 0 <= w * b.state /\ w * b.state <= w * m /\ w * b.state \in Int /\ w * m \in Int
    <3>1. CASE Width = 0
      BY <1>1, <3>1
    <3>2. CASE Width > 0
      <4>1. w \in Int /\ w > 0
        BY <1>2, <3>2
      <4> HIDE DEF w, m
      <4> QED
        BY <1>1, <4>1, ProductGrows
    <3> QED
      BY <1>2, <3>1, <3>2
  <2>3. d * Width = w * m
    BY <1>1, <1>2, SMTT(30)
  <2>4. 2 * b.state * Width = w * b.state
    BY <1>1, <2>1
  <2> DEFINE low  == w * b.state
             high == w * m
  <2>5. low \in Int /\ low >= 0 /\ low <= high /\ high \in Int
    <3>1. w * 0 = 0
      BY <1>2
    <3> HIDE DEF w, m
    <3> QED
      BY <2>2, <3>1
  <2>6. x = low + m /\ d * Width = high
    BY <2>3, <2>4
  <2> HIDE DEF low, high, x
  <2>7. low + m \in Int /\ low + m >= 0 /\ low + m < high + d
    BY <1>1, <2>5
  <2> QED
    BY <2>6, <2>7
<1>4. Elapsed(b) = x \div d
  BY DEF Elapsed
<1>5. b.state = 0 => x \div d = 0
  <2>1. b.state = 0 => x = m
    BY <1>1, <1>2
  <2> HIDE DEF x
  <2>2. b.state = 0 => x >= 0 /\ x < d
    BY <1>1, <2>1
  <2> HIDE DEF d
  <2> QED
    BY <1>1, <1>3, <2>2, DivBetween
<1>6. x \div d \in 0 .. Width
  <2> HIDE DEF x, d
  <2>1. x \div d <= Width
    BY <1>1, <1>2, <1>3, QuotientBelow
  <2>2. 0 \div d = 0 /\ 0 \div d <= x \div d
    BY <1>1, <1>3, QuotientGrows, DivBetween
  <2>3. x \div d \in Int
    BY <1>1, <1>3, QuotientBounds
  <2> QED
    BY <1>2, <2>1, <2>2, <2>3
<1> QED
  BY <1>4, <1>5, <1>6

\* A bar of the same maximum never gets shorter as its state grows.
LEMMA ElapsedGrows ==
  ASSUME NEW b, NEW c, b.maximum \in Nat, b.maximum > 0, c.maximum = b.maximum,
         b.state \in Nat, c.state \in Nat, b.state <= c.state
  PROVE  Elapsed(b) <= Elapsed(c)
<1> DEFINE d == 2 * b.maximum
           w == 2 * Width
<1>1. d \in Int /\ d > 0 /\ w \in Int /\ w > 0 /\ b.maximum \in Int
  BY ProgressAssumption
<1>2. \A k \in Int : 2 * k * Width = w * k
  BY ProgressAssumption, SMTT(30)
<1>3. Elapsed(b) = (w * b.state + b.maximum) \div d
  BY <1>2 DEF Elapsed
<1>4. Elapsed(c) = (w * c.state + b.maximum) \div d
  BY <1>2 DEF Elapsed
<1> HIDE DEF d, w
<1>5. w * b.state \in Int /\ w * c.state \in Int /\ w * b.state <= w * c.state
  BY <1>1, ProductGrows
<1> DEFINE x == w * b.state + b.maximum
           y == w * c.state + b.maximum
<1>6. x \in Int /\ y \in Int /\ x <= y
  BY <1>1, <1>5
<1>7. Elapsed(b) = x \div d /\ Elapsed(c) = y \div d
  BY <1>3, <1>4
<1> HIDE DEF x, y
<1> QED
  BY <1>1, <1>6, <1>7, QuotientGrows

-------------------------------------------------------------------------------
(* The invariant of the bar. *)

\* A size_t that counts up to b from a.
LEMMA CountedUp ==
  ASSUME NEW a \in Nat, NEW b \in Nat, a <= b, b < SizeMod
  PROVE  a + AsSize(b - a) = b /\ b % SizeMod = b
<1>1. SizeMod \in Nat
  BY Bounds
<1>2. b - a \in 0 .. SizeMod - 1
  BY <1>1
<1>3. AsSize(b - a) = b - a
  BY <1>2, AsSizeNat
<1>4. b % SizeMod = b
  BY <1>1, DivBetween
<1> QED
  BY <1>3, <1>4

\* What PrintBar does to the counters of the bar.
LEMMA BarCounts ==
  ASSUME TypeOK, TypeOK', PrintBar, bar.state = bytesWritten,
         bytesWritten <= bytesWritten', bytesWritten' < SizeMod
  PROVE  bar'.state = bytesWritten' /\ bar'.maximum = bar.maximum
<1>1. bytesWritten \in Nat /\ bytesWritten' \in Nat
  BY DEF TypeOK, FileCopyTypeOK
<1>2. /\ bytesWritten + AsSize(bytesWritten' - bytesWritten) = bytesWritten'
      /\ bytesWritten' % SizeMod = bytesWritten'
  BY <1>1, CountedUp
<1>3. bar' = [bar EXCEPT !.state = bytesWritten' % SizeMod]
  BY <1>2 DEF PrintBar, IncrementProgress
<1>4. bar \in [maximum : Nat, state : 0 .. SizeMod - 1]
  BY DEF TypeOK
<1> QED
  BY <1>2, <1>3, <1>4

\* What PrintBar does to the text, when the bar grows.
LEMMA BarText ==
  ASSUME TypeOK, TypeOK', PrintBar, Width < IntHalf, TextShowsBar,
         bar.maximum > 0, bar'.maximum = bar.maximum,
         bar.state = bytesWritten, bar'.state = bytesWritten',
         bytesWritten <= bytesWritten', bytesWritten' <= bar'.maximum
  PROVE  TextShowsBar'
<1>1. /\ bytesWritten \in Nat /\ bytesWritten' \in Nat /\ bar.maximum \in Nat
  BY DEF TypeOK, FileCopyTypeOK
<1>2. Width \in Nat /\ IntHalf \in Nat
  BY ProgressAssumption, Bounds
<1> DEFINE e == Elapsed(bar')
           was == Elapsed(bar)
<1>3. /\ e \in 0 .. Width /\ (bytesWritten' = 0 => e = 0)
      /\ was \in 0 .. Width /\ was <= e
  <2>1. bar'.state \in 0 .. bar'.maximum /\ bar.state \in 0 .. bar.maximum
    BY <1>1
  <2> QED
    BY <1>1, <2>1, ElapsedBounds, ElapsedGrows
<1>4. ~(e > IntHalf - 1)
  BY <1>2, <1>3
<1>5. text' = Draw(text, e)
  BY <1>1, <1>4 DEF PrintBar, GetBar
<1> HIDE DEF e, was
<1>6. \A i \in 0 .. Width - 1 :
        text'[i] = IF i < e THEN "#" ELSE IF i < Width - e THEN "-" ELSE text[i]
  BY <1>5 DEF Draw
<1>7. \A i \in 0 .. Width - 1 : text[i] = "#" => i < e
  <2>1. CASE text = BlankText
    BY <2>1 DEF BlankText
  <2>2. CASE \A i \in 0 .. Width - 1 : text[i] = "#" <=> i < was
    BY <1>2, <1>3, <2>2
  <2> QED
    BY <2>1, <2>2 DEF TextShowsBar, was
<1>8. \A i \in 0 .. Width - 1 : text'[i] = "#" <=> i < e
  BY <1>6, <1>7
<1>9. ASSUME bytesWritten' = 0, NEW i \in 0 .. Width - 1 PROVE text'[i] = "-"
  <2>1. ~(i < e) /\ i < Width - e
    BY <1>2, <1>3, <1>9
  <2> QED
    BY <1>6, <2>1
<1> QED
  BY <1>8, <1>9 DEF TextShowsBar, e

LEMMA BarUnchanged ==
  ASSUME BarInv, UNCHANGED <<bar, text, bytesWritten, sourceSize>>,
         outStream.fail => outStream'.fail,
         pc \in {"test", "read", "hash", "write", "finish", "returned"},
         pc' \notin {"source", "dest", "prefetch"}
  PROVE  BarInv'
<1>1. TextShowsBar' <=> TextShowsBar
  BY DEF TextShowsBar, Elapsed
<1> QED
  BY <1>1 DEF BarInv

\* The write and the bar that is printed after it.
LEMMA WriteShows ==
  ASSUME TransferInv, TransferInv', BarInv, NeverThrown, Width < IntHalf, LoopWrite
  PROVE  BarInv'
<1>1. /\ TypeOK /\ TypeOK' /\ Running /\ sourceSize' = sourceSize /\ pc = "write"
      /\ pc' = (IF thrown' = "none" THEN "test" ELSE "failed")
  BY WriteStep DEF TransferInv, Running
<1>2. CASE pc' = "failed"
  BY <1>2 DEF BarInv
<1>3. CASE pc' = "test"
  <2>1. Running' /\ PrintBar
    BY <1>1, <1>3 DEF LoopWrite, Running
  <2>2. bar'.maximum = bar.maximum /\ bar.maximum = sourceSize
    BY <1>1, <2>1 DEF PrintBar, IncrementProgress, TypeOK, BarInv
  <2>3. CASE outStream'.fail
    BY <1>1, <1>3, <2>2, <2>3 DEF BarInv
  <2>4. CASE ~outStream'.fail
    <3>1. ~outStream.fail /\ bytesWritten <= bytesWritten'
      <4>1. NotOpen \/ NothingPending(Pending) \/ Written(Pending)
        <5>1. \/ NotOpen \/ NothingPending(Pending) \/ Written(Pending)
              \/ WriteThrows(Pending) \/ WriteFails(Pending)
          BY <1>1, WriteStep
        <5> QED
          BY <2>4, <5>1 DEF WriteThrows, WriteFails
      <4>2. FileCopyTypeOK /\ outStream \in [open : BOOLEAN, fail : BOOLEAN, held : Seq(Int)]
            /\ bytesWritten \in Nat /\ bytesWritten' \in Nat
        BY <1>1 DEF TypeOK, FileCopyTypeOK
      <4>3. ~outStream.fail
        <5>1. CloseDest => outStream'.fail = outStream.fail
          BY <4>2, CloseDestAppends
        <5> HIDE DEF Pending
        <5> QED
          BY <2>4, <4>1, <5>1 DEF NotOpen, NothingPending, Written
      <4>4. bytesWritten <= bytesWritten'
        <5>1. CASE Written(Pending)
          <6>1. WriteLength(Pending) \in 0 .. BufferLength
            BY <1>1, WriteStep, WriteLengthBound
          <6>2. bytesWritten' = bytesWritten + WriteLength(Pending)
            BY <5>1 DEF Written
          <6> QED
            BY <4>2, <6>1, <6>2, Bounds
        <5> QED
          BY <4>1, <4>2, <5>1 DEF NotOpen, NothingPending
      <4> QED
        BY <2>4, <4>3, <4>4
    <3>2. bytesWritten' <= sourceSize' /\ bytesWritten' < SizeMod
      <4>1. ~Overrun'
        BY <2>1, <2>4 DEF TransferInv, RingOrdered, Clean, NeverThrown, Lost
      <4>2. /\ bytesRead' <= srcLen' /\ sourceSize' = srcLen'
            /\ bytesRead' \in Nat /\ bytesWritten' \in Nat /\ srcLen' \in SourceSizes
        BY <2>1 DEF TransferInv, RingOrdered, FreshTransfer, TypeOK, FileCopyTypeOK
      <4>3. srcLen' \in Nat /\ srcLen' < SizeMod
        BY <4>2, SourceLength
      <4> QED
        BY <4>1, <4>2, <4>3, Bounds DEF Overrun
    <3>3. bar'.state = bytesWritten'
      BY <1>1, <2>1, <3>1, <3>2, BarCounts DEF BarInv
    <3>4. bar.maximum > 0 => TextShowsBar'
      BY <1>1, <2>1, <2>2, <3>1, <3>2, <3>3, BarText DEF BarInv
    <3> QED
      BY <1>1, <1>3, <2>2, <3>2, <3>3, <3>4 DEF BarInv
  <2> QED
    BY <2>3, <2>4
<1> QED
  BY <1>1, <1>2, <1>3

LEMMA BarInitially == ASSUME Init PROVE BarInv
BY DEF Init, BarInv

LEMMA BarNext ==
  ASSUME TransferInv, TransferInv', BarInv, NeverThrown, Width < IntHalf, [Next]_vars
  PROVE  BarInv'
<1>1. ASSUME NextFile PROVE BarInv'
  BY <1>1 DEF NextFile, BarInv
<1>2. ASSUME DoOpenSource PROVE BarInv'
  <2>1. pc = "source" /\ pc' \in {"dest", "failed"} /\ UNCHANGED <<bar, text>>
    BY <1>2 DEF DoOpenSource, progress
  <2> QED
    BY <2>1 DEF BarInv
<1>3. ASSUME DoOpenDest PROVE BarInv'
  <2>1. pc = "dest" /\ pc' = "prefetch" /\ UNCHANGED <<bar, text>>
    BY <1>3 DEF DoOpenDest, Goto, progress
  <2> QED
    BY <2>1 DEF BarInv
<1>4. ASSUME Prefetch PROVE BarInv'
  <2>1. /\ pc = "prefetch" /\ pc' = "test" /\ text' = text
        /\ bar' = SetMaximum(NewProgress, sourceSize)
        /\ UNCHANGED <<bytesWritten, sourceSize>>
    BY <1>4 DEF Prefetch, Goto, ReadToBuffer
  <2>2. bytesWritten = 0 /\ text = BlankText /\ sourceSize \in Nat
    BY <2>1 DEF TransferInv, TypeOK, FileCopyTypeOK, FreshTransfer, BarInv
  <2>3. bar'.maximum = sourceSize /\ bar'.state = 0
    BY <2>1 DEF SetMaximum, NewProgress
  <2> QED
    BY <2>1, <2>2, <2>3 DEF BarInv, TextShowsBar
<1>5. ASSUME LoopTest PROVE BarInv'
  <2>1. /\ pc = "test" /\ pc' \in {"finish", "read"}
        /\ UNCHANGED <<bar, text, bytesWritten, sourceSize, outStream>>
    BY <1>5 DEF LoopTest, progress, fileCopyVars, copier, counters
  <2> QED
    BY <2>1, BarUnchanged
<1>6. ASSUME LoopRead PROVE BarInv'
  <2>1. /\ pc = "read" /\ pc' \in {"hash", "write"}
        /\ UNCHANGED <<bar, text, bytesWritten, sourceSize, outStream>>
    BY <1>6 DEF LoopRead, Goto, progress, ReadToBuffer
  <2> QED
    BY <2>1, BarUnchanged
<1>7. ASSUME LoopHash PROVE BarInv'
  <2>1. /\ pc = "hash" /\ pc' = "write"
        /\ UNCHANGED <<bar, text, bytesWritten, sourceSize, outStream>>
    BY <1>7 DEF LoopHash, Goto, progress, counters
  <2> QED
    BY <2>1, BarUnchanged
<1>8. ASSUME LoopWrite PROVE BarInv'
  BY <1>8, WriteShows
<1>9. ASSUME Finish PROVE BarInv'
  <2>1. /\ pc = "finish" /\ pc' \in {"returned", "failed"} /\ CloseDest
        /\ UNCHANGED <<bar, text, bytesWritten, sourceSize>>
    BY <1>9 DEF Finish, progress, CloseStreams
  <2>2. outStream'.fail = outStream.fail
    BY <2>1, InvFacts, CloseDestAppends
  <2> QED
    BY <2>1, <2>2, BarUnchanged
<1>10. ASSUME UNCHANGED vars PROVE BarInv'
  <2>1. UNCHANGED <<pc, bar, text, bytesWritten, sourceSize, outStream>>
    BY <1>10 DEF vars, progress, fileCopyVars, copier, counters
  <2>2. TextShowsBar' <=> TextShowsBar
    BY <2>1 DEF TextShowsBar, Elapsed
  <2> QED
    BY <2>1, <2>2 DEF BarInv
<1> QED
  BY <1>1, <1>2, <1>3, <1>4, <1>5, <1>6, <1>7, <1>8, <1>9, <1>10
  DEF Next, Transferring

\* As many characters are set as the counters say.
LEMMA Shown ==
  ASSUME TypeOK, NEW e \in 0 .. Width,
         \A i \in 0 .. Width - 1 : text[i] = "#" <=> i < e
  PROVE  Cardinality({i \in DOMAIN text : text[i] = "#"}) = e
<1>1. DOMAIN text = 0 .. Width - 1 /\ Width \in Nat
  BY ProgressAssumption DEF TypeOK
<1>2. {i \in DOMAIN text : text[i] = "#"} = 0 .. e - 1
  <2>1. \A i : i \in 0 .. e - 1 <=> i \in 0 .. Width - 1 /\ i < e
    BY <1>1
  <2> QED
    BY <1>1, <2>1
<1>3. Cardinality(0 .. e - 1) = e
  BY FS_Interval
<1> QED
  BY <1>2, <1>3

LEMMA BarInvShows ==
  ASSUME TypeOK, BarInv PROVE BarShowsProgress
<1> SUFFICES ASSUME pc \in {"test", "finish", "returned"}, ~outStream.fail, bar.maximum > 0
             PROVE  LET shown == Cardinality({i \in DOMAIN text : text[i] = "#"})
                    IN  /\ bar.state = bytesWritten /\ bytesWritten <= sourceSize
                        /\ shown = Elapsed(bar) \/ (bytesWritten = 0 /\ text = BlankText)
                        /\ \A i \in DOMAIN text : text[i] = "#" <=> i < shown
                        /\ bytesWritten = 0 =>
                             text = BlankText \/ \A i \in DOMAIN text : text[i] = "-"
  BY DEF BarShowsProgress
<1> DEFINE shown == Cardinality({i \in DOMAIN text : text[i] = "#"})
           e == Elapsed(bar)
<1>1. /\ bar.state = bytesWritten /\ bytesWritten <= sourceSize
      /\ bar.maximum = sourceSize /\ TextShowsBar
  BY DEF BarInv
<1>2. /\ bytesWritten \in Nat /\ sourceSize \in Nat
      /\ DOMAIN text = 0 .. Width - 1 /\ Width \in Nat
  BY ProgressAssumption DEF TypeOK, FileCopyTypeOK
<1>3. e \in 0 .. Width
  <2>1. bar.state \in 0 .. bar.maximum /\ bar.maximum \in Nat
    BY <1>1, <1>2
  <2> QED
    BY <2>1, ElapsedBounds
<1>4. CASE bytesWritten = 0 /\ text = BlankText
  <2>1. \A i \in 0 .. Width - 1 : text[i] = "#" <=> i < 0
    BY <1>2, <1>4 DEF BlankText
  <2>2. 0 \in 0 .. Width
    BY <1>2
  <2>3. shown = 0
    BY <2>1, <2>2, Shown
  <2> QED
    BY <1>1, <1>2, <1>4, <2>1, <2>3
<1>5. CASE /\ \A i \in 0 .. Width - 1 : text[i] = "#" <=> i < e
           /\ bytesWritten = 0 => \A i \in 0 .. Width - 1 : text[i] = "-"
  <2>1. shown = e
    BY <1>3, <1>5, Shown
  <2> HIDE DEF shown, e
  <2> QED
    BY <1>1, <1>2, <1>5, <2>1 DEF shown, e
<1> QED
  BY <1>1, <1>4, <1>5 DEF TextShowsBar

\* The bar printed after each write shows what was written, to the nearest character,
\* and nothing else, for every width that an int holds, every size of file, and every
\* chunk: provided that no exception has left the object with stale counts.
THEOREM BarIsRight ==
  ASSUME NeverThrown, Width < IntHalf PROVE Spec => []BarShowsProgress
<1>1. Init => BarInv
  BY BarInitially
<1>2. TransferInv /\ TransferInv' /\ BarInv /\ [Next]_vars => BarInv'
  BY BarNext
<1>3. TransferInv /\ BarInv => BarShowsProgress
  BY BarInvShows DEF TransferInv
<1> QED
  BY <1>1, <1>2, <1>3, TransferInvariant, PTL DEF Spec
===============================================================================
