---------------------------- MODULE CopyJobProofs ----------------------------
(***************************************************************************)
(* Proofs about CopyJob, for every buffer length, every width of the       *)
(* counters, every set of source lengths and of existing destinations, in  *)
(* both builds, with and without faults, crashes and _overwrite; what      *)
(* execute() returns with, and that a copier implements CopySpec.          *)
(***************************************************************************)
EXTENDS CopyJob, FileCopyProofs

-------------------------------------------------------------------------------
(* Type correctness. *)

LEMMA SourceLength == \A n \in SourceSizes : n \in Nat /\ n < SizeMod
BY Bounds, CopyJobAssumption

LEMMA TargetType ==
  \A t \in Targets : t \in [dir : BOOLEAN, exists : BOOLEAN, data : Seq(Int)]
BY CopyJobAssumption

LEMMA InitType == ASSUME Init PROVE TypeOK
<1>1. /\ srcLen \in Nat
      /\ target \in [dir : BOOLEAN, exists : BOOLEAN, data : Seq(Int)]
  BY SourceLength, TargetType DEF Init
<1>2. FileCopyTypeOK
  BY <1>1, ConstructInitType DEF Init
<1> QED
  BY <1>1, <1>2 DEF Init, TypeOK, ProgramCounters

\* A file cut short by a crash.
LEMMA CutShort ==
  ASSUME FileCopyTypeOK, NEW n \in 0 .. Len(target.data),
         target' = [target EXCEPT !.data = SubSeq(@, 1, n)]
  PROVE  /\ target' \in [dir : BOOLEAN, exists : BOOLEAN, data : Seq(Int)]
         /\ Len(target'.data) = n
         /\ \A k \in 1 .. n : target'.data[k] = target.data[k]
         /\ n = Len(target.data) => target' = target
<1>1. /\ target \in [dir : BOOLEAN, exists : BOOLEAN, data : Seq(Int)]
      /\ target.data \in Seq(Int)
  BY DEF FileCopyTypeOK
<1> DEFINE cut == SubSeq(target.data, 1, n)
<1>2. Len(target.data) \in Nat
  BY <1>1, LenProperties
<1>3. \A i \in 1 .. n : target.data[i] \in Int
  BY <1>1, <1>2, ElementOfSeq
<1>4. n \in Int
  BY <1>2
<1>5. /\ cut \in Seq(Int)
      /\ Len(cut) = IF 1 <= n THEN n - 1 + 1 ELSE 0
      /\ \A k \in 1 .. n - 1 + 1 : cut[k] = target.data[1 + k - 1]
  BY <1>3, <1>4, SubSeqProperties
<1>6. Len(cut) = n /\ \A k \in 1 .. n : cut[k] = target.data[k]
  BY <1>2, <1>4, <1>5
<1>7. n = Len(target.data) => cut = target.data
  BY <1>1, SubSeqFull
<1> HIDE DEF cut
<1>8. target' = [target EXCEPT !.data = cut]
  BY DEF cut
<1>9. /\ target' \in [dir : BOOLEAN, exists : BOOLEAN, data : Seq(Int)]
      /\ target'.data = cut
      /\ cut = target.data => target' = target
  BY <1>1, <1>5, <1>8
<1> QED
  BY <1>6, <1>7, <1>9

LEMMA FinishType ==
  ASSUME FileCopyTypeOK, Finish
  PROVE  FileCopyTypeOK'
<1>1. /\ CloseDest /\ inStream' = CloseIn
      /\ destSize' = DestSizeAfter(ClosedIn, ClosedOut, target'.data)
  BY DEF Finish, CloseStreams
<1>2. /\ inStream' \in [open : BOOLEAN, pos : Nat, fail : BOOLEAN]
      /\ outStream' \in [open : BOOLEAN, fail : BOOLEAN, held : Seq(Int)]
      /\ Len(outStream'.held) < BufferLength /\ (~outStream'.open => outStream'.held = <<>>)
      /\ target' \in [dir : BOOLEAN, exists : BOOLEAN, data : Seq(Int)]
  BY <1>1, CloseDestAppends, Bounds DEF CloseIn, FileCopyTypeOK
<1>4. destSize' \in Nat
  <2>1. target'.data \in Seq(Int)
    BY <1>2
  <2> QED
    BY <1>1, <2>1, DestSizeAfterNat
<1>3. thrown' \in Exceptions \cup {"none"}
  BY DEF Finish, Exceptions
<1> QED
  BY <1>2, <1>3, <1>4 DEF Finish, FileCopyTypeOK

LEMMA UnchangedType ==
  ASSUME FileCopyTypeOK, UNCHANGED fileCopyVars
  PROVE  FileCopyTypeOK'
BY DEF FileCopyTypeOK, fileCopyVars, environment, copier, counters

LEMMA NextType == ASSUME TypeOK, [Next]_vars PROVE TypeOK'
<1>1. /\ FileCopyTypeOK /\ pc \in ProgramCounters
      /\ found \in [dir : BOOLEAN, exists : BOOLEAN, data : Seq(Int)]
      /\ target \in [dir : BOOLEAN, exists : BOOLEAN, data : Seq(Int)]
      /\ srcLen \in Nat
  BY DEF TypeOK, FileCopyTypeOK
<1>2. ASSUME NextFile PROVE TypeOK'
  <2>1. /\ srcLen' \in Nat
        /\ target' \in [dir : BOOLEAN, exists : BOOLEAN, data : Seq(Int)]
        /\ found' = target'
    BY <1>2, SourceLength, TargetType DEF NextFile
  <2>2. FileCopyTypeOK'
    BY <1>1, <1>2, <2>1 DEF NextFile, FileCopyTypeOK, copier, counters
  <2> QED
    BY <1>2, <2>1, <2>2 DEF NextFile, TypeOK, ProgramCounters
<1>3. ASSUME Reset PROVE TypeOK'
  <2>1. /\ srcLen' \in Nat
        /\ target' \in [dir : BOOLEAN, exists : BOOLEAN, data : Seq(Int)]
    BY <1>1, <1>3 DEF Reset, environment, FileCopyTypeOK
  <2>2. FileCopyTypeOK'
    BY <1>1, <1>3, <2>1, ResetType DEF Reset
  <2> QED
    BY <1>1, <1>3, <2>2 DEF Reset, Goto, TypeOK, ProgramCounters
<1>4. ASSUME DoOpenSource PROVE TypeOK'
  BY <1>1, <1>4, OpenSourceType DEF DoOpenSource, TypeOK, ProgramCounters
<1>5. ASSUME DoOpenDest PROVE TypeOK'
  BY <1>1, <1>5, OpenDestType DEF DoOpenDest, Goto, TypeOK, ProgramCounters
<1>6. ASSUME ExecuteSkip PROVE TypeOK'
  BY <1>1, <1>6, UnchangedType DEF ExecuteSkip, Goto, TypeOK, ProgramCounters
<1>7. ASSUME ExecuteStart PROVE TypeOK'
  <2>1. FileCopyTypeOK'
    BY <1>1, <1>7 DEF ExecuteStart, FileCopyTypeOK, environment, counters
  <2> QED
    BY <1>1, <1>7, <2>1 DEF ExecuteStart, Goto, TypeOK, ProgramCounters
<1>8. ASSUME PreBuffer PROVE TypeOK'
  BY <1>1, <1>8, ReadToBufferType DEF PreBuffer, TypeOK
<1>9. ASSUME PreBufferEnd PROVE TypeOK'
  BY <1>1, <1>9, UnchangedType DEF PreBufferEnd, Goto, TypeOK, ProgramCounters
<1>10. ASSUME LoopTest PROVE TypeOK'
  BY <1>1, <1>10, UnchangedType DEF LoopTest, TypeOK, ProgramCounters
<1>11. ASSUME LoopWrite PROVE TypeOK'
  <2>1. buff.buffered \in Int
    BY <1>1 DEF FileCopyTypeOK, RingRecord
  <2>2. FileCopyTypeOK'
    BY <1>1, <1>11, <2>1, WriteOutType DEF LoopWrite, WriteFromBuffer
  <2> QED
    BY <1>1, <1>11, <2>2 DEF LoopWrite, TypeOK, ProgramCounters
<1>12. ASSUME LoopRead PROVE TypeOK'
  BY <1>1, <1>12, ReadToBufferType DEF LoopRead, Goto, TypeOK, ProgramCounters
<1>13. ASSUME CheckBuffer PROVE TypeOK'
  <2>1. FileCopyTypeOK'
    BY <1>1, <1>13
    DEF CheckBuffer, FileCopyTypeOK, environment, counters, Exceptions
  <2> QED
    BY <1>1, <1>13, <2>1 DEF CheckBuffer, TypeOK, ProgramCounters
<1>14. ASSUME Finish PROVE TypeOK'
  BY <1>1, <1>14, FinishType DEF Finish, TypeOK, ProgramCounters
<1>15. ASSUME Crash PROVE TypeOK'
  <2>1. PICK n \in (IF outStream.open THEN 0 ELSE Len(target.data)) .. Len(target.data) :
          target' = [target EXCEPT !.data = SubSeq(@, 1, n)]
    BY <1>15 DEF Crash
  <2>2. n \in 0 .. Len(target.data)
    BY <1>1, LenProperties
  <2>3. target' \in [dir : BOOLEAN, exists : BOOLEAN, data : Seq(Int)]
    BY <1>1, <2>1, <2>2, CutShort
  <2>4. FileCopyTypeOK'
    BY <1>1, <1>15, <2>3, ConstructType DEF Crash
  <2> QED
    BY <1>1, <1>15, <2>4 DEF Crash, TypeOK, ProgramCounters
<1>16. ASSUME Rerun PROVE TypeOK'
  <2>1. FileCopyTypeOK'
    BY <1>1, <1>16, ConstructType DEF Rerun, environment
  <2> QED
    BY <1>1, <1>16, <2>1 DEF Rerun, Goto, TypeOK, ProgramCounters
<1>17. ASSUME UNCHANGED vars PROVE TypeOK'
  BY <1>1, <1>17, UnchangedType DEF vars, TypeOK
<1> QED
  BY <1>2, <1>3, <1>4, <1>5, <1>6, <1>7, <1>8, <1>9, <1>10, <1>11, <1>12, <1>13,
     <1>14, <1>15, <1>16, <1>17 DEF Next, Copying

\* Every variable of CopyJob has its type in every reachable state.
THEOREM TypeCorrect == Spec => []TypeOK
<1>1. Init => TypeOK
  BY InitType
<1>2. TypeOK /\ [Next]_vars => TypeOK'
  BY NextType
<1> QED
  BY <1>1, <1>2, PTL DEF Spec

-------------------------------------------------------------------------------
(* The inductive invariant. *)

LEMMA InitInv == ASSUME Init PROVE CopyInv
BY InitType, SourceLength
DEF Init, ConstructInit, CopyInv, TargetIsPrefix, FreshAtOpen, ClosedOut

\* A step that changes neither the files nor what a copy depends on.
LEMMA QuietStep ==
  ASSUME CopyInv, TypeOK',
         UNCHANGED <<srcLen, target, found, inStream, outStream, firstWritten,
                     bytesRead, bytesWritten, buff>>,
         pc \notin {"idle", "source", "dest", "returned"},
         pc' \notin {"idle", "source", "dest", "returned"}
  PROVE  CopyInv'
<1>1. /\ CountersAgree => CountersAgree'
      /\ RingFilledInOrder => RingFilledInOrder'
  BY RingUnchanged
<1>2. FreshAtOpen'
  BY DEF FreshAtOpen
<1>3. /\ TargetIsPrefix'
      /\ outStream'.open => IsSourcePrefix(target.data)' /\ HeldFollows' /\ HeldIsTail'
  BY HeldUnchanged DEF CopyInv, TargetIsPrefix
<1> QED
  BY <1>1, <1>2, <1>3 DEF CopyInv

\* A read in execute().
LEMMA ReadStep ==
  ASSUME CopyInv, TypeOK', ReadToBuffer, UNCHANGED found,
         pc \in {"prebuffer", "read"}, pc' \in {"prebuffer", "test"}
  PROVE  CopyInv'
<1>1. UNCHANGED <<srcLen, target, outStream, bytesWritten>>
  BY DEF ReadToBuffer, environment
<1>2. ~outStream.fail => CountersAgree' /\ RingFilledInOrder'
  BY ReadKeepsOrder DEF CopyInv, TypeOK
<1>3. FreshAtOpen'
  BY DEF FreshAtOpen
<1>4. TargetIsPrefix' /\ (outStream'.open => IsSourcePrefix(target.data)')
  BY <1>1 DEF CopyInv, TargetIsPrefix, IsSourcePrefix
<1>5. outStream'.open => HeldFollows' /\ HeldIsTail'
  BY <1>1, ReadKeepsHeld DEF CopyInv, TypeOK
<1> QED
  BY <1>1, <1>2, <1>3, <1>4, <1>5 DEF CopyInv

\* After the constructor or reset().
LEMMA FreshCopier ==
  ASSUME TypeOK', ClearMembers,
         buff'.readIndex = 0, buff'.writeIndex = 1, buff'.buffered = 0,
         pc' \in {"idle", "source", "dead"},
         srcLen' < SizeMod, TargetIsPrefix'
  PROVE  CopyInv'
<1>1. CountersAgree' /\ RingFilledInOrder'
  BY EmptyRingAfter DEF ClearMembers, ClosedIn, TypeOK
<1>2. FreshAtOpen'
  BY DEF FreshAtOpen, ClearMembers
<1> QED
  BY <1>1, <1>2 DEF CopyInv, ClearMembers, ClosedOut

LEMMA NextInv == ASSUME CopyInv, [Next]_vars PROVE CopyInv'
<1>1. TypeOK /\ TypeOK' /\ srcLen < SizeMod /\ TargetIsPrefix
  BY NextType DEF CopyInv
<1>2. ASSUME NextFile PROVE CopyInv'
  <2>1. srcLen' < SizeMod /\ target' = found' /\ outStream' = outStream
    BY <1>2, SourceLength DEF NextFile, copier
  <2> QED
    BY <1>1, <1>2, <2>1 DEF NextFile, CopyInv, TargetIsPrefix, FreshAtOpen
<1>3. ASSUME Reset PROVE CopyInv'
  <2>1. ClearMembers /\ buff' = ForgetSource(ResetRing(buff)) /\ pc' = "source"
    BY <1>3 DEF Reset, ResetCopier, Goto
  <2>2. buff'.readIndex = 0 /\ buff'.writeIndex = 1 /\ buff'.buffered = 0
    BY <1>1, <2>1, RingTypes, ResetRingFields DEF TypeOK
  <2>3. UNCHANGED <<srcLen, target, found>>
    BY <1>3 DEF Reset, environment
  <2>4. TargetIsPrefix'
    BY <1>1, <2>3 DEF TargetIsPrefix, IsSourcePrefix
  <2> QED
    BY <1>1, <2>1, <2>2, <2>3, <2>4, FreshCopier
<1>4. ASSUME DoOpenSource PROVE CopyInv'
  <2>11. CASE SourceMissing
    <3>1. /\ pc = "source" /\ pc' = "dead"
          /\ UNCHANGED <<srcLen, target, found, inStream, outStream, firstWritten,
                         bytesRead, bytesWritten, buff>>
      BY <1>4, <2>11 DEF DoOpenSource, OpenSource, SourceMissing, environment
    <3> QED
      BY <1>1, <3>1
      DEF CopyInv, FreshAtOpen, TargetIsPrefix, IsSourcePrefix, CountersAgree,
          RingFilledInOrder, ChunksInRing, SlotHolds, ReadCursor, ReadCursorReady, AheadOf
  <2>12. CASE OpenSourceStream
    <3>1. /\ pc = "source" /\ pc' \in {"dest", "dead"} /\ inStream'.pos = 0
          /\ UNCHANGED <<srcLen, target, found, outStream, firstWritten,
                         bytesRead, bytesWritten, buff>>
      BY <1>4, <2>12 DEF DoOpenSource, OpenSource, OpenSourceStream, environment
    <3>2. /\ bytesRead = 0 /\ bytesWritten = 0 /\ ~firstWritten /\ ~outStream.open
          /\ buff.buffered = 0 /\ buff.readIndex = 0 /\ buff.writeIndex = 1
      BY <3>1 DEF CopyInv, FreshAtOpen
    <3>3. firstWritten' = FALSE
      BY <1>1, <3>1, <3>2 DEF TypeOK, FileCopyTypeOK
    <3>4. CountersAgree' /\ RingFilledInOrder'
      BY <1>1, <3>1, <3>2, <3>3, EmptyRingAfter DEF TypeOK
    <3>5. FreshAtOpen'
      BY <3>1, <3>2 DEF FreshAtOpen
    <3>6. TargetIsPrefix'
      BY <1>1, <3>1 DEF TargetIsPrefix, IsSourcePrefix
    <3> QED
      BY <1>1, <3>1, <3>2, <3>4, <3>5, <3>6 DEF CopyInv
  <2> QED
    BY <1>4, <2>11, <2>12 DEF DoOpenSource, OpenSource
<1>5. ASSUME DoOpenDest PROVE CopyInv'
  <2>1. /\ pc = "dest" /\ pc' = "execute"
        /\ UNCHANGED <<srcLen, found, inStream, firstWritten, bytesRead, bytesWritten, buff>>
        /\ KeepDest \/ CreateDest
    BY <1>5 DEF DoOpenDest, Goto, OpenDest
  <2>2. /\ bytesRead = 0 /\ bytesWritten = 0 /\ ~firstWritten /\ ~outStream.open
        /\ buff.buffered = 0 /\ buff.readIndex = 0 /\ buff.writeIndex = 1
        /\ inStream.pos = 0
    BY <2>1 DEF CopyInv, FreshAtOpen
  <2>3. firstWritten' = FALSE
    BY <1>1, <2>1, <2>2 DEF TypeOK, FileCopyTypeOK
  <2>4. CountersAgree' /\ RingFilledInOrder'
    BY <1>1, <2>1, <2>2, <2>3, EmptyRingAfter DEF TypeOK
  <2>5. FreshAtOpen'
    BY <2>1 DEF FreshAtOpen
  <2>6. /\ TargetIsPrefix'
        /\ outStream'.open => /\ IsSourcePrefix(target.data)' /\ Len(target'.data) = 0
                              /\ outStream'.held = <<>> /\ Len(outStream'.held) = 0
    <3>1. CASE KeepDest
      BY <1>1, <2>1, <2>2, <3>1 DEF KeepDest, TargetIsPrefix, IsSourcePrefix
    <3>2. CASE CreateDest
      <4>1. srcLen \in Nat /\ target \in [dir : BOOLEAN, exists : BOOLEAN, data : Seq(Int)]
        BY <1>1 DEF TypeOK, FileCopyTypeOK
      <4>2. CASE target.dir
        <5>1. target'.data = <<>>
          BY <3>2, <4>1, <4>2 DEF CreateDest
        <5>2. Len(target'.data) = 0
          BY <5>1, EmptySeq
        <5>3. IsSourcePrefix(target.data)'
          BY <2>1, <4>1, <5>2 DEF IsSourcePrefix
        <5>4. outStream'.held = <<>> /\ Len(outStream'.held) = 0
          BY <3>2, EmptySeq DEF CreateDest, OpenedOut
        <5> QED
          BY <5>2, <5>3, <5>4 DEF TargetIsPrefix
      <4>3. CASE ~target.dir
        <5>1. target' = target /\ ~outStream'.open
          BY <3>2, <4>3 DEF CreateDest, OpenedOut
        <5> QED
          BY <1>1, <2>1, <5>1 DEF TargetIsPrefix, IsSourcePrefix
      <4> QED
        BY <4>2, <4>3
    <3> QED
      BY <2>1, <3>1, <3>2
  <2>7. ASSUME outStream'.open
        PROVE  /\ HeldFollows' /\ HeldIsTail'
               /\ Len(target'.data) + Len(outStream'.held) = bytesWritten'
    <3>1. srcLen' \in Nat
      BY <1>1, <2>1 DEF TypeOK, FileCopyTypeOK
    <3>2. Len(target'.data) = 0 /\ Len(outStream'.held) = 0
      BY <2>6, <2>7
    <3>3. outStream'.held = <<>>
      BY <2>6, <2>7
    <3>4. HeldIsTail'
      BY <3>3 DEF HeldIsTail
    <3>5. HeldFollows'
      BY <3>1, <3>2 DEF HeldFollows
    <3>6. bytesWritten' = 0
      BY <2>1, <2>2
    <3> QED
      BY <3>2, <3>4, <3>5, <3>6
  <2>8. TargetIsPrefix' /\ (outStream'.open => IsSourcePrefix(target.data)')
    BY <2>6
  <2>9. pc' = "execute" /\ srcLen' < SizeMod
    BY <1>1, <2>1
  <2> QED
    BY <1>1, <2>4, <2>5, <2>7, <2>8, <2>9 DEF CopyInv
<1>6. ASSUME ExecuteSkip PROVE CopyInv'
  BY <1>1, <1>6, QuietStep
  DEF ExecuteSkip, Goto, fileCopyVars, environment, copier, counters
<1>7. ASSUME ExecuteStart PROVE CopyInv'
  BY <1>1, <1>7, QuietStep DEF ExecuteStart, Goto, environment, counters
<1>8. ASSUME PreBuffer PROVE CopyInv'
  BY <1>1, <1>8, ReadStep DEF PreBuffer
<1>9. ASSUME PreBufferEnd PROVE CopyInv'
  BY <1>1, <1>9, QuietStep
  DEF PreBufferEnd, Goto, fileCopyVars, environment, copier, counters
<1>10. ASSUME LoopTest PROVE CopyInv'
  BY <1>1, <1>10, QuietStep DEF LoopTest, fileCopyVars, environment, copier, counters
<1>11. ASSUME LoopWrite PROVE CopyInv'
  <2>1. /\ pc = "write" /\ pc' \in {"read", "dead"} /\ WriteFromBuffer /\ found' = found
        /\ srcLen' = srcLen
    BY <1>11 DEF LoopWrite, WriteFromBuffer, WriteOut
  <2>2. /\ ~outStream.fail => CountersAgree /\ RingFilledInOrder
        /\ outStream.open => IsSourcePrefix(target.data) /\ HeldFollows /\ HeldIsTail
        /\ outStream.open /\ ~outStream.fail =>
             Len(target.data) + Len(outStream.held) = bytesWritten
    BY <2>1 DEF CopyInv
  <2>3. /\ target' = target \/ (outStream.open /\ IsSourcePrefix(target.data)')
        /\ outStream'.open =>
             outStream.open /\ IsSourcePrefix(target.data)' /\ HeldFollows' /\ HeldIsTail'
        /\ outStream'.open /\ ~outStream'.fail =>
             Len(target'.data) + Len(outStream'.held) = bytesWritten'
        /\ ~outStream'.fail => CountersAgree' /\ RingFilledInOrder'
    <3>1. FileCopyTypeOK /\ FileCopyTypeOK' /\ srcLen < SizeMod
      BY <1>1, <2>1 DEF TypeOK, CopyInv
    <3>2. WriteOut(buff.buffered) /\ buff.buffered \in Int
      BY <2>1, <3>1, RingTypes DEF WriteFromBuffer
    <3>3. buff.buffered > 0 =>
            buff.buffered > 0 /\ WriteLength(buff.buffered) = WriteLength(buff.buffered)
      OBVIOUS
    <3> QED
      BY <2>1, <2>2, <3>1, <3>2, <3>3, WriteKeepsOrder
  <2>4. TargetIsPrefix'
    BY <1>1, <2>1, <2>3 DEF TargetIsPrefix, IsSourcePrefix
  <2>5. FreshAtOpen'
    BY <2>1 DEF FreshAtOpen
  <2> QED
    BY <1>1, <2>1, <2>3, <2>4, <2>5 DEF CopyInv
<1>12. ASSUME LoopRead PROVE CopyInv'
  BY <1>1, <1>12, ReadStep DEF LoopRead, Goto
<1>13. ASSUME CheckBuffer PROVE CopyInv'
  BY <1>1, <1>13, QuietStep DEF CheckBuffer, environment, counters
<1>14. ASSUME Finish PROVE CopyInv'
  <2>1. /\ pc = "finish" /\ pc' \in {"returned", "dead"}
        /\ UNCHANGED <<srcLen, found, firstWritten, bytesRead, bytesWritten, buff>>
        /\ inStream' = CloseIn /\ CloseDest
    BY <1>14 DEF Finish, CloseStreams
  <2>2. /\ ~inStream'.open /\ ~outStream'.open /\ outStream'.fail = outStream.fail
        /\ outStream.open \/ target' = target
    BY <1>1, <2>1, CloseDestAppends DEF CloseIn, TypeOK, FileCopyTypeOK
  <2>3. ~outStream.fail => CountersAgree' /\ RingFilledInOrder'
    BY <2>1, <2>2
    DEF CopyInv, CountersAgree, RingFilledInOrder, SlotHolds, ChunksInRing,
        ReadCursor, ReadCursorReady
  <2>4. TargetIsPrefix'
    <3>1. CASE outStream.open
      <4>1. IsSourcePrefix(target.data) /\ HeldFollows
        BY <3>1 DEF CopyInv
      <4>2. IsSourcePrefix(target.data)'
        BY <1>1, <2>1, <4>1, CloseKeepsOrder DEF TypeOK
      <4> QED
        BY <4>2 DEF TargetIsPrefix
    <3>2. CASE target' = target
      BY <1>1, <2>1, <3>2 DEF TargetIsPrefix, IsSourcePrefix
    <3> QED
      BY <2>2, <3>1, <3>2
  <2>5. FreshAtOpen'
    BY <2>1 DEF FreshAtOpen
  <2> QED
    BY <1>1, <2>1, <2>2, <2>3, <2>4, <2>5 DEF CopyInv
<1>15. ASSUME Crash PROVE CopyInv'
  <2>1. PICK n \in (IF outStream.open THEN 0 ELSE Len(target.data)) .. Len(target.data) :
          target' = [target EXCEPT !.data = SubSeq(@, 1, n)]
    BY <1>15 DEF Crash
  <2>2. /\ FileCopyTypeOK /\ Len(target.data) \in Nat /\ srcLen \in Nat
    BY <1>1, LenProperties DEF TypeOK, FileCopyTypeOK
  <2>3. n \in 0 .. Len(target.data) /\ (~outStream.open => n = Len(target.data))
    BY <2>2
  <2>4. /\ Len(target'.data) = n
        /\ \A k \in 1 .. n : target'.data[k] = target.data[k]
        /\ n = Len(target.data) => target' = target
    BY <2>1, <2>2, <2>3, CutShort
  <2>5. UNCHANGED <<srcLen, found>> /\ Construct /\ pc' = "dead"
    BY <1>15 DEF Crash
  <2>6. TargetIsPrefix'
    <3>1. CASE outStream.open
      <4>1. IsSourcePrefix(target.data)
        BY <3>1 DEF CopyInv
      <4>2. IsSourcePrefix(target.data)'
        BY <2>2, <2>3, <2>4, <2>5, <4>1 DEF IsSourcePrefix
      <4> QED
        BY <4>2 DEF TargetIsPrefix
    <3>2. CASE ~outStream.open
      BY <1>1, <2>3, <2>4, <2>5, <3>2 DEF TargetIsPrefix, IsSourcePrefix
    <3> QED
      BY <3>1, <3>2
  <2>7. /\ ClearMembers
        /\ buff'.readIndex = 0 /\ buff'.writeIndex = 1 /\ buff'.buffered = 0
    BY <2>5 DEF Construct, NewRing
  <2> QED
    BY <1>1, <2>5, <2>6, <2>7, FreshCopier
<1>16. ASSUME Rerun PROVE CopyInv'
  <2>1. UNCHANGED <<srcLen, target, found>> /\ Construct /\ pc' = "idle"
    BY <1>16 DEF Rerun, Goto, environment
  <2>2. TargetIsPrefix'
    BY <1>1, <2>1 DEF TargetIsPrefix, IsSourcePrefix
  <2>3. /\ ClearMembers
        /\ buff'.readIndex = 0 /\ buff'.writeIndex = 1 /\ buff'.buffered = 0
    BY <2>1 DEF Construct, NewRing
  <2> QED
    BY <1>1, <2>1, <2>2, <2>3, FreshCopier
<1>17. ASSUME UNCHANGED vars PROVE CopyInv'
  <2>1. UNCHANGED <<srcLen, target, found, pc, inStream, outStream, firstWritten,
                    bytesRead, bytesWritten, buff>>
    BY <1>17 DEF vars, fileCopyVars, environment, copier, counters
  <2>2. /\ CountersAgree => CountersAgree'
        /\ RingFilledInOrder => RingFilledInOrder'
        /\ FreshAtOpen'
    BY <2>1, RingUnchanged DEF CopyInv, FreshAtOpen
  <2>3. /\ TargetIsPrefix'
        /\ outStream'.open => IsSourcePrefix(target.data)' /\ HeldFollows' /\ HeldIsTail'
    BY <2>1, HeldUnchanged DEF CopyInv, TargetIsPrefix
  <2> QED
    BY <1>1, <2>1, <2>2, <2>3 DEF CopyInv
<1> QED
  BY <1>2, <1>3, <1>4, <1>5, <1>6, <1>7, <1>8, <1>9, <1>10, <1>11, <1>12, <1>13,
     <1>14, <1>15, <1>16, <1>17 DEF Next, Copying

\* In every reachable state of a copy, rerun or crashed, the ring holds what was read and
\* not written, in order, and the destination and what its stream holds are a prefix.
THEOREM CopyInvariant == Spec => []CopyInv
<1>1. Init => CopyInv
  BY InitInv
<1>2. CopyInv /\ [Next]_vars => CopyInv'
  BY NextInv
<1> QED
  BY <1>1, <1>2, PTL DEF Spec

-------------------------------------------------------------------------------
(* What the invariant gives. *)

\* The destination is what was there at first or a prefix of the source, after any
\* number of faults, crashes and runs, in either build.
THEOREM PrefixSafety == Spec => []TargetIsPrefix
<1>1. CopyInv => TargetIsPrefix
  BY DEF CopyInv
<1> QED
  BY <1>1, CopyInvariant, PTL

\* The k-th unwritten byte is at its place in the ring, in every reachable state of
\* a copy whose destination has not failed, and the counters agree with the cursors.
THEOREM RingOrder == Spec => []RingHoldsUnwritten
<1>1. ASSUME CopyInv PROVE RingHoldsUnwritten
  <2>1. SUFFICES ASSUME pc \notin {"idle", "returned"}, ~outStream.fail
                 PROVE  /\ bytesRead - bytesWritten = buff.buffered
                        /\ buff.writeIndex = (ReadCursor + ChunksBuffered) % RingLength
                        /\ \A k \in 0 .. buff.buffered - 1 :
                             buff.ring[(ReadCursor + k \div BufferLength) % RingLength]
                                      [k % BufferLength] = bytesWritten + k + 1
    BY DEF RingHoldsUnwritten
  <2> DEFINE L == BufferLength
             b == buff.buffered
             c == ChunksInRing
             s0 == ReadCursor
  <2>2. /\ TypeOK /\ CountersAgree /\ RingFilledInOrder
    BY <2>1, <1>1 DEF CopyInv
  <2>3. /\ L \in Int /\ L > 0 /\ b \in Int /\ b >= 0 /\ b <= L + L + L
        /\ c \in 0 .. 3 /\ bytesWritten \in Int
        /\ s0 \in 0 .. 3 /\ buff.writeIndex \in 0 .. 3
        /\ b \in (c - 1) * L + 1 .. c * L
    BY <2>2, RingTypes, Bounds DEF CountersAgree, RingFilledInOrder, TypeOK
  <2>4. buff.writeIndex = (s0 + c) % 4
    BY <2>3, Bounds DEF ChunksInRing
  <2>5. ChunksBuffered = c
    <3> HIDE DEF b, c, L
    <3>1. (b + L - 1) \div L = c
      <4>1. CASE c = 0
        BY <2>3, <4>1, DivBetween
      <4>2. CASE c = 1
        BY <2>3, <4>2, DivBetween
      <4>3. CASE c = 2
        BY <2>3, <4>3, DivBetween
      <4>4. CASE c = 3
        BY <2>3, <4>4, DivBetween
      <4> QED
        BY <2>3, <4>1, <4>2, <4>3, <4>4
    <3> QED
      BY <3>1 DEF ChunksBuffered, b, L
  <2>6. ASSUME NEW k \in 0 .. b - 1
        PROVE  buff.ring[(s0 + k \div L) % 4][k % L] = bytesWritten + k + 1
    <3> DEFINE s1 == AheadOf(s0, 1)
               s2 == AheadOf(s0, 2)
    <3>1. /\ \A i \in SampleIndex : i < b => buff.ring[s0][i] = bytesWritten + 1 + i
          /\ \A i \in SampleIndex :
               i < b - L => buff.ring[s1][i] = bytesWritten + L + 1 + i
          /\ \A i \in SampleIndex :
               i < b - L - L => buff.ring[s2][i] = bytesWritten + L + L + 1 + i
      BY <2>2 DEF RingFilledInOrder, SlotHolds
    <3>2. s1 = (s0 + 1) % 4 /\ s2 = (s0 + 2) % 4 /\ s0 = (s0 + 0) % 4
      BY <2>3, Bounds DEF AheadOf
    <3>3. SampleIndex = 0 .. L - 1
      BY Bounds
    <3>4. k \in Int /\ k >= 0 /\ k < b
      BY <2>3
    <3> HIDE DEF b, L, s0, s1, s2
    <3>5. CASE k < L
      <4>1. k \div L = 0 /\ k % L = k
        BY <2>3, <3>4, <3>5, DivBetween
      <4>2. k \in SampleIndex
        BY <2>3, <3>3, <3>4, <3>5
      <4> QED
        BY <2>3, <3>1, <3>2, <3>4, <4>1, <4>2
    <3>6. CASE k >= L /\ k < L + L
      <4>1. k \div L = 1 /\ k % L = k - L
        BY <2>3, <3>4, <3>6, DivBetween
      <4>2. k - L \in SampleIndex /\ k - L < b - L
        BY <2>3, <3>3, <3>4, <3>6
      <4> QED
        BY <2>3, <3>1, <3>2, <3>4, <4>1, <4>2
    <3>7. CASE k >= L + L
      <4>1. k \div L = 2 /\ k % L = k - L - L
        BY <2>3, <3>4, <3>7, DivBetween
      <4>2. k - L - L \in SampleIndex /\ k - L - L < b - L - L
        BY <2>3, <3>3, <3>4, <3>7
      <4> QED
        BY <2>3, <3>1, <3>2, <3>4, <4>1, <4>2
    <3> QED
      BY <2>3, <3>4, <3>5, <3>6, <3>7
  <2> QED
    BY <2>2, <2>4, <2>5, <2>6, Bounds DEF CountersAgree
<1> QED
  BY <1>1, CopyInvariant, PTL

\* No step changes a file that was at the destination before, nor one that an
\* earlier run left there.
THEOREM ExistingKept == Spec => ExistingFileKept
<1>1. ASSUME CopyInv, [Next]_vars
      PROVE  [target.exists /\ ~outStream.open /\ ~Overwrite /\ pc # "returned"
                => target' = target]_vars
  <2> SUFFICES ASSUME target.exists, ~outStream.open, ~Overwrite, pc # "returned"
               PROVE  target' = target
    OBVIOUS
  <2>1. TypeOK /\ TypeOK'
    BY <1>1, NextType DEF CopyInv
  <2>2. CASE DoOpenDest
    BY <2>2 DEF DoOpenDest, OpenDest, KeepDest, CreateDest
  <2>3. CASE LoopWrite
    BY <2>3
    DEF LoopWrite, WriteFromBuffer, WriteOut, WriteChunk, WriteEnd, WriteNothing
  <2>4. CASE Crash
    <3>1. PICK n \in Len(target.data) .. Len(target.data) :
            target' = [target EXCEPT !.data = SubSeq(@, 1, n)]
      BY <2>4 DEF Crash
    <3>2. FileCopyTypeOK /\ Len(target.data) \in Nat
      BY <2>1, LenProperties DEF TypeOK, FileCopyTypeOK
    <3>3. n \in 0 .. Len(target.data) /\ n = Len(target.data)
      BY <3>2
    <3> QED
      BY <3>1, <3>2, <3>3, CutShort
  <2>5. CASE PreBuffer \/ LoopRead
    BY <2>5 DEF PreBuffer, LoopRead, ReadToBuffer, environment
  <2>6. CASE Reset \/ DoOpenSource \/ ExecuteSkip \/ ExecuteStart \/ PreBufferEnd
             \/ LoopTest \/ CheckBuffer \/ Rerun \/ UNCHANGED vars
    BY <2>6
    DEF Reset, DoOpenSource, OpenSource, SourceMissing, OpenSourceStream, ExecuteSkip,
        ExecuteStart, PreBufferEnd, LoopTest, CheckBuffer, Rerun, vars, fileCopyVars, environment
  <2>8. CASE Finish
    <3>1. FileCopyTypeOK /\ outStream.held = <<>> /\ CloseDest
      BY <2>1, <2>8 DEF TypeOK, FileCopyTypeOK, Finish, CloseStreams
    <3> QED
      BY <3>1, CloseDestAppends
  <2>7. ~NextFile
    BY DEF NextFile
  <2> QED
    BY <1>1, <2>2, <2>3, <2>4, <2>5, <2>6, <2>7, <2>8 DEF Next, Copying
<1> QED
  BY <1>1, CopyInvariant, PTL DEF Spec, ExistingFileKept

-------------------------------------------------------------------------------
(* A write, and what it leaves in the counters. *)

\* write_from_buffer: no stream is open, or nothing is pending and the destination is
\* closed unless it is empty, or a chunk is written and counted: a destination that
\* fails leaves size_t(-1) in the counter, or is reported by rotate_partial_read.
WriteOutcome ==
  \/ ~outStream.open /\ UNCHANGED <<target, outStream, bytesWritten, firstWritten, thrown>>
  \/ /\ outStream.open /\ buff.buffered <= 0
     /\ UNCHANGED <<bytesWritten, firstWritten, thrown>>
     /\ \/ UNCHANGED <<target, outStream>>
        \/ CloseDest /\ (outStream.fail \/ Len(target.data) + Len(outStream.held) > 0)
  \/ /\ outStream.open /\ outStream'.open /\ firstWritten'
     /\ \/ Debug /\ thrown' = "out_of_range" /\ outStream'.fail
        \/ /\ thrown' = thrown
           /\ bytesWritten' = IF outStream'.fail THEN SizeMod - 1
                              ELSE Len(target'.data) + Len(outStream'.held)

LEMMA WriteFacts ==
  ASSUME CopyInv, TypeOK', pc = "write", srcLen < SizeMod - 1, WriteFromBuffer,
         outStream.open =>
           bytesWritten = IF outStream.fail THEN SizeMod - 1
                          ELSE Len(target.data) + Len(outStream.held)
  PROVE  /\ UNCHANGED <<srcLen, inStream, sourceSize, destSize, bytesRead>>
         /\ started' = TRUE
         /\ target'.exists = target.exists /\ target'.dir = target.dir
         /\ WriteOutcome
<1> DEFINE b == buff.buffered
<1>1. /\ FileCopyTypeOK /\ FileCopyTypeOK' /\ WriteOut(b) /\ b \in Int
      /\ ~outStream.fail => CountersAgree /\ RingFilledInOrder
      /\ bytesWritten \in Int /\ bytesRead \in Int /\ srcLen \in Int /\ SizeMod \in Int
      /\ srcLen < SizeMod
  BY RingTypes, Bounds DEF CopyInv, TypeOK, WriteFromBuffer, FileCopyTypeOK
<1>2. ASSUME outStream.open, ~outStream.fail, b > 0
      PROVE  bytesWritten + WriteLength(b) < SizeMod
  <2>1. CountersAgree /\ RingFilledInOrder
    BY <1>1, <1>2
  <2>2. WriteLength(b) <= b /\ WriteLength(b) \in Int
    <3>1. WriteLength(buff.buffered) \in 1 .. BufferLength
          /\ WriteLength(buff.buffered) <= buff.buffered
      <4> HIDE DEF b
      <4>1. buff.buffered > 0
        BY <1>2 DEF b
      <4> QED
        BY <1>1, <2>1, <4>1, NextChunk
    <3> QED
      BY <3>1, Bounds
  <2>3. bytesWritten + b <= srcLen
    BY <1>1, <2>1 DEF CountersAgree
  <2> HIDE DEF b
  <2> QED
    BY <1>1, <2>2, <2>3
<1>3. /\ UNCHANGED <<srcLen, inStream, sourceSize, destSize, bytesRead>>
      /\ started' = TRUE
      /\ target'.exists = target.exists /\ target'.dir = target.dir
      /\ \/ NotOpen \/ NothingPending(b) \/ Written(b)
         \/ WriteThrows(b) \/ WriteFails(b)
  <2> HIDE DEF b
  <2> QED
    BY <1>1, <1>2, WriteOutcomes
<1>4. NotOpen => WriteOutcome
  BY DEF NotOpen, WriteOutcome
<1>5. NothingPending(b) => WriteOutcome
  BY DEF NothingPending, WriteOutcome
<1>6. Written(b) => WriteOutcome
  <2>1. ASSUME Written(b)
        PROVE  bytesWritten' = Len(target'.data) + Len(outStream'.held)
    BY <2>1 DEF Written
  <2> QED
    BY <2>1 DEF Written, WriteOutcome
<1>7. WriteThrows(b) \/ WriteFails(b) => WriteOutcome
  BY DEF WriteThrows, WriteFails, WriteOutcome
<1> QED
  BY <1>3, <1>4, <1>5, <1>6, <1>7

-------------------------------------------------------------------------------
(* How execute() ends. *)

\* What the parts of ReturnInv say of types.
LEMMA ReturnTypes ==
  ASSUME ReturnInv
  PROVE  /\ CopyInv /\ TypeOK /\ srcLen \in Nat /\ srcLen < SizeMod - 1
         /\ bytesRead \in Nat /\ bytesWritten \in Nat /\ sourceSize \in Nat
         /\ started \in BOOLEAN /\ firstWritten \in BOOLEAN
         /\ target.data \in Seq(Int) /\ Len(target.data) \in Nat
         /\ target \in [dir : BOOLEAN, exists : BOOLEAN, data : Seq(Int)]
         /\ inStream \in [open : BOOLEAN, pos : Nat, fail : BOOLEAN]
         /\ outStream \in [open : BOOLEAN, fail : BOOLEAN, held : Seq(Int)]
         /\ outStream.held \in Seq(Int) /\ Len(outStream.held) \in Nat
         /\ ~outStream.open => outStream.held = <<>>
<1>1. CopyInv /\ TypeOK /\ FileCopyTypeOK /\ srcLen < SizeMod - 1
  BY DEF ReturnInv, CopyInv, TypeOK, SourceCounted
<1> QED
  BY <1>1, LenProperties DEF FileCopyTypeOK

\* A failed destination is never taken for complete: its count is size_t(-1), which
\* no source file is long.
LEMMA CompletedCounts ==
  ASSUME ReturnInv, Executing, Created, bytesRead = bytesWritten
  PROVE  /\ ~outStream.fail
         /\ outStream.open => Len(target.data) + Len(outStream.held) = bytesRead
         /\ ~outStream.open => bytesRead - Len(target.data) \in 0 .. MaxLoss
<1>1. /\ outStream.fail => bytesWritten = SizeMod - 1
      /\ ~outStream.open /\ ~outStream.fail => bytesWritten - Len(target.data) \in 0 .. MaxLoss
      /\ outStream.open /\ ~outStream.fail => Len(target.data) + Len(outStream.held) = bytesWritten
  BY DEF ReturnInv, CopyInv, DestCounted
<1>2. bytesRead <= srcLen
  BY DEF ReturnInv, SourceCounted, Executing
<1>3. ~outStream.fail
  BY <1>1, <1>2, ReturnTypes, Bounds
<1> QED
  BY <1>1, <1>3

\* The last close() adds to the destination what its stream holds, or a part of that.
LEMMA LastClose ==
  ASSUME ReturnInv, Finish
  PROVE  /\ target' = target \/ (outStream.open /\ IsSourcePrefix(target.data)' /\ TargetGrows)
         /\ target'.exists = target.exists /\ target'.dir = target.dir
         /\ Len(target'.data) \in Nat
         /\ ~Created => target' = target
         /\ Created /\ bytesRead = bytesWritten =>
              IsSourcePrefix(target.data)' /\ bytesRead - Len(target'.data) \in 0 .. MaxLoss
<1>1. CloseDest /\ srcLen' = srcLen /\ pc = "finish" /\ Executing
  BY DEF Finish, CloseStreams, Executing
<1>2. /\ FileCopyTypeOK /\ outStream.held \in Seq(Int) /\ Len(outStream.held) \in Nat
      /\ Len(target.data) \in Nat /\ bytesRead \in Nat
      /\ ~outStream.open => outStream.held = <<>>
      /\ outStream.open => IsSourcePrefix(target.data) /\ HeldFollows
  BY ReturnTypes DEF TypeOK, CopyInv
<1>3. target'.exists = target.exists /\ target'.dir = target.dir
  BY <1>1, <1>2, CloseDestAppends
<1>4. CASE outStream.open
  <2>1. /\ IsSourcePrefix(target.data)' /\ TargetGrows
        /\ Len(target.data) + Len(outStream.held) - Len(target'.data) \in 0 .. MaxLoss
        /\ Len(target'.data) \in Nat
    BY <1>1, <1>2, <1>4, CloseKeepsOrder
  <2>2. Created
    BY <1>4 DEF Created
  <2>3. bytesRead = bytesWritten => Len(target.data) + Len(outStream.held) = bytesRead
    BY <1>1, <1>4, <2>2, CompletedCounts
  <2>4. ASSUME bytesRead = bytesWritten
        PROVE  bytesRead - Len(target'.data) \in 0 .. MaxLoss
    <3>1. bytesRead = Len(target.data) + Len(outStream.held)
      BY <2>3, <2>4
    <3>2. /\ MaxLoss \in Int /\ Len(target'.data) \in Nat
          /\ Len(target.data) \in Nat /\ Len(outStream.held) \in Nat
      BY <1>2, <2>1, Bounds DEF MaxLoss
    <3> QED
      BY <2>1, <3>1, <3>2, LossKept
  <2> QED
    BY <1>3, <1>4, <2>1, <2>2, <2>4
<1>5. CASE ~outStream.open
  <2>1. target' = target
    BY <1>1, <1>2, <1>5, CloseDestAppends
  <2>2. Created => IsSourcePrefix(target.data)
    BY <1>1 DEF ReturnInv, DestCounted
  <2>3. IsSourcePrefix(target.data)' <=> IsSourcePrefix(target.data)
    BY <1>1, <2>1 DEF IsSourcePrefix
  <2>4. Created /\ bytesRead = bytesWritten => bytesRead - Len(target.data) \in 0 .. MaxLoss
    BY <1>1, <1>5, CompletedCounts
  <2> QED
    BY <1>2, <1>3, <2>1, <2>2, <2>3, <2>4
<1> QED
  BY <1>4, <1>5

\* The end of execute() compares the source's size with that of the file itself.
LEMMA FinishTests ==
  ASSUME ReturnInv, Finish
  PROVE  /\ destSize' = Len(target'.data)
         /\ thrown' = IF ~target.exists THEN "filesystem_error"
                      ELSE IF Debug /\ srcLen # Len(target'.data)
                      THEN "FILESIZE_MISMATCH" ELSE "none"
<1>1. /\ pc = "finish" /\ destSize' = DestSizeAfter(ClosedIn, ClosedOut, target'.data)
      /\ thrown' = IF AsksFileSize(ClosedIn, ClosedOut) /\ ~target.exists
                   THEN "filesystem_error"
                   ELSE IF Debug /\ sourceSize # destSize'
                   THEN "FILESIZE_MISMATCH" ELSE "none"
  BY DEF Finish
<1>2. /\ sourceSize = srcLen
      /\ started => destSize = 0
      /\ ~started => destSize # 0
      /\ destSize # 0 => ~Created /\ target.exists /\ destSize = Len(target.data)
      /\ started => bytesRead = bytesWritten /\ buff.buffered = 0
  BY <1>1 DEF ReturnInv, SizesKnown, Completed, Executing
<1>3. CASE started
  <2>1. BytesRemaining = 0
    BY <1>2, <1>3, ReturnTypes, AsSizeNat, Bounds DEF BytesRemaining
  <2>2. ~Ready(ClosedIn, ClosedOut)
    BY DEF Ready, ClosedIn
  <2>3. AsksFileSize(ClosedIn, ClosedOut)
    BY <1>2, <1>3, <2>1, <2>2 DEF AsksFileSize, Complete
  <2> QED
    BY <1>1, <1>2, <2>3 DEF DestSizeAfter
<1>4. CASE ~started
  <2>1. target' = target
    BY <1>2, <1>4, LastClose
  <2> QED
    BY <1>1, <1>2, <1>4, <2>1 DEF AsksFileSize, DestSizeAfter
<1> QED
  BY <1>3, <1>4

\* What open_dest created is the source when execute() ends without an exception, but
\* for what close() may lose when nothing compares the sizes.
LEMMA CreatedIsWhole ==
  ASSUME ReturnInv, Finish, Created, Debug \/ Faults \subseteq {"write"},
         Debug => srcLen = Len(target'.data)
  PROVE  /\ IsSourcePrefix(target.data)'
         /\ srcLen - Len(target'.data) \in 0 .. (IF Debug THEN 0 ELSE MaxLoss)
<1>1. started /\ Executing /\ pc = "finish"
  <2>1. Executing /\ pc = "finish"
    BY DEF Finish, Executing
  <2>2. started
    BY <2>1, ReturnTypes DEF ReturnInv, SizesKnown
  <2> QED
    BY <2>1, <2>2
<1>2. bytesRead = bytesWritten /\ ~Ready(inStream, outStream)
  BY <1>1 DEF ReturnInv, Completed
<1>3. IsSourcePrefix(target.data)' /\ bytesRead - Len(target'.data) \in 0 .. MaxLoss
      /\ Len(target'.data) \in Nat
  BY <1>2, LastClose
<1>4. ~outStream.fail
  BY <1>1, <1>2, CompletedCounts
<1>5. ~inStream.open
  BY <1>1, <1>2, <1>4 DEF ReturnInv, NoEarlyClose, Ready, Created
<1>6. Faults \subseteq {"write"} => bytesRead = srcLen
  BY <1>1, <1>5 DEF ReturnInv, SourceReadOut
<1>7. Debug => srcLen - Len(target'.data) = 0
  BY <1>3, ReturnTypes
<1> QED
  BY <1>3, <1>6, <1>7

\* What it did not create is a file it was not to replace.
LEMMA KeptIsFound ==
  ASSUME ReturnInv, pc = "finish", ~Created, target.exists,
         Debug => srcLen = Len(target.data)
  PROVE  /\ ~Overwrite
         /\ Checked => IsSource(target.data) \/ (found.exists /\ target = found)
<1>1. Executing
  BY DEF Executing
<1>2. ~Overwrite
  BY <1>1 DEF ReturnInv, DestCounted
<1>3. Checked /\ ~Debug => target = found
  BY <1>1, <1>2 DEF ReturnInv, FoundUntouched
<1>4. Debug => target = found \/ IsSource(target.data)
  BY DEF ReturnInv, CopyInv, TargetIsPrefix, IsSource
<1> QED
  BY <1>2, <1>3, <1>4

-------------------------------------------------------------------------------
(* ReturnInv is inductive. *)

LEMMA ShortSources == \A n \in SourceSizes : n < SizeMod - 1
BY Bounds, CopyJobAssumption

LEMMA InitReturnInv == ASSUME Init PROVE ReturnInv
<1>1. /\ CopyInv /\ pc = "idle" /\ thrown = "none" /\ target = found
      /\ srcLen < SizeMod - 1
      /\ target.exists => target.dir
  BY InitInv, ShortSources, CopyJobAssumption DEF Init, ConstructInit
<1> QED
  BY <1>1
  DEF ReturnInv, SizesKnown, DestCounted, SourceCounted, SourceReadOut, LoopFed,
      NoEarlyClose, Completed, FoundUntouched, ChecksNeverMisfire,
      ReturnsOnlyWholeCopies, Executing

\* After the constructor or reset() only the files matter.
LEMMA FreshReturn ==
  ASSUME CopyInv', ClearMembers, pc' \in {"idle", "source", "dead"},
         srcLen' < SizeMod - 1, target'.exists => target'.dir,
         Checked /\ ~Debug /\ ~Overwrite => target' = found'
  PROVE  ReturnInv'
BY DEF ReturnInv, SizesKnown, DestCounted, SourceCounted, SourceReadOut, LoopFed,
       NoEarlyClose, Completed, FoundUntouched, ChecksNeverMisfire, Checked,
       ReturnsOnlyWholeCopies, Executing, ClearMembers, ClosedIn, CopyInv, TypeOK,
       FileCopyTypeOK

\* A difference of two size_t is zero only if they are equal.
LEMMA SizeZero ==
  ASSUME NEW d \in Int, d > -SizeMod, d < SizeMod, AsSize(d) = 0
  PROVE  d = 0
<1>1. CASE d >= 0
  BY <1>1, Bounds DEF AsSize
<1>2. CASE d < 0
  <2>1. d % SizeMod = 0
    BY <1>2, Bounds DEF AsSize
  <2> QED
    BY <1>2, <2>1, Bounds, SMTT(30)
<1> QED
  BY <1>1, <1>2

\* The loop of execute() ends when as many bytes were written as read.
LEMMA CompleteCounts ==
  ASSUME ReturnInv, pc = "test", Complete(inStream, outStream)
  PROVE  bytesRead = bytesWritten
<1>1. /\ bytesRead <= srcLen
      /\ bytesWritten <= SizeMod - 1
  <2>1. /\ bytesRead <= srcLen
        /\ Created /\ outStream.fail => bytesWritten = SizeMod - 1
        /\ ~firstWritten => bytesWritten = 0
        /\ ~outStream.fail => bytesRead - bytesWritten = buff.buffered /\ buff.buffered >= 0
    BY Bounds DEF ReturnInv, CopyInv, CountersAgree, SourceCounted, DestCounted, Executing
  <2>2. ~outStream.fail => bytesWritten <= bytesRead
    BY <2>1, ReturnTypes
  <2> QED
    BY <2>1, <2>2, ReturnTypes, Bounds DEF Created
<1>2. AsSize(bytesRead - bytesWritten) = 0
  BY DEF Complete, BytesRemaining
<1> DEFINE d == bytesRead - bytesWritten
<1>3. /\ d \in Int /\ d > -SizeMod /\ d < SizeMod
      /\ bytesRead = bytesWritten <=> d = 0
  BY <1>1, ReturnTypes, Bounds
<1>4. AsSize(d) = 0
  BY <1>2
<1> HIDE DEF d
<1> QED
  BY <1>3, <1>4, SizeZero

\* The steps of execute() that move no data.
LEMMA QuietReturn ==
  ASSUME ReturnInv, CopyInv',
         ExecuteSkip \/ ExecuteStart \/ PreBufferEnd \/ LoopTest \/ CheckBuffer
  PROVE  ReturnInv'
<1>1. /\ UNCHANGED <<srcLen, target, found, inStream, outStream, firstWritten,
                     sourceSize, destSize, bytesRead, bytesWritten, buff>>
      /\ Executing
  BY DEF ExecuteSkip, ExecuteStart, PreBufferEnd, LoopTest, CheckBuffer, Goto,
         Executing, fileCopyVars, environment, copier, counters
<1>2. /\ \/ pc = "execute" /\ pc' = "finish" /\ started' = started /\ destSize # 0
         \/ pc = "execute" /\ pc' = "prebuffer" /\ started' = TRUE /\ destSize = 0
         \/ /\ pc = "prebuffer" /\ pc' = "test" /\ started' = started
            /\ inStream.open => buff.buffered # 0
         \/ pc = "test" /\ pc' = "write" /\ started' = started
         \/ /\ pc = "test" /\ pc' = "check" /\ started' = started
            /\ buff.buffered = 0 /\ bytesRead = bytesWritten
            /\ ~Ready(inStream, outStream)
         \/ pc = "check" /\ pc' = "finish" /\ started' = started
      /\ thrown' = "none"
  <2>1. thrown = "none" /\ TypeOK
    BY <1>1, ReturnTypes DEF ReturnInv, Executing
  <2>2. CASE ExecuteSkip
    BY <2>1, <2>2 DEF ExecuteSkip, SkipExisting, Goto, fileCopyVars, copier
  <2>3. CASE ExecuteStart
    BY <1>1, <2>1, <2>3
    DEF ExecuteStart, SkipExisting, Goto, ReturnInv, SizesKnown
  <2>4. CASE PreBufferEnd
    <3>1. Available(buff) = 0 => buff.buffered # 0
      BY <2>1, RingTypes, Bounds DEF Available
    <3> QED
      BY <2>1, <2>4, <3>1 DEF PreBufferEnd, PreBufferMore, Goto, fileCopyVars, copier
  <2>5. CASE LoopTest
    <3>1. Complete(inStream, outStream) =>
            buff.buffered = 0 /\ bytesRead = bytesWritten /\ ~Ready(inStream, outStream)
      BY <2>5, CompleteCounts DEF LoopTest, Complete
    <3> QED
      BY <2>1, <2>5, <3>1 DEF LoopTest, fileCopyVars, copier
  <2>6. CASE CheckBuffer
    BY <2>1, <2>6 DEF CheckBuffer, ReturnInv, Completed
  <2> QED
    BY <2>2, <2>3, <2>4, <2>5, <2>6
<1>3. IsSourcePrefix(target.data)' <=> IsSourcePrefix(target.data)
  BY <1>1 DEF IsSourcePrefix
<1>4. SizesKnown'
  BY <1>1, <1>2, ReturnTypes DEF ReturnInv, SizesKnown, Executing, Created
<1>5. DestCounted' /\ SourceCounted' /\ SourceReadOut' /\ LoopFed'
  BY <1>1, <1>2, <1>3
  DEF ReturnInv, DestCounted, SourceCounted, SourceReadOut, LoopFed, Executing, Created
<1>6. NoEarlyClose' /\ Completed' /\ FoundUntouched'
  BY <1>1, <1>2
  DEF ReturnInv, NoEarlyClose, Completed, DestCounted, SizesKnown, FoundUntouched,
      Checked, Executing, Created, Ready
<1> QED
  BY <1>1, <1>2, <1>4, <1>5, <1>6
  DEF ReturnInv, ChecksNeverMisfire, ReturnsOnlyWholeCopies

\* read_to_buffer in pre_buffer_source() and in the loop.
LEMMA ReadReturn ==
  ASSUME ReturnInv, CopyInv', ReadToBuffer, UNCHANGED found,
         \/ pc = "prebuffer" /\ pc' = "prebuffer"
         \/ pc = "read" /\ pc' = "test"
  PROVE  ReturnInv'
<1>1. /\ TypeOK /\ TypeOK' /\ srcLen < SizeMod /\ Executing
      /\ bytesRead <= srcLen /\ (inStream.open => inStream.pos = bytesRead)
      /\ thrown = "none"
      /\ ~outStream.fail => CountersAgree
  BY ReturnTypes DEF ReturnInv, SourceCounted, CopyInv, Executing
<1>2. /\ UNCHANGED <<srcLen, target, outStream, firstWritten, sourceSize, destSize,
                     bytesWritten, thrown>>
      /\ started' = TRUE
      /\ bytesRead' <= srcLen /\ (inStream'.open => inStream'.pos = bytesRead')
      /\ ~inStream.open => ~inStream'.open /\ bytesRead' = bytesRead
                           /\ buff'.buffered = buff.buffered
      /\ Faults \subseteq {"write"} /\ (~inStream.open \/ inStream.fail => bytesRead = srcLen)
           => (~inStream'.open \/ inStream'.fail => bytesRead' = srcLen)
      /\ inStream'.open /\ CountersAgree /\ CountersAgree' => buff'.buffered # 0
  BY <1>1, ReadFacts DEF TypeOK
<1>3. ~outStream'.fail => CountersAgree'
  BY <1>1, <1>2, ReadKeepsOrder DEF ReturnInv, CopyInv, TypeOK
<1>4. IsSourcePrefix(target.data)' <=> IsSourcePrefix(target.data)
  BY <1>2 DEF IsSourcePrefix
<1>5. SizesKnown'
  BY <1>1, <1>2 DEF ReturnInv, SizesKnown, Executing, Created
<1>6. DestCounted' /\ SourceCounted' /\ SourceReadOut'
  BY <1>1, <1>2, <1>4
  DEF ReturnInv, DestCounted, SourceCounted, SourceReadOut, Executing, Created
<1>7. LoopFed' /\ NoEarlyClose' /\ Completed' /\ FoundUntouched'
  BY <1>1, <1>2, <1>3
  DEF ReturnInv, LoopFed, NoEarlyClose, Completed, FoundUntouched, DestCounted, Checked,
      Executing, Created
<1> QED
  BY <1>1, <1>2, <1>5, <1>6, <1>7
  DEF ReturnInv, ChecksNeverMisfire, ReturnsOnlyWholeCopies

\* A destination that was created stays so: write_from_buffer closes none that is empty.
LEMMA WriteCreated ==
  ASSUME ReturnInv, pc = "write", WriteOutcome
  PROVE  Created' <=> Created
<1>1. CASE ~outStream.open /\ UNCHANGED <<target, outStream, bytesWritten, firstWritten, thrown>>
  BY <1>1 DEF Created
<1>2. CASE /\ outStream.open /\ buff.buffered <= 0
           /\ UNCHANGED <<bytesWritten, firstWritten, thrown>>
           /\ \/ UNCHANGED <<target, outStream>>
              \/ CloseDest /\ (outStream.fail \/ Len(target.data) + Len(outStream.held) > 0)
  <2>1. CASE outStream' = outStream
    BY <1>2, <2>1 DEF Created
  <2>2. CASE outStream.fail \/ Len(target.data) + Len(outStream.held) > 0
    <3>1. bytesWritten # 0
      <4>1. /\ outStream.fail => bytesWritten = SizeMod - 1
            /\ ~outStream.fail => Len(target.data) + Len(outStream.held) = bytesWritten
        BY <1>2 DEF ReturnInv, CopyInv, DestCounted, Created, Executing
      <4>2. SizeMod - 1 # 0
        BY Bounds
      <4>3. ~outStream.fail => bytesWritten # 0
        BY <2>2, <4>1, ReturnTypes
      <4> QED
        BY <4>1, <4>2, <4>3
    <3>2. firstWritten
      BY <3>1, ReturnTypes DEF ReturnInv, DestCounted, Executing
    <3> QED
      BY <1>2, <3>2 DEF Created
  <2> QED
    BY <1>2, <2>1, <2>2
<1>3. CASE outStream.open /\ outStream'.open
  BY <1>3 DEF Created
<1> QED
  BY <1>1, <1>2, <1>3 DEF WriteOutcome

\* write_from_buffer in the loop: it finds the ring empty only at the end of the source.
LEMMA WriteReturn ==
  ASSUME ReturnInv, CopyInv', LoopWrite
  PROVE  ReturnInv'
<1>1. /\ CopyInv /\ TypeOK' /\ pc = "write" /\ srcLen < SizeMod - 1 /\ WriteFromBuffer
      /\ Executing /\ thrown = "none" /\ found' = found
      /\ pc' = IF thrown' = "none" THEN "read" ELSE "dead"
      /\ outStream \in [open : BOOLEAN, fail : BOOLEAN, held : Seq(Int)]
      /\ Len(target.data) \in Nat
  BY ReturnTypes DEF ReturnInv, CopyInv, Executing, LoopWrite
<1>2. outStream.open =>
        bytesWritten = IF outStream.fail THEN SizeMod - 1
                       ELSE Len(target.data) + Len(outStream.held)
  BY <1>1 DEF ReturnInv, CopyInv, DestCounted, Created
<1>3. /\ UNCHANGED <<srcLen, inStream, sourceSize, destSize, bytesRead>>
      /\ started' = TRUE
      /\ target'.exists = target.exists /\ target'.dir = target.dir
      /\ WriteOutcome
  BY <1>1, <1>2, WriteFacts
<1>4. /\ started /\ destSize = 0 /\ sourceSize = srcLen
      /\ target.exists => target.dir
      /\ bytesRead <= srcLen /\ (inStream.open => inStream.pos = bytesRead)
      /\ Faults \subseteq {"write"} => (~inStream.open \/ inStream.fail => bytesRead = srcLen)
      /\ inStream.open /\ ~outStream.fail => buff.buffered # 0
      /\ ~firstWritten => bytesWritten = 0
      /\ Created => target.exists /\ IsSourcePrefix(target.data)
      /\ ~Created /\ target.exists => ~Overwrite /\ destSize = Len(target.data)
      /\ Checked /\ ~Debug /\ ~Overwrite /\ ~Created => target = found
  BY <1>1
  DEF ReturnInv, SizesKnown, DestCounted, SourceCounted, SourceReadOut, LoopFed,
      FoundUntouched, Executing
<1>5. ~outStream.fail => bytesRead - bytesWritten = buff.buffered /\ buff.buffered >= 0
  BY <1>1, Bounds DEF CopyInv, CountersAgree
<1>6. CASE ~outStream.open /\ UNCHANGED <<target, outStream, bytesWritten, firstWritten, thrown>>
  <2>1. pc' = "read" /\ thrown' = "none"
    BY <1>1, <1>6
  <2>2. IsSourcePrefix(target.data)' <=> IsSourcePrefix(target.data)
    BY <1>3, <1>6 DEF IsSourcePrefix
  <2>3. SizesKnown'
    BY <1>3, <1>4, <2>1 DEF SizesKnown, Executing
  <2>4. DestCounted' /\ SourceCounted' /\ SourceReadOut' /\ LoopFed'
    BY <1>1, <1>3, <1>4, <1>6, <2>1, <2>2
    DEF ReturnInv, DestCounted, SourceCounted, SourceReadOut, LoopFed, Executing, Created
  <2>5. NoEarlyClose' /\ Completed' /\ FoundUntouched'
    BY <1>1, <1>3, <1>4, <1>6, <2>1
    DEF ReturnInv, NoEarlyClose, Completed, FoundUntouched, Checked, Executing, Created
  <2> QED
    BY <2>1, <2>3, <2>4, <2>5 DEF ReturnInv, ChecksNeverMisfire, ReturnsOnlyWholeCopies
<1>7. CASE /\ outStream.open /\ buff.buffered <= 0
           /\ UNCHANGED <<bytesWritten, firstWritten, thrown>>
           /\ \/ UNCHANGED <<target, outStream>>
              \/ CloseDest /\ (outStream.fail \/ Len(target.data) + Len(outStream.held) > 0)
  <2>1. pc' = "read" /\ thrown' = "none"
    BY <1>1, <1>7
  <2>11. FileCopyTypeOK /\ IsSourcePrefix(target.data) /\ HeldFollows
    BY <1>7, ReturnTypes DEF CopyInv, TypeOK
  <2>2. /\ IsSourcePrefix(target.data)' /\ outStream'.fail = outStream.fail
        /\ outStream'.open \/ Len(target.data) + Len(outStream.held) - Len(target'.data)
                                \in 0 .. MaxLoss
    <3>1. CASE UNCHANGED <<target, outStream>>
      BY <1>3, <1>7, <2>11, <3>1 DEF IsSourcePrefix
    <3>2. CASE CloseDest
      BY <1>3, <2>11, <3>2, CloseKeepsOrder, CloseDestAppends
    <3> QED
      BY <1>7, <3>1, <3>2
  <2>12. /\ outStream'.fail => bytesWritten' = SizeMod - 1
         /\ ~outStream'.open /\ ~outStream'.fail =>
              bytesWritten' - Len(target'.data) \in 0 .. MaxLoss
    <3>1. bytesWritten' = bytesWritten /\ outStream.open
      BY <1>7
    <3>2. outStream.fail => bytesWritten = SizeMod - 1
      BY <1>2, <3>1
    <3>3. ~outStream.fail => bytesWritten = Len(target.data) + Len(outStream.held)
      BY <1>2, <3>1
    <3>4. ASSUME ~outStream'.open, ~outStream'.fail
          PROVE  bytesWritten' - Len(target'.data) \in 0 .. MaxLoss
      <4>1. bytesWritten' = Len(target.data) + Len(outStream.held)
        BY <2>2, <3>1, <3>3, <3>4
      <4>2. Len(target.data) + Len(outStream.held) - Len(target'.data) \in 0 .. MaxLoss
        BY <2>2, <3>4
      <4>3. MaxLoss \in Int /\ Len(outStream.held) \in Nat /\ Len(target'.data) \in Nat
        BY <1>1, ReturnTypes, LenProperties, Bounds DEF MaxLoss, TypeOK, FileCopyTypeOK
      <4> QED
        BY <1>1, <4>1, <4>2, <4>3
    <3> QED
      BY <2>2, <3>1, <3>2, <3>4
  <2>3. Created /\ Created'
    BY <1>1, <1>3, <1>7, WriteCreated DEF Created
  <2>4. ~outStream.fail => bytesWritten = bytesRead /\ ~inStream.open
    <3>1. bytesRead \in Nat /\ bytesWritten \in Nat
      BY ReturnTypes
    <3> QED
      BY <1>4, <1>5, <1>7, <3>1
  <2>5. SizesKnown'
    BY <1>3, <1>4, <2>1 DEF SizesKnown, Executing
  <2>13. /\ ~firstWritten' => bytesWritten' = 0
         /\ target'.exists => target'.dir
         /\ target'.exists
    BY <1>3, <1>4, <1>7, <2>3
  <2>16. IsSourcePrefix(target.data)'
    BY <2>2
  <2>14. DestCounted'
    <3>1. MaxLoss' = MaxLoss
      BY DEF MaxLoss
    <3> QED
      BY <2>1, <2>3, <2>12, <2>13, <2>16, <3>1 DEF DestCounted
  <2>15. SourceCounted'
    BY <1>1, <1>3, <1>4 DEF SourceCounted
  <2>6. DestCounted' /\ SourceCounted' /\ SourceReadOut' /\ LoopFed'
    BY <1>3, <1>4, <2>1, <2>14, <2>15 DEF SourceReadOut, LoopFed
  <2>7. NoEarlyClose' /\ Completed' /\ FoundUntouched'
    BY <1>3, <1>7, <2>1, <2>2, <2>3, <2>4 DEF NoEarlyClose, Completed, FoundUntouched
  <2> QED
    BY <2>1, <2>5, <2>6, <2>7 DEF ReturnInv, ChecksNeverMisfire, ReturnsOnlyWholeCopies
<1>8. CASE /\ outStream.open /\ outStream'.open /\ firstWritten'
           /\ \/ Debug /\ thrown' = "out_of_range" /\ outStream'.fail
              \/ /\ thrown' = thrown
                 /\ bytesWritten' = IF outStream'.fail THEN SizeMod - 1
                                    ELSE Len(target'.data) + Len(outStream'.held)
  <2>1. IsSourcePrefix(target.data)' /\ Created /\ Created'
    BY <1>8 DEF CopyInv, Created
  <2>2. SizesKnown'
    BY <1>1, <1>3, <1>4 DEF SizesKnown, Executing
  <2>3. DestCounted' /\ SourceCounted' /\ SourceReadOut' /\ LoopFed'
    BY <1>1, <1>3, <1>4, <1>8, <2>1
    DEF DestCounted, SourceCounted, SourceReadOut, LoopFed, Executing
  <2>4. NoEarlyClose' /\ Completed' /\ FoundUntouched'
    BY <1>1, <1>3, <1>8, <2>1 DEF NoEarlyClose, Completed, FoundUntouched
  <2> QED
    BY <1>1, <1>8, <2>2, <2>3, <2>4
    DEF ReturnInv, ChecksNeverMisfire, ReturnsOnlyWholeCopies
<1> QED
  BY <1>3, <1>6, <1>7, <1>8 DEF WriteOutcome

LEMMA OpenSourceReturn ==
  ASSUME ReturnInv, CopyInv', DoOpenSource
  PROVE  ReturnInv'
<1>1. /\ pc = "source" /\ thrown = "none" /\ sourceSize = 0
      /\ pc' = IF thrown' = "none" THEN "dest" ELSE "dead"
      /\ SourceMissing \/ OpenSourceStream
      /\ UNCHANGED <<srcLen, target, found, outStream, started, firstWritten, destSize,
                     bytesRead, bytesWritten, buff>>
  BY DEF ReturnInv, SizesKnown, DoOpenSource, OpenSource, environment
<1>2. /\ ~started /\ destSize = 0 /\ ~outStream.open
      /\ bytesRead = 0 /\ ~firstWritten
      /\ srcLen < SizeMod - 1 /\ srcLen \in Nat
      /\ target.exists => target.dir
      /\ Checked /\ ~Debug /\ ~Overwrite => target = found
  BY <1>1, ReturnTypes
  DEF ReturnInv, SizesKnown, CopyInv, FreshAtOpen, SourceCounted, DestCounted,
      FoundUntouched
<1>3. CASE SourceMissing
  <2>1. /\ pc' = "dead" /\ thrown' = "filesystem_error" /\ inStream' = inStream
        /\ inStream.open => inStream.pos = bytesRead
    BY <1>1, <1>3 DEF SourceMissing, ReturnInv, SourceCounted
  <2> QED
    BY <1>1, <1>2, <2>1
    DEF ReturnInv, SizesKnown, DestCounted, SourceCounted, SourceReadOut, LoopFed,
        NoEarlyClose, Completed, FoundUntouched, ChecksNeverMisfire,
        ReturnsOnlyWholeCopies, Executing
<1>4. CASE OpenSourceStream
  <2>1. PICK ok \in (IF "open" \in Faults THEN BOOLEAN ELSE {TRUE}) :
          inStream' = [open |-> ok, pos |-> 0, fail |-> ~ok]
    BY <1>4 DEF OpenSourceStream
  <2>2. /\ inStream'.pos = 0
        /\ Faults \subseteq {"write"} => inStream'.open /\ ~inStream'.fail
    BY <2>1
  <2>3. pc' = "dest" /\ thrown' = "none" /\ sourceSize' = srcLen
    BY <1>1, <1>4 DEF OpenSourceStream
  <2> QED
    BY <1>1, <1>2, <2>2, <2>3
    DEF ReturnInv, SizesKnown, DestCounted, SourceCounted, SourceReadOut, LoopFed,
        NoEarlyClose, Completed, FoundUntouched, ChecksNeverMisfire,
        ReturnsOnlyWholeCopies, Executing
<1> QED
  BY <1>1, <1>3, <1>4

\* open_dest: the three things it may find at the destination.
DestOutcome ==
  \/ ~Overwrite /\ target.exists /\ UNCHANGED <<target, outStream>>
     /\ destSize' = Len(target.data)
  \/ /\ Overwrite \/ ~target.exists
     /\ ~target.dir /\ UNCHANGED target /\ ~outStream'.open /\ destSize' = 0
  \/ /\ Overwrite \/ ~target.exists
     /\ target.dir /\ target' = [target EXCEPT !.exists = TRUE, !.data = <<>>]
     /\ target'.dir /\ target'.exists /\ target'.data = <<>>
     /\ outStream'.open /\ ~outStream'.fail /\ destSize' = 0

LEMMA OpenDestFacts ==
  ASSUME TypeOK, OpenDest, ~started, destSize = 0
  PROVE  DestOutcome
<1>1. /\ target \in [dir : BOOLEAN, exists : BOOLEAN, data : Seq(Int)]
      /\ KeepDest \/ CreateDest
  BY DEF TypeOK, FileCopyTypeOK, OpenDest
<1>2. CASE KeepDest
  BY <1>1, <1>2 DEF KeepDest, DestOutcome, DestSizeAfter, AsksFileSize
<1>3. CASE CreateDest
  BY <1>1, <1>3 DEF CreateDest, DestOutcome, OpenedOut
<1> QED
  BY <1>1, <1>2, <1>3

LEMMA OpenDestReturn ==
  ASSUME ReturnInv, CopyInv', DoOpenDest
  PROVE  ReturnInv'
<1>1. /\ pc = "dest" /\ pc' = "execute"
      /\ UNCHANGED <<srcLen, found, inStream, started, firstWritten, sourceSize,
                     bytesRead, bytesWritten, buff, thrown>>
      /\ OpenDest
  BY DEF DoOpenDest, OpenDest, Goto
<1>2. /\ ~started /\ destSize = 0 /\ sourceSize = srcLen /\ thrown = "none"
      /\ ~outStream.open /\ ~firstWritten /\ bytesRead = 0 /\ bytesWritten = 0
      /\ inStream.pos = 0
      /\ srcLen < SizeMod - 1 /\ srcLen \in Nat /\ Len(target.data) \in Nat
      /\ target.exists => target.dir
      /\ Checked /\ ~Debug /\ ~Overwrite => target = found
  BY <1>1, ReturnTypes
  DEF ReturnInv, SizesKnown, CopyInv, FreshAtOpen, SourceCounted, DestCounted,
      FoundUntouched
<1>3. DestOutcome
  BY <1>1, <1>2, ReturnTypes, OpenDestFacts
<1>4. target'.data = <<>> => IsSourcePrefix(target.data)' /\ Len(target'.data) = 0
  BY <1>1, <1>2, EmptySeq DEF IsSourcePrefix
<1>5. SizesKnown' /\ DestCounted'
  BY <1>1, <1>2, <1>3, <1>4 DEF SizesKnown, DestCounted, Executing, Created, DestOutcome
<1>6. SourceCounted' /\ SourceReadOut' /\ LoopFed' /\ NoEarlyClose' /\ Completed'
  BY <1>1, <1>2
  DEF ReturnInv, SourceCounted, SourceReadOut, LoopFed, NoEarlyClose, Completed
<1>7. FoundUntouched'
  BY <1>1, <1>2, <1>3 DEF FoundUntouched, Checked, Executing, Created, DestOutcome
<1> QED
  BY <1>1, <1>2, <1>5, <1>6, <1>7
  DEF ReturnInv, ChecksNeverMisfire, ReturnsOnlyWholeCopies

\* The end of execute() returns with a whole copy or with the right exception.
LEMMA FinishReturn ==
  ASSUME ReturnInv, CopyInv', Finish
  PROVE  ReturnInv'
<1>1. /\ pc = "finish" /\ Executing
      /\ UNCHANGED <<srcLen, found, started, firstWritten, sourceSize,
                     bytesRead, bytesWritten, buff>>
      /\ inStream' = CloseIn /\ CloseDest
      /\ pc' = IF thrown' = "none" THEN "returned" ELSE "dead"
  BY DEF Finish, CloseStreams, Executing
<1>2. thrown' = IF ~target.exists THEN "filesystem_error"
                ELSE IF Debug /\ srcLen # Len(target'.data)
                THEN "FILESIZE_MISMATCH" ELSE "none"
  BY FinishTests
<1>3. /\ ~inStream'.open /\ ~outStream'.open /\ outStream'.fail = outStream.fail
      /\ target'.exists = target.exists /\ target'.dir = target.dir
      /\ ~Created => target' = target
      /\ Len(target'.data) \in Nat
  BY <1>1, ReturnTypes, CloseDestAppends, LastClose DEF CloseIn, TypeOK
<1>4. target' = target =>
        /\ IsSource(target.data)' <=> IsSource(target.data)
        /\ (target = found)' <=> target = found
        /\ Len(target.data)' = Len(target.data)
  BY <1>1 DEF IsSource, IsSourcePrefix
<1>5. ASSUME thrown' = "none", Checked PROVE ReturnsOnlyWholeCopies'
  <2>1. target.exists /\ (Debug => srcLen = Len(target'.data))
    BY <1>2, <1>5
  <2>2. CASE Created
    <3>1. Debug \/ Faults \subseteq {"write"}
      BY <1>5 DEF Checked
    <3>2. /\ IsSourcePrefix(target.data)'
          /\ srcLen - Len(target'.data) \in 0 .. (IF Debug THEN 0 ELSE MaxLoss)
      BY <2>1, <2>2, <3>1, CreatedIsWhole
    <3>3. CASE Debug
      <4>1. IsSource(target.data)'
        BY <1>1, <2>1, <3>2, <3>3 DEF IsSource
      <4> QED
        BY <4>1 DEF ReturnsOnlyWholeCopies
    <3>4. CASE ~Debug
      <4>1. srcLen' - Len(target'.data) <= MaxLoss
        BY <1>1, <3>2, <3>4, Bounds DEF MaxLoss
      <4> QED
        BY <3>2, <3>4, <4>1 DEF ReturnsOnlyWholeCopies, MaxLoss
    <3> QED
      BY <3>3, <3>4
  <2>3. CASE ~Created
    <3>1. target' = target
      BY <1>3, <2>3
    <3>2. ~Overwrite /\ (IsSource(target.data) \/ (found.exists /\ target = found))
      BY <1>1, <1>5, <2>1, <2>3, <3>1, KeptIsFound
    <3> QED
      BY <1>1, <1>4, <2>1, <3>1, <3>2 DEF ReturnsOnlyWholeCopies
  <2> QED
    BY <2>2, <2>3
<1>6. ChecksNeverMisfire'
  <2> SUFFICES ASSUME thrown' = "FILESIZE_MISMATCH", started
               PROVE  bytesRead < srcLen \/ LostOnClose'
    BY <1>1, <1>2 DEF ChecksNeverMisfire
  <2>1. srcLen # Len(target'.data) /\ target.exists
    BY <1>2
  <2>2. bytesRead = bytesWritten /\ bytesRead <= srcLen
    BY <1>1 DEF ReturnInv, Completed, SourceCounted
  <2>3. CASE Created
    <3>1. bytesRead - Len(target'.data) \in 0 .. MaxLoss
      BY <2>2, <2>3, LastClose
    <3>2. CASE bytesRead = srcLen
      <4> DEFINE d == Len(target'.data)
      <4>1. d \in Int /\ bytesRead \in Int /\ d # bytesRead
        BY <1>3, <2>1, <3>2, ReturnTypes
      <4> HIDE DEF d
      <4>4. bytesRead - d \in 0 .. MaxLoss
        BY <3>1 DEF d
      <4>5. MaxLoss \in Nat
        BY Bounds DEF MaxLoss
      <4>2. bytesRead - d >= 1 /\ bytesRead - d <= MaxLoss
        BY <4>1, <4>4, <4>5
      <4>3. "write" \in Faults /\ d \in bytesRead - BufferLength + 1 .. bytesRead - 1
        BY <4>1, <4>2, Bounds DEF MaxLoss
      <4> QED
        BY <1>1, <2>2, <4>3 DEF LostOnClose, d
    <3>3. CASE bytesRead # srcLen
      BY <2>2, <3>3, ReturnTypes
    <3> QED
      BY <3>2, <3>3
  <2>4. CASE ~Created
    <3>1. target' = target /\ bytesRead = Len(target.data)
      BY <1>1, <1>3, <2>1, <2>2, <2>4 DEF ReturnInv, DestCounted, SizesKnown, Created
    <3> QED
      BY <2>1, <2>2, <3>1, ReturnTypes
  <2> QED
    BY <2>3, <2>4
<1>7. /\ SizesKnown' /\ SourceReadOut' /\ LoopFed' /\ NoEarlyClose' /\ Completed'
      /\ DestCounted' /\ SourceCounted'
  BY <1>1, <1>3
  DEF ReturnInv, SizesKnown, SourceReadOut, LoopFed, NoEarlyClose, Completed,
      DestCounted, SourceCounted, Executing
<1>8. FoundUntouched'
  <2>1. Checked /\ ~Debug /\ ~Overwrite /\ pc' = "dead" => target = found /\ ~Created
    BY <1>1, <1>2 DEF ReturnInv, FoundUntouched, DestCounted
  <2> QED
    BY <1>1, <1>3, <2>1 DEF FoundUntouched, Executing
<1> QED
  BY <1>1, <1>5, <1>6, <1>7, <1>8 DEF ReturnInv, ReturnsOnlyWholeCopies

LEMMA NextReturnInv == ASSUME ReturnInv, [Next]_vars PROVE ReturnInv'
<1>1. /\ CopyInv /\ CopyInv' /\ TypeOK
      /\ srcLen < SizeMod - 1
      /\ target.exists => target.dir
  BY NextInv, ReturnTypes DEF ReturnInv, DestCounted
<1>2. ASSUME NextFile PROVE ReturnInv'
  <2>1. /\ pc' = "idle" /\ target' = found' /\ thrown' = "none"
        /\ srcLen' < SizeMod - 1
        /\ target'.exists => target'.dir
    BY <1>2, ShortSources, CopyJobAssumption DEF NextFile, ReturnInv, copier
  <2> QED
    BY <1>1, <2>1
    DEF ReturnInv, SizesKnown, DestCounted, SourceCounted, SourceReadOut, LoopFed,
        NoEarlyClose, Completed, FoundUntouched, ChecksNeverMisfire,
        ReturnsOnlyWholeCopies, Executing
<1>3. ASSUME Reset PROVE ReturnInv'
  <2>1. /\ ClearMembers /\ pc = "idle" /\ pc' = "source"
        /\ UNCHANGED <<srcLen, target, found>>
    BY <1>3 DEF Reset, ResetCopier, Goto, environment
  <2>2. Checked /\ ~Debug /\ ~Overwrite => target = found
    BY <2>1 DEF ReturnInv, FoundUntouched
  <2> QED
    BY <1>1, <2>1, <2>2, FreshReturn
<1>4. ASSUME DoOpenSource PROVE ReturnInv'
  BY <1>1, <1>4, OpenSourceReturn
<1>5. ASSUME DoOpenDest PROVE ReturnInv'
  BY <1>1, <1>5, OpenDestReturn
<1>6. ASSUME ExecuteSkip \/ ExecuteStart \/ PreBufferEnd \/ LoopTest \/ CheckBuffer
      PROVE  ReturnInv'
  BY <1>1, <1>6, QuietReturn
<1>7. ASSUME PreBuffer \/ LoopRead PROVE ReturnInv'
  BY <1>1, <1>7, ReadReturn DEF PreBuffer, LoopRead, Goto
<1>8. ASSUME LoopWrite PROVE ReturnInv'
  BY <1>1, <1>8, WriteReturn
<1>9. ASSUME Finish PROVE ReturnInv'
  BY <1>1, <1>9, FinishReturn
<1>10. ASSUME Crash PROVE ReturnInv'
  <2>1. /\ MayCrash /\ pc' = "dead" /\ Construct /\ UNCHANGED <<srcLen, found>>
        /\ target'.exists = target.exists /\ target'.dir = target.dir
    BY <1>1, <1>10 DEF Crash, TypeOK, FileCopyTypeOK
  <2>2. ~(Checked /\ ~Debug /\ ~Overwrite)
    BY <2>1 DEF Checked
  <2> QED
    BY <1>1, <2>1, <2>2, FreshReturn DEF Construct
<1>11. ASSUME Rerun PROVE ReturnInv'
  <2>1. /\ ClearMembers /\ pc = "dead" /\ pc' = "idle"
        /\ UNCHANGED <<srcLen, target, found>>
    BY <1>11 DEF Rerun, Goto, Construct, environment
  <2>2. Checked /\ ~Debug /\ ~Overwrite => target = found
    BY <2>1 DEF ReturnInv, FoundUntouched
  <2> QED
    BY <1>1, <2>1, <2>2, FreshReturn
<1>12. ASSUME UNCHANGED vars PROVE ReturnInv'
  <2>1. UNCHANGED <<pc, found, srcLen, target, inStream, outStream, started, firstWritten,
                    sourceSize, destSize, bytesRead, bytesWritten, buff, thrown>>
    BY <1>12 DEF vars, fileCopyVars, environment, copier, counters
  <2>2. /\ IsSourcePrefix(target.data)' <=> IsSourcePrefix(target.data)
        /\ IsSource(target.data)' <=> IsSource(target.data)
        /\ LostOnClose' <=> LostOnClose
    BY <2>1 DEF IsSource, IsSourcePrefix, LostOnClose
  <2>3. Created' <=> Created
    BY <2>1 DEF Created
  <2>4. DestCounted'
    BY <2>1, <2>2, <2>3 DEF ReturnInv, DestCounted, Executing
  <2>5. SizesKnown' /\ SourceCounted' /\ SourceReadOut' /\ LoopFed'
    BY <2>1, <2>3
    DEF ReturnInv, SizesKnown, SourceCounted, SourceReadOut, LoopFed, Executing
  <2>6. NoEarlyClose' /\ Completed' /\ FoundUntouched'
    BY <2>1, <2>3
    DEF ReturnInv, NoEarlyClose, Completed, FoundUntouched, Executing, Ready
  <2>7. ChecksNeverMisfire' /\ (Checked => ReturnsOnlyWholeCopies')
    BY <2>1, <2>2 DEF ReturnInv, ChecksNeverMisfire, ReturnsOnlyWholeCopies
  <2> QED
    BY <1>1, <2>1, <2>4, <2>5, <2>6, <2>7 DEF ReturnInv
<1> QED
  BY <1>2, <1>3, <1>4, <1>5, <1>6, <1>7, <1>8, <1>9, <1>10, <1>11, <1>12
  DEF Next, Copying

\* In every reachable state execute()'s counters are those of the files, and of what the
\* destination's stream holds; a closed file may lack what close() could not write.
THEOREM ReturnInvariant == Spec => []ReturnInv
<1>1. Init => ReturnInv
  BY InitReturnInv
<1>2. ReturnInv /\ [Next]_vars => ReturnInv'
  BY NextReturnInv
<1> QED
  BY <1>1, <1>2, PTL DEF Spec

-------------------------------------------------------------------------------
(* What the invariant gives. *)

\* write_from_buffer closes the destination only when the source is read to its end
\* and everything read is written, unless the destination has failed.
THEOREM ClosedInTime == Spec => []NoEarlyClose
<1>1. ReturnInv => NoEarlyClose
  BY DEF ReturnInv
<1> QED
  BY <1>1, ReturnInvariant, PTL

\* A check of a debug build accuses a copy only of what happened to it: a source that came
\* up short, or a tail that close() could not write.
THEOREM ChecksAreRight == Spec => []ChecksNeverMisfire
<1>1. ReturnInv => ChecksNeverMisfire
  BY DEF ReturnInv
<1> QED
  BY <1>1, ReturnInvariant, PTL

\* execute() returns only with a whole copy or a file it was to keep, in a debug build
\* whatever fails; in any build, when nothing but writes fails and no crash leaves a part
\* of a file to be skipped, with a copy that lacks less than a buffer, and nothing at all
\* if no write fails.
THEOREM WholeCopies ==
  ASSUME Checked PROVE Spec => []ReturnsOnlyWholeCopies
<1>1. ReturnInv => ReturnsOnlyWholeCopies
  BY DEF ReturnInv
<1> QED
  BY <1>1, ReturnInvariant, PTL

-------------------------------------------------------------------------------
(* A copier implements CopySpec. *)

\* What write_from_buffer adds to the destination is what the abstract copy grows by.
LEMMA CopyGrows ==
  ASSUME ReturnInv, CopyInv', LoopWrite, target' # target
  PROVE  outStream.open /\ Copy!Grown
<1>1. /\ FileCopyTypeOK /\ FileCopyTypeOK' /\ srcLen < SizeMod
      /\ WriteOut(buff.buffered) /\ buff.buffered \in Int
      /\ ~outStream.fail => CountersAgree /\ RingFilledInOrder
      /\ outStream.open => IsSourcePrefix(target.data) /\ HeldFollows /\ HeldIsTail
      /\ outStream.open /\ ~outStream.fail =>
           Len(target.data) + Len(outStream.held) = bytesWritten
  <2>1. CopyInv /\ TypeOK /\ TypeOK' /\ pc = "write" /\ WriteFromBuffer
    BY ReturnTypes DEF CopyInv, LoopWrite
  <2> QED
    BY <2>1, RingTypes DEF CopyInv, TypeOK, WriteFromBuffer
<1>2. outStream.open /\ TargetGrows
  BY <1>1, WriteKeepsOrder
<1> QED
  BY <1>2 DEF TargetGrows, IsSourcePrefix, Copy!IsPrefix, Copy!Grown

\* The status of the abstract copy, before and after a step.
LEMMA StatusBefore ==
  ASSUME ReturnInv
  PROVE  /\ pc \in {"idle", "source", "dest"} => CopyStatus = "waiting"
         /\ Executing => CopyStatus = IF Created THEN "copying" ELSE "waiting"
         /\ pc = "returned" => CopyStatus = "done"
         /\ pc = "dead" => CopyStatus = "failed"
         /\ pc \in {"idle", "source", "dest", "returned", "dead"} \/ Executing
         /\ outStream.open /\ pc # "dead" => CopyStatus = "copying"
<1>1. pc \in ProgramCounters /\ CopyInv
  BY ReturnTypes DEF TypeOK
<1>2. /\ pc \in {"source", "dest"} => ~firstWritten
      /\ pc \in {"idle", "source", "dest", "returned"} => ~outStream.open
  BY <1>1 DEF CopyInv, FreshAtOpen
<1> QED
  BY <1>1, <1>2 DEF CopyStatus, ProgramCounters, Executing, Created

LEMMA StatusAfter ==
  ASSUME ReturnInv'
  PROVE  /\ pc' \in {"idle", "source", "dest"} => CopyStatus' = "waiting"
         /\ Executing' => CopyStatus' = IF Created' THEN "copying" ELSE "waiting"
         /\ pc' = "returned" => CopyStatus' = "done"
         /\ pc' = "dead" => CopyStatus' = "failed"
<1>1. pc' \in ProgramCounters /\ CopyInv'
  BY DEF ReturnInv, CopyInv, TypeOK
<1>2. /\ pc' \in {"source", "dest"} => ~firstWritten'
      /\ pc' \in {"idle", "source", "dest", "returned"} => ~outStream'.open
  BY <1>1 DEF CopyInv, FreshAtOpen
<1> QED
  BY <1>1, <1>2 DEF CopyStatus, ProgramCounters, Executing, Created

\* A copier that stops without touching the file is a copy that fails.
LEMMA StopsAreFailures ==
  ASSUME ReturnInv, ReturnInv', pc # "dead", pc' = "dead", UNCHANGED <<srcLen, target>>
  PROVE  Copy!Fail
<1>1. /\ FileCopyTypeOK /\ Len(target.data) \in Nat
      /\ CopyStatus \in {"waiting", "copying", "done"} /\ CopyStatus' = "failed"
  BY StatusBefore, StatusAfter, ReturnTypes DEF TypeOK
<1>2. PICK n \in Len(target.data) .. Len(target.data) :
        target' = [target EXCEPT !.data = SubSeq(@, 1, n)]
  BY <1>1, UncutFile
<1>3. n \in 0 .. Len(target.data)
  BY <1>1
<1> QED
  BY <1>1, <1>2, <1>3 DEF Copy!Fail

\* Every step of a copier is a step of the abstract copy or leaves it as it is.
LEMMA CopyStep ==
  ASSUME Debug \/ Faults \subseteq {"write"}, ReturnInv, ReturnInv', [Next]_vars
  PROVE  [Copy!Next]_(Copy!vars)
<1> DEFINE Stutter == UNCHANGED <<srcLen, target, CopyStatus>>
<1>1. Stutter => UNCHANGED Copy!vars
  BY DEF Copy!vars
<1>2. ASSUME NextFile PROVE Copy!NextFile
  <2>1. /\ pc = "returned" /\ pc' = "idle"
        /\ srcLen' \in SourceSizes /\ target' \in Targets
    BY <1>2 DEF NextFile
  <2> QED
    BY <2>1, StatusBefore, StatusAfter DEF Copy!NextFile
<1>3. ASSUME Reset PROVE Stutter
  <2>1. pc = "idle" /\ pc' = "source" /\ UNCHANGED <<srcLen, target>>
    BY <1>3 DEF Reset, Goto, environment
  <2> QED
    BY <2>1, StatusBefore, StatusAfter
<1>4. ASSUME DoOpenSource PROVE Stutter \/ Copy!Fail
  <2>1. pc = "source" /\ pc' \in {"dest", "dead"} /\ UNCHANGED <<srcLen, target>>
    BY <1>4 DEF DoOpenSource, OpenSource, environment
  <2> QED
    BY <2>1, StatusBefore, StatusAfter, StopsAreFailures
<1>5. ASSUME DoOpenDest PROVE Stutter \/ Copy!Create
  <2>1. /\ pc = "dest" /\ pc' = "execute" /\ OpenDest
        /\ srcLen' = srcLen /\ firstWritten' = firstWritten
    BY <1>5 DEF DoOpenDest, OpenDest, Goto
  <2>2. /\ ~started /\ destSize = 0 /\ ~firstWritten /\ ~outStream.open /\ TypeOK
    BY <2>1, ReturnTypes DEF ReturnInv, SizesKnown, CopyInv, FreshAtOpen
  <2>3. DestOutcome
    BY <2>1, <2>2, OpenDestFacts
  <2>4. CopyStatus = "waiting"
        /\ CopyStatus' = IF outStream'.open THEN "copying" ELSE "waiting"
    BY <2>1, <2>2, StatusBefore, StatusAfter DEF Executing, Created
  <2> QED
    BY <2>1, <2>2, <2>3, <2>4 DEF DestOutcome, Copy!Create
<1>6. ASSUME \/ ExecuteSkip \/ ExecuteStart \/ PreBuffer \/ PreBufferEnd \/ LoopTest
             \/ LoopRead \/ CheckBuffer
      PROVE  Stutter \/ Copy!Fail
  <2>1. /\ UNCHANGED <<srcLen, target, outStream, firstWritten>>
        /\ Executing /\ (Executing' \/ pc' = "dead") /\ pc # "dead"
    BY <1>6
    DEF ExecuteSkip, ExecuteStart, PreBuffer, PreBufferEnd, LoopTest, LoopRead,
        CheckBuffer, ReadToBuffer, Goto, Executing, fileCopyVars, environment, copier
  <2>2. Created' = Created
    BY <2>1 DEF Created
  <2> QED
    BY <2>1, <2>2, StatusBefore, StatusAfter, StopsAreFailures
<1>7. ASSUME LoopWrite PROVE Stutter \/ Copy!Grow \/ Copy!FailGrowing \/ Copy!Fail
  <2>1. /\ pc = "write" /\ pc' \in {"read", "dead"} /\ srcLen' = srcLen
        /\ Executing /\ (pc' = "read" => Executing') /\ WriteFromBuffer
        /\ CopyInv /\ CopyInv'
    BY <1>7 DEF LoopWrite, WriteFromBuffer, WriteOut, Executing, ReturnInv
  <2>5. Created' <=> Created
    <3>1. outStream.open => bytesWritten = IF outStream.fail THEN SizeMod - 1
                                           ELSE Len(target.data) + Len(outStream.held)
      BY <2>1 DEF ReturnInv, CopyInv, DestCounted, Created
    <3>2. WriteOutcome
      BY <2>1, <3>1, WriteFacts, ReturnTypes DEF CopyInv, ReturnInv, SourceCounted
    <3> QED
      BY <2>1, <3>2, WriteCreated
  <2>2. CASE target' # target
    <3>1. outStream.open /\ Copy!Grown
      BY <1>7, <2>1, <2>2, CopyGrows
    <3>2. CopyStatus = "copying" /\ CopyStatus' = IF pc' = "read" THEN "copying" ELSE "failed"
      BY <2>1, <2>5, <3>1, StatusBefore, StatusAfter DEF Created
    <3>3. pc' = "read" => Copy!Grow
      BY <2>1, <3>1, <3>2 DEF Copy!Grow
    <3>4. pc' = "dead" => Copy!FailGrowing
      BY <2>1, <3>1, <3>2 DEF Copy!FailGrowing
    <3> QED
      BY <2>1, <3>3, <3>4
  <2>3. CASE target' = target /\ pc' = "read"
    BY <2>1, <2>3, <2>5, StatusBefore, StatusAfter
  <2>4. CASE target' = target /\ pc' = "dead"
    BY <2>1, <2>4, StopsAreFailures
  <2> QED
    BY <2>1, <2>2, <2>3, <2>4
<1>8. ASSUME Finish PROVE Copy!Complete \/ Copy!Keep \/ Copy!Fail \/ Copy!FailGrowing
  <2>1. /\ pc = "finish" /\ Executing /\ srcLen' = srcLen
        /\ pc' = IF thrown' = "none" THEN "returned" ELSE "dead"
    BY <1>8 DEF Finish, Executing
  <2>2. /\ target' = target \/ (outStream.open /\ TargetGrows)
        /\ ~Created => target' = target
    BY <1>8, LastClose
  <2>3. TargetGrows => Copy!Grown
    BY DEF TargetGrows, IsSourcePrefix, Copy!IsPrefix, Copy!Grown
  <2>4. CASE thrown' = "none"
    <3>1. target.exists /\ (Debug => srcLen = Len(target'.data))
      BY <1>8, <2>4, FinishTests
    <3>2. CopyStatus' = "done" /\ CopyStatus = IF Created THEN "copying" ELSE "waiting"
      BY <2>1, <2>4, StatusBefore, StatusAfter
    <3>3. CASE Created
      <4>1. /\ IsSourcePrefix(target.data)'
            /\ srcLen - Len(target'.data) \in 0 .. (IF Debug THEN 0 ELSE MaxLoss)
        BY <1>8, <3>1, <3>3, CreatedIsWhole
      <4>2. srcLen - Len(target'.data) <= (IF Debug THEN 0 ELSE MaxLoss)
        BY <4>1, Bounds DEF MaxLoss
      <4>3. Copy!Grown
        <5>1. target' = target => TargetGrows
          BY <2>1, <4>1, ReturnTypes, UnchangedGrows DEF TypeOK, IsSourcePrefix
        <5> QED
          BY <2>2, <2>3, <5>1
      <4> QED
        BY <2>1, <3>2, <3>3, <4>2, <4>3 DEF Copy!Complete
    <3>4. CASE ~Created
      <4>1. ~Overwrite
        BY <2>1, <2>2, <3>1, <3>4, KeptIsFound
      <4> QED
        BY <2>1, <2>2, <3>1, <3>2, <3>4, <4>1 DEF Copy!Keep
    <3> QED
      BY <3>3, <3>4
  <2>5. CASE thrown' # "none" /\ target' = target
    BY <2>1, <2>5, StopsAreFailures
  <2>6. CASE thrown' # "none" /\ outStream.open /\ TargetGrows
    <3>1. CopyStatus = "copying" /\ CopyStatus' = "failed"
      BY <2>1, <2>6, StatusBefore, StatusAfter
    <3> QED
      BY <2>1, <2>3, <2>6, <3>1 DEF Copy!FailGrowing
  <2> QED
    BY <2>2, <2>4, <2>5, <2>6
<1>9. ASSUME Crash PROVE Copy!Fail
  <2>1. pc # "dead" /\ pc' = "dead" /\ srcLen' = srcLen
    BY <1>9 DEF Crash
  <2>2. PICK n \in (IF outStream.open THEN 0 ELSE Len(target.data)) .. Len(target.data) :
          target' = [target EXCEPT !.data = SubSeq(@, 1, n)]
    BY <1>9 DEF Crash
  <2>3. /\ CopyStatus \in {"waiting", "copying", "done"} /\ CopyStatus' = "failed"
        /\ outStream.open => CopyStatus = "copying"
    BY <2>1, StatusBefore, StatusAfter
  <2>4. n \in (IF CopyStatus = "copying" THEN 0 ELSE Len(target.data)) .. Len(target.data)
    BY <2>3, ReturnTypes
  <2> QED
    BY <2>1, <2>2, <2>3, <2>4 DEF Copy!Fail
<1>10. ASSUME Rerun PROVE Copy!Retry
  <2>1. pc = "dead" /\ pc' = "idle" /\ UNCHANGED <<srcLen, target>>
    BY <1>10 DEF Rerun, Goto, environment
  <2> QED
    BY <2>1, StatusBefore, StatusAfter DEF Copy!Retry
<1>11. ASSUME UNCHANGED vars PROVE Stutter
  <2>1. UNCHANGED <<srcLen, target, pc, outStream, firstWritten>>
    BY <1>11 DEF vars, fileCopyVars, environment, copier
  <2> QED
    BY <2>1 DEF CopyStatus
<1> QED
  BY <1>1, <1>2, <1>3, <1>4, <1>5, <1>6, <1>7, <1>8, <1>9, <1>10, <1>11
  DEF Next, Copying, Copy!Next

\* The copier, with its ring, its streams, its faults and its crashes, implements the
\* abstract copy: in a debug build always, and in any build if only writes fail, where
\* close() may then lose less than a buffer of what was counted as written.
THEOREM Refinement ==
  ASSUME Debug \/ Faults \subseteq {"write"} PROVE Spec => ImplementsCopy
<1>1. Init => Copy!Init
  BY DEF Init, Copy!Init, CopyStatus
<1>2. ReturnInv /\ ReturnInv' /\ [Next]_vars => [Copy!Next]_(Copy!vars)
  BY CopyStep
<1> QED
  BY <1>1, <1>2, ReturnInvariant, PTL DEF Spec, ImplementsCopy, Copy!Spec

-------------------------------------------------------------------------------
(* A copy that hangs hangs for ever. *)

LEMMA HangingTypes ==
  ASSUME ReturnInv
  PROVE  /\ FileCopyTypeOK /\ srcLen \in Nat /\ srcLen < SizeMod - 1 /\ srcLen < SizeMod
         /\ bytesRead \in Nat /\ bytesWritten \in Nat /\ buff.buffered \in Int
         /\ Executing => bytesRead <= srcLen /\ (inStream.open => inStream.pos = bytesRead)
<1>1. FileCopyTypeOK /\ buff.buffered \in Int
  BY RingTypes, ReturnTypes DEF TypeOK
<1>2. Executing => bytesRead <= srcLen /\ (inStream.open => inStream.pos = bytesRead)
  BY DEF ReturnInv, SourceCounted, Executing
<1> QED
  BY <1>1, <1>2, ReturnTypes, Bounds

\* open_source leaves a stream without failbit, or none.
LEMMA StartsUnread ==
  ASSUME ReturnInv, UnreadAtStart, [Next]_vars PROVE UnreadAtStart'
<1>1. ASSUME DoOpenSource PROVE UnreadAtStart'
  <2>1. /\ pc = "source" /\ UNCHANGED <<bytesRead, buff>>
        /\ pc' = "dest" => OpenSourceStream
    BY <1>1 DEF DoOpenSource, OpenSource, SourceMissing
  <2>2. bytesRead = 0 /\ buff.buffered = 0
    BY <2>1 DEF ReturnInv, CopyInv, FreshAtOpen
  <2>3. OpenSourceStream => inStream'.fail = ~inStream'.open
    BY DEF OpenSourceStream
  <2>4. pc' \in {"dest", "dead"}
    BY <1>1 DEF DoOpenSource
  <2> QED
    BY <2>1, <2>2, <2>3, <2>4 DEF UnreadAtStart
<1>2. ASSUME DoOpenDest PROVE UnreadAtStart'
  BY <1>2 DEF DoOpenDest, OpenDest, Goto, UnreadAtStart
<1>3. ASSUME UNCHANGED vars PROVE UnreadAtStart'
  BY <1>3 DEF vars, fileCopyVars, copier, counters, UnreadAtStart
<1>4. ASSUME NextFile \/ Reset \/ Crash \/ Rerun \/ ExecuteSkip \/ ExecuteStart \/ PreBuffer
             \/ PreBufferEnd \/ LoopTest \/ LoopWrite \/ LoopRead \/ CheckBuffer \/ Finish
      PROVE  UnreadAtStart'
  <2>1. pc' \notin {"dest", "execute"}
    BY <1>4
    DEF NextFile, Reset, Crash, Rerun, ExecuteSkip, ExecuteStart, PreBuffer, PreBufferEnd,
        LoopTest, LoopWrite, LoopRead, CheckBuffer, Finish, Goto
  <2> QED
    BY <2>1 DEF UnreadAtStart
<1> QED
  BY <1>1, <1>2, <1>3, <1>4 DEF Next, Copying

\* The two reasons of Stuck lead to the two ways to wait.
LEMMA HangsFromStart ==
  ASSUME ReturnInv, UnreadAtStart, ExecuteStart, Stuck
  PROVE  WaitsForDest' \/ WaitsForRing'
<1>1. /\ pc = "execute" /\ pc' = "prebuffer"
      /\ UNCHANGED <<srcLen, inStream, outStream, bytesRead, bytesWritten, buff>>
  BY DEF ExecuteStart, Goto, environment, counters
<1>2. bytesWritten = 0 /\ bytesRead = 0 /\ buff.buffered = 0
      /\ inStream.open /\ ~inStream.fail /\ srcLen > 0
  BY <1>1 DEF ReturnInv, DestCounted, Executing, UnreadAtStart, Stuck
<1>3. CASE ~outStream.open
  BY <1>1, <1>2, <1>3 DEF WaitsForDest
<1>4. CASE outStream.open
  BY <1>1, <1>2, <1>4 DEF WaitsForRing, Stuck
<1> QED
  BY <1>3, <1>4

\* Reading on does not help a copy that waits for its destination, and brings it at
\* least one byte.
LEMMA WaitsReading ==
  ASSUME ReturnInv, ReturnInv', WaitsForDest, ReadToBuffer, "read" \notin Faults
  PROVE  /\ UNCHANGED <<srcLen, outStream, bytesWritten, thrown>>
         /\ bytesRead' # 0
<1>1. Executing
  BY DEF WaitsForDest, Executing
<1>2. FileCopyTypeOK /\ FileCopyTypeOK' /\ bytesRead \in Nat
      /\ bytesRead <= srcLen /\ (inStream.open => inStream.pos = bytesRead)
      /\ srcLen < SizeMod /\ bytesRead' \in Nat
  BY <1>1, HangingTypes DEF ReturnInv, CopyInv, TypeOK, FileCopyTypeOK
<1>3. UNCHANGED <<srcLen, outStream, bytesWritten, thrown>> /\ bytesRead <= bytesRead'
  BY <1>2, ReadFacts
<1>4. ASSUME bytesRead = 0 PROVE bytesRead' # 0
  <2>1. inStream.open /\ ~inStream.fail /\ buff.buffered = 0 /\ srcLen > 0
    BY <1>4 DEF WaitsForDest
  <2>2. BuffersAvailable(buff) # 0 /\ bytesRead # srcLen
    BY <1>4, <2>1, EmptyRingReads
  <2>3. bytesRead < bytesRead'
    BY <1>2, <2>1, <2>2, ReadsThrough
  <2> QED
    BY <1>4, <2>3
<1> QED
  BY <1>2, <1>3, <1>4

\* No step of execute ends a wait for the destination.
LEMMA WaitsForDestStays ==
  ASSUME ReturnInv, ReturnInv', WaitsForDest, Copying, "read" \notin Faults
  PROVE  WaitsForDest'
<1>1. /\ Executing /\ pc \in {"prebuffer", "test", "write", "read"}
      /\ srcLen > 0 /\ ~outStream.open /\ bytesWritten = 0 /\ thrown = "none"
      /\ bytesRead = 0 => pc = "prebuffer" /\ buff.buffered = 0 /\ inStream.open
                          /\ ~inStream.fail
      /\ bytesRead \in Nat /\ bytesRead < SizeMod
  <2>1. Executing /\ thrown = "none"
    BY DEF WaitsForDest, Executing, ReturnInv
  <2>2. bytesRead \in Nat /\ bytesRead < SizeMod
    BY <2>1, HangingTypes, Bounds
  <2> QED
    BY <2>1, <2>2 DEF WaitsForDest
<1>2. ASSUME PreBuffer \/ LoopRead PROVE WaitsForDest'
  <2>1. ReadToBuffer /\ pc' \in {"prebuffer", "test"}
    BY <1>1, <1>2 DEF PreBuffer, LoopRead, Goto
  <2> QED
    BY <1>1, <2>1, WaitsReading DEF WaitsForDest
<1>3. ASSUME PreBufferEnd PROVE WaitsForDest'
  <2>1. /\ pc' = "test" /\ ~PreBufferMore
        /\ UNCHANGED <<srcLen, outStream, bytesRead, bytesWritten>>
    BY <1>3 DEF PreBufferEnd, Goto, fileCopyVars, environment, copier, counters
  <2>2. buff.buffered = 0 => Available(buff) # 0
    BY Bounds DEF Available
  <2>3. bytesRead # 0
    BY <1>1, <2>1, <2>2 DEF PreBufferMore
  <2> QED
    BY <1>1, <2>1, <2>3 DEF WaitsForDest
<1>4. ASSUME LoopTest PROVE WaitsForDest'
  <2>1. /\ pc = "test" /\ UNCHANGED <<srcLen, outStream, bytesRead, bytesWritten>>
        /\ pc' = IF Complete(inStream, outStream) THEN "check" ELSE "write"
    BY <1>4 DEF LoopTest, fileCopyVars, environment, copier, counters
  <2>2. bytesRead # 0 /\ bytesRead - bytesWritten = bytesRead
    BY <1>1, <2>1
  <2>3. AsSize(bytesRead) = bytesRead
    BY <1>1, AsSizeNat, Bounds
  <2>4. ~Complete(inStream, outStream)
    BY <2>2, <2>3 DEF Complete, BytesRemaining
  <2> QED
    BY <1>1, <2>1, <2>2, <2>4 DEF WaitsForDest
<1>5. ASSUME LoopWrite PROVE WaitsForDest'
  <2>1. pc = "write" /\ WriteOut(buff.buffered)
        /\ pc' = IF thrown' = "none" THEN "read" ELSE "dead"
    BY <1>5 DEF LoopWrite, WriteFromBuffer
  <2>2. WriteNothing /\ UNCHANGED <<srcLen, bytesRead>>
    BY <1>1, <2>1 DEF WriteOut, WriteChunk, WriteEnd
  <2> QED
    BY <1>1, <2>1, <2>2 DEF WriteNothing, WaitsForDest
<1>6. ASSUME DoOpenSource \/ DoOpenDest \/ ExecuteSkip \/ ExecuteStart \/ CheckBuffer
             \/ Finish
      PROVE  FALSE
  BY <1>1, <1>6
  DEF DoOpenSource, DoOpenDest, ExecuteSkip, ExecuteStart, CheckBuffer, Finish, Goto
<1> QED
  BY <1>2, <1>3, <1>4, <1>5, <1>6 DEF Copying

\* Nor one of pre_buffer_source a wait for the ring.
LEMMA WaitsForRingStays ==
  ASSUME ReturnInv, ReturnInv', WaitsForRing, Copying, "read" \notin Faults
  PROVE  WaitsForRing'
<1>1. /\ Executing /\ pc = "prebuffer" /\ inStream.open
      /\ srcLen \in BufferLength + BufferLength + 1
                     .. BufferLength + BufferLength + BufferLength - 1
      /\ buff.buffered = bytesRead /\ (inStream.fail => bytesRead = srcLen)
      /\ bytesRead \in Nat /\ bytesRead <= srcLen /\ inStream.pos = bytesRead
      /\ FileCopyTypeOK /\ srcLen < SizeMod
  BY HangingTypes, Bounds DEF WaitsForRing, Executing
<1>2. ASSUME PreBuffer PROVE WaitsForRing'
  <2>1. ReadToBuffer /\ pc' = pc /\ UNCHANGED srcLen
    BY <1>2 DEF PreBuffer, ReadToBuffer, environment
  <2>2. FileCopyTypeOK' /\ bytesRead' \in Nat /\ buff'.buffered \in Int
    BY DEF ReturnInv, CopyInv, TypeOK, FileCopyTypeOK, RingRecord
  <2>3. BuffersAvailable(buff) # 0 => buff.buffered <= BufferLength + BufferLength
    <3>1. buff.buffered \in 0 .. TotalWritableLength
      BY <1>1, Bounds
    <3> QED
      BY <3>1, WholeBufferFree
  <2>4. BuffersAvailable(buff) # 0 => buff.buffered \in 0 .. TotalWritableLength - BufferLength
                                      /\ bytesRead # srcLen /\ ~inStream.fail
    BY <1>1, <2>3, Bounds
  <2>5. \/ inStream' = inStream /\ bytesRead' = bytesRead /\ buff'.buffered = buff.buffered
        \/ /\ inStream'.open /\ (inStream'.fail => bytesRead' = srcLen)
           /\ buff'.buffered - buff.buffered = bytesRead' - bytesRead
    BY <1>1, <2>1, <2>2, <2>4, ReadsThrough
  <2>6. buff'.buffered = bytesRead' /\ inStream'.open /\ (inStream'.fail => bytesRead' = srcLen)
    BY <1>1, <2>2, <2>5
  <2> QED
    BY <2>1, <2>6 DEF WaitsForRing
<1>3. ASSUME PreBufferEnd PROVE FALSE
  <2>1. Available(buff) # 0
    BY <1>1, Bounds DEF Available
  <2> QED
    BY <1>1, <1>3, <2>1 DEF PreBufferEnd, PreBufferMore
<1>4. ASSUME DoOpenSource \/ DoOpenDest \/ ExecuteSkip \/ ExecuteStart \/ LoopTest
             \/ LoopWrite \/ LoopRead \/ CheckBuffer \/ Finish
      PROVE  FALSE
  BY <1>1, <1>4
  DEF DoOpenSource, DoOpenDest, ExecuteSkip, ExecuteStart, LoopTest, LoopWrite, LoopRead,
      CheckBuffer, Finish, Goto
<1> QED
  BY <1>2, <1>3, <1>4 DEF Copying

LEMMA HangingStays ==
  ASSUME ReturnInv, ReturnInv', UnreadAtStart, Hanging, [Next]_vars,
         ~MayCrash, "read" \notin Faults
  PROVE  Hanging'
<1>1. pc \in {"execute", "prebuffer", "test", "write", "read"}
  BY DEF Hanging, WaitsForDest, WaitsForRing
<1>2. ASSUME UNCHANGED vars PROVE Hanging'
  <2>1. UNCHANGED <<pc, srcLen, inStream, outStream, bytesRead, bytesWritten, destSize, buff>>
    BY <1>2 DEF vars, fileCopyVars, environment, copier, counters
  <2> QED
    BY <2>1 DEF Hanging, Stuck, SkipExisting, WaitsForDest, WaitsForRing
<1>3. ASSUME NextFile \/ Reset \/ Crash \/ Rerun PROVE FALSE
  BY <1>1, <1>3 DEF NextFile, Reset, Crash, Rerun, Goto
<1>4. ASSUME Copying PROVE Hanging'
  <2>1. CASE pc = "execute" /\ Stuck
    <3>1. ExecuteStart
      BY <1>4, <2>1
      DEF Copying, DoOpenSource, DoOpenDest, ExecuteSkip, PreBuffer, PreBufferEnd, LoopTest,
          LoopWrite, LoopRead, CheckBuffer, Finish, Goto, Stuck
    <3> QED
      BY <2>1, <3>1, HangsFromStart DEF Hanging
  <2> QED
    BY <1>4, <2>1, WaitsForDestStays, WaitsForRingStays DEF Hanging
<1> QED
  BY <1>2, <1>3, <1>4 DEF Next

\* When no read fails and the process is left alone, execute never ends for a source that
\* leaves less than a buffer free without filling the ring, nor for a destination that
\* open_dest has left closed, and never throws either.
THEOREM StuckCopies ==
  ASSUME ~MayCrash, "read" \notin Faults PROVE Spec => StuckForever
<1>1. Init => UnreadAtStart
  BY DEF Init, UnreadAtStart
<1>2. ReturnInv /\ UnreadAtStart /\ [Next]_vars => UnreadAtStart'
  BY StartsUnread
<1>3. ReturnInv /\ ReturnInv' /\ UnreadAtStart /\ Hanging /\ [Next]_vars => Hanging'
  BY HangingStays
<1>4. (pc = "execute" /\ Stuck) => Hanging
  BY DEF Hanging
<1>5. Hanging => ~Ended
  BY DEF Hanging, WaitsForDest, WaitsForRing, Ended
<1> QED
  BY <1>1, <1>2, <1>3, <1>4, <1>5, ReturnInvariant, PTL DEF Spec, StuckForever
===============================================================================
