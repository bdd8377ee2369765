------------------------------ MODULE RingClient ------------------------------
(***************************************************************************)
(* The public read and write members of RingBuffer<T>, and a client that   *)
(* uses the ring as its declarations suggest: FileCopy moves the cursors   *)
(* itself and calls none of these members.                                 *)
(*                                                                         *)
(* The client has one of two styles:                                       *)
(*   "queue"    it writes samples and reads whole buffers, never forced,   *)
(*              and reads a buffer only after processing it;               *)
(*   "overrun"  it fills the write buffer and rotates it with force, so    *)
(*              that the oldest unread buffer makes room.                  *)
(* In both it asks the ring whether there is something to read, and starts *)
(* with the members called initial.  Samples are numbered as written.      *)
(***************************************************************************)
EXTENDS RingBuffer, SequencesExt

CONSTANTS
  MaxWritten,     \* bound on the samples written between two resets
  StaleProcessed  \* what a member that was never initialized may hold

ASSUME ClientAssumption ==
  /\ MaxWritten \in Nat /\ MaxWritten + RingLength * BufferLength < IntHalf
  /\ StaleProcessed \subseteq 0 .. RingLength * BufferLength

VARIABLES
  rb,          \* the ring
  style,
  written,     \* the number of samples written since the last reset
  got,         \* the samples of the last read
  consumed,    \* the last sample of the last buffer read, 0 if there is none
  flagsLost    \* whether the flags no longer follow the processed count, see RingIsQueue

vars == <<rb, style, written, got, consumed, flagsLost>>

-------------------------------------------------------------------------------
(* The members. *)

IsWritable(r) == r.readIndex # r.writeIndex

\* buffers_buffered() and buffers_processed(): int / uint32_t
BuffersBuffered(r) == AsInt(AsUInt(r.buffered) \div BufferLength)
BuffersProcessed(r) == AsInt(AsUInt(r.samplesProcessed) \div BufferLength)

ZeroFill(r) == [r EXCEPT !.ring = NewRing.ring]

\* set_size() makes new buffers and keeps _samplesProcessed and the flags.
SetSize(r) ==
  [NewRing EXCEPT !.samplesProcessed = r.samplesProcessed,
                  !.processedState = r.processedState]

MoveRead(r) ==
  [RotateReadIndex(r) EXCEPT
     !.buffered = AtLeastZero(AsInt(@ - BufferLength)),
     !.samplesProcessed = AtLeastZero(AsInt(@ - BufferLength))]

\* Mutant: no flag is cleared.
MoveWriteKeepFlags(r) ==
  [RotateWriteIndex(r) EXCEPT
     !.samplesWritten = 0, !.samplesRemaining = BufferLength,
     !.buffered = AsInt(@ + BufferLength)]

MoveWrite(r) ==
  LET moved == [RotateWriteIndex(r) EXCEPT
                  !.samplesWritten = 0, !.samplesRemaining = BufferLength,
                  !.buffered = AsInt(@ + BufferLength)]
  IN  SetBufferProcessed(moved, moved.writeIndex, FALSE)

RotateReadBuffer(r, force) ==
  IF force /\ ~IsWritable(MoveRead(r)) THEN MoveWrite(MoveRead(r)) ELSE MoveRead(r)

\* Mutant: the read cursor is not forced forward.
RotateWriteOver(r, force) == MoveWrite(r)

RotateWriteBuffer(r, force) ==
  IF force /\ ~IsWritable(MoveWrite(r)) THEN MoveRead(MoveWrite(r)) ELSE MoveWrite(r)

RotateProcessingBuffer(r) ==
  RotateProcessingIndex(
    [SetBufferProcessed(r, r.processingIndex, TRUE) EXCEPT
       !.samplesProcessed = AsInt(@ + BufferLength)])

\* read(), read_bytes() and read_samples() of length samples: a whole buffer is gone.
ReadSamples(r, length) == [j \in 1 .. length |-> r.ring[r.readIndex][j - 1]]

\* What one pass of the loop of write() does: what fits goes into the write buffer.
Fits(r, data) == IF Len(data) < r.samplesRemaining THEN Len(data) ELSE r.samplesRemaining

Store(r, data) ==
  [r EXCEPT
     !.ring[r.writeIndex] =
       [j \in SampleIndex |-> IF j - r.samplesWritten \in 0 .. Fits(r, data) - 1
                              THEN data[j - r.samplesWritten + 1] ELSE @[j]],
     !.samplesWritten = @ + Fits(r, data), !.samplesRemaining = @ - Fits(r, data)]

WriteOn(acc) ==
  LET stored == Store(acc.ring, acc.left)
  IN  [ring |-> IF stored.samplesRemaining <= 0 THEN MoveWrite(stored) ELSE stored,
       left |-> SubSeq(acc.left, Fits(acc.ring, acc.left) + 1, Len(acc.left))]

\* Mutant: one pass of write() goes on although the ring is full.
PassAlways(acc, i) == IF acc.left = <<>> THEN acc ELSE WriteOn(acc)

Pass(acc, i) == IF acc.left = <<>> \/ ~IsWritable(acc.ring) THEN acc ELSE WriteOn(acc)

\* The passes are counted down in an int8_t: a ring of more than 127 buffers gets none.
MaxPasses == IF RingLength > 127 THEN 0 ELSE RingLength

\* write(data, false); also write_bytes() and write_samples(), which are write() of what
\* they are given, and write(T) in a ring of at most 127 buffers.
Write(r, data) ==
  FoldLeft(Pass, [ring |-> r, left |-> data], [i \in 1 .. MaxPasses |-> i])

-------------------------------------------------------------------------------
(* The client. *)

\* RingBuffer(size, length), or RingBuffer() and set_size().
Init ==
  /\ \E processed \in StaleProcessed :
       rb = [NewRing EXCEPT !.samplesProcessed = processed]
  /\ style \in {"queue", "overrun"}
  /\ written = 0 /\ got = <<>> /\ consumed = 0
  /\ flagsLost = (rb.samplesProcessed # 0)

Samples(n) == [k \in 1 .. n |-> written + k]

\* write_initial() moves the processing cursor past the buffer never written.
FirstWrite(r) == IF written = 0 THEN RotateProcessingIndex(r) ELSE r

WriteSome(n) ==
  /\ style = "queue" /\ written + n <= MaxWritten
  /\ LET result == Write(FirstWrite(rb), Samples(n))
     IN  /\ rb' = result.ring
         /\ written' = written + n - Len(result.left)
  /\ flagsLost' = (flagsLost \/ (consumed > 0 /\ ~IsWritable(rb')))
  /\ UNCHANGED <<style, got, consumed>>

\* get_write_buffer() is filled.
FillAndRotate ==
  /\ style = "overrun" /\ written + BufferLength <= MaxWritten
  /\ rb' = RotateWriteBuffer(
             [FirstWrite(rb) EXCEPT
                !.ring[rb.writeIndex] = [j \in SampleIndex |-> Samples(BufferLength)[j + 1]]],
             TRUE)
  /\ written' = written + BufferLength
  /\ UNCHANGED <<style, got, consumed, flagsLost>>

Process ==
  /\ style = "queue"
  /\ BuffersBuffered(rb) > BuffersProcessed(rb)
  /\ rb' = RotateProcessingBuffer(rb)
  /\ UNCHANGED <<style, written, got, consumed, flagsLost>>

\* read_initial() moves the read cursor past the buffer never written.
FirstRead(r) == IF consumed = 0 THEN RotateReadIndex(r) ELSE r

Read(length) ==
  /\ BuffersBuffered(rb) > 0
  /\ style = "queue" => BuffersProcessed(rb) > 0 /\ length = BufferLength
  /\ got' = ReadSamples(FirstRead(rb), length)
  /\ consumed' = FirstRead(rb).ring[FirstRead(rb).readIndex][BufferLength - 1]
  /\ rb' = RotateReadBuffer(FirstRead(rb), FALSE)
  /\ UNCHANGED <<style, written, flagsLost>>

Restarted ==
  /\ written' = 0 /\ got' = <<>> /\ consumed' = 0
  /\ flagsLost' = (rb'.samplesProcessed # 0 \/ \E i \in SlotIndex : rb'.processedState[i])
  /\ UNCHANGED style

Reset ==
  /\ \E zeroFill \in BOOLEAN : rb' = ResetRing(IF zeroFill THEN ZeroFill(rb) ELSE rb)
  /\ Restarted

SetSizeAgain == rb' = SetSize(rb) /\ Restarted

Next ==
  \/ \E n \in 1 .. RingLength * BufferLength + 1 : WriteSome(n)
  \/ FillAndRotate
  \/ Process
  \/ \E length \in 1 .. BufferLength : Read(length)
  \/ Reset
  \/ SetSizeAgain

Spec == Init /\ [][Next]_vars

-------------------------------------------------------------------------------
(* Properties. *)

TypeOK ==
  /\ rb \in RingRecord
  /\ style \in {"queue", "overrun"}
  /\ written \in Nat /\ consumed \in Nat /\ flagsLost \in BOOLEAN
  /\ got \in Seq(Sample)

\* Whole buffers written and not yet read, and the index of the first of them.
Unread == (written - consumed) \div BufferLength
FirstUnread == FirstRead(rb).readIndex

BufferAt(j) == rb.ring[(FirstUnread + j) % RingLength]

\* As a queue the ring neither loses, repeats nor reorders a sample, across its ends
\* and its buffers that are partly written; the counters that the client asks are
\* what the cursors say; and the flags of the unread buffers say which the client has
\* processed.  The flags are lost for good when the ring gets full, since moving the
\* write cursor clears the flag of the buffer it arrives at, then the oldest unread
\* one; or when a reset leaves a processed count or a flag standing.
RingIsQueue ==
  style = "queue" =>
    /\ rb.buffered = Unread * BufferLength
    /\ rb.samplesWritten = (written - consumed) % BufferLength
    /\ \A j \in 0 .. Unread - 1, k \in SampleIndex :
         BufferAt(j)[k] = consumed + j * BufferLength + k + 1
    /\ \A k \in 0 .. rb.samplesWritten - 1 :
         BufferAt(Unread)[k] = consumed + Unread * BufferLength + k + 1
    /\ ~flagsLost => \A j \in 0 .. Unread - 1 :
         rb.processedState[(FirstUnread + j) % RingLength] <=> j < BuffersProcessed(rb)

\* A read returns samples of one buffer, in order, newer than those read before:
\* also after an overrun, where the reader is pushed forward or starts behind.
ReadsInOrder ==
  [][\A k \in DOMAIN got' : got' # got =>
       got'[k] = got'[1] + k - 1 /\ got'[k] > consumed /\ got'[k] <= written]_vars

\* is_writable() cannot tell a full ring from an empty one: the writer is refused when
\* every buffer holds unread samples (all but one before the first read), and also
\* when all are read: a queue once drained takes nothing more until it is reset.
RefusedWhenFullOrDrained ==
  style = "queue" =>
    (IsWritable(rb) <=> IF consumed = 0 THEN Unread < RingLength - 1
                        ELSE Unread \in 1 .. RingLength - 1)

-------------------------------------------------------------------------------
(* The inductive invariant behind them. *)

Slot(first, j) == (first + j) % RingLength

HeldBy(r) == r.buffered \div BufferLength
ProcessedOf(r) == r.samplesProcessed \div BufferLength

\* The ring r holds the samples that follow sample number "behind": whole buffers from
\* slot "first" on, and a part of one in the write buffer.
HoldsFrom(r, first, behind) ==
  /\ HeldBy(r) \in 0 .. RingLength /\ r.buffered = HeldBy(r) * BufferLength
  /\ r.samplesWritten \in SampleIndex
  /\ r.samplesRemaining = BufferLength - r.samplesWritten
  /\ HeldBy(r) = RingLength => r.samplesWritten = 0
  /\ r.writeIndex = Slot(first, HeldBy(r))
  /\ \A j \in 0 .. HeldBy(r) - 1, k \in SampleIndex :
       r.ring[Slot(first, j)][k] = behind + j * BufferLength + k + 1
  /\ \A k \in 0 .. r.samplesWritten - 1 :
       r.ring[r.writeIndex][k] = behind + r.buffered + k + 1

\* The flags from slot "first" on say how many of these buffers were processed.
FlagsFollow(r, first) ==
  /\ HeldBy(r) < RingLength
  /\ ProcessedOf(r) \in 0 .. HeldBy(r)
  /\ r.samplesProcessed = ProcessedOf(r) * BufferLength
  /\ \A j \in 0 .. HeldBy(r) :
       r.processedState[Slot(first, j)] <=> j < ProcessedOf(r)

\* The last sample that was read or overrun.
Behind == written - rb.samplesWritten - rb.buffered

RingInv ==
  /\ TypeOK
  /\ written = 0 => consumed = 0 /\ rb.readIndex = 0
  /\ HoldsFrom(rb, FirstUnread, Behind)
  /\ consumed <= Behind
  /\ consumed = 0 => HeldBy(rb) < RingLength
  /\ style = "queue" => consumed = Behind
  /\ style = "overrun" => /\ rb.samplesWritten = 0
                          /\ HeldBy(rb) < IF consumed = 0 THEN RingLength - 1 ELSE RingLength
  /\ style = "queue" /\ ~flagsLost =>
       /\ FlagsFollow(rb, FirstUnread)
       /\ written > 0 => rb.processingIndex = Slot(FirstUnread, ProcessedOf(rb))
       /\ written = 0 /\ MaxPasses > 0 => rb.processingIndex = 0
===============================================================================
