---------------------------- MODULE FileCopyProofs ----------------------------
(***************************************************************************)
(* Lemmas about the ring and about the member functions of FileCopy, for   *)
(* every buffer length and every width of the counters.  Each says what a  *)
(* definition of RingBuffer or FileCopy does to the fields a copy depends  *)
(* on; the proofs about the callers use them and not the definitions.  The *)
(* second half: read_to_buffer() and the writing functions keep the        *)
(* unwritten bytes in order between them, whatever calls them.             *)
(***************************************************************************)
EXTENDS FileCopy, SequenceTheorems, TLAPS

USE DEF Zero, Foreign

-------------------------------------------------------------------------------
(* Integer conversions. *)

\* The assumptions on the constants, as the arithmetic needs them.
LEMMA Bounds ==
  /\ RingLength = 4
  /\ BufferLength \in Nat /\ BufferLength > 0
  /\ TotalWritableLength = BufferLength + BufferLength + BufferLength
  /\ IntHalf \in Nat /\ TotalWritableLength + BufferLength < IntHalf
  /\ SizeMod \in Nat /\ SizeMod > 2 * IntHalf
  /\ SlotIndex = 0 .. 3
  /\ SampleIndex = 0 .. BufferLength - 1
  /\ Debug \in BOOLEAN /\ Overwrite \in BOOLEAN
BY RingAssumption, FileCopyAssumption DEF TotalWritableLength, SlotIndex, SampleIndex

LEMMA LossKept ==
  ASSUME NEW a \in Nat, NEW b \in Nat, NEW c \in Nat, NEW m \in Int,
         a + b - c \in 0 .. m, NEW r, r = a + b
  PROVE  r - c \in 0 .. m
OBVIOUS

\* A size_t keeps a value in range and is a natural number in any case.
LEMMA AsSizeNat == ASSUME NEW x \in Int
                   PROVE  AsSize(x) \in Nat /\ (x \in 0 .. SizeMod - 1 => AsSize(x) = x)
BY Bounds DEF AsSize

LEMMA AsUIntNat == ASSUME NEW x \in Int
                   PROVE  AsUInt(x) \in Nat
                          /\ (x \in 0 .. 2 * IntHalf - 1 => AsUInt(x) = x)
BY Bounds DEF AsUInt

LEMMA AsIntInt == ASSUME NEW x \in Int
                  PROVE  AsInt(x) \in Int
                         /\ (x \in -IntHalf .. IntHalf - 1 => AsInt(x) = x)
BY Bounds DEF AsInt

\* Quotient and remainder of a number between two multiples of the divisor.
LEMMA DivBetween ==
  ASSUME NEW x \in Int, NEW d \in Int, d > 0
  PROVE  /\ x >= 0 /\ x < d => x \div d = 0 /\ x % d = x
         /\ x >= d /\ x < d + d => x \div d = 1 /\ x % d = x - d
         /\ x >= d + d /\ x < d + d + d => x \div d = 2 /\ x % d = x - d - d
         /\ x >= d + d + d /\ x < d + d + d + d => x \div d = 3
BY SMTT(30)

-------------------------------------------------------------------------------
(* The ring. *)

\* What rotate_partial_read does to the fields the copy depends on, for a length
\* no greater than the number of samples buffered.
LEMMA RotatePartialReadFields ==
  ASSUME NEW rb \in RingRecord, NEW n \in Nat
  PROVE  LET after == RotatePartialRead(rb, n)
         IN  /\ after \in RingRecord
             /\ after.readIndex = NextIndex(rb.readIndex)
             /\ after.writeIndex = rb.writeIndex
             /\ after.ring = rb.ring
             /\ rb.buffered \in n .. TotalWritableLength
                  => after.buffered = rb.buffered - n
<1> DEFINE after == RotatePartialRead(rb, n)
           b == AtLeastZero(AsInt(rb.buffered - n))
           p == AtLeastZero(AsInt(rb.samplesProcessed - n))
<1>1. rb.buffered \in Int /\ rb.samplesProcessed \in Int /\ rb.readIndex \in SlotIndex
  BY DEF RingRecord
<1>2. NextIndex(rb.readIndex) \in SlotIndex
  BY <1>1, Bounds DEF NextIndex
<1>3. b \in Int /\ p \in Int
  BY <1>1, AsIntInt DEF AtLeastZero
<1>4. after = [rb EXCEPT !.readIndex = NextIndex(rb.readIndex),
                         !.buffered = b, !.samplesProcessed = p]
  BY DEF RotatePartialRead, RotateReadIndex, RingRecord
<1>5. ASSUME rb.buffered \in n .. TotalWritableLength
      PROVE  b = rb.buffered - n
  <2>1. rb.buffered - n \in Int /\ rb.buffered - n >= 0
        /\ rb.buffered - n \in -IntHalf .. IntHalf - 1
    BY <1>1, <1>5, Bounds
  <2>2. AsInt(rb.buffered - n) = rb.buffered - n
    BY <2>1, AsIntInt
  <2> QED
    BY <2>1, <2>2 DEF AtLeastZero
<1> HIDE DEF b, p, after
<1>6. after \in RingRecord
  BY <1>2, <1>3, <1>4 DEF RingRecord
<1>7. /\ after.readIndex = NextIndex(rb.readIndex) /\ after.buffered = b
      /\ after.writeIndex = rb.writeIndex /\ after.ring = rb.ring
  BY <1>4 DEF RingRecord
<1> QED
  BY <1>5, <1>6, <1>7 DEF after

\* What rotate_partial_write does to them, for a length that fits.
LEMMA RotatePartialWriteFields ==
  ASSUME NEW rb \in RingRecord, NEW n \in Nat
  PROVE  LET after == RotatePartialWrite(rb, n)
         IN  /\ after \in RingRecord
             /\ after.readIndex = rb.readIndex
             /\ after.writeIndex = NextIndex(rb.writeIndex)
             /\ after.ring = rb.ring
             /\ rb.buffered \in 0 .. TotalWritableLength - n
                  => after.buffered = rb.buffered + n
<1> DEFINE after == RotatePartialWrite(rb, n)
           b == AtMostWritable(AsInt(rb.buffered + n))
           w == NextIndex(rb.writeIndex)
           none == 0
           states == [rb.processedState EXCEPT ![w] = FALSE]
<1>1. rb.buffered \in Int /\ rb.writeIndex \in SlotIndex
      /\ rb.processedState \in [SlotIndex -> BOOLEAN]
  BY DEF RingRecord
<1>2. w \in SlotIndex
  BY <1>1, Bounds DEF NextIndex
<1>3. b \in Int
  <2>1. AsInt(rb.buffered + n) \in Int
    BY <1>1, AsIntInt
  <2> QED
    BY <2>1, Bounds DEF AtMostWritable
<1>4. after = [rb EXCEPT !.writeIndex = w, !.samplesWritten = none,
                         !.samplesRemaining = BufferLength, !.buffered = b,
                         !.processedState = states]
  BY DEF RotatePartialWrite, RotateWriteIndex, SetBufferProcessed, RingRecord
<1>5. ASSUME rb.buffered \in 0 .. TotalWritableLength - n
      PROVE  b = rb.buffered + n
  <2>1. rb.buffered + n \in 0 .. TotalWritableLength
    BY <1>1, <1>5, Bounds
  <2>2. AsInt(rb.buffered + n) = rb.buffered + n
    BY <2>1, AsIntInt, Bounds
  <2> QED
    BY <2>1, <2>2, Bounds DEF AtMostWritable
<1>8. states \in [SlotIndex -> BOOLEAN]
  BY <1>1, <1>2, Zenon
<1>9. BufferLength \in Int /\ none \in Int
  BY Bounds
<1> HIDE DEF b, w, none, states, after
<1>6. after \in RingRecord
  BY <1>2, <1>3, <1>4, <1>8, <1>9 DEF RingRecord
<1>7. /\ after.readIndex = rb.readIndex /\ after.buffered = b
      /\ after.writeIndex = w /\ after.ring = rb.ring
  BY <1>4 DEF RingRecord
<1> QED
  BY <1>5, <1>6, <1>7 DEF after, w

\* A new ring is a ring.
LEMMA NewRingType == NewRing \in RingRecord
<1> DEFINE none == 0
           clear == [i \in SlotIndex |-> FALSE]
           zeros == [i \in SlotIndex |-> [j \in SampleIndex |-> none]]
<1>1. 0 \in SlotIndex /\ 1 \in SlotIndex /\ BufferLength \in Int /\ none \in Int
  BY Bounds
<1>2. clear \in [SlotIndex -> BOOLEAN]
  OBVIOUS
<1>3. zeros \in [SlotIndex -> [SampleIndex -> Sample]]
  BY <1>1 DEF Sample
<1>4. NewRing = [readIndex |-> 0, writeIndex |-> 1, processingIndex |-> 0,
                 buffered |-> none, samplesProcessed |-> none,
                 samplesWritten |-> none, samplesRemaining |-> BufferLength,
                 processedState |-> clear, ring |-> zeros]
  BY DEF NewRing
<1> HIDE DEF none, clear, zeros
<1> QED
  BY <1>1, <1>2, <1>3, <1>4 DEF RingRecord

\* What reset() makes of a ring for the next file: an empty ring with its cursors
\* where a new ring has them.
LEMMA ResetRingFields ==
  ASSUME NEW rb \in RingRecord
  PROVE  LET after == ForgetSource(ResetRing(rb))
         IN  /\ after \in RingRecord
             /\ after.readIndex = 0 /\ after.writeIndex = 1 /\ after.buffered = 0
<1> DEFINE reset == ResetRing(rb)
           none == 0
           clear == [i \in SlotIndex |-> FALSE]
           old == [i \in SlotIndex |-> [j \in SampleIndex |->
                     IF reset.ring[i][j] = Zero THEN Zero ELSE Foreign]]
           after == [reset EXCEPT !.ring = old]
<1>1. 0 \in SlotIndex /\ 1 \in SlotIndex /\ BufferLength \in Int /\ none \in Int
  BY Bounds
<1>2. clear \in [SlotIndex -> BOOLEAN]
  OBVIOUS
<1>3. old \in [SlotIndex -> [SampleIndex -> Sample]]
  BY DEF Sample
<1>4. reset = [rb EXCEPT !.samplesRemaining = BufferLength, !.samplesWritten = none,
                         !.buffered = none, !.readIndex = 0, !.writeIndex = 1,
                         !.processingIndex = 0, !.processedState = clear]
  BY DEF ResetRing
<1>5. ForgetSource(ResetRing(rb)) = after
  BY DEF ForgetSource
<1> HIDE DEF reset, clear, old
<1>6. /\ reset.readIndex = 0 /\ reset.writeIndex = 1 /\ reset.buffered = 0
  BY <1>4 DEF RingRecord
<1> HIDE DEF none
<1>7. reset \in RingRecord
  BY <1>1, <1>2, <1>4 DEF RingRecord
<1>8. /\ after \in RingRecord
      /\ after.readIndex = reset.readIndex /\ after.writeIndex = reset.writeIndex
      /\ after.buffered = reset.buffered
  BY <1>3, <1>7 DEF RingRecord
<1> QED
  BY <1>5, <1>6, <1>8

\* istream::read into the buffer at the write cursor.
LEMMA FillWriteBufferFields ==
  ASSUME NEW rb \in RingRecord, NEW n \in Nat, inStream.pos \in Nat
  PROVE  LET after == FillWriteBuffer(rb, n)
         IN  /\ after \in RingRecord
             /\ after.readIndex = rb.readIndex /\ after.writeIndex = rb.writeIndex
             /\ after.buffered = rb.buffered
             /\ \A s \in SlotIndex : s # rb.writeIndex => after.ring[s] = rb.ring[s]
             /\ \A i \in SampleIndex :
                  i < n => after.ring[rb.writeIndex][i] = inStream.pos + i + 1
<1> DEFINE after == FillWriteBuffer(rb, n)
           slot == [j \in SampleIndex |->
                      IF j < n THEN inStream.pos + j + 1 ELSE rb.ring[rb.writeIndex][j]]
           filled == [rb.ring EXCEPT ![rb.writeIndex] = slot]
<1>1. /\ rb.writeIndex \in SlotIndex
      /\ rb.ring \in [SlotIndex -> [SampleIndex -> Sample]]
  BY DEF RingRecord
<1>2. slot \in [SampleIndex -> Sample]
  <2>1. \A j \in SampleIndex : j \in Int /\ rb.ring[rb.writeIndex][j] \in Sample
    BY <1>1, Bounds
  <2>2. \A j \in SampleIndex : inStream.pos + j + 1 \in Sample
    BY <2>1 DEF Sample
  <2> QED
    BY <2>1, <2>2
<1>3. after = [rb EXCEPT !.ring = filled]
  BY <1>1 DEF FillWriteBuffer, RingRecord
<1>4. \A i \in SampleIndex : i < n => slot[i] = inStream.pos + i + 1
  BY Bounds
<1> HIDE DEF slot
<1>5. /\ filled \in [SlotIndex -> [SampleIndex -> Sample]]
      /\ filled[rb.writeIndex] = slot
      /\ \A s \in SlotIndex : s # rb.writeIndex => filled[s] = rb.ring[s]
  BY <1>1, <1>2
<1> HIDE DEF filled, after
<1>6. after \in RingRecord
  BY <1>3, <1>5 DEF RingRecord
<1>7. /\ after.readIndex = rb.readIndex /\ after.writeIndex = rb.writeIndex
      /\ after.buffered = rb.buffered /\ after.ring = filled
  BY <1>3 DEF RingRecord
<1> QED
  BY <1>4, <1>5, <1>6, <1>7 DEF after

\* The cursor moves that touch nothing else.
LEMMA RotateFields ==
  ASSUME NEW rb \in RingRecord
  PROVE  /\ RotateProcessingIndex(rb) \in RingRecord
         /\ RotateProcessingIndex(rb).readIndex = rb.readIndex
         /\ RotateProcessingIndex(rb).writeIndex = rb.writeIndex
         /\ RotateProcessingIndex(rb).buffered = rb.buffered
         /\ RotateProcessingIndex(rb).ring = rb.ring
         /\ RotateReadIndex(rb) \in RingRecord
         /\ RotateReadIndex(rb).readIndex = NextIndex(rb.readIndex)
         /\ RotateReadIndex(rb).writeIndex = rb.writeIndex
         /\ RotateReadIndex(rb).buffered = rb.buffered
         /\ RotateReadIndex(rb).ring = rb.ring
<1>1. rb.readIndex \in SlotIndex /\ rb.processingIndex \in SlotIndex
  BY DEF RingRecord
<1>2. /\ NextIndex(rb.readIndex) \in SlotIndex
      /\ NextIndex(rb.processingIndex) \in SlotIndex
  BY <1>1, Bounds DEF NextIndex
<1> QED
  BY <1>2 DEF RotateProcessingIndex, RotateReadIndex, RingRecord

-------------------------------------------------------------------------------
(* The processing cursor and the two counts, which inline hashing adds. *)

\* What remains of a count from which n is taken, and what a count grows to.
Less(count, n) == IF count >= n THEN count - n ELSE 0
More(count, n) == IF count + n > TotalWritableLength THEN TotalWritableLength ELSE count + n

LEMMA LessCount ==
  ASSUME NEW count \in 0 .. TotalWritableLength, NEW n \in 0 .. BufferLength
  PROVE  AtLeastZero(AsInt(count - n)) = Less(count, n)
<1>1. count - n \in Int /\ count - n \in -IntHalf .. IntHalf - 1
      /\ count \in Int /\ n \in Int
  BY Bounds
<1>2. AsInt(count - n) = count - n
  BY <1>1, AsIntInt
<1> QED
  BY <1>1, <1>2 DEF AtLeastZero, Less

LEMMA MoreCount ==
  ASSUME NEW count \in 0 .. TotalWritableLength, NEW n \in 0 .. BufferLength
  PROVE  AtMostWritable(AsInt(count + n)) = More(count, n)
<1>1. count + n \in Int /\ count + n \in -IntHalf .. IntHalf - 1
  BY Bounds
<1>2. AsInt(count + n) = count + n
  BY <1>1, AsIntInt
<1> QED
  BY <1>2 DEF AtMostWritable, More

\* rotate_partial_read takes a chunk from both counts.
LEMMA RotatePartialReadCounts ==
  ASSUME NEW rb \in RingRecord, NEW n \in 0 .. BufferLength
  PROVE  LET after == RotatePartialRead(rb, n)
         IN  /\ after.processingIndex = rb.processingIndex
             /\ rb.samplesProcessed \in 0 .. TotalWritableLength
                  => after.samplesProcessed = Less(rb.samplesProcessed, n)
             /\ rb.buffered \in 0 .. TotalWritableLength
                  => after.buffered = Less(rb.buffered, n)
<1> DEFINE after == RotatePartialRead(rb, n)
           b == AtLeastZero(AsInt(rb.buffered - n))
           p == AtLeastZero(AsInt(rb.samplesProcessed - n))
<1>1. after = [rb EXCEPT !.readIndex = NextIndex(rb.readIndex),
                         !.buffered = b, !.samplesProcessed = p]
  BY DEF RotatePartialRead, RotateReadIndex, RingRecord
<1>2. /\ rb.samplesProcessed \in 0 .. TotalWritableLength
           => p = Less(rb.samplesProcessed, n)
      /\ rb.buffered \in 0 .. TotalWritableLength => b = Less(rb.buffered, n)
  BY LessCount
<1> HIDE DEF after, b, p
<1>3. /\ after.processingIndex = rb.processingIndex
      /\ after.samplesProcessed = p /\ after.buffered = b
  BY <1>1 DEF RingRecord
<1> QED
  BY <1>2, <1>3 DEF after

\* The steps of reading leave what is processed alone.
LEMMA WriteSideCounts ==
  ASSUME NEW rb \in RingRecord, NEW n \in Nat
  PROVE  /\ RotatePartialWrite(rb, n).samplesProcessed = rb.samplesProcessed
         /\ RotatePartialWrite(rb, n).processingIndex = rb.processingIndex
         /\ FillWriteBuffer(rb, n).samplesProcessed = rb.samplesProcessed
         /\ FillWriteBuffer(rb, n).processingIndex = rb.processingIndex
         /\ RotateProcessingIndex(rb).samplesProcessed = rb.samplesProcessed
         /\ RotateProcessingIndex(rb).processingIndex = NextIndex(rb.processingIndex)
         /\ RotateReadIndex(rb).samplesProcessed = rb.samplesProcessed
         /\ RotateReadIndex(rb).processingIndex = rb.processingIndex
         /\ ForgetSource(ResetRing(rb)).samplesProcessed = rb.samplesProcessed
         /\ ForgetSource(ResetRing(rb)).processingIndex = 0
<1>1. /\ RotatePartialWrite(rb, n).samplesProcessed = rb.samplesProcessed
      /\ RotatePartialWrite(rb, n).processingIndex = rb.processingIndex
  BY DEF RotatePartialWrite, RotateWriteIndex, SetBufferProcessed, RingRecord
<1>2. /\ FillWriteBuffer(rb, n).samplesProcessed = rb.samplesProcessed
      /\ FillWriteBuffer(rb, n).processingIndex = rb.processingIndex
  BY DEF FillWriteBuffer, RingRecord
<1>3. /\ RotateProcessingIndex(rb).samplesProcessed = rb.samplesProcessed
      /\ RotateProcessingIndex(rb).processingIndex = NextIndex(rb.processingIndex)
      /\ RotateReadIndex(rb).samplesProcessed = rb.samplesProcessed
      /\ RotateReadIndex(rb).processingIndex = rb.processingIndex
  BY DEF RotateProcessingIndex, RotateReadIndex, RingRecord
<1>4. /\ ForgetSource(ResetRing(rb)).samplesProcessed = rb.samplesProcessed
      /\ ForgetSource(ResetRing(rb)).processingIndex = 0
  BY DEF ForgetSource, ResetRing, RingRecord
<1> QED
  BY <1>1, <1>2, <1>3, <1>4

\* rotate_partial_processing moves its own cursor and its own count only.
LEMMA RotatePartialProcessingFields ==
  ASSUME NEW rb \in RingRecord, NEW n \in 0 .. BufferLength
  PROVE  LET after == RotatePartialProcessing(rb, n)
         IN  /\ after \in RingRecord
             /\ after.readIndex = rb.readIndex /\ after.writeIndex = rb.writeIndex
             /\ after.buffered = rb.buffered /\ after.ring = rb.ring
             /\ after.processingIndex = NextIndex(rb.processingIndex)
             /\ rb.samplesProcessed \in 0 .. TotalWritableLength
                  => after.samplesProcessed = More(rb.samplesProcessed, n)
<1> DEFINE after == RotatePartialProcessing(rb, n)
           p == AtMostWritable(AsInt(rb.samplesProcessed + n))
           i == NextIndex(rb.processingIndex)
           states == [rb.processedState EXCEPT ![rb.processingIndex] = TRUE]
<1>1. /\ rb.samplesProcessed \in Int /\ rb.processingIndex \in SlotIndex
      /\ rb.processedState \in [SlotIndex -> BOOLEAN] /\ n \in Int
  BY Bounds DEF RingRecord
<1>2. i \in SlotIndex
  BY <1>1, Bounds DEF NextIndex
<1>3. p \in Int
  <2>1. AsInt(rb.samplesProcessed + n) \in Int
    BY <1>1, AsIntInt
  <2> QED
    BY <2>1, Bounds DEF AtMostWritable
<1>4. states \in [SlotIndex -> BOOLEAN]
  BY <1>1, Zenon
<1>5. after = [rb EXCEPT !.processedState = states, !.samplesProcessed = p,
                         !.processingIndex = i]
  BY DEF RotatePartialProcessing, RotateProcessingIndex, SetBufferProcessed, RingRecord
<1>6. rb.samplesProcessed \in 0 .. TotalWritableLength
        => p = More(rb.samplesProcessed, n)
  BY MoreCount
<1> HIDE DEF after, p, i, states
<1>7. after \in RingRecord
  BY <1>2, <1>3, <1>4, <1>5 DEF RingRecord
<1>8. /\ after.readIndex = rb.readIndex /\ after.writeIndex = rb.writeIndex
      /\ after.buffered = rb.buffered /\ after.ring = rb.ring
      /\ after.processingIndex = i /\ after.samplesProcessed = p
  BY <1>5 DEF RingRecord
<1> QED
  BY <1>6, <1>7, <1>8 DEF after, i

-------------------------------------------------------------------------------
(* Types of the member functions. *)

\* read_to_buffer keeps the types.
LEMMA ReadToBufferType ==
  ASSUME FileCopyTypeOK, ReadToBuffer
  PROVE  FileCopyTypeOK'
<1> DEFINE rb == IF started THEN buff ELSE RotateProcessingIndex(buff)
<1>1. buff \in RingRecord /\ bytesRead \in Nat /\ inStream.pos \in Nat
      /\ inStream \in [open : BOOLEAN, pos : Nat, fail : BOOLEAN] /\ srcLen \in Nat
  BY DEF FileCopyTypeOK
<1>2. rb \in RingRecord
  BY <1>1, RotateFields
<1>3. ReadNothing(rb) \/ ReadChunk(rb) \/ ReadEnd(rb)
  BY DEF ReadToBuffer
<1> HIDE DEF rb
<1>4. /\ buff' \in RingRecord /\ bytesRead' \in Nat
      /\ inStream' \in [open : BOOLEAN, pos : Nat, fail : BOOLEAN]
  <2>1. CASE ReadNothing(rb)
    BY <1>1, <1>2, <2>1 DEF ReadNothing
  <2>2. CASE ReadChunk(rb)
    <3>1. PICK n \in ReadCounts \ {0} :
            /\ inStream' = [inStream EXCEPT !.pos = @ + n, !.fail = n < BufferLength]
            /\ buff' = RotatePartialWrite(FillWriteBuffer(rb, n), n)
            /\ bytesRead' = AsSize(bytesRead + n)
      BY <2>2 DEF ReadChunk
    <3>2. n \in Nat
      BY <1>1, Bounds DEF ReadCounts, Lesser
    <3>3. buff' \in RingRecord
      BY <1>1, <1>2, <3>1, <3>2, FillWriteBufferFields, RotatePartialWriteFields
    <3>4. bytesRead' \in Nat
      BY <1>1, <3>1, <3>2, AsSizeNat
    <3>5. inStream' \in [open : BOOLEAN, pos : Nat, fail : BOOLEAN]
      <4> DEFINE reached == inStream.pos + n
                 short == n < BufferLength
      <4>1. inStream' = [inStream EXCEPT !.pos = reached, !.fail = short]
        BY <3>1
      <4>2. reached \in Nat /\ short \in BOOLEAN
        BY <1>1, <3>2
      <4> HIDE DEF reached, short
      <4> QED
        BY <1>1, <4>1, <4>2
    <3> QED
      BY <3>3, <3>4, <3>5
  <2>3. CASE ReadEnd(rb)
    BY <1>1, <1>2, <2>3 DEF ReadEnd, CloseIn
  <2> QED
    BY <1>3, <2>1, <2>2, <2>3
<1> QED
  BY <1>4 DEF ReadToBuffer, FileCopyTypeOK, environment

\* The first m elements of a sequence.
LEMMA FirstPart ==
  ASSUME NEW all \in Seq(Int), NEW m \in 0 .. Len(all)
  PROVE  /\ SubSeq(all, 1, m) \in Seq(Int) /\ Len(SubSeq(all, 1, m)) = m
         /\ \A i \in 1 .. m : SubSeq(all, 1, m)[i] = all[i]
<1>1. Len(all) \in Nat /\ m \in Int /\ m \in Nat /\ m <= Len(all) /\ 1 \in Int
  BY LenProperties
<1>2. \A i \in 1 .. m : all[i] \in Int
  BY <1>1, ElementOfSeq
<1>3. /\ SubSeq(all, 1, m) \in Seq(Int)
      /\ Len(SubSeq(all, 1, m)) = IF 1 <= m THEN m - 1 + 1 ELSE 0
      /\ \A i \in 1 .. m - 1 + 1 : SubSeq(all, 1, m)[i] = all[1 + i - 1]
  BY <1>1, <1>2, SubSeqProperties
<1>4. m - 1 + 1 = m /\ \A i \in 1 .. m : 1 + i - 1 = i
  BY <1>1
<1>5. Len(SubSeq(all, 1, m)) = m
  BY <1>1, <1>3
<1>6. \A i \in 1 .. m : SubSeq(all, 1, m)[i] = all[i]
  BY <1>3, <1>4, Zenon
<1> QED
  BY <1>3, <1>5, <1>6

LEMMA FirstPartAppended ==
  ASSUME NEW data \in Seq(Int), NEW all \in Seq(Int), NEW m \in 0 .. Len(all)
  PROVE  /\ data \o SubSeq(all, 1, m) \in Seq(Int)
         /\ Len(data \o SubSeq(all, 1, m)) = Len(data) + m
         /\ m = 0 => data \o SubSeq(all, 1, m) = data
<1> DEFINE part == SubSeq(all, 1, m)
<1>1. part \in Seq(Int) /\ Len(part) = m
  BY FirstPart
<1>2. m = 0 => part = <<>>
  BY SubSeqEmpty
<1> HIDE DEF part
<1>3. data \o part \in Seq(Int) /\ Len(data \o part) = Len(data) + Len(part)
  BY <1>1, ConcatProperties
<1>4. data \o <<>> = data
  BY ConcatEmptySeq
<1> QED
  BY <1>1, <1>2, <1>3, <1>4 DEF part

\* A file that gets the first m bytes of a sequence.
LEMMA TargetAppends ==
  ASSUME FileCopyTypeOK, NEW all \in Seq(Int), NEW m \in 0 .. Len(all)
  PROVE  target' = [target EXCEPT !.data = @ \o SubSeq(all, 1, m)] =>
           /\ target' \in [dir : BOOLEAN, exists : BOOLEAN, data : Seq(Int)]
           /\ target'.dir = target.dir /\ target'.exists = target.exists
           /\ target'.data = target.data \o SubSeq(all, 1, m)
           /\ Len(target'.data) = Len(target.data) + m
           /\ m = 0 => target' = target
<1> DEFINE longer == target.data \o SubSeq(all, 1, m)
<1>1. target \in [dir : BOOLEAN, exists : BOOLEAN, data : Seq(Int)] /\ target.data \in Seq(Int)
  BY DEF FileCopyTypeOK
<1>2. /\ longer \in Seq(Int) /\ Len(longer) = Len(target.data) + m
      /\ m = 0 => longer = target.data
  BY <1>1, FirstPartAppended
<1> HIDE DEF longer
<1>3. target' = [target EXCEPT !.data = longer] =>
        /\ target' \in [dir : BOOLEAN, exists : BOOLEAN, data : Seq(Int)]
        /\ target'.dir = target.dir /\ target'.exists = target.exists
        /\ target'.data = longer
        /\ longer = target.data => target' = target
  BY <1>1, <1>2
<1>4. target' = [target EXCEPT !.data = longer] =>
        /\ target' \in [dir : BOOLEAN, exists : BOOLEAN, data : Seq(Int)]
        /\ target'.dir = target.dir /\ target'.exists = target.exists
        /\ target'.data = longer
        /\ Len(target'.data) = Len(target.data) + m
        /\ m = 0 => target' = target
  BY <1>2, <1>3
<1> QED
  BY <1>4 DEF longer

\* What ostream::write appends to the destination is a prefix of what the stream holds
\* and the chunk: all of it, or nothing, unless the stream is failed afterwards.
LEMMA StreamWriteAppends ==
  ASSUME FileCopyTypeOK, NEW chunk \in Seq(Int), StreamWrite(chunk)
  PROVE  /\ outStream' \in [open : BOOLEAN, fail : BOOLEAN, held : Seq(Int)]
         /\ outStream'.open = outStream.open
         /\ Len(outStream'.held) < BufferLength
         /\ target' \in [dir : BOOLEAN, exists : BOOLEAN, data : Seq(Int)]
         /\ target'.dir = target.dir /\ target'.exists = target.exists
         /\ ~outStream'.fail =>
              /\ ~outStream.fail
              /\ \/ outStream'.held = <<>>
                 \/ target' = target /\ outStream'.held = outStream.held \o chunk
              /\ Len(target'.data) + Len(outStream'.held)
                   = Len(target.data) + Len(outStream.held) + Len(chunk)
         /\ outStream'.fail => outStream'.held = outStream.held
         /\ outStream.fail => outStream'.fail /\ target' = target
         /\ ~outStream.fail /\ outStream'.fail => "write" \in Faults
         /\ \E m \in 0 .. Len(outStream.held) + Len(chunk) :
              target' = [target EXCEPT !.data = @ \o SubSeq(outStream.held \o chunk, 1, m)]
<1> DEFINE all == outStream.held \o chunk
<1>1. /\ target \in [dir : BOOLEAN, exists : BOOLEAN, data : Seq(Int)]
      /\ outStream \in [open : BOOLEAN, fail : BOOLEAN, held : Seq(Int)]
      /\ Len(outStream.held) < BufferLength
      /\ target.data \in Seq(Int) /\ Len(chunk) \in Nat /\ Len(target.data) \in Nat
      /\ outStream.held \in Seq(Int) /\ Len(outStream.held) \in Nat
  BY LenProperties DEF FileCopyTypeOK
<1>2. all \in Seq(Int) /\ Len(all) = Len(outStream.held) + Len(chunk)
  BY <1>1, ConcatProperties
<1>3. SubSeq(all, 1, Len(all)) = all
  BY <1>2, SubSeqFull
<1>4. /\ SubSeq(all, 1, 0) = <<>> /\ target.data \o <<>> = target.data
      /\ target = [target EXCEPT !.data = target.data]
      /\ <<>> \in Seq(Int) /\ Len(<<>>) = 0
  BY <1>1, ConcatEmptySeq, SubSeqEmpty, EmptySeq
<1>9. 0 \in 0 .. Len(outStream.held) + Len(chunk)
  BY <1>1
<1>5. CASE WriteThrough(chunk)
  <2>1. target' = [target EXCEPT !.data = @ \o SubSeq(all, 1, Len(all))]
    <3>1. target' = [target EXCEPT !.data = @ \o outStream.held \o chunk]
      BY <1>5 DEF WriteThrough
    <3>2. (target.data \o outStream.held) \o chunk = target.data \o all
      BY <1>1, ConcatAssociative
    <3> QED
      BY <1>3, <3>1, <3>2
  <2>2. Len(all) \in 0 .. Len(all)
    BY <1>1, <1>2
  <2> HIDE DEF all
  <2>3. /\ target' \in [dir : BOOLEAN, exists : BOOLEAN, data : Seq(Int)]
        /\ target'.dir = target.dir /\ target'.exists = target.exists
        /\ Len(target'.data) = Len(target.data) + Len(all)
    BY <1>2, <2>1, <2>2, TargetAppends
  <2>4. /\ outStream' \in [open : BOOLEAN, fail : BOOLEAN, held : Seq(Int)]
        /\ outStream'.open = outStream.open /\ ~outStream.fail /\ ~outStream'.fail
        /\ outStream'.held = <<>>
    BY <1>1, <1>4, <1>5 DEF WriteThrough
  <2>5. \E m \in 0 .. Len(outStream.held) + Len(chunk) :
          target' = [target EXCEPT !.data = @ \o SubSeq(all, 1, m)]
    BY <1>2, <2>1, <2>2
  <2>6. Len(target'.data) + Len(outStream'.held)
          = Len(target.data) + Len(outStream.held) + Len(chunk)
    <3> DEFINE total == Len(all)
    <3>1. total = Len(outStream.held) + Len(chunk) /\ Len(target'.data) = Len(target.data) + total
      BY <1>2, <2>3
    <3>2. Len(outStream'.held) = 0
      BY <1>4, <2>4
    <3> HIDE DEF total
    <3> QED
      BY <1>1, <3>1, <3>2
  <2>7. Len(outStream'.held) < BufferLength
    BY <1>4, <2>4, Bounds
  <2> QED
    BY <2>3, <2>4, <2>5, <2>6, <2>7 DEF all
<1>6. CASE HoldBack(chunk)
  <2>1. /\ outStream' \in [open : BOOLEAN, fail : BOOLEAN, held : Seq(Int)]
        /\ outStream'.open = outStream.open /\ ~outStream.fail /\ ~outStream'.fail
        /\ outStream'.held = all /\ target' = target /\ Len(all) < BufferLength
    BY <1>1, <1>2, <1>6 DEF HoldBack
  <2> HIDE DEF all
  <2>2. target' = [target EXCEPT !.data = @ \o SubSeq(all, 1, 0)]
    BY <1>4, <2>1
  <2>3. \E m \in 0 .. Len(outStream.held) + Len(chunk) :
          target' = [target EXCEPT !.data = @ \o SubSeq(all, 1, m)]
    BY <1>9, <2>2
  <2>4. Len(target'.data) + Len(outStream'.held)
          = Len(target.data) + Len(outStream.held) + Len(chunk)
    <3> DEFINE total == Len(all)
    <3>1. /\ total = Len(outStream.held) + Len(chunk) /\ Len(target'.data) = Len(target.data)
          /\ Len(outStream'.held) = total
      BY <1>2, <2>1
    <3> HIDE DEF total
    <3> QED
      BY <1>1, <3>1
  <2>5. Len(outStream'.held) < BufferLength
    BY <2>1
  <2> QED
    BY <1>1, <2>1, <2>3, <2>4, <2>5 DEF all
<1>7. CASE WriteBadly(chunk)
  <2>1. PICK m \in 0 .. Len(all) - 1 :
          target' = [target EXCEPT !.data = @ \o SubSeq(all, 1, m)]
    BY <1>7 DEF WriteBadly
  <2>2. m \in 0 .. Len(all)
    BY <1>1, <1>2
  <2> HIDE DEF all
  <2>3. /\ target' \in [dir : BOOLEAN, exists : BOOLEAN, data : Seq(Int)]
        /\ target'.dir = target.dir /\ target'.exists = target.exists
    BY <1>2, <2>1, <2>2, TargetAppends
  <2>4. /\ outStream' \in [open : BOOLEAN, fail : BOOLEAN, held : Seq(Int)]
        /\ outStream'.open = outStream.open /\ ~outStream.fail /\ outStream'.fail
        /\ outStream'.held = outStream.held /\ "write" \in Faults
    BY <1>1, <1>7 DEF WriteBadly
  <2>5. \E i \in 0 .. Len(outStream.held) + Len(chunk) :
          target' = [target EXCEPT !.data = @ \o SubSeq(all, 1, i)]
    BY <1>2, <2>1, <2>2
  <2> QED
    BY <1>1, <2>3, <2>4, <2>5 DEF all
<1>8. CASE outStream.fail /\ UNCHANGED <<target, outStream>>
  <2> HIDE DEF all
  <2>1. target' = [target EXCEPT !.data = @ \o SubSeq(all, 1, 0)]
    BY <1>4, <1>8
  <2>2. \E m \in 0 .. Len(outStream.held) + Len(chunk) :
          target' = [target EXCEPT !.data = @ \o SubSeq(all, 1, m)]
    BY <1>9, <2>1
  <2> QED
    BY <1>1, <1>8, <2>2 DEF all
<1> QED
  BY <1>5, <1>6, <1>7, <1>8 DEF StreamWrite

\* close() puts the first bytes of what the stream holds into the file, all of them
\* unless writes may fail.
LEMMA CloseDestAppends ==
  ASSUME FileCopyTypeOK, CloseDest
  PROVE  /\ outStream' = [outStream EXCEPT !.open = FALSE, !.held = <<>>]
         /\ outStream' \in [open : BOOLEAN, fail : BOOLEAN, held : Seq(Int)]
         /\ ~outStream'.open /\ outStream'.fail = outStream.fail
         /\ outStream'.held = <<>> /\ Len(outStream'.held) = 0
         /\ target' \in [dir : BOOLEAN, exists : BOOLEAN, data : Seq(Int)]
         /\ target'.dir = target.dir /\ target'.exists = target.exists
         /\ outStream.held = <<>> => target' = target
         /\ \E m \in 0 .. Len(outStream.held) :
              /\ target' = [target EXCEPT !.data = @ \o SubSeq(outStream.held, 1, m)]
              /\ Len(target'.data) = Len(target.data) + m
              /\ "write" \notin Faults => m = Len(outStream.held)
<1>1. /\ outStream \in [open : BOOLEAN, fail : BOOLEAN, held : Seq(Int)]
      /\ outStream.held \in Seq(Int) /\ Len(outStream.held) \in Nat
      /\ <<>> \in Seq(Int) /\ Len(<<>>) = 0
  BY LenProperties, EmptySeq DEF FileCopyTypeOK
<1>2. /\ outStream' = [outStream EXCEPT !.open = FALSE, !.held = <<>>]
      /\ \E m \in (IF "write" \in Faults THEN 0 ELSE Len(outStream.held)) .. Len(outStream.held) :
           target' = [target EXCEPT !.data = @ \o SubSeq(outStream.held, 1, m)]
  BY DEF CloseDest
<1>3. PICK m \in (IF "write" \in Faults THEN 0 ELSE Len(outStream.held)) .. Len(outStream.held) :
        target' = [target EXCEPT !.data = @ \o SubSeq(outStream.held, 1, m)]
  BY <1>2
<1>4. /\ m \in 0 .. Len(outStream.held)
      /\ "write" \notin Faults => m = Len(outStream.held)
      /\ outStream.held = <<>> => m = 0
  BY <1>1
<1>5. /\ target' \in [dir : BOOLEAN, exists : BOOLEAN, data : Seq(Int)]
      /\ target'.dir = target.dir /\ target'.exists = target.exists
      /\ Len(target'.data) = Len(target.data) + m
      /\ m = 0 => target' = target
  BY <1>1, <1>3, <1>4, TargetAppends
<1>6. /\ outStream' \in [open : BOOLEAN, fail : BOOLEAN, held : Seq(Int)]
      /\ ~outStream'.open /\ outStream'.fail = outStream.fail
      /\ outStream'.held = <<>> /\ Len(outStream'.held) = 0
  BY <1>1, <1>2
<1> QED
  BY <1>2, <1>3, <1>4, <1>5, <1>6

\* The samples of the buffer at the read cursor, as a sequence.
LEMMA ReadBufferBytesSeq ==
  ASSUME NEW rb \in RingRecord, NEW k \in 0 .. BufferLength
  PROVE  /\ ReadBufferBytes(rb, k) \in Seq(Int)
         /\ Len(ReadBufferBytes(rb, k)) = k
         /\ \A j \in 1 .. k : ReadBufferBytes(rb, k)[j] = rb.ring[rb.readIndex][j - 1]
<1>1. rb.readIndex \in SlotIndex /\ rb.ring \in [SlotIndex -> [SampleIndex -> Int]]
  BY DEF RingRecord, Sample
<1>2. \A j \in 1 .. k : j - 1 \in SampleIndex
  BY Bounds
<1>3. \A j \in 1 .. k : rb.ring[rb.readIndex][j - 1] \in Int
  BY <1>1, <1>2
<1>4. ReadBufferBytes(rb, k) \in [1 .. k -> Int]
  BY <1>3 DEF ReadBufferBytes
<1>5. k \in Nat
  BY Bounds
<1>6. ReadBufferBytes(rb, k) \in Seq(Int)
  BY <1>4, <1>5, SeqDef
<1>7. Len(ReadBufferBytes(rb, k)) = k
  BY <1>4, <1>5, <1>6, LenProperties
<1> QED
  BY <1>6, <1>7 DEF ReadBufferBytes

\* The ring as the next write finds it, its read cursor past the slot that is
\* never written.
LEMMA ReadCursorReadyFields ==
  ASSUME buff \in RingRecord
  PROVE  /\ ReadCursorReady \in RingRecord
         /\ ReadCursorReady.readIndex =
              IF firstWritten THEN buff.readIndex ELSE NextIndex(buff.readIndex)
         /\ ReadCursorReady.writeIndex = buff.writeIndex
         /\ ReadCursorReady.buffered = buff.buffered
         /\ ReadCursorReady.ring = buff.ring
BY RotateFields DEF ReadCursorReady

\* A write takes at most a buffer.
LEMMA WriteLengthBound ==
  ASSUME NEW pending \in Int
  PROVE  WriteLength(pending) \in 0 .. BufferLength
BY AsUIntNat, Bounds DEF WriteLength, Lesser

\* The positions of a stream are integers.
LEMMA TellPInt ==
  ASSUME NEW out, out.held \in Seq(Int), NEW data \in Seq(Int)
  PROVE  TellP(out, data) \in Int
BY LenProperties, Bounds DEF TellP

\* write_from_buffer and write_processed_from_buffer keep the types.
LEMMA WriteOutType ==
  ASSUME FileCopyTypeOK, NEW pending \in Int, WriteOut(pending)
  PROVE  FileCopyTypeOK'
<1>1. /\ buff \in RingRecord /\ bytesWritten \in Nat /\ firstWritten \in BOOLEAN
      /\ thrown \in Exceptions \cup {"none"}
      /\ target \in [dir : BOOLEAN, exists : BOOLEAN, data : Seq(Int)]
      /\ outStream \in [open : BOOLEAN, fail : BOOLEAN, held : Seq(Int)]
      /\ Len(outStream.held) < BufferLength /\ (~outStream.open => outStream.held = <<>>)
  BY DEF FileCopyTypeOK
<1>2. /\ target' \in [dir : BOOLEAN, exists : BOOLEAN, data : Seq(Int)]
      /\ outStream' \in [open : BOOLEAN, fail : BOOLEAN, held : Seq(Int)]
      /\ Len(outStream'.held) < BufferLength /\ (~outStream'.open => outStream'.held = <<>>)
      /\ buff' \in RingRecord /\ bytesWritten' \in Nat
      /\ firstWritten' \in BOOLEAN /\ thrown' \in Exceptions \cup {"none"}
  <2>1. CASE WriteChunk(pending)
    <3> DEFINE chunk == ReadBufferBytes(ReadCursorReady, WriteLength(pending))
               written == AsSize(TellP(outStream', target'.data)
                                 - TellP(outStream, target.data))
    <3>1. /\ StreamWrite(chunk) /\ CountWritten(ReadCursorReady) /\ firstWritten' = TRUE
      BY <2>1 DEF WriteChunk
    <3>2. ReadCursorReady \in RingRecord
      BY <1>1, ReadCursorReadyFields
    <3>3. chunk \in Seq(Int)
      BY <3>2, WriteLengthBound, ReadBufferBytesSeq
    <3> HIDE DEF chunk
    <3>4. /\ outStream' \in [open : BOOLEAN, fail : BOOLEAN, held : Seq(Int)]
          /\ Len(outStream'.held) < BufferLength /\ outStream'.open = outStream.open
          /\ target' \in [dir : BOOLEAN, exists : BOOLEAN, data : Seq(Int)]
      BY <3>1, <3>3, StreamWriteAppends
    <3>5. written \in Nat
      <4>1. /\ target.data \in Seq(Int) /\ target'.data \in Seq(Int)
            /\ outStream.held \in Seq(Int) /\ outStream'.held \in Seq(Int)
        BY <1>1, <3>4
      <4>2. TellP(outStream', target'.data) \in Int /\ TellP(outStream, target.data) \in Int
        BY <4>1, TellPInt
      <4> QED
        BY <4>2, AsSizeNat
    <3>6. \/ /\ buff' = ReadCursorReady /\ bytesWritten' = bytesWritten
             /\ thrown' = "out_of_range"
          \/ /\ buff' = RotatePartialRead(ReadCursorReady, AsUInt(written))
             /\ bytesWritten' = AsSize(bytesWritten + written)
             /\ thrown' = thrown
      BY <3>1 DEF CountWritten
    <3> HIDE DEF written
    <3>7. buff' \in RingRecord /\ bytesWritten' \in Nat
      <4>1. AsUInt(written) \in Nat
        BY <3>5, AsUIntNat
      <4>2. RotatePartialRead(ReadCursorReady, AsUInt(written)) \in RingRecord
        BY <3>2, <4>1, RotatePartialReadFields
      <4>3. AsSize(bytesWritten + written) \in Nat
        <5>1. bytesWritten + written \in Int
          BY <1>1, <3>5
        <5> QED
          BY <5>1, AsSizeNat
      <4> QED
        BY <1>1, <3>2, <3>6, <4>2, <4>3
    <3>8. thrown' \in Exceptions \cup {"none"}
      BY <1>1, <3>6 DEF Exceptions
    <3>9. outStream.open
      BY <2>1 DEF WriteChunk
    <3> QED
      BY <3>1, <3>4, <3>7, <3>8, <3>9
  <2>2. CASE WriteEnd(pending)
    <3>1. /\ UNCHANGED <<buff, bytesWritten, firstWritten, thrown>>
          /\ CloseDest \/ UNCHANGED <<target, outStream>>
      BY <2>2 DEF WriteEnd
    <3>2. CASE CloseDest
      BY <1>1, <3>1, <3>2, CloseDestAppends, Bounds
    <3> QED
      BY <1>1, <3>1, <3>2
  <2>3. CASE WriteNothing
    BY <1>1, <2>3 DEF WriteNothing
  <2> QED
    BY <2>1, <2>2, <2>3 DEF WriteOut
<1> QED
  BY <1>2 DEF WriteOut, FileCopyTypeOK

LEMMA ConstructInitType ==
  ASSUME ConstructInit, srcLen \in Nat,
         target \in [dir : BOOLEAN, exists : BOOLEAN, data : Seq(Int)]
  PROVE  FileCopyTypeOK
BY NewRingType, EmptySeq, Bounds DEF ConstructInit, FileCopyTypeOK, ClosedIn, ClosedOut

LEMMA ConstructType ==
  ASSUME Construct, srcLen' \in Nat,
         target' \in [dir : BOOLEAN, exists : BOOLEAN, data : Seq(Int)]
  PROVE  FileCopyTypeOK'
BY NewRingType, EmptySeq, Bounds
DEF Construct, ClearMembers, FileCopyTypeOK, ClosedIn, ClosedOut

\* reset(), open_source() and open_dest() keep the types.
LEMMA ResetType ==
  ASSUME FileCopyTypeOK, ResetCopier, srcLen' \in Nat,
         target' \in [dir : BOOLEAN, exists : BOOLEAN, data : Seq(Int)]
  PROVE  FileCopyTypeOK'
<1>1. buff' \in RingRecord
  BY ResetRingFields DEF ResetCopier, FileCopyTypeOK
<1> QED
  BY <1>1, EmptySeq, Bounds
  DEF ResetCopier, ClearMembers, FileCopyTypeOK, ClosedIn, ClosedOut

LEMMA OpenSourceType ==
  ASSUME FileCopyTypeOK, OpenSource
  PROVE  FileCopyTypeOK'
<1>1. CASE SourceMissing
  BY <1>1 DEF SourceMissing, OpenSource, FileCopyTypeOK, environment, Exceptions
<1>2. CASE OpenSourceStream
  <2>1. PICK ok \in BOOLEAN : inStream' = [open |-> ok, pos |-> 0, fail |-> ~ok]
    BY <1>2 DEF OpenSourceStream
  <2>2. inStream' \in [open : BOOLEAN, pos : Nat, fail : BOOLEAN]
    BY <2>1
  <2>3. sourceSize' \in Nat /\ srcLen' \in Nat
        /\ target' \in [dir : BOOLEAN, exists : BOOLEAN, data : Seq(Int)]
    BY <1>2 DEF OpenSource, OpenSourceStream, FileCopyTypeOK, environment
  <2> QED
    BY <1>2, <2>2, <2>3 DEF OpenSource, OpenSourceStream, FileCopyTypeOK
<1> QED
  BY <1>1, <1>2 DEF OpenSource

LEMMA DestSizeAfterNat ==
  ASSUME FileCopyTypeOK, NEW in, NEW out, NEW data \in Seq(Int)
  PROVE  DestSizeAfter(in, out, data) \in Nat
BY LenProperties DEF DestSizeAfter, FileCopyTypeOK

LEMMA OpenDestType ==
  ASSUME FileCopyTypeOK, OpenDest
  PROVE  FileCopyTypeOK'
<1>1. CASE KeepDest
  <2>1. target.data \in Seq(Int)
    BY DEF FileCopyTypeOK
  <2>2. destSize' \in Nat
    BY <1>1, <2>1, DestSizeAfterNat DEF KeepDest
  <2> QED
    BY <1>1, <2>2 DEF OpenDest, KeepDest, FileCopyTypeOK
<1>2. CASE CreateDest
  <2>1. /\ target' \in [dir : BOOLEAN, exists : BOOLEAN, data : Seq(Int)]
        /\ outStream' \in [open : BOOLEAN, fail : BOOLEAN, held : Seq(Int)]
        /\ outStream'.held = <<>> /\ Len(<<>>) = 0
    BY <1>2, EmptySeq DEF CreateDest, OpenedOut, FileCopyTypeOK
  <2> QED
    BY <1>2, <2>1, Bounds DEF OpenDest, CreateDest, FileCopyTypeOK
<1> QED
  BY <1>1, <1>2 DEF OpenDest

-------------------------------------------------------------------------------
(* The ring keeps the unwritten bytes in order. *)

\* The facts about the ring as it is read from and written to.
LEMMA RingTypes ==
  ASSUME FileCopyTypeOK
  PROVE  /\ buff \in RingRecord
         /\ buff.readIndex \in SlotIndex /\ buff.writeIndex \in SlotIndex
         /\ ReadCursor = IF firstWritten THEN buff.readIndex ELSE NextIndex(buff.readIndex)
         /\ ReadCursor \in SlotIndex
         /\ buff.buffered \in Int
         /\ bytesRead \in Nat /\ bytesWritten \in Nat /\ srcLen \in Nat
         /\ inStream.pos \in Nat
<1>1. buff \in RingRecord
  BY DEF FileCopyTypeOK
<1>2. buff.readIndex \in SlotIndex /\ buff.writeIndex \in SlotIndex /\ buff.buffered \in Int
  BY <1>1 DEF RingRecord
<1>3. NextIndex(buff.readIndex) \in SlotIndex
  BY <1>2, Bounds DEF NextIndex
<1>4. ReadCursor = IF firstWritten THEN buff.readIndex ELSE NextIndex(buff.readIndex)
  BY <1>1, ReadCursorReadyFields DEF ReadCursor
<1> QED
  BY <1>1, <1>2, <1>3, <1>4 DEF FileCopyTypeOK

\* buffers_available() is not zero only if a whole buffer is free.
LEMMA WholeBufferFree ==
  ASSUME NEW rb, rb.buffered \in 0 .. TotalWritableLength, BuffersAvailable(rb) # 0
  PROVE  rb.buffered <= BufferLength + BufferLength
<1> DEFINE free == TotalWritableLength - rb.buffered
<1>1. free \in 0 .. TotalWritableLength
  BY Bounds
<1>2. free \in 0 .. 2 * IntHalf - 1
  BY <1>1, Bounds
<1>3. AsUInt(Available(rb)) = free
  BY <1>2, AsUIntNat DEF Available
<1>4. ASSUME free < BufferLength PROVE FALSE
  <2> HIDE DEF free
  <2>1. free \div BufferLength = 0
    BY <1>1, <1>4, Bounds
  <2>2. AsInt(0) = 0
    BY AsIntInt, Bounds
  <2> QED
    BY <1>3, <2>1, <2>2 DEF BuffersAvailable
<1> QED
  BY <1>1, <1>4, Bounds

\* An empty ring with its cursors where reset() and the constructor put them.
LEMMA EmptyRingAfter ==
  ASSUME FileCopyTypeOK', bytesRead' = 0, bytesWritten' = 0, firstWritten' = FALSE,
         buff'.buffered = 0, buff'.readIndex = 0, buff'.writeIndex = 1,
         inStream'.open => inStream'.pos = 0
  PROVE  CountersAgree' /\ RingFilledInOrder'
<1>1. buff' \in RingRecord /\ srcLen' \in Nat
  BY DEF FileCopyTypeOK
<1>2. ReadCursor' = 1
  <2>1. ReadCursor' = NextIndex(buff'.readIndex)
    BY <1>1 DEF ReadCursor, ReadCursorReady, RotateReadIndex, RingRecord
  <2> QED
    BY <2>1, Bounds DEF NextIndex
<1>3. ChunksInRing' = 0
  BY <1>2 DEF ChunksInRing
<1>4. CountersAgree'
  BY <1>1, Bounds DEF CountersAgree
<1>5. RingFilledInOrder'
  BY <1>3, Bounds DEF RingFilledInOrder, SlotHolds
<1> QED
  BY <1>4, <1>5

\* Steps that leave the ring and what it is compared with alone.
LEMMA RingUnchanged ==
  ASSUME UNCHANGED <<srcLen, inStream, firstWritten, bytesRead, bytesWritten, buff>>
  PROVE  /\ CountersAgree => CountersAgree'
         /\ RingFilledInOrder => RingFilledInOrder'
BY DEF CountersAgree, RingFilledInOrder, SlotHolds, ChunksInRing,
       ReadCursor, ReadCursorReady

\* The three slots that may hold unwritten bytes, and the one being written to.
LEMMA Slots ==
  ASSUME FileCopyTypeOK, ChunksInRing \in 0 .. 3
  PROVE  LET s0 == ReadCursor
             s1 == AheadOf(s0, 1)
             s2 == AheadOf(s0, 2)
         IN  /\ s1 \in SlotIndex /\ s2 \in SlotIndex
             /\ s0 # s1 /\ s0 # s2 /\ s1 # s2
             /\ s1 = NextIndex(s0)
             /\ s2 = AheadOf(s1, 1)
             /\ AheadOf(s1, 2) \in SlotIndex
             /\ ChunksInRing = 0 => buff.writeIndex = s0
             /\ ChunksInRing = 1 => buff.writeIndex = s1
             /\ ChunksInRing = 2 => buff.writeIndex = s2
BY RingTypes, Bounds DEF AheadOf, NextIndex, ChunksInRing

\* read_to_buffer keeps the counters in step and the ring in order: a chunk goes
\* to the slot behind the last unwritten one, which is free.
LEMMA ReadKeepsOrder ==
  ASSUME FileCopyTypeOK, srcLen < SizeMod, CountersAgree, RingFilledInOrder, ReadToBuffer
  PROVE  CountersAgree' /\ RingFilledInOrder'
<1> DEFINE rb == IF started THEN buff ELSE RotateProcessingIndex(buff)
           s0 == ReadCursor
           s1 == AheadOf(s0, 1)
           s2 == AheadOf(s0, 2)
           w == buff.writeIndex
           c == ChunksInRing
           b == buff.buffered
<1>1. /\ rb \in RingRecord
      /\ rb.readIndex = buff.readIndex /\ rb.writeIndex = w
      /\ rb.buffered = b /\ rb.ring = buff.ring
  BY RingTypes, RotateFields
<1>2. /\ UNCHANGED <<srcLen, firstWritten, bytesWritten>>
      /\ ReadNothing(rb) \/ ReadChunk(rb) \/ ReadEnd(rb)
  BY DEF ReadToBuffer, environment
<1> HIDE DEF rb
<1>3. c \in 0 .. 3 /\ b \in 0 .. TotalWritableLength
  BY DEF RingFilledInOrder, CountersAgree
<1>4. /\ FileCopyTypeOK
      /\ inStream \in [open : BOOLEAN, pos : Nat, fail : BOOLEAN]
  BY DEF FileCopyTypeOK
<1>5. ASSUME buff' \in RingRecord, buff'.readIndex = buff.readIndex
      PROVE  ReadCursor' = s0
  BY <1>2, <1>5 DEF ReadCursor, ReadCursorReady, RotateReadIndex, RingRecord
<1>6. CASE ReadNothing(rb)
  <2>1. /\ buff' = rb /\ inStream' = inStream /\ bytesRead' = bytesRead
    BY <1>6 DEF ReadNothing
  <2>2. ReadCursor' = s0
    BY <1>1, <1>5, <2>1
  <2> QED
    BY <1>1, <1>2, <2>1, <2>2
    DEF CountersAgree, RingFilledInOrder, SlotHolds, ChunksInRing
<1>7. CASE ReadEnd(rb)
  <2>1. /\ buff' = rb /\ bytesRead' = bytesRead /\ inStream'.open = FALSE
    BY <1>4, <1>7 DEF ReadEnd, CloseIn
  <2>2. ReadCursor' = s0
    BY <1>1, <1>5, <2>1
  <2> QED
    BY <1>1, <1>2, <2>1, <2>2
    DEF CountersAgree, RingFilledInOrder, SlotHolds, ChunksInRing
<1>8. CASE ReadChunk(rb)
  <2>1. PICK n \in ReadCounts \ {0} :
          /\ inStream' = [inStream EXCEPT !.pos = @ + n, !.fail = n < BufferLength]
          /\ buff' = RotatePartialWrite(FillWriteBuffer(rb, n), n)
          /\ bytesRead' = AsSize(bytesRead + n)
    BY <1>8 DEF ReadChunk
  <2> DEFINE filled == FillWriteBuffer(rb, n)
  <2>2. inStream.open /\ inStream.pos = bytesRead
    BY <1>8 DEF ReadChunk, CountersAgree
  <2>3. /\ ~inStream.fail
        /\ n \in 1 .. BufferLength /\ bytesRead + n <= srcLen
    BY <2>2, RingTypes, Bounds DEF ReadCounts, Lesser
  <2>4. c <= 2 /\ b = c * BufferLength
    <3>1. b = c * BufferLength
      BY <2>2, <2>3 DEF RingFilledInOrder
    <3>2. b <= BufferLength + BufferLength
      BY <1>1, <1>3, <1>8, WholeBufferFree DEF ReadChunk
    <3>3. c # 3
      BY <3>1, <3>2, Bounds
    <3> QED
      BY <1>3, <3>1, <3>3
  <2>5. /\ filled \in RingRecord
        /\ filled.readIndex = buff.readIndex /\ filled.writeIndex = w
        /\ filled.buffered = b
        /\ \A s \in SlotIndex : s # w => filled.ring[s] = buff.ring[s]
        /\ \A i \in SampleIndex : i < n => filled.ring[w][i] = bytesRead + i + 1
    <3>1. n \in Nat /\ inStream.pos \in Nat
      BY <2>3, RingTypes, Bounds
    <3>2. /\ filled \in RingRecord
          /\ filled.readIndex = rb.readIndex /\ filled.writeIndex = rb.writeIndex
          /\ filled.buffered = rb.buffered
          /\ \A s \in SlotIndex : s # rb.writeIndex => filled.ring[s] = rb.ring[s]
          /\ \A i \in SampleIndex :
               i < n => filled.ring[rb.writeIndex][i] = inStream.pos + i + 1
      BY <1>1, <3>1, FillWriteBufferFields
    <3> HIDE DEF filled
    <3> QED
      BY <1>1, <2>2, <3>2
  <2>6. b + n \in 0 .. TotalWritableLength /\ b \in 0 .. TotalWritableLength - n
    <3>1. c = 0 \/ c = 1 \/ c = 2
      BY <1>3, <2>4
    <3> QED
      BY <2>3, <2>4, <3>1, Bounds
  <2> HIDE DEF filled
  <2>7. /\ buff' \in RingRecord
        /\ buff'.readIndex = buff.readIndex /\ buff'.writeIndex = NextIndex(w)
        /\ buff'.buffered = b + n /\ buff'.ring = filled.ring
    <3>1. n \in Nat
      BY <2>3, Bounds
    <3>2. buff' = RotatePartialWrite(filled, n)
      BY <2>1 DEF filled
    <3>3. /\ buff' \in RingRecord
          /\ buff'.readIndex = filled.readIndex
          /\ buff'.writeIndex = NextIndex(filled.writeIndex)
          /\ buff'.ring = filled.ring
          /\ filled.buffered \in 0 .. TotalWritableLength - n
               => buff'.buffered = filled.buffered + n
      BY <2>5, <3>1, <3>2, RotatePartialWriteFields
    <3> QED
      BY <2>5, <2>6, <3>3
  <2>8. ReadCursor' = s0
    BY <1>5, <2>7
  <2>9. bytesRead' = bytesRead + n
    <3>1. bytesRead + n \in Int /\ bytesRead + n \in 0 .. SizeMod - 1
      BY <2>3, RingTypes, Bounds
    <3> QED
      BY <2>1, <3>1, AsSizeNat
  <2>10. /\ inStream'.pos = bytesRead' /\ inStream'.open
         /\ ~inStream'.fail => n = BufferLength
    BY <1>4, <2>1, <2>2, <2>3, <2>9, Bounds
  <2>11. ChunksInRing' = c + 1
    <3>1. s0 \in SlotIndex /\ w \in SlotIndex
      BY RingTypes
    <3> QED
      BY <2>4, <2>7, <2>8, <3>1, Bounds DEF ChunksInRing, NextIndex
  <2>12. CountersAgree'
    BY <1>2, <2>3, <2>6, <2>7, <2>9, <2>10, RingTypes, Bounds DEF CountersAgree
  <2>13. RingFilledInOrder'
    <3>1. /\ s0 \in SlotIndex /\ s1 \in SlotIndex /\ s2 \in SlotIndex
          /\ s0 # s1 /\ s0 # s2 /\ s1 # s2
          /\ c = 0 => w = s0
          /\ c = 1 => w = s1
          /\ c = 2 => w = s2
      BY <1>3, Slots, RingTypes
    <3>2. bytesRead = bytesWritten + b
      BY RingTypes DEF CountersAgree
    <3>3. /\ SlotHolds(s0, bytesWritten + 1, b)
          /\ SlotHolds(s1, bytesWritten + BufferLength + 1, b - BufferLength)
          /\ SlotHolds(s2, bytesWritten + BufferLength + BufferLength + 1,
                       b - BufferLength - BufferLength)
      BY DEF RingFilledInOrder
    <3> DEFINE Holds(s, first, k) ==
                 \A i \in SampleIndex : i < k => buff'.ring[s][i] = first + i
    <3>4. /\ b + n \in ((c + 1) - 1) * BufferLength + 1 .. (c + 1) * BufferLength
          /\ n = BufferLength => b + n = (c + 1) * BufferLength
          /\ c = 0 => b = 0
          /\ c = 1 => b = BufferLength
          /\ c = 2 => b = BufferLength + BufferLength
      <4>1. c = 0 \/ c = 1 \/ c = 2
        BY <1>3, <2>4
      <4> QED
        BY <2>3, <2>4, <4>1, Bounds
    <3>5. /\ Holds(s0, bytesWritten + 1, b + n)
          /\ Holds(s1, bytesWritten + BufferLength + 1, b + n - BufferLength)
          /\ Holds(s2, bytesWritten + BufferLength + BufferLength + 1,
                   b + n - BufferLength - BufferLength)
      <4>1. \A i \in SampleIndex : i \in Int /\ i >= 0 /\ i < BufferLength
        BY Bounds
      <4>2. /\ buff'.ring = filled.ring /\ b \in Int /\ n \in Int
            /\ bytesRead \in Int /\ bytesWritten \in Int
        BY <1>3, <2>3, <2>7, RingTypes, Bounds
      <4>3. \A i \in SampleIndex : i < n => buff'.ring[w][i] = bytesWritten + b + i + 1
        BY <2>5, <3>2, <4>2
      <4>4. \A s \in SlotIndex : s # w => buff'.ring[s] = buff.ring[s]
        BY <2>5, <4>2
      <4> HIDE DEF s0, s1, s2, w, c, b
      <4>5. CASE c = 0
        BY <2>3, <3>1, <3>4, <4>1, <4>2, <4>3, <4>5, Bounds
      <4>6. CASE c = 1
        <5>1. s0 # w /\ s1 = w
          BY <3>1, <4>6
        <5>2. buff'.ring[s0] = buff.ring[s0]
          BY <3>1, <4>4, <5>1
        <5>3. \A i \in SampleIndex : buff'.ring[s0][i] = bytesWritten + 1 + i
          BY <3>3, <3>4, <4>1, <4>2, <4>6, <5>2 DEF SlotHolds
        <5> QED
          BY <2>3, <3>4, <4>1, <4>2, <4>3, <4>6, <5>1, <5>3, Bounds
      <4>7. CASE c = 2
        <5>1. s0 # w /\ s1 # w /\ s2 = w
          BY <3>1, <4>7
        <5>2. buff'.ring[s0] = buff.ring[s0] /\ buff'.ring[s1] = buff.ring[s1]
          BY <3>1, <4>4, <5>1
        <5>3. \A i \in SampleIndex :
                /\ buff'.ring[s0][i] = bytesWritten + 1 + i
                /\ buff'.ring[s1][i] = bytesWritten + BufferLength + 1 + i
          BY <3>3, <3>4, <4>1, <4>2, <4>7, <5>2, Bounds DEF SlotHolds
        <5>4. b = BufferLength + BufferLength
          BY <3>4, <4>7
        <5>5. Holds(s0, bytesWritten + 1, b + n)
          BY <5>3
        <5>6. Holds(s1, bytesWritten + BufferLength + 1, b + n - BufferLength)
          BY <5>3
        <5>7. Holds(s2, bytesWritten + BufferLength + BufferLength + 1,
                    b + n - BufferLength - BufferLength)
          <6>1. /\ b + n - BufferLength - BufferLength = n
                /\ bytesWritten + BufferLength + BufferLength + 1
                     = bytesWritten + b + 1
            BY <4>2, <5>4, Bounds
          <6>2. \A i \in SampleIndex :
                  i < n => buff'.ring[s2][i] = bytesWritten + b + 1 + i
            BY <4>1, <4>2, <4>3, <5>1
          <6> QED
            BY <6>1, <6>2
        <5> QED
          BY <5>5, <5>6, <5>7
      <4> QED
        BY <1>3, <2>4, <4>5, <4>6, <4>7
    <3>6. ChunksInRing' \in 0 .. 3
      BY <1>3, <2>4, <2>11
    <3> HIDE DEF c, b
    <3>7. /\ buff'.buffered \in (ChunksInRing' - 1) * BufferLength + 1
                                .. ChunksInRing' * BufferLength
          /\ inStream'.open /\ ~inStream'.fail =>
               buff'.buffered = ChunksInRing' * BufferLength
      BY <2>7, <2>10, <2>11, <3>4
    <3>8. bytesWritten' = bytesWritten /\ buff'.buffered = b + n
      BY <1>2, <2>7
    <3>9. /\ SlotHolds(ReadCursor, bytesWritten + 1, buff.buffered)'
          /\ SlotHolds(AheadOf(ReadCursor, 1), bytesWritten + BufferLength + 1,
                       buff.buffered - BufferLength)'
          /\ SlotHolds(AheadOf(ReadCursor, 2), bytesWritten + BufferLength + BufferLength + 1,
                       buff.buffered - BufferLength - BufferLength)'
      <4>1. /\ ReadCursor' = s0 /\ bytesWritten' = bytesWritten /\ buff'.buffered = b + n
            /\ AheadOf(ReadCursor, 1)' = s1 /\ AheadOf(ReadCursor, 2)' = s2
        BY <2>8, <3>8 DEF AheadOf
      <4> DEFINE first1 == bytesWritten + BufferLength + 1
                 first2 == bytesWritten + BufferLength + BufferLength + 1
                 left1 == b + n - BufferLength
                 left2 == b + n - BufferLength - BufferLength
      <4>2. /\ (bytesWritten + 1)' = bytesWritten + 1
            /\ (bytesWritten + BufferLength + 1)' = first1
            /\ (bytesWritten + BufferLength + BufferLength + 1)' = first2
            /\ (buff.buffered - BufferLength)' = left1
            /\ (buff.buffered - BufferLength - BufferLength)' = left2
        <5>1. /\ b \in Int /\ n \in Int /\ b + n \in Int /\ BufferLength \in Int
              /\ bytesWritten \in Int
          BY <1>3, <2>3, RingTypes, Bounds DEF b
        <5> QED
          BY <4>1, <5>1
      <4>3. /\ Holds(s0, bytesWritten + 1, b + n)
            /\ Holds(s1, first1, left1)
            /\ Holds(s2, first2, left2)
        BY <3>5
      <4> HIDE DEF s0, s1, s2, first1, first2, left1, left2
      <4>4. SlotHolds(ReadCursor, bytesWritten + 1, buff.buffered)'
        BY <4>1, <4>2, <4>3 DEF SlotHolds
      <4>5. SlotHolds(AheadOf(ReadCursor, 1), bytesWritten + BufferLength + 1,
                      buff.buffered - BufferLength)'
        BY <4>1, <4>2, <4>3 DEF SlotHolds
      <4>6. SlotHolds(AheadOf(ReadCursor, 2), bytesWritten + BufferLength + BufferLength + 1,
                      buff.buffered - BufferLength - BufferLength)'
        BY <4>1, <4>2, <4>3 DEF SlotHolds
      <4> QED
        BY <4>4, <4>5, <4>6
    <3> QED
      BY <3>6, <3>7, <3>9 DEF RingFilledInOrder
  <2> QED
    BY <2>12, <2>13
<1> QED
  BY <1>2, <1>6, <1>7, <1>8

\* What write_from_buffer takes out of the ring: the next bytes of the source, the
\* rest of which stays in order.
LEMMA NextChunk ==
  ASSUME FileCopyTypeOK, srcLen < SizeMod, CountersAgree, RingFilledInOrder,
         buff.buffered > 0
  PROVE  LET n     == WriteLength(buff.buffered)
             chunk == ReadBufferBytes(ReadCursorReady, n)
         IN  /\ n \in 1 .. BufferLength /\ n <= buff.buffered
             /\ n = BufferLength \/ n = buff.buffered
             /\ chunk \in Seq(Int) /\ Len(chunk) = n
             /\ \A j \in 1 .. n : chunk[j] = bytesWritten + j
<1> DEFINE n == WriteLength(buff.buffered)
           chunk == ReadBufferBytes(ReadCursorReady, n)
<1>1. buff.buffered \in 1 .. TotalWritableLength
  BY DEF CountersAgree
<1>2. AsUInt(buff.buffered) = buff.buffered
  BY <1>1, AsUIntNat, Bounds
<1>3. /\ n \in 1 .. BufferLength /\ n <= buff.buffered
      /\ n = BufferLength \/ n = buff.buffered
  BY <1>1, <1>2, Bounds DEF WriteLength, Lesser
<1>4. n \in 0 .. BufferLength
  BY <1>3
<1> HIDE DEF n
<1>5. /\ ReadCursorReady \in RingRecord
      /\ ReadCursorReady.readIndex = ReadCursor
      /\ ReadCursorReady.ring = buff.ring
  BY RingTypes, ReadCursorReadyFields DEF ReadCursor
<1>6. /\ chunk \in Seq(Int) /\ Len(chunk) = n
      /\ \A j \in 1 .. n : chunk[j] = buff.ring[ReadCursor][j - 1]
  BY <1>4, <1>5, ReadBufferBytesSeq
<1> HIDE DEF chunk
<1>7. ASSUME NEW j \in 1 .. n PROVE chunk[j] = bytesWritten + j
  <2>1. j - 1 \in SampleIndex /\ j - 1 < buff.buffered
    BY <1>1, <1>3, Bounds
  <2>2. buff.ring[ReadCursor][j - 1] = bytesWritten + 1 + (j - 1)
    BY <2>1 DEF RingFilledInOrder, SlotHolds
  <2>3. j \in Int /\ bytesWritten \in Int
    BY <1>3, RingTypes
  <2> QED
    BY <1>6, <2>2, <2>3
<1> QED
  BY <1>3, <1>6, <1>7 DEF n, chunk

\* rotate_partial_read after a chunk of n bytes left the ring.
LEMMA ChunkRemoved ==
  ASSUME FileCopyTypeOK, FileCopyTypeOK', CountersAgree, RingFilledInOrder, buff.buffered > 0,
         NEW n \in 1 .. BufferLength, n <= buff.buffered,
         n = BufferLength \/ n = buff.buffered,
         buff' = RotatePartialRead(ReadCursorReady, n),
         firstWritten' = TRUE, bytesWritten' = bytesWritten + n,
         UNCHANGED <<srcLen, inStream, bytesRead>>
  PROVE  CountersAgree' /\ RingFilledInOrder'
<1> DEFINE s0 == ReadCursor
           s1 == AheadOf(s0, 1)
           s2 == AheadOf(s0, 2)
           w == buff.writeIndex
           c == ChunksInRing
           b == buff.buffered
<1>1. /\ c \in 0 .. 3 /\ b \in 1 .. TotalWritableLength
      /\ b \in (c - 1) * BufferLength + 1 .. c * BufferLength
      /\ bytesRead - bytesWritten = b
      /\ n <= b /\ (n = BufferLength \/ n = b)
  BY DEF RingFilledInOrder, CountersAgree
<1>2. /\ ReadCursorReady \in RingRecord
      /\ ReadCursorReady.readIndex = s0 /\ ReadCursorReady.writeIndex = w
      /\ ReadCursorReady.buffered = b /\ ReadCursorReady.ring = buff.ring
  BY RingTypes, ReadCursorReadyFields DEF ReadCursor
<1>3. /\ buff' \in RingRecord
      /\ buff'.readIndex = NextIndex(s0) /\ buff'.writeIndex = w
      /\ buff'.buffered = b - n /\ buff'.ring = buff.ring
  <2>1. n \in Nat /\ b \in n .. TotalWritableLength
    BY <1>1, Bounds
  <2>2. /\ buff' \in RingRecord
        /\ buff'.readIndex = NextIndex(ReadCursorReady.readIndex)
        /\ buff'.writeIndex = ReadCursorReady.writeIndex
        /\ buff'.ring = ReadCursorReady.ring
        /\ ReadCursorReady.buffered \in n .. TotalWritableLength
             => buff'.buffered = ReadCursorReady.buffered - n
    BY <1>2, <2>1, RotatePartialReadFields
  <2> QED
    BY <1>2, <2>1, <2>2
<1>4. ReadCursor' = s1
  <2>1. ReadCursor' = buff'.readIndex
    BY DEF ReadCursor, ReadCursorReady
  <2> QED
    BY <1>1, <1>3, <2>1, Slots
<1>5. c # 0
  BY <1>1, Bounds
<1>6. ChunksInRing' = c - 1
  <2>1. s0 \in SlotIndex /\ w \in SlotIndex /\ s1 = NextIndex(s0)
    BY <1>1, Slots, RingTypes
  <2> QED
    BY <1>3, <1>4, <1>5, <2>1, Bounds DEF ChunksInRing, NextIndex
<1>7. /\ n \in Int /\ b \in Int /\ BufferLength \in Int /\ bytesWritten \in Int
      /\ \A i \in SampleIndex : i \in Int /\ i >= 0 /\ i < BufferLength
  BY <1>1, RingTypes, Bounds
<1>8. CountersAgree'
  BY <1>1, <1>3, <1>7, RingTypes, Bounds DEF CountersAgree
<1>9. /\ buff'.buffered \in (ChunksInRing' - 1) * BufferLength + 1
                            .. ChunksInRing' * BufferLength
      /\ inStream'.open /\ ~inStream'.fail =>
           buff'.buffered = ChunksInRing' * BufferLength
  <2>1. inStream.open /\ ~inStream.fail => b = c * BufferLength
    BY DEF RingFilledInOrder
  <2> HIDE DEF b, c
  <2>2. /\ b - n \in (c - 1 - 1) * BufferLength + 1 .. (c - 1) * BufferLength
        /\ b = c * BufferLength => b - n = (c - 1) * BufferLength
    <3>1. CASE c = 1
      BY <1>1, <1>7, <3>1, Bounds
    <3>2. CASE c = 2
      BY <1>1, <1>7, <3>2, Bounds
    <3>3. CASE c = 3
      BY <1>1, <1>7, <3>3, Bounds
    <3> QED
      BY <1>1, <1>5, <3>1, <3>2, <3>3
  <2> QED
    BY <1>3, <1>6, <2>1, <2>2
<1>10. /\ SlotHolds(ReadCursor, bytesWritten + 1, buff.buffered)'
       /\ SlotHolds(AheadOf(ReadCursor, 1), bytesWritten + BufferLength + 1,
                    buff.buffered - BufferLength)'
       /\ SlotHolds(AheadOf(ReadCursor, 2), bytesWritten + BufferLength + BufferLength + 1,
                    buff.buffered - BufferLength - BufferLength)'
  <2> DEFINE Holds(s, first, k) ==
               \A i \in SampleIndex : i < k => buff.ring[s][i] = first + i
  <2>1. /\ Holds(s1, bytesWritten + BufferLength + 1, b - BufferLength)
        /\ Holds(s2, bytesWritten + BufferLength + BufferLength + 1,
                 b - BufferLength - BufferLength)
    BY DEF RingFilledInOrder, SlotHolds
  <2>2. AheadOf(s1, 1) = s2
    BY <1>1, Slots
  <2> DEFINE s3 == AheadOf(s1, 2)
  <2> HIDE DEF s0, s1, s2, b
  <2>3. /\ Holds(s1, bytesWritten + n + 1, b - n)
        /\ Holds(s2, bytesWritten + n + BufferLength + 1, b - n - BufferLength)
        /\ Holds(s3, bytesWritten + n + BufferLength + BufferLength + 1,
                 b - n - BufferLength - BufferLength)
    <3>1. b - n - BufferLength - BufferLength <= 0
      BY <1>1, <1>7, Bounds
    <3>2. CASE n = BufferLength
      <4>1. \A i \in SampleIndex : ~(i < b - n - BufferLength - BufferLength)
        BY <1>7, <3>1
      <4>2. /\ Holds(s1, bytesWritten + n + 1, b - n)
            /\ Holds(s2, bytesWritten + n + BufferLength + 1, b - n - BufferLength)
        BY <2>1, <3>2
      <4> QED
        BY <4>1, <4>2
    <3>3. CASE n = b
      <4>1. \A i \in SampleIndex : /\ ~(i < b - n)
                                  /\ ~(i < b - n - BufferLength)
                                  /\ ~(i < b - n - BufferLength - BufferLength)
        BY <1>7, <3>3, Bounds
      <4> QED
        BY <4>1
    <3> QED
      BY <1>1, <3>2, <3>3
  <2>4. /\ ReadCursor' = s1 /\ AheadOf(ReadCursor, 1)' = s2 /\ AheadOf(ReadCursor, 2)' = s3
        /\ buff'.ring = buff.ring
        /\ (bytesWritten + 1)' = bytesWritten + n + 1
        /\ (bytesWritten + BufferLength + 1)' = bytesWritten + n + BufferLength + 1
        /\ (bytesWritten + BufferLength + BufferLength + 1)' =
             bytesWritten + n + BufferLength + BufferLength + 1
        /\ (buff.buffered)' = b - n
        /\ (buff.buffered - BufferLength)' = b - n - BufferLength
        /\ (buff.buffered - BufferLength - BufferLength)' =
             b - n - BufferLength - BufferLength
    BY <1>3, <1>4, <1>7, <2>2 DEF AheadOf
  <2>5. SlotHolds(ReadCursor, bytesWritten + 1, buff.buffered)'
    BY <2>3, <2>4 DEF SlotHolds
  <2>6. SlotHolds(AheadOf(ReadCursor, 1), bytesWritten + BufferLength + 1,
                  buff.buffered - BufferLength)'
    BY <2>3, <2>4 DEF SlotHolds
  <2>7. SlotHolds(AheadOf(ReadCursor, 2), bytesWritten + BufferLength + BufferLength + 1,
                  buff.buffered - BufferLength - BufferLength)'
    BY <2>3, <2>4 DEF SlotHolds
  <2> QED
    BY <2>5, <2>6, <2>7
<1>11. ChunksInRing' \in 0 .. 3
  BY <1>1, <1>5, <1>6
<1> QED
  BY <1>8, <1>9, <1>10, <1>11 DEF RingFilledInOrder

\* The destination grows by at most a buffer, from one prefix of the source to another.
TargetGrows ==
  \E n \in 0 .. BufferLength :
    LET grown == target.data \o [j \in 1 .. n |-> Len(target.data) + j]
    IN  IsSourcePrefix(grown) /\ target' = [target EXCEPT !.data = grown]

\* A prefix of the source that stays as it is grows by nothing.
LEMMA UnchangedGrows ==
  ASSUME FileCopyTypeOK, IsSourcePrefix(target.data), target' = target
  PROVE  TargetGrows
<1> DEFINE none == [j \in 1 .. 0 |-> Len(target.data) + j]
<1>1. target \in [dir : BOOLEAN, exists : BOOLEAN, data : Seq(Int)] /\ target.data \in Seq(Int)
  BY DEF FileCopyTypeOK
<1>2. none = <<>>
  <2>1. none \in [1 .. 0 -> Int] /\ 0 \in Nat
    OBVIOUS
  <2> HIDE DEF none
  <2>2. none \in Seq(Int)
    BY <2>1, SeqDef
  <2>3. Len(none) = 0
    BY <2>1, <2>2, LenProperties
  <2> QED
    BY <2>2, <2>3, EmptySeq
<1> HIDE DEF none
<1>3. target.data \o none = target.data
  BY <1>1, <1>2, ConcatEmptySeq
<1>4. target' = [target EXCEPT !.data = target.data \o none]
  BY <1>1, <1>3
<1>5. 0 \in 0 .. BufferLength
  BY Bounds
<1> QED
  BY <1>3, <1>4, <1>5 DEF TargetGrows, none

\* A prefix of the source that gets some of the bytes that follow is one.
LEMMA NextBytes ==
  ASSUME FileCopyTypeOK, srcLen' = srcLen, IsSourcePrefix(target.data), NEW all \in Seq(Int),
         Len(target.data) + Len(all) <= srcLen, Len(all) <= BufferLength,
         \A k \in 1 .. Len(all) : all[k] = Len(target.data) + k,
         NEW m \in 0 .. Len(all), target' = [target EXCEPT !.data = @ \o SubSeq(all, 1, m)]
  PROVE  IsSourcePrefix(target.data)' /\ TargetGrows
<1> DEFINE d == Len(target.data)
           part == SubSeq(all, 1, m)
           added == [j \in 1 .. m |-> Len(target.data) + j]
           grown == target.data \o added
<1>1. /\ target \in [dir : BOOLEAN, exists : BOOLEAN, data : Seq(Int)]
      /\ target.data \in Seq(Int) /\ d \in Nat /\ Len(all) \in Nat /\ srcLen \in Nat
      /\ m \in Int /\ m >= 0 /\ m <= Len(all)
  BY LenProperties DEF FileCopyTypeOK
<1>2. /\ part \in Seq(Int) /\ Len(part) = m
      /\ \A i \in 1 .. m : part[i] = d + i
  <2>1. /\ part \in Seq(Int) /\ Len(part) = m
        /\ \A i \in 1 .. m : part[i] = all[i]
    BY FirstPart
  <2>2. \A i \in 1 .. m : all[i] = d + i
    BY <1>1
  <2> HIDE DEF part, d
  <2> QED
    BY <2>1, <2>2
<1>3. part = added
  <2>1. added \in [1 .. m -> Int] /\ \A j \in 1 .. m : added[j] = d + j
    BY <1>1
  <2>2. added \in Seq(Int) /\ Len(added) = m
    <3> HIDE DEF added
    <3>1. m \in Nat
      BY <1>1
    <3>2. added \in Seq(Int)
      BY <2>1, <3>1, SeqDef
    <3> QED
      BY <2>1, <3>1, <3>2, LenProperties
  <2> HIDE DEF part, added, d
  <2> QED
    BY <1>2, <2>1, <2>2, SeqEqual
<1>4. target' = [target EXCEPT !.data = grown] /\ target'.data = grown
  BY <1>1, <1>3
<1> HIDE DEF added
<1>5. /\ Len(grown) = d + m
      /\ \A k \in 1 .. d + m : grown[k] = IF k <= d THEN target.data[k] ELSE added[k - d]
  <2> DEFINE data == target.data
  <2>1. data \in Seq(Int) /\ added \in Seq(Int) /\ Len(added) = m
    BY <1>1, <1>2, <1>3
  <2> HIDE DEF data
  <2>2. /\ Len(data \o added) = Len(data) + Len(added)
        /\ \A k \in 1 .. Len(data) + Len(added) :
             (data \o added)[k] = IF k <= Len(data) THEN data[k] ELSE added[k - Len(data)]
    BY <2>1, ConcatProperties
  <2> QED
    BY <2>1, <2>2 DEF data
<1> HIDE DEF grown, part
<1>6. ASSUME NEW k \in 1 .. d + m PROVE grown[k] = k
  <2>1. k \in Int /\ k >= 1 /\ k <= d + m
    BY <1>1
  <2>2. CASE k <= d
    <3>1. k \in 1 .. Len(target.data)
      BY <1>1, <2>1, <2>2
    <3> QED
      BY <1>5, <2>2, <3>1 DEF IsSourcePrefix
  <2>3. CASE k > d
    <3>1. k - d \in 1 .. m
      BY <1>1, <2>1, <2>3
    <3>2. part[k - d] = d + (k - d)
      BY <1>2, <3>1
    <3> QED
      BY <1>1, <1>3, <1>5, <2>1, <2>3, <3>2
  <2> QED
    BY <1>1, <2>1, <2>2, <2>3
<1>7. IsSourcePrefix(grown)
  BY <1>1, <1>5, <1>6 DEF IsSourcePrefix
<1>8. IsSourcePrefix(target.data)'
  BY <1>4, <1>7 DEF IsSourcePrefix
<1>9. m \in 0 .. BufferLength
  BY <1>1, Bounds
<1> QED
  BY <1>4, <1>7, <1>8, <1>9 DEF TargetGrows, grown, added

\* What close() leaves out of the file is less than a buffer.
LEMMA CloseLoses ==
  ASSUME FileCopyTypeOK, CloseDest
  PROVE  /\ Len(target.data) + Len(outStream.held) - Len(target'.data) \in 0 .. MaxLoss
         /\ Len(target'.data) \in Nat
<1>1. /\ Len(outStream.held) \in Nat
      /\ Len(outStream.held) < BufferLength /\ Len(target.data) \in Nat
  BY LenProperties DEF FileCopyTypeOK
<1>2. PICK m \in 0 .. Len(outStream.held) :
        /\ Len(target'.data) = Len(target.data) + m
        /\ "write" \notin Faults => m = Len(outStream.held)
  BY CloseDestAppends
<1> DEFINE h == Len(outStream.held)
           d == Len(target.data)
<1>3. /\ h \in Nat /\ d \in Nat /\ h < BufferLength /\ m \in 0 .. h
      /\ Len(target'.data) = d + m /\ ("write" \notin Faults => m = h)
  BY <1>1, <1>2
<1> HIDE DEF h, d
<1>4. h - m \in 0 .. MaxLoss
  <2>1. h - m \in Int /\ h - m >= 0 /\ h - m <= BufferLength - 1
    BY <1>3, Bounds
  <2>2. "write" \notin Faults => h - m = 0
    BY <1>3
  <2> QED
    BY <2>1, <2>2, Bounds DEF MaxLoss
<1>5. /\ d + h - Len(target'.data) = h - m
      /\ Len(target'.data) \in Nat
  BY <1>3
<1> QED
  BY <1>4, <1>5 DEF h, d

\* close() may add to the file what the stream held, and loses less than a buffer of it.
LEMMA CloseKeepsOrder ==
  ASSUME FileCopyTypeOK, srcLen' = srcLen, IsSourcePrefix(target.data), HeldFollows, CloseDest
  PROVE  /\ IsSourcePrefix(target.data)' /\ TargetGrows
         /\ Len(target.data) + Len(outStream.held) - Len(target'.data) \in 0 .. MaxLoss
         /\ Len(target'.data) \in Nat
<1>1. /\ outStream.held \in Seq(Int) /\ Len(outStream.held) \in Nat
      /\ Len(outStream.held) < BufferLength /\ Len(target.data) \in Nat
  BY LenProperties DEF FileCopyTypeOK
<1>2. PICK m \in 0 .. Len(outStream.held) :
        target' = [target EXCEPT !.data = @ \o SubSeq(outStream.held, 1, m)]
  BY CloseDestAppends
<1>3. IsSourcePrefix(target.data)' /\ TargetGrows
  <2> DEFINE all == outStream.held
  <2>1. all \in Seq(Int) /\ Len(all) <= BufferLength
    BY <1>1, Bounds
  <2>2. /\ Len(target.data) + Len(all) <= srcLen
        /\ \A k \in 1 .. Len(all) : all[k] = Len(target.data) + k
    BY DEF HeldFollows
  <2>3. m \in 0 .. Len(all) /\ target' = [target EXCEPT !.data = @ \o SubSeq(all, 1, m)]
    BY <1>2
  <2> HIDE DEF all
  <2> QED
    BY <2>1, <2>2, <2>3, NextBytes
<1> QED
  BY <1>3, CloseLoses

\* What a writing function adds to the destination, by a write or on close, keeps it a
\* prefix of the source, and unless the stream failed the ring and the counters stay
\* sound, if what is pending is a chunk of what is buffered.
LEMMA WriteKeepsOrder ==
  ASSUME FileCopyTypeOK, FileCopyTypeOK', srcLen < SizeMod, NEW pending \in Int,
         ~outStream.fail => CountersAgree /\ RingFilledInOrder,
         outStream.open /\ ~outStream.fail /\ pending > 0 =>
           buff.buffered > 0 /\ WriteLength(pending) = WriteLength(buff.buffered),
         outStream.open => IsSourcePrefix(target.data) /\ HeldFollows /\ HeldIsTail,
         outStream.open /\ ~outStream.fail =>
           Len(target.data) + Len(outStream.held) = bytesWritten,
         WriteOut(pending)
  PROVE  /\ target' = target \/ (outStream.open /\ IsSourcePrefix(target.data)' /\ TargetGrows)
         /\ outStream'.open =>
              outStream.open /\ IsSourcePrefix(target.data)' /\ HeldFollows' /\ HeldIsTail'
         /\ outStream'.open /\ ~outStream'.fail =>
              Len(target'.data) + Len(outStream'.held) = bytesWritten'
         /\ ~outStream'.fail => CountersAgree' /\ RingFilledInOrder'
<1>1. /\ UNCHANGED <<srcLen, inStream, bytesRead>>
      /\ WriteChunk(pending) \/ WriteEnd(pending) \/ WriteNothing
  BY DEF WriteOut
<1>2. /\ FileCopyTypeOK
      /\ target \in [dir : BOOLEAN, exists : BOOLEAN, data : Seq(Int)]
      /\ target.data \in Seq(Int) /\ Len(target.data) \in Nat
      /\ outStream \in [open : BOOLEAN, fail : BOOLEAN, held : Seq(Int)]
      /\ outStream.held \in Seq(Int) /\ Len(outStream.held) \in Nat
      /\ ~outStream.open => outStream.held = <<>>
      /\ outStream' \in [open : BOOLEAN, fail : BOOLEAN, held : Seq(Int)]
      /\ outStream'.held \in Seq(Int) /\ Len(outStream'.held) \in Nat
      /\ target'.data \in Seq(Int) /\ Len(target'.data) \in Nat
      /\ <<>> \in Seq(Int) /\ Len(<<>>) = 0
  BY LenProperties, EmptySeq DEF FileCopyTypeOK
<1>3. CASE UNCHANGED <<target, outStream, buff, bytesWritten, firstWritten>>
  <2>1. /\ IsSourcePrefix(target.data) => IsSourcePrefix(target.data)'
        /\ HeldFollows => HeldFollows'
        /\ HeldIsTail => HeldIsTail'
    BY <1>1, <1>3 DEF IsSourcePrefix, HeldFollows, HeldIsTail
  <2> QED
    BY <1>1, <1>3, <2>1, RingUnchanged
<1>4. CASE outStream.open /\ CloseDest /\ UNCHANGED <<buff, bytesWritten, firstWritten>>
  <2>1. IsSourcePrefix(target.data)' /\ TargetGrows
    BY <1>1, <1>4, CloseKeepsOrder
  <2>2. ~outStream'.open /\ outStream'.fail = outStream.fail
    BY <1>4, CloseDestAppends
  <2> QED
    BY <1>1, <1>4, <2>1, <2>2, RingUnchanged
<1>5. CASE WriteChunk(pending)
  <2> DEFINE n == WriteLength(pending)
             chunk == ReadBufferBytes(ReadCursorReady, n)
             written == AsSize(TellP(outStream', target'.data)
                               - TellP(outStream, target.data))
  <2>1. /\ outStream.open /\ pending > 0
        /\ StreamWrite(chunk) /\ CountWritten(ReadCursorReady) /\ firstWritten' = TRUE
    BY <1>5 DEF WriteChunk
  <2>2. chunk \in Seq(Int)
    BY RingTypes, ReadCursorReadyFields, WriteLengthBound, ReadBufferBytesSeq
  <2>3. CASE outStream.fail
    <3>1. outStream'.fail /\ target' = target /\ outStream'.held = outStream.held
      BY <1>2, <2>1, <2>2, <2>3, StreamWriteAppends
    <3>2. outStream.held = <<>>
      BY <2>1, <2>3 DEF HeldIsTail
    <3> QED
      BY <1>1, <2>1, <3>1, <3>2 DEF IsSourcePrefix, HeldFollows, HeldIsTail
  <2>4. CASE ~outStream.fail
    <3>1. /\ n \in 1 .. BufferLength /\ n <= buff.buffered
          /\ n = BufferLength \/ n = buff.buffered
          /\ Len(chunk) = n
          /\ \A j \in 1 .. n : chunk[j] = bytesWritten + j
      BY <2>1, <2>4, NextChunk
    <3>2. outStream.held = <<>> /\ Len(outStream.held) = 0
      BY <1>2, <2>1, <2>4 DEF HeldIsTail
    <3>3. /\ Len(target.data) = bytesWritten
          /\ bytesRead - bytesWritten = buff.buffered
          /\ bytesRead <= srcLen /\ srcLen \in Nat /\ bytesWritten \in Nat
          /\ n \in Int /\ n >= 0 /\ n <= BufferLength
          /\ bytesWritten + n <= srcLen
      BY <1>2, <2>1, <2>4, <3>1, <3>2, RingTypes, Bounds DEF CountersAgree
    <3> HIDE DEF n, chunk
    <3>4. IsSourcePrefix(target.data)' /\ TargetGrows
      <4>1. PICK m \in 0 .. Len(outStream.held) + Len(chunk) :
              target' = [target EXCEPT !.data = @ \o SubSeq(outStream.held \o chunk, 1, m)]
        BY <1>2, <2>1, <2>2, StreamWriteAppends
      <4>2. outStream.held \o chunk = chunk
        BY <2>2, <3>2, ConcatEmptySeq
      <4>3. m \in 0 .. Len(chunk)
        BY <3>1, <3>2, <3>3
      <4>4. target' = [target EXCEPT !.data = @ \o SubSeq(chunk, 1, m)]
        BY <4>1, <4>2
      <4>5. IsSourcePrefix(target.data)
        BY <2>1
      <4>6. /\ Len(target.data) + Len(chunk) <= srcLen /\ Len(chunk) <= BufferLength
            /\ \A k \in 1 .. Len(chunk) : chunk[k] = Len(target.data) + k
        BY <3>1, <3>3
      <4> QED
        BY <1>1, <2>2, <4>3, <4>4, <4>5, <4>6, NextBytes
    <3>5. CASE ~outStream'.fail
      <4>1. /\ Len(target'.data) + Len(outStream'.held) = bytesWritten + n
            /\ \/ outStream'.held = <<>>
               \/ target' = target /\ outStream'.held = chunk
        <5>1. outStream.held \o chunk = chunk
          BY <2>2, <3>2, ConcatEmptySeq
        <5>2. /\ Len(target'.data) + Len(outStream'.held)
                   = Len(target.data) + Len(outStream.held) + Len(chunk)
              /\ \/ outStream'.held = <<>>
                 \/ target' = target /\ outStream'.held = outStream.held \o chunk
          BY <1>2, <2>1, <2>2, <3>5, StreamWriteAppends
        <5>3. /\ Len(target.data) = bytesWritten /\ Len(outStream.held) = 0
              /\ Len(chunk) = n /\ bytesWritten \in Int /\ n \in Int
          BY <3>1, <3>2, <3>3
        <5>4. Len(target.data) + Len(outStream.held) + Len(chunk) = bytesWritten + n
          <6> DEFINE a == Len(target.data)
                     b == Len(outStream.held)
                     c == Len(chunk)
          <6>1. a = bytesWritten /\ b = 0 /\ c = n
            BY <5>3
          <6> HIDE DEF a, b, c
          <6>2. a + b + c = bytesWritten + n
            BY <5>3, <6>1
          <6> QED
            BY <6>2 DEF a, b, c
        <5> QED
          BY <5>1, <5>2, <5>4
      <4>2. TellP(outStream', target'.data) - TellP(outStream, target.data) = n
        BY <1>2, <2>4, <3>2, <3>3, <3>5, <4>1 DEF TellP
      <4>3. written = n /\ AsUInt(written) = n
        <5>1. n \in 0 .. SizeMod - 1 /\ n \in 0 .. 2 * IntHalf - 1
          BY <3>3, Bounds
        <5>2. AsSize(n) = n /\ AsUInt(n) = n
          BY <3>3, <5>1, AsSizeNat, AsUIntNat
        <5> QED
          BY <4>2, <5>2
      <4>4. AsSize(bytesWritten + n) = bytesWritten + n
        <5>1. bytesWritten + n \in 0 .. SizeMod - 1
          BY <3>3, Bounds
        <5> QED
          BY <5>1, AsSizeNat
      <4>5. /\ buff' = RotatePartialRead(ReadCursorReady, n)
            /\ bytesWritten' = bytesWritten + n
        BY <2>1, <3>3, <4>3, <4>4, Bounds DEF CountWritten, LengthOutOfRange
      <4>6. CountersAgree' /\ RingFilledInOrder'
        BY <1>1, <2>1, <2>4, <3>1, <4>5, ChunkRemoved
      <4>7. HeldFollows'
        <5>1. CASE outStream'.held = <<>>
          BY <1>1, <1>2, <3>3, <4>1, <5>1 DEF HeldFollows
        <5>2. CASE target' = target /\ outStream'.held = chunk
          BY <1>1, <1>2, <3>1, <3>3, <4>1, <5>2 DEF HeldFollows
        <5> QED
          BY <4>1, <5>1, <5>2
      <4>8. HeldIsTail'
        <5> SUFFICES ASSUME outStream'.held # <<>>
                     PROVE  buff'.buffered = 0 /\ (inStream'.open => inStream'.fail)
          BY <3>5 DEF HeldIsTail
        <5>1. n < BufferLength
          BY <3>1, <4>1 DEF FileCopyTypeOK
        <5>2. n = buff.buffered
          BY <3>1, <5>1, Bounds
        <5>3. buff'.buffered = 0
          BY <1>1, <3>3, <4>5, <4>6, <5>2, RingTypes DEF CountersAgree
        <5>4. inStream.open => inStream.fail
          <6>1. SUFFICES ASSUME inStream.open, ~inStream.fail PROVE FALSE
            OBVIOUS
          <6>2. /\ ChunksInRing \in 0 .. 3
                /\ buff.buffered = ChunksInRing * BufferLength
            BY <2>4, <6>1 DEF RingFilledInOrder
          <6>3. /\ ChunksInRing = 0 => buff.buffered = 0
                /\ ChunksInRing # 0 => buff.buffered >= BufferLength
            BY <6>2, Bounds
          <6> QED
            BY <3>1, <5>1, <5>2, <6>3, Bounds
        <5> QED
          BY <1>1, <5>3, <5>4
      <4> QED
        BY <2>1, <3>4, <3>5, <4>1, <4>5, <4>6, <4>7, <4>8
    <3>6. CASE outStream'.fail
      <4>1. outStream'.held = <<>>
        BY <1>2, <2>1, <2>2, <3>2, <3>6, StreamWriteAppends
      <4>2. HeldFollows' /\ HeldIsTail'
        BY <1>1, <1>2, <3>4, <4>1 DEF HeldFollows, HeldIsTail, IsSourcePrefix
      <4> QED
        BY <2>1, <3>4, <3>6, <4>2
    <3> QED
      BY <3>5, <3>6
  <2> QED
    BY <2>3, <2>4
<1>6. WriteEnd(pending) \/ WriteNothing =>
        \/ UNCHANGED <<target, outStream, buff, bytesWritten, firstWritten>>
        \/ outStream.open /\ CloseDest /\ UNCHANGED <<buff, bytesWritten, firstWritten>>
  BY DEF WriteEnd, WriteNothing
<1> QED
  BY <1>1, <1>3, <1>4, <1>5, <1>6

-------------------------------------------------------------------------------
(* What the two steps that move data do besides. *)

\* An empty ring has a whole buffer free.
LEMMA EmptyRingReads ==
  ASSUME NEW rb, rb.buffered = 0
  PROVE  BuffersAvailable(rb) # 0
<1>1. Available(rb) = BufferLength + BufferLength + BufferLength
  BY Bounds DEF Available
<1>2. AsUInt(Available(rb)) = Available(rb)
  BY <1>1, AsUIntNat, Bounds
<1>3. Available(rb) \div BufferLength = 3
  BY <1>1, DivBetween, Bounds
<1>4. AsInt(3) = 3
  BY AsIntInt, Bounds
<1> QED
  BY <1>2, <1>3, <1>4 DEF BuffersAvailable

\* read_to_buffer never counts more than the source has, and leaves the source open
\* only with something in the ring.
LEMMA ReadFacts ==
  ASSUME FileCopyTypeOK, FileCopyTypeOK', srcLen < SizeMod, ReadToBuffer,
         bytesRead <= srcLen, inStream.open => inStream.pos = bytesRead
  PROVE  /\ UNCHANGED <<srcLen, target, outStream, firstWritten, sourceSize, destSize,
                        bytesWritten, thrown>>
         /\ started' = TRUE
         /\ bytesRead <= bytesRead' /\ bytesRead' <= srcLen
         /\ inStream'.open => inStream'.pos = bytesRead'
         /\ ~inStream.open => ~inStream'.open /\ bytesRead' = bytesRead
                              /\ buff'.buffered = buff.buffered
         /\ Faults \subseteq {"write"} /\ (~inStream.open \/ inStream.fail => bytesRead = srcLen)
              => (~inStream'.open \/ inStream'.fail => bytesRead' = srcLen)
         /\ inStream'.open /\ CountersAgree /\ CountersAgree' => buff'.buffered # 0
<1> DEFINE rb == IF started THEN buff ELSE RotateProcessingIndex(buff)
<1>1. /\ buff \in RingRecord /\ rb \in RingRecord /\ rb.buffered = buff.buffered
      /\ bytesRead \in Nat /\ srcLen \in Nat /\ inStream.pos \in Nat
      /\ inStream \in [open : BOOLEAN, pos : Nat, fail : BOOLEAN]
  BY RingTypes, RotateFields DEF FileCopyTypeOK
<1>2. /\ UNCHANGED <<srcLen, target, outStream, firstWritten, sourceSize, destSize,
                     bytesWritten, thrown>>
      /\ started' = TRUE
      /\ ReadNothing(rb) \/ ReadChunk(rb) \/ ReadEnd(rb)
  BY DEF ReadToBuffer, environment
<1> HIDE DEF rb
<1>3. CASE ReadNothing(rb)
  <2>1. buff' = rb /\ inStream' = inStream /\ bytesRead' = bytesRead
    BY <1>3 DEF ReadNothing
  <2>2. inStream.open => buff'.buffered # 0
    BY <1>1, <1>3, <2>1, EmptyRingReads DEF ReadNothing
  <2> QED
    BY <1>1, <1>2, <2>1, <2>2
<1>4. CASE ReadChunk(rb)
  <2>1. PICK n \in ReadCounts \ {0} :
          /\ inStream' = [inStream EXCEPT !.pos = @ + n, !.fail = n < BufferLength]
          /\ bytesRead' = AsSize(bytesRead + n)
    BY <1>4 DEF ReadChunk
  <2>2. inStream.open /\ inStream.pos = bytesRead
    BY <1>4 DEF ReadChunk
  <2>3. /\ ~inStream.fail /\ n \in 1 .. BufferLength /\ bytesRead + n <= srcLen
        /\ "read" \notin Faults /\ n < BufferLength => bytesRead + n = srcLen
    BY <1>1, <2>2, Bounds DEF ReadCounts, Lesser
  <2>4. bytesRead' = bytesRead + n
    <3>1. bytesRead + n \in 0 .. SizeMod - 1
      BY <1>1, <2>3, Bounds
    <3> QED
      BY <2>1, <3>1, AsSizeNat
  <2>5. /\ inStream'.open /\ inStream'.pos = bytesRead'
        /\ inStream'.fail => n < BufferLength
    BY <1>1, <2>1, <2>2, <2>4
  <2>6. bytesRead <= bytesRead' /\ bytesRead' <= srcLen
    BY <1>1, <2>3, <2>4, Bounds
  <2>7. CountersAgree /\ CountersAgree' => buff'.buffered # 0
    BY <1>1, <1>2, <2>3, <2>4, Bounds DEF CountersAgree, FileCopyTypeOK
  <2> QED
    BY <1>2, <2>2, <2>3, <2>4, <2>5, <2>6, <2>7
<1>5. CASE ReadEnd(rb)
  <2>1. /\ inStream.open /\ ~inStream'.open /\ bytesRead' = bytesRead /\ 0 \in ReadCounts
    BY <1>1, <1>5 DEF ReadEnd, CloseIn
  <2>2. "read" \notin Faults /\ ~inStream.fail => bytesRead = srcLen
    BY <1>1, <2>1, Bounds DEF ReadCounts, Lesser
  <2>3. bytesRead <= bytesRead'
    BY <1>1, <2>1
  <2> QED
    BY <1>2, <2>1, <2>2, <2>3
<1> QED
  BY <1>2, <1>3, <1>4, <1>5

\* A read leaves what the destination's stream holds, and adds nothing behind it: the
\* source has come to its end.
LEMMA ReadKeepsHeld ==
  ASSUME FileCopyTypeOK, ReadToBuffer, HeldFollows, HeldIsTail
  PROVE  HeldFollows' /\ HeldIsTail'
<1> DEFINE rb == IF started THEN buff ELSE RotateProcessingIndex(buff)
<1>1. rb.buffered = buff.buffered
  BY RingTypes, RotateFields
<1>2. /\ UNCHANGED <<srcLen, target, outStream>>
      /\ ReadNothing(rb) \/ ReadChunk(rb) \/ ReadEnd(rb)
  BY DEF ReadToBuffer, environment
<1>3. HeldFollows'
  BY <1>2 DEF HeldFollows
<1> HIDE DEF rb
<1>4. ASSUME outStream.held # <<>>
      PROVE  buff'.buffered = 0 /\ (inStream'.open => inStream'.fail)
  <2>1. buff.buffered = 0 /\ (inStream.open => inStream.fail)
    BY <1>4 DEF HeldIsTail
  <2>2. ~ReadChunk(rb)
    BY <2>1 DEF ReadChunk, ReadCounts
  <2>3. inStream \in [open : BOOLEAN, pos : Nat, fail : BOOLEAN]
    BY DEF FileCopyTypeOK
  <2>4. buff' = rb /\ (inStream' = inStream \/ inStream' = CloseIn)
    BY <1>2, <2>2 DEF ReadNothing, ReadEnd
  <2> QED
    BY <1>1, <2>1, <2>3, <2>4 DEF CloseIn
<1>5. HeldIsTail'
  BY <1>2, <1>4 DEF HeldIsTail
<1> QED
  BY <1>3, <1>5

\* What depends on the files and the streams alone.
LEMMA HeldUnchanged ==
  ASSUME UNCHANGED <<srcLen, target, inStream, outStream, buff>>
  PROVE  /\ IsSourcePrefix(target.data) => IsSourcePrefix(target.data)'
         /\ HeldFollows => HeldFollows'
         /\ HeldIsTail => HeldIsTail'
BY DEF IsSourcePrefix, HeldFollows, HeldIsTail

\* A file's data cut at its end is the data.
LEMMA UncutFile ==
  ASSUME FileCopyTypeOK, UNCHANGED target
  PROVE  \E n \in Len(target.data) .. Len(target.data) :
           target' = [target EXCEPT !.data = SubSeq(@, 1, n)]
<1>1. /\ target \in [dir : BOOLEAN, exists : BOOLEAN, data : Seq(Int)]
      /\ target.data \in Seq(Int) /\ Len(target.data) \in Nat
  BY LenProperties DEF FileCopyTypeOK
<1>2. SubSeq(target.data, 1, Len(target.data)) = target.data
  BY <1>1, SubSeqFull
<1>3. target = [target EXCEPT !.data = SubSeq(@, 1, Len(target.data))]
  BY <1>1, <1>2
<1> QED
  BY <1>1, <1>3

\* read_to_buffer moves the processing cursor when it is called first, and counts
\* nothing as processed.
LEMMA ReadLeavesProcessed ==
  ASSUME FileCopyTypeOK, ReadToBuffer
  PROVE  /\ buff'.samplesProcessed = buff.samplesProcessed
         /\ buff'.processingIndex = IF started THEN buff.processingIndex
                                    ELSE NextIndex(buff.processingIndex)
         /\ ReadCursor' = ReadCursor
         /\ inStream.open /\ inStream.fail => ~inStream'.open \/ inStream' = inStream
         /\ ~inStream.open \/ inStream.fail =>
              bytesRead' = bytesRead /\ buff'.buffered = buff.buffered
         /\ inStream.open /\ inStream.fail /\ buff.buffered = 0 => ~inStream'.open
<1> DEFINE rb == IF started THEN buff ELSE RotateProcessingIndex(buff)
<1>1. /\ buff \in RingRecord /\ rb \in RingRecord
      /\ rb.buffered = buff.buffered /\ rb.readIndex = buff.readIndex
      /\ rb.samplesProcessed = buff.samplesProcessed
      /\ rb.processingIndex = IF started THEN buff.processingIndex
                              ELSE NextIndex(buff.processingIndex)
      /\ inStream \in [open : BOOLEAN, pos : Nat, fail : BOOLEAN] /\ srcLen \in Nat
  <2>1. buff \in RingRecord /\ 0 \in Nat
    BY DEF FileCopyTypeOK
  <2> QED
    BY <2>1, RotateFields, WriteSideCounts DEF FileCopyTypeOK
<1>2. /\ ReadNothing(rb) \/ ReadChunk(rb) \/ ReadEnd(rb)
      /\ firstWritten' = firstWritten
  BY DEF ReadToBuffer
<1> HIDE DEF rb
<1>3. ASSUME buff' \in RingRecord, buff'.readIndex = buff.readIndex
      PROVE  ReadCursor' = ReadCursor
  BY <1>1, <1>2, <1>3 DEF ReadCursor, ReadCursorReady, RotateReadIndex, RingRecord
<1>4. CASE ReadNothing(rb)
  <2>1. /\ buff' = rb /\ inStream' = inStream /\ bytesRead' = bytesRead
        /\ ~inStream.open \/ BuffersAvailable(rb) = 0
    BY <1>4 DEF ReadNothing
  <2>2. rb.buffered = 0 => ~inStream.open
    BY <2>1, EmptyRingReads
  <2>3. buff' \in RingRecord /\ buff'.readIndex = buff.readIndex
    BY <1>1, <2>1
  <2>4. ReadCursor' = ReadCursor
    BY <1>3, <2>3
  <2>5. /\ buff'.samplesProcessed = buff.samplesProcessed
        /\ buff'.processingIndex = IF started THEN buff.processingIndex
                                   ELSE NextIndex(buff.processingIndex)
        /\ buff'.buffered = buff.buffered
    BY <1>1, <2>1
  <2>6. inStream.open /\ buff.buffered = 0 => FALSE
    BY <1>1, <2>2
  <2> QED
    BY <2>1, <2>4, <2>5, <2>6
<1>5. CASE ReadChunk(rb)
  <2>1. PICK n \in ReadCounts \ {0} :
          buff' = RotatePartialWrite(FillWriteBuffer(rb, n), n)
    BY <1>5 DEF ReadChunk
  <2>2. n \in Nat /\ inStream.pos \in Nat /\ ~inStream.fail /\ inStream.open
    BY <1>1, <1>5, Bounds DEF ReadCounts, Lesser, ReadChunk
  <2> DEFINE filled == FillWriteBuffer(rb, n)
  <2>3. filled \in RingRecord /\ filled.readIndex = rb.readIndex
    BY <1>1, <2>2, FillWriteBufferFields
  <2>4. /\ filled.samplesProcessed = rb.samplesProcessed
        /\ filled.processingIndex = rb.processingIndex
    BY <1>1, <2>2, WriteSideCounts
  <2> HIDE DEF filled
  <2>5. /\ buff' \in RingRecord /\ buff'.readIndex = filled.readIndex
        /\ buff'.samplesProcessed = filled.samplesProcessed
        /\ buff'.processingIndex = filled.processingIndex
    <3>1. buff' = RotatePartialWrite(filled, n)
      BY <2>1 DEF filled
    <3> QED
      BY <2>2, <2>3, <3>1, RotatePartialWriteFields, WriteSideCounts
  <2> QED
    BY <1>1, <1>3, <2>2, <2>3, <2>4, <2>5
<1>6. CASE ReadEnd(rb)
  <2>1. buff' = rb /\ bytesRead' = bytesRead /\ inStream'.open = FALSE
    BY <1>1, <1>6 DEF ReadEnd, CloseIn
  <2> QED
    BY <1>1, <1>3, <2>1
<1> QED
  BY <1>2, <1>4, <1>5, <1>6

\* What a writing function does, for any count of what is pending:
\*   - nothing, as the destination is not open;
\*   - it closes a destination that is not empty, as nothing is pending;
\*   - it writes a chunk and counts it;
\*   - the write fails, and rotate_partial_read throws;
\*   - the write fails or has failed before, which leaves size_t(-1) in the counter.
NotOpen ==
  /\ ~outStream.open
  /\ UNCHANGED <<target, outStream, buff, bytesWritten, firstWritten, thrown>>

NothingPending(pending) ==
  /\ outStream.open /\ pending <= 0
  /\ UNCHANGED <<buff, bytesWritten, firstWritten, thrown>>
  /\ \/ UNCHANGED <<target, outStream>>
     \/ CloseDest /\ (outStream.fail \/ Len(target.data) + Len(outStream.held) > 0)

Written(pending) ==
  /\ outStream.open /\ pending > 0 /\ ~outStream.fail
  /\ outStream'.open /\ ~outStream'.fail /\ firstWritten' = TRUE /\ thrown' = thrown
  /\ Len(target'.data) + Len(outStream'.held)
       = Len(target.data) + Len(outStream.held) + WriteLength(pending)
  /\ bytesWritten' = bytesWritten + WriteLength(pending)
  /\ buff' = RotatePartialRead(ReadCursorReady, WriteLength(pending))

WriteThrows(pending) ==
  /\ outStream.open /\ pending > 0 /\ ~outStream.fail /\ outStream'.open /\ outStream'.fail
  /\ firstWritten' = TRUE /\ thrown' = "out_of_range" /\ Debug
  /\ bytesWritten' = bytesWritten /\ buff' = ReadCursorReady

WriteFails(pending) ==
  /\ outStream.open /\ pending > 0 /\ outStream'.open /\ outStream'.fail
  /\ outStream'.held = outStream.held
  /\ firstWritten' = TRUE /\ thrown' = thrown
  /\ bytesWritten' = SizeMod - 1

LEMMA WriteOutcomes ==
  ASSUME FileCopyTypeOK, FileCopyTypeOK', NEW pending \in Int, WriteOut(pending),
         outStream.open =>
           bytesWritten = IF outStream.fail THEN SizeMod - 1
                          ELSE Len(target.data) + Len(outStream.held),
         outStream.open /\ ~outStream.fail /\ pending > 0 =>
           bytesWritten + WriteLength(pending) < SizeMod
  PROVE  /\ UNCHANGED <<srcLen, inStream, sourceSize, destSize, bytesRead>>
         /\ started' = TRUE
         /\ target'.exists = target.exists /\ target'.dir = target.dir
         /\ outStream.open /\ ~outStream.fail /\ outStream'.fail => "write" \in Faults
         /\ \/ NotOpen \/ NothingPending(pending) \/ Written(pending)
            \/ WriteThrows(pending) \/ WriteFails(pending)
<1>1. /\ UNCHANGED <<srcLen, inStream, sourceSize, destSize, bytesRead>>
      /\ started' = TRUE
      /\ WriteChunk(pending) \/ WriteEnd(pending) \/ WriteNothing
  BY DEF WriteOut
<1>2. /\ target.data \in Seq(Int) /\ Len(target.data) \in Nat
      /\ target'.data \in Seq(Int) /\ Len(target'.data) \in Nat
      /\ outStream \in [open : BOOLEAN, fail : BOOLEAN, held : Seq(Int)]
      /\ outStream' \in [open : BOOLEAN, fail : BOOLEAN, held : Seq(Int)]
      /\ Len(outStream.held) \in Nat /\ Len(outStream'.held) \in Nat
      /\ bytesWritten \in Nat /\ buff \in RingRecord
  BY LenProperties DEF FileCopyTypeOK
<1>3. CASE WriteNothing
  BY <1>1, <1>3 DEF WriteNothing, NotOpen
<1>4. CASE WriteEnd(pending)
  <2>1. /\ outStream.open /\ pending <= 0
        /\ UNCHANGED <<buff, bytesWritten, firstWritten, thrown>>
        /\ \/ UNCHANGED <<target, outStream>>
           \/ CloseDest /\ TellP(outStream, target.data) > 0
    BY <1>4 DEF WriteEnd
  <2>2. TellP(outStream, target.data) > 0 =>
          outStream.fail \/ Len(target.data) + Len(outStream.held) > 0
    BY DEF TellP
  <2>3. NothingPending(pending)
    BY <2>1, <2>2 DEF NothingPending
  <2>4. CloseDest => /\ outStream'.fail = outStream.fail
                     /\ target'.exists = target.exists /\ target'.dir = target.dir
    BY CloseDestAppends
  <2> QED
    BY <1>1, <2>1, <2>3, <2>4
<1>5. CASE WriteChunk(pending)
  <2> DEFINE k == WriteLength(pending)
             chunk == ReadBufferBytes(ReadCursorReady, k)
             was == TellP(outStream, target.data)
             is == TellP(outStream', target'.data)
             written == AsSize(is - was)
  <2>1. /\ outStream.open /\ pending > 0 /\ StreamWrite(chunk) /\ firstWritten' = TRUE
        /\ CountWritten(ReadCursorReady)
    BY <1>5 DEF WriteChunk
  <2>2. k \in 0 .. BufferLength
    BY WriteLengthBound
  <2> HIDE DEF k
  <2>3. chunk \in Seq(Int) /\ Len(chunk) = k
    BY <1>2, <2>2, ReadCursorReadyFields, ReadBufferBytesSeq
  <2> HIDE DEF chunk
  <2>4. /\ outStream'.open /\ target'.dir = target.dir /\ target'.exists = target.exists
        /\ outStream.fail => outStream'.fail
        /\ ~outStream'.fail =>
             Len(target'.data) + Len(outStream'.held)
               = Len(target.data) + Len(outStream.held) + k
        /\ ~outStream.fail /\ outStream'.fail => "write" \in Faults
        /\ outStream'.fail => outStream'.held = outStream.held
    BY <2>1, <2>3, StreamWriteAppends
  <2>5. /\ bytesWritten = was /\ was <= SizeMod - 1 /\ was \in Nat
        /\ is = IF outStream'.fail THEN SizeMod - 1
                ELSE Len(target'.data) + Len(outStream'.held)
    <3>1. bytesWritten = was
      BY <1>2, <2>1 DEF TellP
    <3>2. ~outStream.fail => bytesWritten + k < SizeMod
      BY <2>1 DEF k
    <3>3. bytesWritten <= SizeMod - 1
      <4>1. k \in Int /\ k >= 0 /\ bytesWritten \in Int /\ SizeMod \in Int
        BY <1>2, <2>2, Bounds
      <4>2. outStream.fail => bytesWritten = SizeMod - 1
        BY <2>1
      <4> QED
        BY <1>2, <3>2, <4>1, <4>2
    <3> QED
      BY <1>2, <3>1, <3>3 DEF TellP
  <2>6. \/ /\ LengthOutOfRange(AsUInt(written)) /\ thrown' = "out_of_range"
           /\ bytesWritten' = bytesWritten /\ buff' = ReadCursorReady
        \/ /\ ~LengthOutOfRange(AsUInt(written))
           /\ thrown' = thrown /\ bytesWritten' = AsSize(bytesWritten + written)
           /\ buff' = RotatePartialRead(ReadCursorReady, AsUInt(written))
    BY <2>1 DEF CountWritten
  <2> HIDE DEF is, was
  <2>7. CASE ~outStream'.fail
    <3>1. Len(target'.data) + Len(outStream'.held)
            = Len(target.data) + Len(outStream.held) + k
      BY <2>4, <2>7
    <3>2. is - was = k /\ k \in Int /\ bytesWritten + k \in 0 .. SizeMod - 1
          /\ ~outStream.fail
      <4>1. ~outStream.fail /\ bytesWritten = Len(target.data) + Len(outStream.held)
            /\ bytesWritten + k < SizeMod
        BY <2>1, <2>4, <2>7 DEF k
      <4>2. was = bytesWritten /\ is = bytesWritten + k
        BY <2>5, <2>7, <3>1, <4>1
      <4>3. k \in Int /\ k >= 0 /\ k <= BufferLength /\ bytesWritten \in Nat /\ SizeMod \in Int
        BY <1>2, <2>2, Bounds
      <4>4. is - was = k
        BY <4>2, <4>3
      <4>5. bytesWritten + k \in 0 .. SizeMod - 1
        <5> DEFINE sum == bytesWritten + k
        <5>1. sum \in Int /\ sum >= 0
          BY <4>3
        <5>2. sum < SizeMod
          BY <4>1
        <5> HIDE DEF sum, written
        <5>3. sum \in 0 .. SizeMod - 1
          BY <4>3, <5>1, <5>2
        <5> QED
          BY <5>3 DEF sum
      <4> QED
        BY <4>1, <4>3, <4>4, <4>5
    <3>3. written = k /\ AsUInt(k) = k /\ AsSize(bytesWritten + k) = bytesWritten + k
      <4>1. k \in 0 .. SizeMod - 1 /\ k \in 0 .. 2 * IntHalf - 1
        BY <2>2, Bounds
      <4>2. AsSize(k) = k /\ AsUInt(k) = k
        BY <3>2, <4>1, AsSizeNat, AsUIntNat
      <4>3. AsSize(bytesWritten + k) = bytesWritten + k
        BY <3>2, AsSizeNat
      <4> QED
        BY <3>2, <4>2, <4>3
    <3> HIDE DEF written
    <3>4. ~LengthOutOfRange(k)
      BY <2>2, Bounds DEF LengthOutOfRange
    <3>5. Written(pending)
      BY <2>1, <2>4, <2>6, <2>7, <3>1, <3>2, <3>3, <3>4 DEF Written, k
    <3> QED
      BY <1>1, <2>4, <2>7, <3>5
  <2>8. CASE outStream'.fail
    <3>1. written = SizeMod - 1 - bytesWritten
      <4>1. is - was = SizeMod - 1 - bytesWritten
            /\ SizeMod - 1 - bytesWritten \in 0 .. SizeMod - 1
        BY <2>5, <2>8, Bounds
      <4> QED
        BY <4>1, AsSizeNat
    <3>2. AsSize(bytesWritten + written) = SizeMod - 1
      <4>1. bytesWritten + written = SizeMod - 1 /\ SizeMod - 1 \in 0 .. SizeMod - 1
        <5>1. bytesWritten \in Int /\ SizeMod \in Nat /\ SizeMod >= 1
          BY <1>2, Bounds
        <5>2. SizeMod - 1 \in 0 .. SizeMod - 1
          BY <5>1
        <5> HIDE DEF written
        <5> QED
          BY <3>1, <5>1, <5>2
      <4> QED
        BY <4>1, AsSizeNat
    <3>3. outStream.fail => ~LengthOutOfRange(AsUInt(written))
      <4>1. outStream.fail => written = 0
        BY <1>2, <2>1, <3>1, Bounds
      <4>2. AsUInt(0) = 0
        BY AsUIntNat, Bounds
      <4> QED
        BY <4>1, <4>2, Bounds DEF LengthOutOfRange
    <3> HIDE DEF written
    <3>4. WriteThrows(pending) \/ WriteFails(pending)
      BY <2>1, <2>4, <2>6, <2>8, <3>2, <3>3
      DEF WriteThrows, WriteFails, LengthOutOfRange
    <3> QED
      BY <1>1, <2>1, <2>4, <3>4
  <2> QED
    BY <2>7, <2>8
<1> QED
  BY <1>1, <1>3, <1>4, <1>5

\* A source that no fault keeps from being read: while a buffer is free, each read but
\* that of the end brings something, and only the last comes up short.
LEMMA ReadsThrough ==
  ASSUME FileCopyTypeOK, FileCopyTypeOK', srcLen < SizeMod, ReadToBuffer,
         "read" \notin Faults, inStream.open, bytesRead <= srcLen, inStream.pos = bytesRead
  PROVE  \/ /\ BuffersAvailable(buff) = 0
            /\ UNCHANGED <<inStream, bytesRead>> /\ buff'.buffered = buff.buffered
         \/ /\ BuffersAvailable(buff) # 0 /\ ~inStream.fail
            /\ inStream'.open /\ bytesRead < bytesRead' /\ bytesRead' <= srcLen
            /\ inStream'.fail => bytesRead' = srcLen
            /\ buff.buffered \in 0 .. TotalWritableLength - BufferLength =>
                 buff'.buffered - buff.buffered = bytesRead' - bytesRead
         \/ /\ BuffersAvailable(buff) # 0 /\ (inStream.fail \/ bytesRead = srcLen)
            /\ bytesRead' = bytesRead
<1> DEFINE rb == IF started THEN buff ELSE RotateProcessingIndex(buff)
<1>1. /\ buff \in RingRecord /\ rb \in RingRecord /\ rb.buffered = buff.buffered
      /\ bytesRead \in Nat /\ srcLen \in Nat /\ inStream.pos \in Nat
      /\ inStream \in [open : BOOLEAN, pos : Nat, fail : BOOLEAN]
  BY RingTypes, RotateFields DEF FileCopyTypeOK
<1>2. ReadNothing(rb) \/ ReadChunk(rb) \/ ReadEnd(rb)
  BY DEF ReadToBuffer
<1>3. BuffersAvailable(rb) = BuffersAvailable(buff)
  BY <1>1 DEF BuffersAvailable, Available
<1> HIDE DEF rb
<1>4. CASE ReadNothing(rb)
  BY <1>1, <1>3, <1>4 DEF ReadNothing
<1>5. CASE ReadChunk(rb)
  <2>1. PICK n \in ReadCounts \ {0} :
          /\ inStream' = [inStream EXCEPT !.pos = @ + n, !.fail = n < BufferLength]
          /\ buff' = RotatePartialWrite(FillWriteBuffer(rb, n), n)
          /\ bytesRead' = AsSize(bytesRead + n)
    BY <1>5 DEF ReadChunk
  <2>2. /\ ~inStream.fail /\ n \in 1 .. BufferLength /\ bytesRead + n <= srcLen
        /\ n < BufferLength => bytesRead + n = srcLen
    BY <1>1, Bounds DEF ReadCounts, Lesser
  <2>3. bytesRead' = bytesRead + n
    <3>1. bytesRead + n \in 0 .. SizeMod - 1
      BY <1>1, <2>2, Bounds
    <3> QED
      BY <2>1, <3>1, AsSizeNat
  <2>4. inStream'.open /\ (inStream'.fail => n < BufferLength)
    BY <1>1, <2>1
  <2>5. buff.buffered \in 0 .. TotalWritableLength - BufferLength =>
          buff'.buffered = buff.buffered + n
    <3>1. /\ FillWriteBuffer(rb, n) \in RingRecord
          /\ FillWriteBuffer(rb, n).buffered = buff.buffered
      BY <1>1, <2>2, Bounds, FillWriteBufferFields
    <3>2. buff.buffered \in 0 .. TotalWritableLength - BufferLength =>
            buff.buffered \in 0 .. TotalWritableLength - n
      BY <2>2, Bounds
    <3>3. n \in Nat /\ buff' = RotatePartialWrite(FillWriteBuffer(rb, n), n)
      BY <2>1, <2>2, Bounds
    <3> HIDE DEF rb
    <3> QED
      BY <3>1, <3>2, <3>3, RotatePartialWriteFields
  <2>6. BuffersAvailable(buff) # 0
    BY <1>3, <1>5 DEF ReadChunk
  <2>7. /\ bytesRead < bytesRead' /\ bytesRead' <= srcLen
        /\ n < BufferLength => bytesRead' = srcLen
    BY <1>1, <2>2, <2>3, Bounds
  <2>8. buff.buffered \in 0 .. TotalWritableLength - BufferLength =>
          buff'.buffered - buff.buffered = bytesRead' - bytesRead
    BY <1>1, <2>2, <2>3, <2>5, Bounds
  <2> QED
    BY <2>2, <2>4, <2>6, <2>7, <2>8
<1>6. CASE ReadEnd(rb)
  <2>1. 0 \in ReadCounts /\ bytesRead' = bytesRead /\ BuffersAvailable(buff) # 0
    BY <1>3, <1>6 DEF ReadEnd
  <2>2. ~inStream.fail => bytesRead = srcLen
    BY <1>1, <2>1, Bounds DEF ReadCounts, Lesser
  <2> QED
    BY <2>1, <2>2
<1> QED
  BY <1>2, <1>4, <1>5, <1>6
===============================================================================
