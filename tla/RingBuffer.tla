------------------------------ MODULE RingBuffer ------------------------------
(***************************************************************************)
(* Buffer::RingBuffer<T> (lib/filecopy/lib/ringbuffer): a ring of          *)
(* RingLength buffers of BufferLength samples with three cursors (read,    *)
(* write, processing) and three sample counters.                           *)
(*                                                                         *)
(* An object of the class is a record; a member function that changes the  *)
(* object is an operator from the old record to the new one, so that the   *)
(* modules that own a ring compose these operators in their actions.       *)
(*                                                                         *)
(* The counters are C++ ints.  Several member functions mix them with      *)
(* uint32_t operands, which makes the computation unsigned; IntHalf is     *)
(* 2^31 in the program and any larger-than-the-ring number in a model.     *)
(***************************************************************************)
EXTENDS Integers

CONSTANTS
  RingLength,     \* number of buffers in the ring          (uint8_t ringLength)
  BufferLength,   \* number of samples of each buffer       (uint32_t bufferLength)
  IntHalf,        \* an int ranges over -IntHalf .. IntHalf-1
  Debug           \* TRUE in a build that defines _DEBUG

ASSUME RingAssumption ==
  /\ RingLength \in 2 .. 255
  /\ BufferLength \in Nat \ {0}
  /\ IntHalf \in Nat
  /\ RingLength * BufferLength < IntHalf
  /\ Debug \in BOOLEAN

SlotIndex == 0 .. RingLength - 1
SampleIndex == 0 .. BufferLength - 1
Sample == Int

\* _zero of a signed sample type: what a buffer holds before it is written.
Zero == 0

-------------------------------------------------------------------------------
(* Integer conversions of the C++ code.  A value already in range is kept,  *)
(* any other is reduced modulo 2 * IntHalf.                                 *)

AsUInt(x) == IF x \in 0 .. 2 * IntHalf - 1 THEN x ELSE x % (2 * IntHalf)

AsInt(x) ==
  IF x \in -IntHalf .. IntHalf - 1
  THEN x
  ELSE ((x + IntHalf) % (2 * IntHalf)) - IntHalf

-------------------------------------------------------------------------------
(* Construction and reset. *)

RingRecord ==
  [ readIndex : SlotIndex, writeIndex : SlotIndex, processingIndex : SlotIndex,
    buffered : Int, samplesProcessed : Int,
    samplesWritten : Int, samplesRemaining : Int,
    processedState : [SlotIndex -> BOOLEAN],
    ring : [SlotIndex -> [SampleIndex -> Sample]] ]

\* RingBuffer(bufferSize, ringSize).
NewRing ==
  [ readIndex |-> 0, writeIndex |-> 1, processingIndex |-> 0,
    buffered |-> 0, samplesProcessed |-> 0,
    samplesWritten |-> 0, samplesRemaining |-> BufferLength,
    processedState |-> [i \in SlotIndex |-> FALSE],
    ring |-> [i \in SlotIndex |-> [j \in SampleIndex |-> Zero]] ]

\* Mutant: reset() forgets the write cursor.
ResetRingKeepsWriteIndex(rb) ==
  [rb EXCEPT !.samplesRemaining = BufferLength, !.samplesWritten = 0,
             !.buffered = 0, !.readIndex = 0, !.processingIndex = 0,
             !.processedState = [i \in SlotIndex |-> FALSE]]

\* reset(false): the samples stay, and so does _samplesProcessed.
ResetRing(rb) ==
  [rb EXCEPT !.samplesRemaining = BufferLength, !.samplesWritten = 0,
             !.buffered = 0, !.readIndex = 0, !.writeIndex = 1,
             !.processingIndex = 0,
             !.processedState = [i \in SlotIndex |-> FALSE]]

-------------------------------------------------------------------------------
(* Queries. *)

TotalWritableLength == RingLength * BufferLength - BufferLength

Available(rb) == TotalWritableLength - rb.buffered

\* available() / bufferLength: the uint32_t divisor makes the division unsigned.
BuffersAvailable(rb) == AsInt(AsUInt(Available(rb)) \div BufferLength)

-------------------------------------------------------------------------------
(* Cursor rotation. *)

\* Mutant: "++index > ringLength".
NextIndexTooFar(i) == IF i + 1 > RingLength THEN 0 ELSE i + 1

NextIndex(i) == IF i + 1 >= RingLength THEN 0 ELSE i + 1

RotateReadIndex(rb) == [rb EXCEPT !.readIndex = NextIndex(@)]

RotateWriteIndex(rb) == [rb EXCEPT !.writeIndex = NextIndex(@)]

RotateProcessingIndex(rb) == [rb EXCEPT !.processingIndex = NextIndex(@)]

AtLeastZero(x) == IF x < 0 THEN 0 ELSE x

AtMostWritable(x) == IF x > TotalWritableLength THEN TotalWritableLength ELSE x

SetBufferProcessed(rb, index, state) ==
  [rb EXCEPT !.processedState[index] = state]

-------------------------------------------------------------------------------
(* Rotation with the sample counters. *)

\* The throw in rotate_partial_read, _write and _processing of a debug build.
LengthOutOfRange(length) == Debug /\ length > BufferLength

\* rotate_partial_read(length, false)
RotatePartialRead(rb, length) ==
  [RotateReadIndex(rb) EXCEPT
     !.buffered = AtLeastZero(AsInt(@ - length)),
     !.samplesProcessed = AtLeastZero(AsInt(@ - length))]

\* Mutant: a partial write counted as a whole buffer, as rotate_write_buffer does.
RotateWholeWrite(rb, length) ==
  LET moved == [RotateWriteIndex(rb) EXCEPT
                  !.samplesWritten = 0,
                  !.samplesRemaining = BufferLength,
                  !.buffered = AtMostWritable(AsInt(@ + BufferLength))]
  IN  SetBufferProcessed(moved, moved.writeIndex, FALSE)

\* rotate_partial_write(length, false): the flag cleared is that of the buffer
\* the write cursor moves to.
RotatePartialWrite(rb, length) ==
  LET moved == [RotateWriteIndex(rb) EXCEPT
                  !.samplesWritten = 0,
                  !.samplesRemaining = BufferLength,
                  !.buffered = AtMostWritable(AsInt(@ + length))]
  IN  SetBufferProcessed(moved, moved.writeIndex, FALSE)

\* rotate_partial_processing(length)
RotatePartialProcessing(rb, length) ==
  RotateProcessingIndex(
    [SetBufferProcessed(rb, rb.processingIndex, TRUE) EXCEPT
       !.samplesProcessed = AtMostWritable(AsInt(@ + length))])
===============================================================================
