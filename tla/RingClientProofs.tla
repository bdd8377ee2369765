--------------------------- MODULE RingClientProofs ---------------------------
(***************************************************************************)
(* Proofs about RingClient: its ring is a queue, for rings of any number   *)
(* of buffers of any length.                                               *)
(***************************************************************************)
EXTENDS RingClient, FoldProofs, SequenceTheorems

LEMMA Bounds ==
  /\ RingLength \in Nat /\ RingLength >= 2
  /\ BufferLength \in Nat /\ BufferLength > 0
  /\ IntHalf \in Nat /\ RingLength * BufferLength < IntHalf
  /\ MaxWritten \in Nat /\ MaxWritten + RingLength * BufferLength < IntHalf
  /\ SlotIndex = 0 .. RingLength - 1 /\ SampleIndex = 0 .. BufferLength - 1
BY RingAssumption, ClientAssumption DEF SlotIndex, SampleIndex

-------------------------------------------------------------------------------
(* Numbers. *)

LEMMA QuotientIs ==
  ASSUME NEW x \in Int, NEW d \in Int, d > 0, NEW q \in Int, NEW m \in Int,
         x = q * d + m, 0 <= m, m < d
  PROVE  x \div d = q /\ x % d = m
BY SMTT(30)

LEMMA RemainderIs ==
  ASSUME NEW x \in Int, NEW d \in Int, d > 0, 0 <= x, x < d + d
  PROVE  x % d = IF x < d THEN x ELSE x - d
<1>1. CASE x < d
  <2>1. x = 0 * d + x
    BY SMT
  <2> QED
    BY <1>1, <2>1, QuotientIs
<1>2. CASE x >= d
  <2>1. x = 1 * d + (x - d) /\ x - d \in Int
    BY SMT
  <2> QED
    BY <1>2, <2>1, QuotientIs
<1> QED
  BY <1>1, <1>2

\* Whole buffers.
LEMMA Multiples ==
  ASSUME NEW j \in Int
  PROVE  /\ j * BufferLength \in Int
         /\ (j + 1) * BufferLength = j * BufferLength + BufferLength
         /\ (j - 1) * BufferLength = j * BufferLength - BufferLength
         /\ j >= 0 => j * BufferLength >= 0
         /\ j > 0 => j * BufferLength >= BufferLength
         /\ j <= RingLength => j * BufferLength <= RingLength * BufferLength
         /\ j < RingLength => j * BufferLength + BufferLength <= RingLength * BufferLength
<1> DEFINE b == BufferLength
           n == RingLength
<1>1. b \in Int /\ b > 0 /\ n \in Int
  BY Bounds
<1> HIDE DEF b, n
<1>2. /\ j * b \in Int /\ (j + 1) * b = j * b + b /\ (j - 1) * b = j * b - b
      /\ j >= 0 => j * b >= 0
  BY <1>1, SMTT(30)
<1>3. j > 0 => j * b >= b
  <2>1. j - 1 >= 0 => (j - 1) * b >= 0
    BY <1>1, SMTT(30)
  <2> QED
    BY <1>1, <1>2, <2>1
<1>4. j <= n => j * b <= n * b
  <2>1. n - j >= 0 => (n - j) * b >= 0
    BY <1>1, SMTT(30)
  <2>2. (n - j) * b = n * b - j * b /\ n * b \in Int
    BY <1>1, SMTT(30)
  <2> QED
    BY <1>1, <1>2, <2>1, <2>2
<1>5. j < n => j * b + b <= n * b
  <2>1. n - (j + 1) >= 0 => (n - (j + 1)) * b >= 0
    BY <1>1, SMTT(30)
  <2>2. (n - (j + 1)) * b = n * b - (j + 1) * b /\ n * b \in Int
    BY <1>1, SMTT(30)
  <2> QED
    BY <1>1, <1>2, <2>1, <2>2
<1> QED
  BY <1>2, <1>3, <1>4, <1>5 DEF b, n

\* The counters stay far from the ends of an int.
LEMMA Conversions ==
  ASSUME NEW x \in Int
  PROVE  /\ AsInt(x) \in Int /\ AsUInt(x) \in Int
         /\ x \in -IntHalf .. IntHalf - 1 => AsInt(x) = x
         /\ x \in 0 .. IntHalf - 1 => AsUInt(x) = x
BY Bounds DEF AsInt, AsUInt

LEMMA CountTypes ==
  ASSUME NEW x \in Int
  PROVE  AsInt(x + BufferLength) \in Int /\ AtLeastZero(AsInt(x - BufferLength)) \in Int
<1>1. x + BufferLength \in Int /\ x - BufferLength \in Int
  BY Bounds
<1>2. AsInt(x + BufferLength) \in Int /\ AsInt(x - BufferLength) \in Int
  BY <1>1, Conversions
<1> QED
  BY <1>2 DEF AtLeastZero

\* As long as the ring is not overfull, adding or taking a buffer is exact.
LEMMA CountValues ==
  ASSUME NEW d \in 0 .. RingLength
  PROVE  /\ d < RingLength => AsInt(d * BufferLength + BufferLength) = (d + 1) * BufferLength
         /\ d > 0 => AtLeastZero(AsInt(d * BufferLength - BufferLength)) = (d - 1) * BufferLength
         /\ (d * BufferLength) \div BufferLength = d
         /\ AsInt(AsUInt(d * BufferLength) \div BufferLength) = d
<1> DEFINE x == d * BufferLength
           top == RingLength * BufferLength
<1>1. /\ x \in Int /\ x >= 0 /\ x <= top /\ top \in Int /\ top < IntHalf
      /\ d > 0 => x >= BufferLength
      /\ d < RingLength => x + BufferLength <= top
      /\ (d + 1) * BufferLength = x + BufferLength /\ (d - 1) * BufferLength = x - BufferLength
      /\ BufferLength \in Int /\ BufferLength > 0 /\ IntHalf \in Int
  BY Multiples, Bounds
<1>2. x \div BufferLength = d
  <2>1. x = d * BufferLength + 0
    BY <1>1
  <2>2. d \in Int
    OBVIOUS
  <2> HIDE DEF x
  <2> QED
    BY <1>1, <2>1, <2>2, QuotientIs
<1> HIDE DEF x, top
<1>3. d < RingLength => AsInt(x + BufferLength) = x + BufferLength
  BY <1>1, Conversions
<1>4. d > 0 => AtLeastZero(AsInt(x - BufferLength)) = x - BufferLength
  <2>1. ASSUME d > 0 PROVE AsInt(x - BufferLength) = x - BufferLength /\ x - BufferLength >= 0
    BY <1>1, <2>1, Conversions
  <2> QED
    BY <1>1, <2>1 DEF AtLeastZero
<1>5. AsUInt(x) = x
  BY <1>1, Conversions
<1>6. AsInt(d) = d
  <2>1. d <= x
    <3>1. d * BufferLength >= d
      BY <1>1, SMTT(30)
    <3> QED
      BY <3>1 DEF x
  <2> QED
    BY <1>1, <2>1, Conversions
<1> QED
  BY <1>1, <1>2, <1>3, <1>4, <1>5, <1>6 DEF x

-------------------------------------------------------------------------------
(* Slots. *)

LEMMA SlotIs ==
  ASSUME NEW first \in SlotIndex, NEW j \in 0 .. RingLength
  PROVE  Slot(first, j) = IF first + j < RingLength THEN first + j ELSE first + j - RingLength
<1> DEFINE x == first + j
<1>1. /\ x \in Int /\ 0 <= x /\ x < RingLength + RingLength
      /\ RingLength \in Int /\ RingLength > 0
  BY Bounds
<1> HIDE DEF x
<1>2. x % RingLength = IF x < RingLength THEN x ELSE x - RingLength
  BY <1>1, RemainderIs
<1>3. Slot(first, j) = x % RingLength
  BY DEF Slot, x
<1> QED
  BY <1>1, <1>2, <1>3, Bounds DEF x

LEMMA Slots ==
  ASSUME NEW first \in SlotIndex
  PROVE  /\ \A j \in 0 .. RingLength : Slot(first, j) \in SlotIndex
         /\ \A j \in 0 .. RingLength - 1 :
              /\ NextIndex(Slot(first, j)) = Slot(first, j + 1)
              /\ Slot(NextIndex(first), j) = Slot(first, j + 1)
         /\ NextIndex(first) \in SlotIndex
         /\ \A j, k \in 0 .. RingLength - 1 : j # k => Slot(first, j) # Slot(first, k)
         /\ Slot(first, 0) = first /\ Slot(first, RingLength) = first
<1>1. \A j \in 0 .. RingLength :
        Slot(first, j) = IF first + j < RingLength THEN first + j ELSE first + j - RingLength
  BY SlotIs
<1>2. NextIndex(first) \in SlotIndex
  BY Bounds DEF NextIndex
<1>3. \A j \in 0 .. RingLength :
        Slot(NextIndex(first), j) = IF NextIndex(first) + j < RingLength
                                    THEN NextIndex(first) + j
                                    ELSE NextIndex(first) + j - RingLength
  BY <1>2, SlotIs
<1>4. \A j \in 0 .. RingLength : Slot(first, j) \in SlotIndex
  BY <1>1, Bounds
<1>5. \A j \in 0 .. RingLength - 1 :
        /\ NextIndex(Slot(first, j)) = Slot(first, j + 1)
        /\ Slot(NextIndex(first), j) = Slot(first, j + 1)
  BY <1>1, <1>3, Bounds DEF NextIndex
<1>6. \A j, k \in 0 .. RingLength - 1 : j # k => Slot(first, j) # Slot(first, k)
  BY <1>1, Bounds
<1>7. Slot(first, 0) = first /\ Slot(first, RingLength) = first
  BY <1>1, Bounds
<1> QED
  BY <1>2, <1>4, <1>5, <1>6, <1>7

LEMMA OtherSlot ==
  ASSUME NEW first \in SlotIndex, NEW j \in 0 .. RingLength - 1,
         NEW k \in 0 .. RingLength - 1, j # k
  PROVE  Slot(first, j) # Slot(first, k)
BY Slots

-------------------------------------------------------------------------------
(* What the members do to the fields of a ring. *)

LEMMA RingFields ==
  ASSUME NEW r \in RingRecord
  PROVE  /\ r.readIndex \in SlotIndex /\ r.writeIndex \in SlotIndex
         /\ r.processingIndex \in SlotIndex
         /\ r.buffered \in Int /\ r.samplesProcessed \in Int
         /\ r.samplesWritten \in Int /\ r.samplesRemaining \in Int
         /\ r.processedState \in [SlotIndex -> BOOLEAN]
         /\ r.ring \in [SlotIndex -> [SampleIndex -> Int]]
         /\ NextIndex(r.readIndex) \in SlotIndex /\ NextIndex(r.writeIndex) \in SlotIndex
         /\ NextIndex(r.processingIndex) \in SlotIndex
<1>1. /\ r.readIndex \in SlotIndex /\ r.writeIndex \in SlotIndex
      /\ r.processingIndex \in SlotIndex
  BY DEF RingRecord
<1> QED
  BY <1>1, Slots DEF RingRecord, Sample

LEMMA ReadIndexFields ==
  ASSUME NEW r \in RingRecord
  PROVE  LET a == RotateReadIndex(r) IN
         /\ a \in RingRecord
         /\ a.readIndex = NextIndex(r.readIndex)
         /\ a.writeIndex = r.writeIndex /\ a.processingIndex = r.processingIndex
         /\ a.buffered = r.buffered /\ a.samplesProcessed = r.samplesProcessed
         /\ a.samplesWritten = r.samplesWritten /\ a.samplesRemaining = r.samplesRemaining
         /\ a.processedState = r.processedState /\ a.ring = r.ring
BY RingFields DEF RotateReadIndex, RingRecord

LEMMA ProcessingIndexFields ==
  ASSUME NEW r \in RingRecord
  PROVE  LET a == RotateProcessingIndex(r) IN
         /\ a \in RingRecord
         /\ a.processingIndex = NextIndex(r.processingIndex)
         /\ a.writeIndex = r.writeIndex /\ a.readIndex = r.readIndex
         /\ a.buffered = r.buffered /\ a.samplesProcessed = r.samplesProcessed
         /\ a.samplesWritten = r.samplesWritten /\ a.samplesRemaining = r.samplesRemaining
         /\ a.processedState = r.processedState /\ a.ring = r.ring
BY RingFields DEF RotateProcessingIndex, RingRecord

LEMMA MoveReadFields ==
  ASSUME NEW r \in RingRecord
  PROVE  LET a == MoveRead(r) IN
         /\ a \in RingRecord
         /\ a.readIndex = NextIndex(r.readIndex)
         /\ a.writeIndex = r.writeIndex /\ a.processingIndex = r.processingIndex
         /\ a.buffered = AtLeastZero(AsInt(r.buffered - BufferLength))
         /\ a.samplesProcessed = AtLeastZero(AsInt(r.samplesProcessed - BufferLength))
         /\ a.samplesWritten = r.samplesWritten /\ a.samplesRemaining = r.samplesRemaining
         /\ a.processedState = r.processedState /\ a.ring = r.ring
<1> DEFINE a == MoveRead(r)
           b == AtLeastZero(AsInt(r.buffered - BufferLength))
           p == AtLeastZero(AsInt(r.samplesProcessed - BufferLength))
<1>1. b \in Int /\ p \in Int
  <2>1. r.buffered \in Int /\ r.samplesProcessed \in Int
    BY RingFields
  <2> QED
    BY <2>1, CountTypes
<1>2. a = [r EXCEPT !.readIndex = NextIndex(r.readIndex),
                    !.buffered = b, !.samplesProcessed = p]
  BY DEF MoveRead, RotateReadIndex, RingRecord
<1> HIDE DEF a, b, p
<1>3. /\ a \in RingRecord
      /\ a.readIndex = NextIndex(r.readIndex)
      /\ a.writeIndex = r.writeIndex /\ a.processingIndex = r.processingIndex
      /\ a.buffered = b /\ a.samplesProcessed = p
      /\ a.samplesWritten = r.samplesWritten /\ a.samplesRemaining = r.samplesRemaining
      /\ a.processedState = r.processedState /\ a.ring = r.ring
  BY <1>1, <1>2, RingFields DEF RingRecord
<1> QED
  BY <1>3 DEF a, b, p

LEMMA MoveWriteFields ==
  ASSUME NEW r \in RingRecord
  PROVE  LET a == MoveWrite(r)
             w == NextIndex(r.writeIndex)
         IN
         /\ a \in RingRecord
         /\ a.writeIndex = w
         /\ a.readIndex = r.readIndex /\ a.processingIndex = r.processingIndex
         /\ a.buffered = AsInt(r.buffered + BufferLength)
         /\ a.samplesProcessed = r.samplesProcessed
         /\ a.samplesWritten = 0 /\ a.samplesRemaining = BufferLength
         /\ a.processedState = [r.processedState EXCEPT ![w] = FALSE]
         /\ a.ring = r.ring
<1> DEFINE a == MoveWrite(r)
           b == AsInt(r.buffered + BufferLength)
           w == NextIndex(r.writeIndex)
           none == 0
           states == [r.processedState EXCEPT ![w] = FALSE]
<1>1. b \in Int /\ none \in Int /\ BufferLength \in Int
  <2>1. r.buffered \in Int
    BY RingFields
  <2>2. b \in Int
    BY <2>1, CountTypes
  <2> QED
    BY <2>2, Bounds
<1>2. a = [r EXCEPT !.writeIndex = w, !.samplesWritten = none,
                    !.samplesRemaining = BufferLength, !.buffered = b,
                    !.processedState = states]
  BY DEF MoveWrite, RotateWriteIndex, SetBufferProcessed, RingRecord
<1>3. states \in [SlotIndex -> BOOLEAN] /\ w \in SlotIndex
  <2>1. w \in SlotIndex /\ r.processedState \in [SlotIndex -> BOOLEAN]
    BY RingFields
  <2> HIDE DEF w
  <2> QED
    BY <2>1, Zenon
<1> HIDE DEF a, b, w, none, states
<1>4. a \in RingRecord
  BY <1>1, <1>2, <1>3 DEF RingRecord
<1>5. /\ a.writeIndex = w
      /\ a.readIndex = r.readIndex /\ a.processingIndex = r.processingIndex
      /\ a.buffered = b /\ a.samplesProcessed = r.samplesProcessed
      /\ a.samplesWritten = none /\ a.samplesRemaining = BufferLength
      /\ a.processedState = states /\ a.ring = r.ring
  BY <1>2 DEF RingRecord
<1> QED
  BY <1>4, <1>5 DEF a, b, w, none, states

LEMMA ProcessFields ==
  ASSUME NEW r \in RingRecord
  PROVE  LET a == RotateProcessingBuffer(r) IN
         /\ a \in RingRecord
         /\ a.processingIndex = NextIndex(r.processingIndex)
         /\ a.readIndex = r.readIndex /\ a.writeIndex = r.writeIndex
         /\ a.buffered = r.buffered
         /\ a.samplesProcessed = AsInt(r.samplesProcessed + BufferLength)
         /\ a.samplesWritten = r.samplesWritten /\ a.samplesRemaining = r.samplesRemaining
         /\ a.processedState = [r.processedState EXCEPT ![r.processingIndex] = TRUE]
         /\ a.ring = r.ring
<1> DEFINE a == RotateProcessingBuffer(r)
           p == AsInt(r.samplesProcessed + BufferLength)
           states == [r.processedState EXCEPT ![r.processingIndex] = TRUE]
<1>1. p \in Int
  <2>1. r.samplesProcessed \in Int
    BY RingFields
  <2> QED
    BY <2>1, CountTypes
<1>2. a = [r EXCEPT !.processingIndex = NextIndex(r.processingIndex),
                    !.samplesProcessed = p, !.processedState = states]
  BY DEF RotateProcessingBuffer, RotateProcessingIndex, SetBufferProcessed, RingRecord
<1>3. states \in [SlotIndex -> BOOLEAN]
  BY RingFields, Zenon
<1> HIDE DEF a, p, states
<1>4. a \in RingRecord
  BY <1>1, <1>2, <1>3, RingFields DEF RingRecord
<1>5. /\ a.processingIndex = NextIndex(r.processingIndex)
      /\ a.readIndex = r.readIndex /\ a.writeIndex = r.writeIndex
      /\ a.buffered = r.buffered /\ a.samplesProcessed = p
      /\ a.samplesWritten = r.samplesWritten /\ a.samplesRemaining = r.samplesRemaining
      /\ a.processedState = states /\ a.ring = r.ring
  BY <1>2 DEF RingRecord
<1> QED
  BY <1>4, <1>5 DEF a, p, states

-------------------------------------------------------------------------------
(* What a ring holds. *)

LEMMA HeldIs ==
  ASSUME NEW r, NEW d \in 0 .. RingLength, r.buffered = d * BufferLength
  PROVE  HeldBy(r) = d
BY CountValues DEF HeldBy

\* The write cursor leaves a buffer that is full.
LEMMA WriteMoves ==
  ASSUME NEW r \in RingRecord, NEW first \in SlotIndex, NEW behind \in Int,
         HeldBy(r) \in 0 .. RingLength - 1, r.buffered = HeldBy(r) * BufferLength,
         r.writeIndex = Slot(first, HeldBy(r)),
         \A j \in 0 .. HeldBy(r) - 1, k \in SampleIndex :
           r.ring[Slot(first, j)][k] = behind + j * BufferLength + k + 1,
         \A k \in SampleIndex : r.ring[r.writeIndex][k] = behind + r.buffered + k + 1
  PROVE  /\ HoldsFrom(MoveWrite(r), first, behind)
         /\ HeldBy(MoveWrite(r)) = HeldBy(r) + 1
         /\ MoveWrite(r).buffered = r.buffered + BufferLength
<1> DEFINE a == MoveWrite(r)
           d == HeldBy(r)
<1>1. /\ a.writeIndex = NextIndex(r.writeIndex) /\ a.ring = r.ring
      /\ a.buffered = AsInt(r.buffered + BufferLength)
      /\ a.samplesWritten = 0 /\ a.samplesRemaining = BufferLength
  BY MoveWriteFields
<1> HIDE DEF a, d
<1>2. /\ d \in 0 .. RingLength /\ d < RingLength /\ r.buffered = d * BufferLength /\ d \in Int
      /\ d + 1 \in 0 .. RingLength /\ d \in 0 .. RingLength - 1
      /\ r.writeIndex = Slot(first, d)
  BY Bounds DEF d
<1>3. a.buffered = (d + 1) * BufferLength /\ a.buffered = r.buffered + BufferLength
  BY <1>1, <1>2, CountValues, Multiples
<1>4. HeldBy(a) = d + 1
  BY <1>2, <1>3, HeldIs
<1>5. a.writeIndex = Slot(first, d + 1)
  <2>1. \A j \in 0 .. RingLength - 1 : NextIndex(Slot(first, j)) = Slot(first, j + 1)
    BY Slots
  <2>2. NextIndex(Slot(first, d)) = Slot(first, d + 1)
    BY <1>2, <2>1
  <2> QED
    BY <1>1, <1>2, <2>2
<1>6. 0 \in SampleIndex /\ BufferLength = BufferLength - 0
  BY Bounds
<1>7. ASSUME NEW j \in 0 .. d, NEW k \in SampleIndex
      PROVE  a.ring[Slot(first, j)][k] = behind + j * BufferLength + k + 1
  <2>1. CASE j = d
    BY <1>1, <1>2, <2>1 DEF d
  <2>2. CASE j # d
    <3>1. j \in 0 .. d - 1
      BY <1>2, <2>2
    <3> QED
      BY <1>1, <3>1 DEF d
  <2> QED
    BY <2>1, <2>2
<1>8. HoldsFrom(a, first, behind)
  <2>1. (d + 1) - 1 = d /\ 0 .. 0 - 1 = {}
    BY <1>2
  <2> QED
    BY <1>1, <1>2, <1>3, <1>4, <1>5, <1>6, <1>7, <2>1 DEF HoldsFrom
<1> QED
  BY <1>3, <1>4, <1>8 DEF a, d

\* The read cursor leaves a buffer that was read.
LEMMA ReadMoves ==
  ASSUME NEW r \in RingRecord, NEW first \in SlotIndex, NEW behind \in Int,
         HoldsFrom(r, first, behind), HeldBy(r) > 0
  PROVE  /\ HoldsFrom(MoveRead(r), NextIndex(first), behind + BufferLength)
         /\ HeldBy(MoveRead(r)) = HeldBy(r) - 1
         /\ MoveRead(r).buffered = r.buffered - BufferLength
<1> DEFINE a == MoveRead(r)
           d == HeldBy(r)
           next == NextIndex(first)
<1>1. /\ a.writeIndex = r.writeIndex /\ a.ring = r.ring
      /\ a.buffered = AtLeastZero(AsInt(r.buffered - BufferLength))
      /\ a.samplesWritten = r.samplesWritten /\ a.samplesRemaining = r.samplesRemaining
  BY MoveReadFields
<1>2. r.samplesWritten \in Int /\ next \in SlotIndex
  BY RingFields, Slots
<1>3. /\ d \in 0 .. RingLength /\ d > 0 /\ r.buffered = d * BufferLength /\ d \in Int
      /\ d - 1 \in 0 .. RingLength /\ d - 1 \in 0 .. RingLength - 1
      /\ r.samplesWritten \in SampleIndex
      /\ r.samplesRemaining = BufferLength - r.samplesWritten
      /\ r.writeIndex = Slot(first, d)
      /\ \A j \in 0 .. d - 1, k \in SampleIndex :
           r.ring[Slot(first, j)][k] = behind + j * BufferLength + k + 1
      /\ \A k \in 0 .. r.samplesWritten - 1 :
           r.ring[r.writeIndex][k] = behind + r.buffered + k + 1
  BY Bounds DEF HoldsFrom
<1> HIDE DEF a, d, next
<1>4. a.buffered = (d - 1) * BufferLength /\ a.buffered = r.buffered - BufferLength
  BY <1>1, <1>3, CountValues, Multiples
<1>5. HeldBy(a) = d - 1
  BY <1>3, <1>4, HeldIs
<1>6. \A j \in 0 .. RingLength - 1 : Slot(next, j) = Slot(first, j + 1)
  BY <1>2, Slots DEF next
<1>7. a.writeIndex = Slot(next, d - 1)
  BY <1>1, <1>3, <1>6
<1>8. ASSUME NEW j \in 0 .. d - 2, NEW k \in SampleIndex
      PROVE  a.ring[Slot(next, j)][k] = (behind + BufferLength) + j * BufferLength + k + 1
  <2>1. j + 1 \in 0 .. d - 1 /\ j \in 0 .. RingLength - 1 /\ j \in Int /\ k \in Int
    BY <1>3, Bounds
  <2>2. a.ring[Slot(next, j)][k] = behind + (j + 1) * BufferLength + k + 1
    BY <1>1, <1>3, <1>6, <2>1
  <2>3. (j + 1) * BufferLength = j * BufferLength + BufferLength /\ j * BufferLength \in Int
    BY <2>1, Multiples
  <2> QED
    BY <2>1, <2>2, <2>3, Bounds
<1>9. ASSUME NEW k \in 0 .. r.samplesWritten - 1
      PROVE  a.ring[a.writeIndex][k] = (behind + BufferLength) + a.buffered + k + 1
  <2>1. r.buffered \in Int
    BY RingFields
  <2> QED
    BY <1>1, <1>2, <1>3, <1>4, <2>1, Bounds
<1>10. HoldsFrom(a, next, behind + BufferLength)
  <2>1. (d - 1) - 1 = d - 2 /\ d - 1 # RingLength
    BY <1>3, Bounds
  <2> QED
    BY <1>1, <1>3, <1>4, <1>5, <1>7, <1>8, <1>9, <2>1 DEF HoldsFrom
<1> QED
  BY <1>4, <1>5, <1>10 DEF a, d, next

-------------------------------------------------------------------------------
(* write(): its passes, one after the other. *)

Passes == 1 .. MaxPasses

LEMMA PassCount ==
  MaxPasses \in Nat /\ MaxPasses <= RingLength
BY Bounds DEF MaxPasses

LEMMA MaxOfPasses ==
  ASSUME NEW s \in SUBSET Passes, s # {}
  PROVE  Max(s) \in s
<1> DEFINE T == {MaxPasses - x : x \in s}
<1>1. \A x \in s : x \in Nat /\ x <= MaxPasses /\ MaxPasses - x \in Nat
  BY PassCount DEF Passes
<1>2. T \subseteq Nat /\ T # {}
  BY <1>1
<1>3. PICK n \in T : \A m \in T : n <= m
  <2> HIDE DEF T
  <2> QED
    BY <1>2, LeastNatural
<1>4. PICK x \in s : n = MaxPasses - x
  OBVIOUS
<1>5. \A y \in s : x >= y
  <2> TAKE y \in s
  <2>1. MaxPasses - x <= MaxPasses - y
    BY <1>3, <1>4
  <2> QED
    BY <1>1, <2>1, PassCount
<1>6. \E z \in s : \A y \in s : z >= y
  BY <1>5
<1> QED
  BY <1>6 DEF Max

\* What every pass keeps holds of the result, which is that of a pass.
LEMMA FoldOfPasses ==
  ASSUME NEW A, NEW base \in A, \A acc \in A, k \in Passes : Pass(acc, k) \in A
  PROVE  LET result == FoldLeft(Pass, base, [i \in 1 .. MaxPasses |-> i]) IN
           \/ MaxPasses = 0 /\ result = base
           \/ \E acc \in A, k \in Passes : result = Pass(acc, k)
<1> DEFINE seq == [i \in 1 .. MaxPasses |-> i]
           Eq(g) == g = [s \in SUBSET Passes |->
                      IF s = {} THEN base ELSE Pass(g[s \ {Max(s)}], seq[Max(s)])]
           first == [s \in SUBSET Passes |-> Max(s)]
           op == [p \in Passes \X A |-> Pass(p[2], p[1])]
<1>1. IsFiniteSet(Passes) /\ (Passes = {} => MaxPasses = 0) /\ DOMAIN seq = Passes
      /\ \A k \in Passes : seq[k] = k
  <2>1. MaxPasses \in Int /\ 1 \in Int /\ MaxPasses >= 0
    BY PassCount
  <2>2. IsFiniteSet(Passes)
    BY <2>1, FS_Interval DEF Passes
  <2>3. Passes = {} => MaxPasses = 0
    <3>1. MaxPasses > 0 => 1 \in Passes
      BY <2>1 DEF Passes
    <3> QED
      BY <2>1, <3>1
  <2>4. seq = [i \in Passes |-> i]
    BY DEF Passes
  <2> HIDE DEF seq
  <2> QED
    BY <2>2, <2>3, <2>4
<1>2. FoldLeft(Pass, base, seq) = (CHOOSE g : Eq(g))[DOMAIN seq]
  <2>1. DOMAIN seq = Passes
    BY <1>1
  <2> HIDE DEF seq
  <2> QED
    BY <2>1 DEF FoldLeft, MapThenFoldSet
<1> HIDE DEF seq
<1>3. \A s \in SUBSET Passes : s # {} =>
        Max(s) \in s /\ seq[Max(s)] = Max(s) /\ Max(s) \in Passes
  BY <1>1, MaxOfPasses
<1>4. PICK g \in [SUBSET Passes -> A] : Recursion(g, Passes, base, op, first)
  <2>1. op \in [Passes \X A -> A]
    OBVIOUS
  <2>2. Chooses(first, Passes)
    BY <1>3 DEF Chooses
  <2> HIDE DEF op, first
  <2> QED
    BY <1>1, <2>1, <2>2, RecursionExists
<1>5. Eq(g)
  <2>1. ASSUME NEW s \in SUBSET Passes, s # {}
        PROVE  op[<<first[s], g[s \ {first[s]}]>>] = Pass(g[s \ {Max(s)}], seq[Max(s)])
    <3>1. first[s] = Max(s) /\ Max(s) \in Passes /\ seq[Max(s)] = Max(s)
      BY <1>3, <2>1
    <3>2. g[s \ {Max(s)}] \in A
      OBVIOUS
    <3>3. \A k \in Passes, acc \in A : op[<<k, acc>>] = Pass(acc, k)
      OBVIOUS
    <3> HIDE DEF op, first
    <3> QED
      BY <3>1, <3>2, <3>3
  <2>2. \A s \in SUBSET Passes :
          g[s] = IF s = {} THEN base ELSE Pass(g[s \ {Max(s)}], seq[Max(s)])
    <3> HIDE DEF op, first
    <3> QED
      BY <1>4, <2>1 DEF Recursion
  <2> QED
    BY <2>2
<1> DEFINE h == CHOOSE g_1 : Eq(g_1)
<1>6. Eq(h)
  BY <1>5
<1>7. \A s \in SUBSET Passes :
        h[s] = IF s = {} THEN base ELSE Pass(h[s \ {Max(s)}], seq[Max(s)])
  BY <1>6
<1> HIDE DEF h, Eq
<1> DEFINE Sizes == {n \in Nat : \A s \in SUBSET Passes : Cardinality(s) = n => h[s] \in A}
<1>8. \A s \in SUBSET Passes : IsFiniteSet(s) /\ Cardinality(s) \in Nat
  BY <1>1, FS_Subset, FS_CardinalityType
<1>9. 0 \in Sizes
  BY <1>7, <1>8, FS_EmptySet
<1>10. ASSUME NEW n \in Nat, n \in Sizes PROVE n + 1 \in Sizes
  <2>1. ASSUME NEW s \in SUBSET Passes, Cardinality(s) = n + 1 PROVE h[s] \in A
    <3>1. s # {}
      <4>1. Cardinality({}) = 0
        BY FS_EmptySet
      <4> QED
        BY <2>1, <4>1
    <3> DEFINE x == Max(s)
    <3>2. x \in s /\ x \in Passes /\ seq[x] = x
      BY <1>3, <3>1
    <3>3. h[s] = Pass(h[s \ {x}], x)
      BY <1>7, <3>1, <3>2
    <3> HIDE DEF x
    <3>4. Cardinality(s \ {x}) = Cardinality(s) - 1
      BY <1>8, <3>2, OneLess
    <3>5. Cardinality(s \ {x}) = n
      BY <2>1, <3>4
    <3>6. h[s \ {x}] \in A
      BY <1>10, <3>5
    <3> QED
      BY <3>2, <3>3, <3>6
  <2> QED
    BY <2>1
<1>11. Nat \subseteq Sizes
  <2> HIDE DEF Sizes
  <2> QED
    BY <1>9, <1>10, AllSizes
<1>12. \A s \in SUBSET Passes : h[s] \in A
  BY <1>8, <1>11
<1>13. IF Passes = {} THEN h[Passes] = base
       ELSE h[Passes] = Pass(h[Passes \ {Max(Passes)}], Max(Passes)) /\ Max(Passes) \in Passes
  BY <1>1, <1>3, <1>7
<1>14. FoldLeft(Pass, base, seq) = h[Passes]
  BY <1>1, <1>2 DEF h
<1> HIDE DEF Sizes
<1>15. ASSUME Passes = {} PROVE MaxPasses = 0 /\ FoldLeft(Pass, base, seq) = base
  BY <1>1, <1>13, <1>14, <1>15
<1>16. ASSUME Passes # {}
       PROVE  \E acc \in A, k \in Passes : FoldLeft(Pass, base, seq) = Pass(acc, k)
  <2> DEFINE k == Max(Passes)
  <2>1. h[Passes \ {k}] \in A
    BY <1>12
  <2>2. k \in Passes /\ FoldLeft(Pass, base, seq) = Pass(h[Passes \ {k}], k)
    BY <1>13, <1>14, <1>16
  <2> QED
    BY <2>1, <2>2
<1> QED
  BY <1>15, <1>16 DEF seq

-------------------------------------------------------------------------------
(* What one pass writes. *)

LEMMA StoreFields ==
  ASSUME NEW r \in RingRecord, NEW data \in Seq(Int),
         r.samplesWritten \in SampleIndex, r.samplesRemaining = BufferLength - r.samplesWritten
  PROVE  LET a == Store(r, data)
             n == Fits(r, data)
         IN
         /\ a \in RingRecord
         /\ n \in 0 .. Len(data) /\ n <= r.samplesRemaining /\ n \in Int
         /\ data # <<>> => n > 0
         /\ a.readIndex = r.readIndex /\ a.writeIndex = r.writeIndex
         /\ a.processingIndex = r.processingIndex
         /\ a.buffered = r.buffered /\ a.samplesProcessed = r.samplesProcessed
         /\ a.processedState = r.processedState
         /\ a.samplesWritten = r.samplesWritten + n
         /\ a.samplesRemaining = r.samplesRemaining - n
         /\ \A i \in SlotIndex : i # r.writeIndex => a.ring[i] = r.ring[i]
         /\ \A k \in SampleIndex : a.ring[r.writeIndex][k] =
              IF k - r.samplesWritten \in 0 .. n - 1
              THEN data[k - r.samplesWritten + 1] ELSE r.ring[r.writeIndex][k]
<1> DEFINE a == Store(r, data)
           n == Fits(r, data)
           w == r.writeIndex
           m == r.samplesWritten
           cells == [j \in SampleIndex |-> IF j - m \in 0 .. n - 1
                                           THEN data[j - m + 1] ELSE r.ring[w][j]]
           slots == [r.ring EXCEPT ![w] = cells]
           more == r.samplesWritten + n
           less == r.samplesRemaining - n
<1>1. /\ w \in SlotIndex /\ m \in Int /\ 0 <= m /\ m < BufferLength /\ r.samplesRemaining \in Int
      /\ r.samplesRemaining > 0 /\ r.ring \in [SlotIndex -> [SampleIndex -> Int]]
      /\ Len(data) \in Nat
  <2>1. /\ w \in SlotIndex /\ r.samplesRemaining \in Int
        /\ r.ring \in [SlotIndex -> [SampleIndex -> Int]]
    BY RingFields
  <2>2. m \in Int /\ 0 <= m /\ m < BufferLength /\ BufferLength \in Int
    BY Bounds
  <2>3. r.samplesRemaining > 0
    BY <2>2
  <2> QED
    BY <2>1, <2>2, <2>3
<1>2. n \in Int /\ n \in 0 .. Len(data) /\ n <= r.samplesRemaining /\ (Len(data) > 0 => n > 0)
  BY <1>1 DEF Fits
<1>3. data # <<>> => Len(data) > 0
  BY <1>1, EmptySeq
<1>4. a = [r EXCEPT !.ring = slots, !.samplesWritten = more, !.samplesRemaining = less]
  BY DEF Store, RingRecord
<1>5. more \in Int /\ less \in Int
  BY <1>1, <1>2
<1>6. cells \in [SampleIndex -> Int]
  <2>1. ASSUME NEW j \in SampleIndex, j - m \in 0 .. n - 1
        PROVE  data[j - m + 1] \in Int
    <3>1. j - m + 1 \in 1 .. Len(data)
      <4>1. j \in Int
        BY Bounds
      <4> HIDE DEF n, m
      <4> QED
        BY <1>1, <1>2, <2>1, <4>1
    <3> QED
      BY <3>1
  <2>2. \A j \in SampleIndex : r.ring[w][j] \in Int
    BY <1>1
  <2> HIDE DEF n
  <2> QED
    BY <2>1, <2>2
<1>7. slots \in [SlotIndex -> [SampleIndex -> Int]] /\ slots[w] = cells
      /\ \A i \in SlotIndex : i # w => slots[i] = r.ring[i]
  <2> HIDE DEF cells, w
  <2> QED
    BY <1>1, <1>6
<1>8. \A k \in SampleIndex : cells[k] =
              IF k - m \in 0 .. n - 1 THEN data[k - m + 1] ELSE r.ring[w][k]
  BY DEF cells
<1> HIDE DEF a, n, cells, slots, more, less
<1>9. a \in RingRecord
  BY <1>4, <1>5, <1>7 DEF RingRecord, Sample
<1>10. /\ a.readIndex = r.readIndex /\ a.writeIndex = r.writeIndex
       /\ a.processingIndex = r.processingIndex
       /\ a.buffered = r.buffered /\ a.samplesProcessed = r.samplesProcessed
       /\ a.processedState = r.processedState
       /\ a.samplesWritten = more /\ a.samplesRemaining = less /\ a.ring = slots
  BY <1>4 DEF RingRecord
<1> QED
  BY <1>2, <1>3, <1>7, <1>8, <1>9, <1>10 DEF a, n, more, less

LastOf(r, behind) == behind + r.buffered + r.samplesWritten

\* Storing keeps the samples in order, up to a buffer that is full.
LEMMA StoreKeeps ==
  ASSUME NEW r \in RingRecord, NEW data \in Seq(Int), NEW first \in SlotIndex,
         NEW behind \in Int, HoldsFrom(r, first, behind), HeldBy(r) < RingLength,
         \A q \in 1 .. Len(data) : data[q] = LastOf(r, behind) + q
  PROVE  LET a == Store(r, data) IN
         /\ HeldBy(a) = HeldBy(r)
         /\ LastOf(a, behind) = LastOf(r, behind) + Fits(r, data)
         /\ a.samplesRemaining > 0 => HoldsFrom(a, first, behind)
         /\ \A j \in 0 .. HeldBy(r) - 1, k \in SampleIndex :
              a.ring[Slot(first, j)][k] = behind + j * BufferLength + k + 1
         /\ \A k \in 0 .. a.samplesWritten - 1 :
              a.ring[a.writeIndex][k] = behind + a.buffered + k + 1
         /\ a.samplesWritten + a.samplesRemaining = BufferLength
         /\ a.samplesWritten >= 0 /\ a.samplesRemaining >= 0
<1> DEFINE a == Store(r, data)
           n == Fits(r, data)
           m == r.samplesWritten
           w == r.writeIndex
           d == HeldBy(r)
<1>1. /\ m \in SampleIndex /\ r.samplesRemaining = BufferLength - m
      /\ d \in 0 .. RingLength /\ r.buffered = d * BufferLength
      /\ w = Slot(first, d)
      /\ \A j \in 0 .. d - 1, k \in SampleIndex :
           r.ring[Slot(first, j)][k] = behind + j * BufferLength + k + 1
      /\ \A k \in 0 .. m - 1 : r.ring[w][k] = behind + r.buffered + k + 1
  BY DEF HoldsFrom
<1>2. /\ n \in 0 .. Len(data) /\ n <= r.samplesRemaining /\ n \in Int
      /\ a.writeIndex = w /\ a.buffered = r.buffered
      /\ a.samplesWritten = m + n /\ a.samplesRemaining = r.samplesRemaining - n
      /\ \A i \in SlotIndex : i # w => a.ring[i] = r.ring[i]
      /\ \A k \in SampleIndex : a.ring[w][k] =
           IF k - m \in 0 .. n - 1 THEN data[k - m + 1] ELSE r.ring[w][k]
  BY <1>1, StoreFields
<1>3. /\ m \in Int /\ 0 <= m /\ m < BufferLength /\ BufferLength \in Int
      /\ d \in Int /\ r.buffered \in Int /\ Len(data) \in Nat /\ RingLength \in Int
      /\ d < RingLength /\ 0 <= d
  <2>1. m \in Int /\ 0 <= m /\ m < BufferLength /\ BufferLength \in Int /\ RingLength \in Int
    BY <1>1, Bounds
  <2>2. r.buffered \in Int
    BY RingFields
  <2>3. d \in Int /\ Len(data) \in Nat /\ 0 <= d
    BY <1>1
  <2> QED
    BY <2>1, <2>2, <2>3
<1>4. LastOf(r, behind) = behind + r.buffered + m
  BY DEF LastOf
<1> HIDE DEF a, n, m, w, d
<1>5. HeldBy(a) = d
  BY <1>1, <1>2, HeldIs
<1>6. LastOf(a, behind) = LastOf(r, behind) + n
  BY <1>2, <1>3, <1>4 DEF LastOf
<1>7. ASSUME NEW j \in 0 .. d - 1, NEW k \in SampleIndex
      PROVE  a.ring[Slot(first, j)][k] = behind + j * BufferLength + k + 1
  <2>1. j \in 0 .. RingLength - 1 /\ d \in 0 .. RingLength - 1 /\ j # d /\ j \in 0 .. RingLength
    BY <1>3
  <2>2. Slot(first, j) # Slot(first, d)
    BY <2>1, OtherSlot
  <2>3. Slot(first, j) \in SlotIndex
    BY <2>1, Slots
  <2> QED
    BY <1>1, <1>2, <2>2, <2>3
<1>8. ASSUME NEW k \in 0 .. a.samplesWritten - 1
      PROVE  a.ring[a.writeIndex][k] = behind + a.buffered + k + 1
  <2>1. k \in Int /\ 0 <= k /\ k < m + n /\ k < BufferLength /\ k \in SampleIndex
    BY <1>1, <1>2, <1>3, Bounds
  <2>2. CASE k < m
    <3>1. k - m \notin 0 .. n - 1 /\ k \in 0 .. m - 1
      BY <1>2, <1>3, <2>1, <2>2
    <3> QED
      BY <1>1, <1>2, <2>1, <3>1
  <2>3. CASE k >= m
    <3>1. k - m \in 0 .. n - 1 /\ k - m + 1 \in 1 .. Len(data)
      BY <1>2, <1>3, <2>1, <2>3
    <3>2. data[k - m + 1] = LastOf(r, behind) + (k - m + 1)
      BY <3>1
    <3>3. a.ring[a.writeIndex][k] = data[k - m + 1]
      BY <1>2, <2>1, <3>1
    <3> QED
      BY <1>2, <1>3, <1>4, <2>1, <3>2, <3>3
  <2> QED
    BY <1>3, <2>1, <2>2, <2>3
<1>9. /\ a.samplesWritten + a.samplesRemaining = BufferLength
      /\ a.samplesWritten >= 0 /\ a.samplesRemaining >= 0
      /\ a.samplesWritten \in Int /\ a.samplesRemaining \in Int
  BY <1>1, <1>2, <1>3
<1>10. a.samplesRemaining > 0 => HoldsFrom(a, first, behind)
  <2>1. ASSUME a.samplesRemaining > 0
        PROVE  /\ a.samplesWritten \in SampleIndex
               /\ a.samplesRemaining = BufferLength - a.samplesWritten
    BY <1>3, <1>9, <2>1, Bounds
  <2>2. d # RingLength
    BY <1>3
  <2> QED
    BY <1>1, <1>2, <1>5, <1>7, <1>8, <2>1, <2>2 DEF HoldsFrom
<1> QED
  BY <1>5, <1>6, <1>7, <1>8, <1>9, <1>10 DEF a, n, d

\* What write() of the samples up to number "total" to the ring r keeps.
Kept(acc, r, first, behind, total) ==
  /\ acc.ring \in RingRecord /\ acc.left \in Seq(Int)
  /\ HoldsFrom(acc.ring, first, behind)
  /\ first # r.readIndex => HeldBy(acc.ring) < RingLength
  /\ acc.ring.readIndex = r.readIndex
  /\ acc.ring.processingIndex = r.processingIndex
  /\ acc.ring.samplesProcessed = r.samplesProcessed
  /\ Len(acc.left) = total - LastOf(acc.ring, behind)
  /\ LastOf(acc.ring, behind) >= LastOf(r, behind)
  /\ \A q \in 1 .. Len(acc.left) : acc.left[q] = LastOf(acc.ring, behind) + q
  /\ FlagsFollow(r, first) =>
       FlagsFollow(acc.ring, first) \/ HeldBy(acc.ring) = RingLength

\* A ring that can be written has a free buffer, two if the one never written is one.
LEMMA WritableMeans ==
  ASSUME NEW r \in RingRecord, NEW first \in {r.readIndex, NextIndex(r.readIndex)},
         NEW behind \in Int, HoldsFrom(r, first, behind),
         first # r.readIndex => HeldBy(r) < RingLength
  PROVE  /\ first \in SlotIndex
         /\ first = r.readIndex =>
              (IsWritable(r) <=> HeldBy(r) \in 1 .. RingLength - 1)
         /\ first # r.readIndex =>
              (IsWritable(r) <=> HeldBy(r) \in 0 .. RingLength - 2)
<1> DEFINE d == HeldBy(r)
<1>1. /\ r.readIndex \in SlotIndex /\ NextIndex(r.readIndex) \in SlotIndex
      /\ d \in 0 .. RingLength /\ r.writeIndex = Slot(first, d)
  BY RingFields DEF HoldsFrom
<1>2. first \in SlotIndex
  BY <1>1
<1> HIDE DEF d
<1>3. CASE first = r.readIndex
  <2>1. Slot(first, 0) = first /\ Slot(first, RingLength) = first
    BY <1>2, Slots
  <2>2. ASSUME d \in 1 .. RingLength - 1 PROVE Slot(first, d) # first
    <3>1. d \in 0 .. RingLength - 1 /\ 0 \in 0 .. RingLength - 1 /\ d # 0
      BY <2>2, Bounds
    <3> QED
      BY <1>2, <2>1, <3>1, Slots
  <2>3. d = 0 \/ d = RingLength \/ d \in 1 .. RingLength - 1
    BY <1>1, Bounds
  <2>4. ~ (0 \in 1 .. RingLength - 1) /\ ~ (RingLength \in 1 .. RingLength - 1)
    BY Bounds
  <2> QED
    BY <1>1, <1>2, <1>3, <2>1, <2>2, <2>3, <2>4 DEF IsWritable, d
<1>4. CASE first # r.readIndex
  <2>1. first = NextIndex(r.readIndex)
    BY <1>4
  <2>2. Slot(r.readIndex, 0) = r.readIndex /\ Slot(r.readIndex, RingLength) = r.readIndex
    BY <1>1, Slots
  <2>3. \A j \in 0 .. RingLength - 1 : Slot(first, j) = Slot(r.readIndex, j + 1)
    BY <1>1, <2>1, Slots
  <2>4. d \in 0 .. RingLength - 1 /\ RingLength - 1 \in 0 .. RingLength - 1
        /\ (RingLength - 1) + 1 = RingLength
    BY <1>1, <1>4, Bounds DEF d
  <2>5. Slot(first, RingLength - 1) = r.readIndex
    BY <2>2, <2>3, <2>4
  <2>6. ASSUME d # RingLength - 1 PROVE Slot(first, d) # r.readIndex
    BY <1>2, <2>4, <2>5, <2>6, OtherSlot
  <2>7. d \in 0 .. RingLength - 2 <=> d # RingLength - 1
    BY <2>4, Bounds
  <2> QED
    BY <1>1, <1>2, <1>4, <2>5, <2>6, <2>7 DEF IsWritable, d
<1> QED
  BY <1>3, <1>4

\* A write leaves the flags of the buffers held, unless the ring gets full.
LEMMA FlagsKept ==
  ASSUME NEW r \in RingRecord, NEW first \in SlotIndex, NEW behind \in Int,
         HoldsFrom(r, first, behind), FlagsFollow(r, first),
         NEW a \in RingRecord, HeldBy(a) = HeldBy(r) + 1, HeldBy(a) < RingLength,
         a.samplesProcessed = r.samplesProcessed,
         a.processedState = [r.processedState EXCEPT ![NextIndex(r.writeIndex)] = FALSE]
  PROVE  FlagsFollow(a, first)
<1> DEFINE d == HeldBy(r)
           p == ProcessedOf(r)
           w == NextIndex(r.writeIndex)
<1>1. /\ d \in 0 .. RingLength /\ p \in 0 .. d /\ r.samplesProcessed = p * BufferLength
      /\ \A j \in 0 .. d : r.processedState[Slot(first, j)] <=> j < p
      /\ r.writeIndex = Slot(first, d) /\ d + 1 < RingLength
  BY DEF HoldsFrom, FlagsFollow
<1>2. ProcessedOf(a) = p
  BY DEF ProcessedOf
<1>3. r.processedState \in [SlotIndex -> BOOLEAN]
  BY RingFields
<1>8. a.processedState = [r.processedState EXCEPT ![w] = FALSE]
  OBVIOUS
<1> HIDE DEF d, p
<1>4. /\ d \in Int /\ p \in Int /\ p <= d /\ RingLength \in Int /\ 0 <= d
      /\ d \in 0 .. RingLength - 1 /\ d + 1 \in 0 .. RingLength - 1
  BY <1>1, Bounds
<1>5. w = Slot(first, d + 1)
  BY <1>1, <1>4, Slots
<1>6. ASSUME NEW j \in 0 .. d + 1
      PROVE  a.processedState[Slot(first, j)] <=> j < p
  <2>1. j \in 0 .. RingLength - 1 /\ j \in 0 .. RingLength
    BY <1>4
  <2>2. Slot(first, j) \in SlotIndex
    BY <2>1, Slots
  <2>3. CASE j = d + 1
    <3>1. ~ (j < p)
      BY <1>4, <2>3
    <3>2. a.processedState[w] = FALSE
      <4>1. w \in SlotIndex
        BY <1>5, <2>2, <2>3
      <4> HIDE DEF w
      <4> QED
        BY <1>3, <1>8, <4>1
    <3> QED
      BY <1>5, <2>3, <3>1, <3>2
  <2>4. CASE j # d + 1
    <3>1. j \in 0 .. d
      BY <1>4, <2>4
    <3>2. Slot(first, j) # w
      BY <1>4, <1>5, <2>1, <2>4, OtherSlot
    <3>3. a.processedState[Slot(first, j)] = r.processedState[Slot(first, j)]
      <4> HIDE DEF w
      <4> QED
        BY <1>3, <1>8, <2>2, <3>2
    <3> QED
      BY <1>1, <3>1, <3>3
  <2> QED
    BY <2>3, <2>4
<1>7. HeldBy(a) = d + 1 /\ p \in 0 .. d + 1 /\ a.samplesProcessed = p * BufferLength
  BY <1>1, <1>4 DEF d
<1> QED
  BY <1>2, <1>6, <1>7 DEF FlagsFollow

LEMMA WriteOnKeeps ==
  ASSUME NEW r \in RingRecord, NEW first \in {r.readIndex, NextIndex(r.readIndex)},
         NEW behind \in Int, NEW total \in Int,
         NEW acc, Kept(acc, r, first, behind, total),
         acc.left # <<>>, IsWritable(acc.ring)
  PROVE  /\ Kept(WriteOn(acc), r, first, behind, total)
         /\ LastOf(WriteOn(acc).ring, behind) > LastOf(acc.ring, behind)
<1> DEFINE old == acc.ring
           data == acc.left
           n == Fits(old, data)
           stored == Store(old, data)
           new == IF stored.samplesRemaining <= 0 THEN MoveWrite(stored) ELSE stored
           rest == SubSeq(data, n + 1, Len(data))
           last == LastOf(old, behind)
<1>1. WriteOn(acc).ring = new /\ WriteOn(acc).left = rest
  BY DEF WriteOn
<1>2. /\ old \in RingRecord /\ data \in Seq(Int) /\ HoldsFrom(old, first, behind)
      /\ first # r.readIndex => HeldBy(old) < RingLength
      /\ old.readIndex = r.readIndex /\ old.processingIndex = r.processingIndex
      /\ old.samplesProcessed = r.samplesProcessed
      /\ Len(data) = total - last /\ last >= LastOf(r, behind)
      /\ \A q \in 1 .. Len(data) : data[q] = last + q
      /\ FlagsFollow(r, first) => FlagsFollow(old, first) \/ HeldBy(old) = RingLength
      /\ data # <<>> /\ IsWritable(old)
  BY DEF Kept
<1> HIDE DEF old, data
<1>3. /\ first \in SlotIndex /\ HeldBy(old) \in 0 .. RingLength - 1
      /\ first # r.readIndex => HeldBy(old) + 1 < RingLength
      /\ HeldBy(old) \in Int /\ RingLength \in Int
  <2>1. /\ first \in SlotIndex
        /\ first = old.readIndex =>
             (IsWritable(old) <=> HeldBy(old) \in 1 .. RingLength - 1)
        /\ first # old.readIndex =>
             (IsWritable(old) <=> HeldBy(old) \in 0 .. RingLength - 2)
    BY <1>2, WritableMeans
  <2> QED
    BY <1>2, <2>1, Bounds
<1>4. /\ old.samplesWritten \in SampleIndex
      /\ old.samplesRemaining = BufferLength - old.samplesWritten
      /\ old.buffered = HeldBy(old) * BufferLength
      /\ old.writeIndex = Slot(first, HeldBy(old))
      /\ last \in Int
  <2>1. old.buffered \in Int /\ old.samplesWritten \in Int
    BY <1>2, RingFields
  <2> QED
    BY <1>2, <2>1 DEF HoldsFrom, LastOf
<1>5. /\ stored \in RingRecord
      /\ n \in 0 .. Len(data) /\ n \in Int /\ n > 0
      /\ stored.readIndex = old.readIndex /\ stored.writeIndex = old.writeIndex
      /\ stored.processingIndex = old.processingIndex
      /\ stored.buffered = old.buffered /\ stored.samplesProcessed = old.samplesProcessed
      /\ stored.processedState = old.processedState
  BY <1>2, <1>4, StoreFields
<1>6. /\ HeldBy(stored) = HeldBy(old)
      /\ LastOf(stored, behind) = last + n
      /\ stored.samplesRemaining > 0 => HoldsFrom(stored, first, behind)
      /\ \A j \in 0 .. HeldBy(old) - 1, k \in SampleIndex :
           stored.ring[Slot(first, j)][k] = behind + j * BufferLength + k + 1
      /\ \A k \in 0 .. stored.samplesWritten - 1 :
           stored.ring[stored.writeIndex][k] = behind + stored.buffered + k + 1
      /\ stored.samplesWritten + stored.samplesRemaining = BufferLength
      /\ stored.samplesWritten >= 0 /\ stored.samplesRemaining >= 0
  <2>1. HeldBy(old) < RingLength
    BY <1>3
  <2> QED
    BY <1>2, <1>3, <2>1, StoreKeeps
<1>7. /\ rest \in Seq(Int) /\ Len(rest) = Len(data) - n
      /\ \A q \in 1 .. Len(rest) : rest[q] = last + n + q
  <2>1. Len(data) \in Nat /\ n + 1 \in Int /\ \A i \in n + 1 .. Len(data) : data[i] \in Int
    BY <1>2, <1>5
  <2>2. /\ rest \in Seq(Int)
        /\ Len(rest) = IF n + 1 <= Len(data) THEN Len(data) - (n + 1) + 1 ELSE 0
        /\ \A q \in 1 .. Len(data) - (n + 1) + 1 : rest[q] = data[n + 1 + q - 1]
    BY <2>1, SubSeqProperties
  <2> HIDE DEF rest, n, last
  <2>3. Len(rest) = Len(data) - n
    BY <1>5, <2>1, <2>2
  <2>4. ASSUME NEW q \in 1 .. Len(rest) PROVE rest[q] = last + n + q
    <3>0. n \in Int /\ n > 0 /\ Len(data) \in Int
      BY <1>5, <2>1
    <3>1. n + q \in 1 .. Len(data) /\ n + 1 + q - 1 = n + q /\ q \in 1 .. Len(data) - (n + 1) + 1
      <4> DEFINE all == Len(data)
      <4>1. q \in 1 .. all - n /\ all \in Int
        BY <2>3, <3>0
      <4> HIDE DEF all
      <4>2. n + q \in 1 .. all /\ n + 1 + q - 1 = n + q /\ q \in 1 .. all - (n + 1) + 1
        BY <3>0, <4>1
      <4> QED
        BY <4>2 DEF all
    <3>2. rest[q] = data[n + q] /\ data[n + q] = last + (n + q)
      BY <1>2, <2>2, <3>1
    <3> QED
      BY <1>4, <1>5, <2>3, <2>1, <3>2
  <2> QED
    BY <2>2, <2>3, <2>4
<1> HIDE DEF stored, n, rest, last
<1>13. LastOf(r, behind) \in Int
  <2>1. r.buffered \in Int /\ r.samplesWritten \in Int
    BY RingFields
  <2> QED
    BY <2>1 DEF LastOf
<1>8. CASE stored.samplesRemaining > 0
  <2>1. new = stored
    <3>1. stored.samplesRemaining \in Int
      BY <1>5, RingFields
    <3> QED
      BY <1>8, <3>1
  <2>2. FlagsFollow(old, first) \/ HeldBy(old) = RingLength =>
          FlagsFollow(stored, first) \/ HeldBy(stored) = RingLength
    BY <1>5, <1>6 DEF FlagsFollow, ProcessedOf
  <2>3. /\ Len(rest) = total - LastOf(stored, behind)
        /\ \A q \in 1 .. Len(rest) : rest[q] = LastOf(stored, behind) + q
        /\ LastOf(stored, behind) > last /\ LastOf(stored, behind) >= LastOf(r, behind)
    BY <1>13, <1>2, <1>4, <1>5, <1>6, <1>7
  <2>4. Kept(WriteOn(acc), r, first, behind, total)
    BY <1>1, <1>2, <1>5, <1>6, <1>7, <1>8, <2>1, <2>2, <2>3 DEF Kept
  <2>5. LastOf(new, behind) > LastOf(old, behind)
    BY <2>1, <2>3 DEF last
  <2>6. LastOf(WriteOn(acc).ring, behind) > LastOf(acc.ring, behind)
    BY <1>1, <2>5 DEF old
  <2> QED
    BY <2>4, <2>6
<1>9. CASE stored.samplesRemaining <= 0
  <2>1. new = MoveWrite(stored)
    BY <1>9
  <2> HIDE DEF new
  <2>2. /\ new \in RingRecord
        /\ new.readIndex = stored.readIndex /\ new.processingIndex = stored.processingIndex
        /\ new.samplesProcessed = stored.samplesProcessed /\ new.samplesWritten = 0
        /\ new.processedState = [stored.processedState EXCEPT
                                   ![NextIndex(stored.writeIndex)] = FALSE]
    BY <1>5, <2>1, MoveWriteFields
  <2>3. stored.samplesWritten = BufferLength /\ SampleIndex = 0 .. stored.samplesWritten - 1
        /\ stored.samplesWritten \in Int
    <3>1. stored.samplesRemaining \in Int /\ stored.samplesWritten \in Int
      BY <1>5, RingFields
    <3> QED
      BY <1>6, <1>9, <3>1, Bounds
  <2>4. /\ HoldsFrom(new, first, behind) /\ HeldBy(new) = HeldBy(stored) + 1
        /\ new.buffered = stored.buffered + BufferLength
    <3>1. /\ HeldBy(stored) \in 0 .. RingLength - 1
          /\ stored.buffered = HeldBy(stored) * BufferLength
          /\ stored.writeIndex = Slot(first, HeldBy(stored))
          /\ \A j \in 0 .. HeldBy(stored) - 1, k \in SampleIndex :
               stored.ring[Slot(first, j)][k] = behind + j * BufferLength + k + 1
          /\ \A k \in SampleIndex :
               stored.ring[stored.writeIndex][k] = behind + stored.buffered + k + 1
      BY <1>3, <1>4, <1>5, <1>6, <2>3
    <3> QED
      BY <1>3, <1>5, <2>1, <3>1, WriteMoves
  <2>5. LastOf(new, behind) = LastOf(stored, behind)
    <3>1. stored.buffered \in Int /\ BufferLength \in Int
      BY <1>5, RingFields, Bounds
    <3> QED
      BY <2>2, <2>3, <2>4, <3>1 DEF LastOf
  <2>6. FlagsFollow(old, first) => FlagsFollow(new, first) \/ HeldBy(new) = RingLength
    <3>1. ASSUME FlagsFollow(old, first), HeldBy(new) # RingLength
          PROVE  FlagsFollow(new, first)
      <4>1. HeldBy(new) = HeldBy(old) + 1 /\ HeldBy(new) < RingLength
        BY <1>3, <1>6, <2>4, <3>1
      <4>2. new.samplesProcessed = old.samplesProcessed
            /\ new.processedState = [old.processedState EXCEPT
                                       ![NextIndex(old.writeIndex)] = FALSE]
        BY <1>5, <2>2
      <4> QED
        BY <1>2, <1>3, <2>2, <3>1, <4>1, <4>2, FlagsKept
    <3> QED
      BY <3>1
  <2>7. HeldBy(old) # RingLength
    BY <1>3
  <2>8. first # r.readIndex => HeldBy(new) < RingLength
    BY <1>3, <1>6, <2>4
  <2>9. /\ Len(rest) = total - LastOf(new, behind)
        /\ \A q \in 1 .. Len(rest) : rest[q] = LastOf(new, behind) + q
        /\ LastOf(new, behind) > last /\ LastOf(new, behind) >= LastOf(r, behind)
    BY <1>13, <1>2, <1>4, <1>5, <1>6, <1>7, <2>5
  <2>10. Kept(WriteOn(acc), r, first, behind, total)
    BY <1>1, <1>2, <1>5, <1>7, <2>2, <2>4, <2>6, <2>7, <2>8, <2>9 DEF Kept
  <2>11. LastOf(new, behind) > LastOf(old, behind)
    BY <2>9 DEF last
  <2>12. LastOf(WriteOn(acc).ring, behind) > LastOf(acc.ring, behind)
    BY <1>1, <2>11 DEF old
  <2> QED
    BY <2>10, <2>12
<1>10. stored.samplesRemaining \in Int
  BY <1>5, RingFields
<1> QED
  BY <1>8, <1>9, <1>10

\* What write() makes of a ring and samples that follow those it holds.
LEMMA WriteKeeps ==
  ASSUME NEW r \in RingRecord, NEW first \in {r.readIndex, NextIndex(r.readIndex)},
         NEW behind \in Int, NEW data \in Seq(Int), HoldsFrom(r, first, behind),
         first # r.readIndex => HeldBy(r) < RingLength,
         \A q \in 1 .. Len(data) : data[q] = LastOf(r, behind) + q
  PROVE  /\ Kept(Write(r, data), r, first, behind, LastOf(r, behind) + Len(data))
         /\ MaxPasses = 0 => Write(r, data) = [ring |-> r, left |-> data]
         /\ MaxPasses > 0 /\ data # <<>> /\ first # r.readIndex =>
              LastOf(Write(r, data).ring, behind) > behind
<1> DEFINE total == LastOf(r, behind) + Len(data)
           A == {acc \in [ring : RingRecord, left : Seq(Int)] :
                   Kept(acc, r, first, behind, total)}
           base == [ring |-> r, left |-> data]
<1>1. LastOf(r, behind) \in Int /\ Len(data) \in Nat /\ total \in Int
  <2>1. r.buffered \in Int /\ r.samplesWritten \in Int
    BY RingFields
  <2> QED
    BY <2>1 DEF LastOf
<1>2. base \in A
  <2>1. Len(data) = total - LastOf(r, behind)
    BY <1>1
  <2> HIDE DEF total
  <2>2. Kept(base, r, first, behind, total)
    BY <1>1, <2>1 DEF Kept
  <2> QED
    BY <2>2
<1> HIDE DEF total
<1>3. ASSUME NEW acc \in A, NEW k \in Passes PROVE Pass(acc, k) \in A
  <2>1. CASE acc.left = <<>> \/ ~IsWritable(acc.ring)
    BY <2>1 DEF Pass
  <2>2. CASE acc.left # <<>> /\ IsWritable(acc.ring)
    <3>1. Kept(WriteOn(acc), r, first, behind, total)
      BY <1>1, <2>2, WriteOnKeeps
    <3>2. WriteOn(acc).ring \in RingRecord /\ WriteOn(acc).left \in Seq(Int)
      BY <3>1 DEF Kept
    <3>3. WriteOn(acc) \in [ring : RingRecord, left : Seq(Int)]
      BY <3>2 DEF WriteOn
    <3>4. Pass(acc, k) = WriteOn(acc)
      BY <2>2 DEF Pass
    <3> QED
      BY <3>1, <3>3, <3>4
  <2> QED
    BY <2>1, <2>2
<1> DEFINE result == FoldLeft(Pass, base, [i \in 1 .. MaxPasses |-> i])
<1>4. \/ MaxPasses = 0 /\ result = base
      \/ \E acc \in A, k \in Passes : result = Pass(acc, k)
  <2> HIDE DEF A, base
  <2> QED
    BY <1>2, <1>3, FoldOfPasses
<1>5. Write(r, data) = result
  BY DEF Write
<1> HIDE DEF result
<1>8. MaxPasses = 0 => result = base
  BY <1>4 DEF Passes
<1>6. result \in A
  BY <1>2, <1>3, <1>4
<1>7. ASSUME MaxPasses > 0, data # <<>>, first # r.readIndex
      PROVE  LastOf(result.ring, behind) > behind
  <2>1. PICK acc \in A, k \in Passes : result = Pass(acc, k)
    BY <1>4, <1>7
  <2>2. /\ acc.ring \in RingRecord /\ acc.left \in Seq(Int)
        /\ HoldsFrom(acc.ring, first, behind) /\ HeldBy(acc.ring) < RingLength
        /\ acc.ring.readIndex = r.readIndex
        /\ Len(acc.left) = total - LastOf(acc.ring, behind)
    BY <1>7 DEF Kept
  <2>3. /\ LastOf(acc.ring, behind) = behind + acc.ring.buffered + acc.ring.samplesWritten
        /\ acc.ring.buffered \in Int /\ acc.ring.samplesWritten \in Int
    BY <2>2, RingFields DEF LastOf
  <2>4. /\ acc.ring.samplesWritten >= 0 /\ acc.ring.buffered >= 0
        /\ HeldBy(acc.ring) > 0 => acc.ring.buffered > 0
    <3>1. /\ HeldBy(acc.ring) \in 0 .. RingLength /\ acc.ring.samplesWritten \in SampleIndex
          /\ acc.ring.buffered = HeldBy(acc.ring) * BufferLength
      BY <2>2 DEF HoldsFrom
    <3>2. HeldBy(acc.ring) \in Int
      BY <3>1
    <3>3. /\ HeldBy(acc.ring) >= 0 => HeldBy(acc.ring) * BufferLength >= 0
          /\ HeldBy(acc.ring) > 0 => HeldBy(acc.ring) * BufferLength >= BufferLength
      BY <3>2, Multiples
    <3> QED
      BY <3>1, <3>3, Bounds
  <2>5. CASE acc.left = <<>>
    <3>1. LastOf(acc.ring, behind) = total /\ Len(data) > 0
      <4>1. Len(acc.left) = 0
        BY <2>5
      <4>2. Len(data) # 0
        BY <1>7, EmptySeq
      <4>3. LastOf(acc.ring, behind) \in Int
        BY <2>3
      <4>4. total - LastOf(acc.ring, behind) = 0
        BY <2>2, <4>1
      <4> HIDE DEF A, base
      <4>5. LastOf(acc.ring, behind) = total
        BY <1>1, <4>3, <4>4
      <4> QED
        BY <1>1, <4>2, <4>5
    <3>2. LastOf(r, behind) >= behind
      <4>1. r.buffered >= 0 /\ r.samplesWritten >= 0 /\ r.buffered \in Int /\ r.samplesWritten \in Int
        <5>1. /\ HeldBy(r) \in 0 .. RingLength /\ r.samplesWritten \in SampleIndex
              /\ r.buffered = HeldBy(r) * BufferLength
          BY DEF HoldsFrom
        <5>2. HeldBy(r) \in Int /\ HeldBy(r) >= 0
          BY <5>1
        <5>3. HeldBy(r) * BufferLength >= 0
          BY <5>2, Multiples
        <5>4. r.buffered \in Int
          BY RingFields
        <5>5. r.samplesWritten \in Int /\ r.samplesWritten >= 0
          BY <5>1, Bounds
        <5> QED
          BY <5>1, <5>3, <5>4, <5>5
      <4> QED
        BY <4>1 DEF LastOf
    <3>3. result = acc
      BY <2>1, <2>5 DEF Pass
    <3> QED
      BY <1>1, <3>1, <3>2, <3>3 DEF total
  <2>6. CASE ~IsWritable(acc.ring)
    <3>1. first \in {acc.ring.readIndex, NextIndex(acc.ring.readIndex)}
          /\ first # acc.ring.readIndex
      BY <1>7, <2>2
    <3>2. ~ (HeldBy(acc.ring) \in 0 .. RingLength - 2)
      BY <2>2, <2>6, <3>1, WritableMeans
    <3>3. HeldBy(acc.ring) > 0
      <4>1. HeldBy(acc.ring) \in 0 .. RingLength
        BY <2>2 DEF HoldsFrom
      <4> QED
        BY <3>2, <4>1, Bounds
    <3>4. result = acc
      BY <2>1, <2>6 DEF Pass
    <3> QED
      BY <2>3, <2>4, <3>3, <3>4
  <2>7. CASE acc.left # <<>> /\ IsWritable(acc.ring)
    <3>1. Kept(acc, r, first, behind, total)
      OBVIOUS
    <3>2. /\ LastOf(WriteOn(acc).ring, behind) > LastOf(acc.ring, behind)
          /\ Kept(WriteOn(acc), r, first, behind, total)
      BY <1>1, <2>7, <3>1, WriteOnKeeps
    <3>3. result = WriteOn(acc)
      BY <2>1, <2>7 DEF Pass
    <3>4. LastOf(result.ring, behind) \in Int
      <4>1. WriteOn(acc).ring \in RingRecord
        BY <3>2 DEF Kept
      <4>2. WriteOn(acc).ring.buffered \in Int /\ WriteOn(acc).ring.samplesWritten \in Int
        BY <4>1, RingFields
      <4> QED
        BY <3>3, <4>2 DEF LastOf
    <3> QED
      BY <2>3, <2>4, <3>2, <3>3, <3>4
  <2> QED
    BY <2>5, <2>6, <2>7
<1> QED
  BY <1>5, <1>6, <1>7, <1>8 DEF total

-------------------------------------------------------------------------------
(* The invariant.  Its parts are first found for one ring and one client. *)

\* Where the first unread buffer is.
LEMMA FirstIs ==
  ASSUME NEW r \in RingRecord
  PROVE  /\ FirstRead(r).readIndex = IF consumed = 0 THEN NextIndex(r.readIndex)
                                     ELSE r.readIndex
         /\ FirstRead(r).readIndex \in SlotIndex
         /\ NextIndex(r.readIndex) # r.readIndex
<1>1. /\ RotateReadIndex(r).readIndex = NextIndex(r.readIndex)
      /\ r.readIndex \in SlotIndex /\ NextIndex(r.readIndex) \in SlotIndex
  BY ReadIndexFields, RingFields
<1>2. NextIndex(r.readIndex) # r.readIndex
  BY <1>1, Bounds DEF NextIndex
<1> QED
  BY <1>1, <1>2 DEF FirstRead

LEMMA FirstUnreadIs ==
  ASSUME rb \in RingRecord
  PROVE  /\ FirstUnread = IF consumed = 0 THEN NextIndex(rb.readIndex) ELSE rb.readIndex
         /\ FirstUnread \in SlotIndex
         /\ FirstUnread \in {rb.readIndex, NextIndex(rb.readIndex)}
         /\ FirstUnread # rb.readIndex <=> consumed = 0
<1>1. NextIndex(rb.readIndex) # rb.readIndex
  BY FirstIs
<1> QED
  BY <1>1, FirstIs DEF FirstUnread

LEMMA FirstUnreadNext ==
  ASSUME rb' \in RingRecord
  PROVE  FirstUnread' = IF consumed' = 0 THEN NextIndex(rb'.readIndex) ELSE rb'.readIndex
BY ReadIndexFields DEF FirstUnread, FirstRead

\* The counters of a ring that holds samples.
LEMMA HoldsCounts ==
  ASSUME NEW r \in RingRecord, NEW first, NEW behind \in Int, HoldsFrom(r, first, behind)
  PROVE  /\ HeldBy(r) \in 0 .. RingLength /\ HeldBy(r) \in Int
         /\ r.buffered = HeldBy(r) * BufferLength /\ r.buffered \in Int
         /\ r.samplesWritten \in Int /\ r.samplesWritten >= 0
         /\ r.samplesWritten < BufferLength
         /\ r.buffered >= 0 /\ (HeldBy(r) > 0 => r.buffered >= BufferLength)
         /\ BuffersBuffered(r) = HeldBy(r)
<1>1. /\ HeldBy(r) \in 0 .. RingLength /\ r.samplesWritten \in SampleIndex
      /\ r.buffered = HeldBy(r) * BufferLength
  BY DEF HoldsFrom
<1>2. /\ HeldBy(r) \in Int /\ HeldBy(r) >= 0 /\ r.buffered \in Int
      /\ r.samplesWritten \in Int /\ r.samplesWritten >= 0 /\ r.samplesWritten < BufferLength
  BY <1>1, RingFields, Bounds
<1>3. /\ HeldBy(r) >= 0 => HeldBy(r) * BufferLength >= 0
      /\ HeldBy(r) > 0 => HeldBy(r) * BufferLength >= BufferLength
  BY <1>2, Multiples
<1>4. BuffersBuffered(r) = HeldBy(r)
  BY <1>1, CountValues DEF BuffersBuffered
<1> QED
  BY <1>1, <1>2, <1>3, <1>4

LEMMA SameHolds ==
  ASSUME NEW r, NEW a, NEW first, NEW behind, HoldsFrom(r, first, behind),
         a.buffered = r.buffered, a.samplesWritten = r.samplesWritten,
         a.samplesRemaining = r.samplesRemaining, a.writeIndex = r.writeIndex,
         a.ring = r.ring
  PROVE  HoldsFrom(a, first, behind) /\ HeldBy(a) = HeldBy(r)
BY DEF HoldsFrom, HeldBy

LEMMA SameFlags ==
  ASSUME NEW r, NEW a, NEW first, FlagsFollow(r, first),
         a.buffered = r.buffered, a.samplesProcessed = r.samplesProcessed,
         a.processedState = r.processedState
  PROVE  FlagsFollow(a, first) /\ ProcessedOf(a) = ProcessedOf(r)
BY DEF FlagsFollow, HeldBy, ProcessedOf

\* A ring just made or reset.
LEMMA FreshHolds ==
  ASSUME NEW r, r.writeIndex = 1, r.buffered = 0, r.samplesWritten = 0,
         r.samplesRemaining = BufferLength
  PROVE  HoldsFrom(r, 1, 0) /\ HeldBy(r) = 0 /\ NextIndex(0) = 1
<1>1. 0 \in 0 .. RingLength /\ 0 * BufferLength = 0 /\ r.buffered = 0 * BufferLength
  BY Bounds
<1>2. HeldBy(r) = 0
  BY <1>1, HeldIs
<1>3. Slot(1, 0) = 1 /\ NextIndex(0) = 1 /\ 0 # RingLength
  <2>1. 1 \in SlotIndex
    BY Bounds
  <2>2. Slot(1, 0) = 1
    BY <2>1, Slots
  <2> QED
    BY <2>2, Bounds DEF NextIndex
<1>4. 0 .. 0 - 1 = {} /\ 0 \in SampleIndex /\ BufferLength - 0 = BufferLength
  BY Bounds
<1> QED
  BY <1>1, <1>2, <1>3, <1>4 DEF HoldsFrom

LEMMA FreshFlags ==
  ASSUME NEW r, HeldBy(r) = 0, r.samplesProcessed = 0,
         \A i \in SlotIndex : ~r.processedState[i]
  PROVE  FlagsFollow(r, 1) /\ ProcessedOf(r) = 0
<1>1. 0 \in 0 .. RingLength /\ 0 * BufferLength = 0
  BY Bounds
<1>2. ProcessedOf(r) = 0
  BY <1>1, CountValues DEF ProcessedOf
<1>3. Slot(1, 0) \in SlotIndex
  <2>1. 1 \in SlotIndex
    BY Bounds
  <2> QED
    BY <1>1, <2>1, Slots
<1>4. 0 < RingLength
  BY Bounds
<1>5. \A j \in 0 .. 0 : j = 0
  OBVIOUS
<1> QED
  BY <1>1, <1>2, <1>3, <1>4, <1>5 DEF FlagsFollow

LEMMA NewRingFields ==
  /\ NewRing \in RingRecord
  /\ NewRing.readIndex = 0 /\ NewRing.writeIndex = 1 /\ NewRing.processingIndex = 0
  /\ NewRing.buffered = 0 /\ NewRing.samplesWritten = 0
  /\ NewRing.samplesRemaining = BufferLength
  /\ \A i \in SlotIndex : ~NewRing.processedState[i]
  /\ NewRing.ring \in [SlotIndex -> [SampleIndex -> Int]]
<1> DEFINE buffers == [i \in SlotIndex |-> [j \in SampleIndex |-> Zero]]
           flags == [i \in SlotIndex |-> FALSE]
           none == 0
<1>1. /\ buffers \in [SlotIndex -> [SampleIndex -> Int]] /\ flags \in [SlotIndex -> BOOLEAN]
      /\ none \in SlotIndex /\ 1 \in SlotIndex /\ none \in Int /\ BufferLength \in Int
      /\ \A i \in SlotIndex : ~flags[i]
  BY Bounds DEF Zero
<1>2. NewRing = [ readIndex |-> none, writeIndex |-> 1, processingIndex |-> none,
                  buffered |-> none, samplesProcessed |-> none,
                  samplesWritten |-> none, samplesRemaining |-> BufferLength,
                  processedState |-> flags, ring |-> buffers ]
  BY DEF NewRing
<1> HIDE DEF buffers, flags, none
<1>3. NewRing \in RingRecord
  BY <1>1, <1>2 DEF RingRecord, Sample
<1>4. /\ NewRing.readIndex = none /\ NewRing.writeIndex = 1 /\ NewRing.processingIndex = none
      /\ NewRing.buffered = none /\ NewRing.samplesWritten = none
      /\ NewRing.samplesRemaining = BufferLength
      /\ NewRing.processedState = flags /\ NewRing.ring = buffers
  BY <1>2
<1> QED
  BY <1>1, <1>3, <1>4 DEF none

LEMMA InitRing ==
  ASSUME Init
  PROVE  /\ rb \in RingRecord /\ rb.readIndex = 0 /\ rb.writeIndex = 1
         /\ rb.processingIndex = 0 /\ rb.buffered = 0 /\ rb.samplesWritten = 0
         /\ rb.samplesRemaining = BufferLength
         /\ \A i \in SlotIndex : ~rb.processedState[i]
<1>1. PICK p \in StaleProcessed : rb = [NewRing EXCEPT !.samplesProcessed = p]
  BY DEF Init
<1>2. p \in Int
  BY Bounds, ClientAssumption
<1>3. rb \in RingRecord
  BY <1>1, <1>2, NewRingFields DEF RingRecord
<1>4. /\ rb.readIndex = NewRing.readIndex /\ rb.writeIndex = NewRing.writeIndex
      /\ rb.processingIndex = NewRing.processingIndex
      /\ rb.buffered = NewRing.buffered /\ rb.samplesWritten = NewRing.samplesWritten
      /\ rb.samplesRemaining = NewRing.samplesRemaining
      /\ rb.processedState = NewRing.processedState
  BY <1>1, NewRingFields DEF RingRecord
<1> QED
  BY <1>3, <1>4, NewRingFields

LEMMA InitHolds ==
  Init => RingInv
<1> SUFFICES ASSUME Init PROVE RingInv
  OBVIOUS
<1>1. /\ rb \in RingRecord /\ rb.readIndex = 0 /\ rb.writeIndex = 1
      /\ rb.processingIndex = 0 /\ rb.buffered = 0 /\ rb.samplesWritten = 0
      /\ rb.samplesRemaining = BufferLength
      /\ \A i \in SlotIndex : ~rb.processedState[i]
  BY InitRing
<1>2. /\ style \in {"queue", "overrun"} /\ written = 0 /\ got = <<>> /\ consumed = 0
      /\ flagsLost = (rb.samplesProcessed # 0)
  BY DEF Init
<1>3. TypeOK
  <2>1. flagsLost \in BOOLEAN
    BY <1>2
  <2> QED
    BY <1>1, <1>2, <2>1 DEF TypeOK
<1>4. HoldsFrom(rb, 1, 0) /\ HeldBy(rb) = 0 /\ NextIndex(0) = 1
  BY <1>1, FreshHolds
<1>5. FirstUnread = 1 /\ Behind = 0
  <2>1. FirstUnread = 1
    BY <1>1, <1>2, <1>4, FirstUnreadIs
  <2> QED
    BY <1>1, <1>2, <2>1 DEF Behind
<1>6. ~flagsLost => FlagsFollow(rb, 1)
  BY <1>1, <1>2, <1>4, FreshFlags
<1> QED
  BY <1>1, <1>2, <1>3, <1>4, <1>5, <1>6, Bounds DEF RingInv

\* reset() and set_size() leave a fresh ring, with the processed count it had.
LEMMA RestartedRing ==
  ASSUME rb \in RingRecord, Reset \/ SetSizeAgain
  PROVE  /\ rb' \in RingRecord /\ rb'.readIndex = 0 /\ rb'.writeIndex = 1
         /\ rb'.processingIndex = 0 /\ rb'.buffered = 0 /\ rb'.samplesWritten = 0
         /\ rb'.samplesRemaining = BufferLength
<1>1. CASE Reset
  <2> DEFINE flags == [i \in SlotIndex |-> FALSE]
             length == BufferLength
             none == 0
  <2>1. PICK zeroFill \in BOOLEAN :
          rb' = ResetRing(IF zeroFill THEN ZeroFill(rb) ELSE rb)
    BY <1>1 DEF Reset
  <2> DEFINE a == IF zeroFill THEN ZeroFill(rb) ELSE rb
  <2>2. a \in RingRecord
    <3>2. ZeroFill(rb) \in RingRecord
      BY NewRingFields DEF ZeroFill, RingRecord, Sample
    <3> QED
      BY <3>2
  <2>3. /\ flags \in [SlotIndex -> BOOLEAN] /\ none \in SlotIndex /\ 1 \in SlotIndex
        /\ none \in Int /\ length \in Int
    BY Bounds
  <2>4. rb' = [a EXCEPT !.samplesRemaining = length, !.samplesWritten = none,
                        !.buffered = none, !.readIndex = none, !.writeIndex = 1,
                        !.processingIndex = none, !.processedState = flags]
    BY <2>1 DEF ResetRing
  <2> HIDE DEF a, flags, length, none
  <2>5. rb' \in RingRecord
    BY <2>2, <2>3, <2>4 DEF RingRecord
  <2>6. /\ rb'.readIndex = none /\ rb'.writeIndex = 1
        /\ rb'.processingIndex = none /\ rb'.buffered = none /\ rb'.samplesWritten = none
        /\ rb'.samplesRemaining = length
    BY <2>2, <2>4 DEF RingRecord
  <2> QED
    BY <2>5, <2>6 DEF none, length
<1>2. CASE SetSizeAgain
  <2> DEFINE p == rb.samplesProcessed
             states == rb.processedState
  <2>1. rb' = [NewRing EXCEPT !.samplesProcessed = p, !.processedState = states]
    BY <1>2 DEF SetSizeAgain, SetSize
  <2>2. p \in Int /\ states \in [SlotIndex -> BOOLEAN]
    BY RingFields
  <2> HIDE DEF p, states
  <2>3. rb' \in RingRecord
    BY <2>1, <2>2, NewRingFields DEF RingRecord
  <2>4. /\ rb'.readIndex = NewRing.readIndex /\ rb'.writeIndex = NewRing.writeIndex
        /\ rb'.processingIndex = NewRing.processingIndex
        /\ rb'.buffered = NewRing.buffered /\ rb'.samplesWritten = NewRing.samplesWritten
        /\ rb'.samplesRemaining = NewRing.samplesRemaining
    BY <2>1, NewRingFields DEF RingRecord
  <2> QED
    BY <2>3, <2>4, NewRingFields
<1> QED
  BY <1>1, <1>2

LEMMA RestartHolds ==
  RingInv /\ (Reset \/ SetSizeAgain) => RingInv'
<1> SUFFICES ASSUME RingInv, Reset \/ SetSizeAgain PROVE RingInv'
  OBVIOUS
<1>1. rb \in RingRecord /\ style \in {"queue", "overrun"}
  BY DEF RingInv, TypeOK
<1>2. /\ rb' \in RingRecord /\ rb'.readIndex = 0 /\ rb'.writeIndex = 1
      /\ rb'.processingIndex = 0 /\ rb'.buffered = 0 /\ rb'.samplesWritten = 0
      /\ rb'.samplesRemaining = BufferLength
  BY <1>1, RestartedRing
<1>3. /\ style' \in {"queue", "overrun"} /\ written' = 0 /\ got' = <<>> /\ consumed' = 0
      /\ flagsLost' = (rb'.samplesProcessed # 0 \/ \E i \in SlotIndex : rb'.processedState[i])
  BY <1>1 DEF Reset, SetSizeAgain, Restarted
<1>4. TypeOK'
  <2>1. flagsLost' \in BOOLEAN
    BY <1>3
  <2> QED
    BY <1>2, <1>3, <2>1 DEF TypeOK
<1>5. HoldsFrom(rb', 1, 0) /\ HeldBy(rb') = 0 /\ NextIndex(0) = 1
  BY <1>2, FreshHolds
<1>6. FirstUnread' = 1 /\ Behind' = 0
  <2>1. FirstUnread' = 1
    BY <1>2, <1>3, <1>5, FirstUnreadNext
  <2> QED
    BY <1>2, <1>3, <2>1 DEF Behind
<1>7. ~flagsLost' => FlagsFollow(rb', 1)
  BY <1>2, <1>3, <1>5, FreshFlags
<1> QED
  BY <1>2, <1>3, <1>4, <1>5, <1>6, <1>7, Bounds DEF RingInv

LEMMA FirstWriteFields ==
  ASSUME NEW r \in RingRecord
  PROVE  /\ FirstWrite(r) \in RingRecord
         /\ FirstWrite(r).processingIndex = IF written = 0 THEN NextIndex(r.processingIndex)
                                            ELSE r.processingIndex
         /\ FirstWrite(r).readIndex = r.readIndex /\ FirstWrite(r).writeIndex = r.writeIndex
         /\ FirstWrite(r).buffered = r.buffered
         /\ FirstWrite(r).samplesProcessed = r.samplesProcessed
         /\ FirstWrite(r).samplesWritten = r.samplesWritten
         /\ FirstWrite(r).samplesRemaining = r.samplesRemaining
         /\ FirstWrite(r).processedState = r.processedState
         /\ FirstWrite(r).ring = r.ring
BY ProcessingIndexFields DEF FirstWrite

\* Nothing is held before the first write.
LEMMA EmptyAtFirst ==
  ASSUME RingInv, written = 0
  PROVE  consumed = 0 /\ HeldBy(rb) = 0 /\ FirstUnread = Slot(FirstUnread, 0)
         /\ rb.readIndex = 0 /\ FirstUnread = 1
<1>1. /\ rb \in RingRecord /\ consumed = 0 /\ consumed <= Behind /\ rb.readIndex = 0
      /\ HoldsFrom(rb, FirstUnread, Behind) /\ Behind = written - rb.samplesWritten - rb.buffered
  BY DEF RingInv, TypeOK, Behind
<1>2. /\ HeldBy(rb) \in 0 .. RingLength /\ HeldBy(rb) \in Int
      /\ rb.buffered \in Int /\ rb.samplesWritten \in Int /\ rb.samplesWritten >= 0
      /\ HeldBy(rb) > 0 => rb.buffered >= BufferLength
  <2>1. Behind \in Int
    <3>1. rb.buffered \in Int /\ rb.samplesWritten \in Int
      BY <1>1, RingFields
    <3> QED
      BY <1>1, <3>1
  <2> QED
    BY <1>1, <2>1, HoldsCounts
<1>3. HeldBy(rb) = 0
  BY <1>1, <1>2, Bounds
<1>4. FirstUnread \in SlotIndex /\ FirstUnread = NextIndex(0)
  BY <1>1, FirstUnreadIs
<1>5. NextIndex(0) = 1
  BY Bounds DEF NextIndex
<1>6. Slot(FirstUnread, 0) = FirstUnread
  BY <1>4, Slots
<1> QED
  BY <1>1, <1>3, <1>4, <1>5, <1>6

LEMMA InvCounts ==
  ASSUME RingInv
  PROVE  /\ Behind \in Int /\ consumed <= Behind /\ consumed \in Nat /\ written \in Nat
         /\ Behind + rb.buffered + rb.samplesWritten = written
         /\ HoldsFrom(rb, FirstUnread, Behind)
         /\ rb \in RingRecord /\ FirstUnread \in SlotIndex
         /\ FirstUnread \in {rb.readIndex, NextIndex(rb.readIndex)}
         /\ FirstUnread # rb.readIndex <=> consumed = 0
         /\ rb.buffered \in Int /\ rb.samplesWritten \in Int
         /\ BuffersBuffered(rb) = HeldBy(rb)
         /\ HeldBy(rb) > 0 => written > 0 /\ Behind + BufferLength <= written
<1>1. /\ rb \in RingRecord /\ consumed <= Behind /\ consumed \in Nat /\ written \in Nat
      /\ HoldsFrom(rb, FirstUnread, Behind) /\ Behind = written - rb.samplesWritten - rb.buffered
  BY DEF RingInv, TypeOK, Behind
<1>2. rb.buffered \in Int /\ rb.samplesWritten \in Int
  BY <1>1, RingFields
<1>3. Behind \in Int
  BY <1>1, <1>2
<1>4. /\ BuffersBuffered(rb) = HeldBy(rb) /\ rb.samplesWritten >= 0
      /\ HeldBy(rb) > 0 => rb.buffered >= BufferLength
  BY <1>1, <1>3, HoldsCounts
<1>5. Behind + rb.buffered + rb.samplesWritten = written
  BY <1>1, <1>2
<1>6. HeldBy(rb) > 0 => written > 0 /\ Behind + BufferLength <= written
  BY <1>1, <1>2, <1>3, <1>4, Bounds
<1> QED
  BY <1>1, <1>2, <1>3, <1>4, <1>5, <1>6, FirstUnreadIs

LEMMA WriteSomeHolds ==
  ASSUME RingInv, NEW n \in 1 .. RingLength * BufferLength + 1, WriteSome(n)
  PROVE  RingInv'
<1> DEFINE r == FirstWrite(rb)
           data == Samples(n)
           first == FirstUnread
           behind == Behind
           result == Write(r, data)
           total == written + n
<1>1. /\ style = "queue" /\ rb' = result.ring
      /\ written' = written + n - Len(result.left)
      /\ flagsLost' = (flagsLost \/ (consumed > 0 /\ ~IsWritable(rb')))
      /\ style' = style /\ got' = got /\ consumed' = consumed
  BY DEF WriteSome
<1>2. /\ behind \in Int /\ consumed \in Nat /\ written \in Nat
      /\ behind + rb.buffered + rb.samplesWritten = written
      /\ HoldsFrom(rb, first, behind) /\ rb \in RingRecord /\ first \in SlotIndex
      /\ first \in {rb.readIndex, NextIndex(rb.readIndex)}
      /\ first # rb.readIndex <=> consumed = 0
  BY InvCounts
<1>3. /\ r \in RingRecord
      /\ r.processingIndex = IF written = 0 THEN NextIndex(rb.processingIndex)
                             ELSE rb.processingIndex
      /\ r.readIndex = rb.readIndex /\ r.writeIndex = rb.writeIndex
      /\ r.buffered = rb.buffered /\ r.samplesProcessed = rb.samplesProcessed
      /\ r.samplesWritten = rb.samplesWritten /\ r.samplesRemaining = rb.samplesRemaining
      /\ r.processedState = rb.processedState /\ r.ring = rb.ring
  BY <1>2, FirstWriteFields
<1>4. /\ consumed = behind
      /\ consumed = 0 => HeldBy(rb) < RingLength
      /\ got \in Seq(Sample) /\ flagsLost \in BOOLEAN
  BY <1>1 DEF RingInv, TypeOK
<1>5. data \in Seq(Int) /\ Len(data) = n /\ n \in Nat /\ n > 0
      /\ \A q \in 1 .. Len(data) : data[q] = written + q
  BY <1>2, Bounds DEF Samples
<1> HIDE DEF r, data, first, behind
<1>6. HoldsFrom(r, first, behind) /\ HeldBy(r) = HeldBy(rb)
  BY <1>2, <1>3, SameHolds
<1>7. LastOf(r, behind) = written
  BY <1>2, <1>3 DEF LastOf
<1>17. \A q \in 1 .. Len(data) : data[q] = LastOf(r, behind) + q
  BY <1>5, <1>7
<1>18. /\ first # r.readIndex => HeldBy(r) < RingLength
       /\ first \in {r.readIndex, NextIndex(r.readIndex)}
       /\ LastOf(r, behind) + Len(data) = written + n
  BY <1>2, <1>3, <1>4, <1>5, <1>6, <1>7
<1>8. /\ Kept(result, r, first, behind, total)
      /\ MaxPasses = 0 => result = [ring |-> r, left |-> data]
      /\ MaxPasses > 0 /\ data # <<>> /\ first # r.readIndex =>
           LastOf(result.ring, behind) > behind
  <2>1. /\ Kept(result, r, first, behind, LastOf(r, behind) + Len(data))
        /\ MaxPasses = 0 => result = [ring |-> r, left |-> data]
        /\ MaxPasses > 0 /\ data # <<>> /\ first # r.readIndex =>
             LastOf(result.ring, behind) > behind
    BY <1>2, <1>3, <1>5, <1>6, <1>17, <1>18, WriteKeeps
  <2> QED
    BY <1>18, <2>1
<1>19. total = written + n
  OBVIOUS
<1> HIDE DEF result, total
<1>9. /\ rb' \in RingRecord /\ HoldsFrom(rb', first, behind)
      /\ consumed = 0 => HeldBy(rb') < RingLength
      /\ rb'.readIndex = rb.readIndex /\ rb'.processingIndex = r.processingIndex
      /\ rb'.samplesProcessed = rb.samplesProcessed
      /\ Len(result.left) = total - LastOf(rb', behind)
      /\ LastOf(rb', behind) >= written
  <2>1. /\ result.ring \in RingRecord /\ HoldsFrom(result.ring, first, behind)
        /\ first # r.readIndex => HeldBy(result.ring) < RingLength
        /\ result.ring.readIndex = r.readIndex
        /\ result.ring.processingIndex = r.processingIndex
        /\ result.ring.samplesProcessed = r.samplesProcessed
        /\ Len(result.left) = total - LastOf(result.ring, behind)
        /\ LastOf(result.ring, behind) >= LastOf(r, behind)
    BY <1>8, Zenon DEF Kept
  <2>2. consumed = 0 => first # r.readIndex
    BY <1>2, <1>3
  <2> QED
    BY <1>1, <1>3, <1>7, <2>1, <2>2
<1>20. FlagsFollow(r, first) => FlagsFollow(rb', first) \/ HeldBy(rb') = RingLength
  <2>1. FlagsFollow(r, first) =>
          FlagsFollow(result.ring, first) \/ HeldBy(result.ring) = RingLength
    BY <1>8, Zenon DEF Kept
  <2> QED
    BY <1>1, <2>1
<1>10. /\ LastOf(rb', behind) = behind + rb'.buffered + rb'.samplesWritten
       /\ rb'.buffered \in Int /\ rb'.samplesWritten \in Int
       /\ rb'.buffered >= 0 /\ rb'.samplesWritten >= 0
  BY <1>2, <1>9, HoldsCounts DEF LastOf
<1>11. /\ written' = LastOf(rb', behind) /\ written' \in Nat /\ written' >= written
       /\ behind = written' - rb'.samplesWritten - rb'.buffered
  <2>1. LastOf(rb', behind) \in Int
    BY <1>2, <1>10
  <2>2. written' = total - (total - LastOf(rb', behind)) /\ total \in Int
    BY <1>1, <1>2, <1>5, <1>9, <1>19
  <2>3. written' = LastOf(rb', behind)
    BY <2>1, <2>2
  <2>4. behind = written' - rb'.samplesWritten - rb'.buffered
    BY <1>2, <1>10, <2>3
  <2> QED
    BY <1>2, <1>9, <2>1, <2>3, <2>4
<1>12. FirstUnread' = first /\ Behind' = behind
  <2>1. first = IF consumed = 0 THEN NextIndex(rb.readIndex) ELSE rb.readIndex
    BY <1>2, FirstUnreadIs DEF first
  <2>2. FirstUnread' = IF consumed = 0 THEN NextIndex(rb.readIndex) ELSE rb.readIndex
    BY <1>1, <1>9, FirstUnreadNext
  <2>3. Behind' = behind
    BY <1>11 DEF Behind
  <2> QED
    BY <2>1, <2>2, <2>3
<1>13. TypeOK'
  <2>1. flagsLost' \in BOOLEAN
    BY <1>1, <1>4
  <2> QED
    BY <1>1, <1>2, <1>4, <1>9, <1>11, <2>1 DEF TypeOK
<1>14. written' = 0 => consumed' = 0 /\ rb'.readIndex = 0
  <2>1. ASSUME written' = 0 PROVE written = 0
    BY <1>2, <1>11, <2>1
  <2>2. written = 0 => consumed = 0 /\ rb.readIndex = 0
    BY EmptyAtFirst
  <2> QED
    BY <1>1, <1>9, <2>1, <2>2
<1>15. ASSUME written = 0, MaxPasses > 0 PROVE written' > 0
  <2>1. consumed = 0 /\ behind = 0
    BY <1>4, <1>15, EmptyAtFirst
  <2>2. first # r.readIndex /\ data # <<>>
    BY <1>2, <1>3, <1>5, <2>1
  <2> QED
    BY <1>8, <1>1, <1>11, <1>15, <2>1, <2>2
<1>16. ASSUME ~flagsLost'
       PROVE  /\ FlagsFollow(rb', first)
              /\ written' > 0 => rb'.processingIndex = Slot(first, ProcessedOf(rb'))
              /\ ~ (written' = 0 /\ MaxPasses > 0)
  <2>1. ~flagsLost /\ ~ (consumed > 0 /\ ~IsWritable(rb'))
    BY <1>1, <1>16
  <2>2. /\ FlagsFollow(rb, first)
        /\ written > 0 => rb.processingIndex = Slot(first, ProcessedOf(rb))
        /\ written = 0 /\ MaxPasses > 0 => rb.processingIndex = 0
    BY <1>1, <2>1 DEF RingInv, first
  <2>3. FlagsFollow(r, first)
    BY <1>3, <2>2, SameFlags
  <2>4. ASSUME HeldBy(rb') = RingLength PROVE FALSE
    <3>1. consumed # 0
      BY <1>9, <2>4, Bounds
    <3>2. first = rb'.readIndex /\ IsWritable(rb')
      BY <1>2, <1>9, <2>1, <3>1
    <3>3. HeldBy(rb') \in 1 .. RingLength - 1
      <4>1. first \in {rb'.readIndex, NextIndex(rb'.readIndex)}
        BY <3>2
      <4> QED
        BY <1>2, <1>9, <3>2, <4>1, WritableMeans
    <3> QED
      BY <2>4, <3>3, Bounds
  <2>5. FlagsFollow(rb', first)
    BY <1>20, <2>3, <2>4
  <2>6. ProcessedOf(rb') = ProcessedOf(rb)
    BY <1>9 DEF ProcessedOf
  <2>7. ~ (written' = 0 /\ MaxPasses > 0)
    <3>1. ASSUME written' = 0, MaxPasses > 0 PROVE FALSE
      <4>1. written = 0
        BY <1>2, <1>11, <3>1
      <4> QED
        BY <1>15, <3>1, <4>1
    <3> QED
      BY <3>1
  <2>8. ASSUME written' > 0 PROVE rb'.processingIndex = Slot(first, ProcessedOf(rb'))
    <3>1. CASE written > 0
      <4>1. written # 0
        BY <1>2, <3>1
      <4> QED
        BY <1>3, <1>9, <2>2, <2>6, <3>1, <4>1
    <3>2. CASE written = 0
      <4>1. /\ HeldBy(rb) = 0 /\ first = Slot(first, 0) /\ first = 1
        BY <3>2, EmptyAtFirst DEF first
      <4>2. ProcessedOf(rb) = 0
        <5>1. ProcessedOf(rb) \in 0 .. 0
          BY <2>2, <4>1 DEF FlagsFollow
        <5> QED
          BY <5>1
      <4>3. MaxPasses > 0
        <5>1. ASSUME MaxPasses = 0 PROVE FALSE
          <6>1. result.left = data
            BY <1>8, <5>1
          <6>2. written' = written + n - n
            BY <1>1, <1>5, <6>1
          <6> QED
            BY <1>2, <1>5, <2>8, <3>2, <6>2
        <5> QED
          BY <5>1, PassCount
      <4>4. rb.processingIndex = 0 /\ r.processingIndex = NextIndex(0)
        BY <1>3, <2>2, <3>2, <4>3
      <4>5. NextIndex(0) = 1
        BY Bounds DEF NextIndex
      <4> QED
        BY <1>9, <2>6, <4>1, <4>2, <4>4, <4>5
    <3> QED
      BY <1>2, <3>1, <3>2
  <2> QED
    BY <2>5, <2>7, <2>8
<1> QED
  BY <1>1, <1>4, <1>9, <1>12, <1>13, <1>14, <1>16, <1>2 DEF RingInv

\* get_write_buffer() filled.
LEMMA FilledFields ==
  ASSUME NEW r \in RingRecord, NEW w \in SlotIndex, NEW cells \in [SampleIndex -> Int]
  PROVE  LET a == [r EXCEPT !.ring[w] = cells] IN
         /\ a \in RingRecord
         /\ a.readIndex = r.readIndex /\ a.writeIndex = r.writeIndex
         /\ a.processingIndex = r.processingIndex
         /\ a.buffered = r.buffered /\ a.samplesProcessed = r.samplesProcessed
         /\ a.samplesWritten = r.samplesWritten /\ a.samplesRemaining = r.samplesRemaining
         /\ a.processedState = r.processedState
         /\ a.ring[w] = cells /\ \A i \in SlotIndex : i # w => a.ring[i] = r.ring[i]
<1> DEFINE slots == [r.ring EXCEPT ![w] = cells]
           a == [r EXCEPT !.ring[w] = cells]
<1>1. /\ slots \in [SlotIndex -> [SampleIndex -> Int]] /\ slots[w] = cells
      /\ \A i \in SlotIndex : i # w => slots[i] = r.ring[i]
  <2>1. r.ring \in [SlotIndex -> [SampleIndex -> Int]]
    BY RingFields
  <2> QED
    BY <2>1
<1>2. a = [r EXCEPT !.ring = slots]
  OBVIOUS
<1> HIDE DEF slots, a
<1>3. a \in RingRecord
  BY <1>1, <1>2 DEF RingRecord, Sample
<1>4. /\ a.readIndex = r.readIndex /\ a.writeIndex = r.writeIndex
      /\ a.processingIndex = r.processingIndex
      /\ a.buffered = r.buffered /\ a.samplesProcessed = r.samplesProcessed
      /\ a.samplesWritten = r.samplesWritten /\ a.samplesRemaining = r.samplesRemaining
      /\ a.processedState = r.processedState /\ a.ring = slots
  BY <1>2 DEF RingRecord
<1> QED
  BY <1>1, <1>3, <1>4 DEF a

\* A filled buffer is behind the write cursor, before the read cursor is pushed.
LEMMA FilledHolds ==
  ASSUME RingInv, FillAndRotate
  PROVE  \E a \in RingRecord :
           /\ HoldsFrom(a, FirstUnread, Behind) /\ HeldBy(a) = HeldBy(rb) + 1
           /\ a.buffered = rb.buffered + BufferLength /\ a.samplesWritten = 0
           /\ a.readIndex = rb.readIndex
           /\ rb' = IF ~IsWritable(a) THEN MoveRead(a) ELSE a
<1> DEFINE r == FirstWrite(rb)
           w == rb.writeIndex
           cells == [j \in SampleIndex |-> Samples(BufferLength)[j + 1]]
           filled == [r EXCEPT !.ring[w] = cells]
           a == MoveWrite(filled)
           first == FirstUnread
           behind == Behind
           d == HeldBy(rb)
<1>1. rb' = IF ~IsWritable(a) THEN MoveRead(a) ELSE a
  BY DEF FillAndRotate, RotateWriteBuffer
<1>2. /\ behind \in Int /\ written \in Nat
      /\ behind + rb.buffered + rb.samplesWritten = written
      /\ HoldsFrom(rb, first, behind) /\ rb \in RingRecord /\ first \in SlotIndex
      /\ rb.buffered \in Int
  BY InvCounts
<1>3. /\ rb.samplesWritten = 0 /\ d < RingLength
  <2>1. /\ rb.samplesWritten = 0
        /\ d < IF consumed = 0 THEN RingLength - 1 ELSE RingLength
    BY DEF RingInv, FillAndRotate
  <2>2. d \in 0 .. RingLength
    BY <1>2 DEF HoldsFrom
  <2> QED
    BY <2>1, <2>2, Bounds
<1>4. /\ r \in RingRecord /\ r.readIndex = rb.readIndex /\ r.writeIndex = w
      /\ r.buffered = rb.buffered /\ r.ring = rb.ring
  BY <1>2, FirstWriteFields
<1>5. w \in SlotIndex /\ cells \in [SampleIndex -> Int]
      /\ \A k \in SampleIndex : cells[k] = written + k + 1
  <2>1. \A k \in SampleIndex : k + 1 \in 1 .. BufferLength /\ k \in Int
    BY Bounds
  <2>2. \A k \in SampleIndex : Samples(BufferLength)[k + 1] = written + (k + 1)
    BY <2>1 DEF Samples
  <2>3. \A k \in SampleIndex : cells[k] = written + k + 1 /\ cells[k] \in Int
    BY <1>2, <2>1, <2>2
  <2>4. w \in SlotIndex
    BY <1>2, RingFields
  <2> QED
    BY <2>3, <2>4
<1> HIDE DEF r, cells, first, behind
<1>6. /\ filled \in RingRecord /\ filled.readIndex = r.readIndex /\ filled.writeIndex = w
      /\ filled.buffered = r.buffered /\ filled.ring[w] = cells
      /\ \A i \in SlotIndex : i # w => filled.ring[i] = r.ring[i]
  BY <1>4, <1>5, FilledFields
<1> HIDE DEF filled
<1>7. HeldBy(filled) = d
  BY <1>4, <1>6 DEF HeldBy
<1>8. /\ d \in 0 .. RingLength - 1 /\ filled.buffered = d * BufferLength
      /\ w = Slot(first, d) /\ d \in Int
  <2>1. d \in 0 .. RingLength /\ rb.buffered = d * BufferLength /\ w = Slot(first, d)
    BY <1>2 DEF HoldsFrom
  <2> QED
    BY <1>3, <1>4, <1>6, <2>1, Bounds
<1> HIDE DEF d
<1>9. ASSUME NEW j \in 0 .. d - 1, NEW k \in SampleIndex
      PROVE  filled.ring[Slot(first, j)][k] = behind + j * BufferLength + k + 1
  <2>1. j \in 0 .. RingLength - 1 /\ j # d /\ j \in 0 .. RingLength
    BY <1>8, Bounds
  <2>4. Slot(first, j) # Slot(first, d)
    BY <1>2, <1>8, <2>1, OtherSlot
  <2>5. Slot(first, j) \in SlotIndex
    BY <1>2, <2>1, Slots
  <2>2. Slot(first, j) # w /\ Slot(first, j) \in SlotIndex
    BY <1>8, <2>4, <2>5
  <2>3. rb.ring[Slot(first, j)][k] = behind + j * BufferLength + k + 1
    BY <1>2 DEF HoldsFrom, d
  <2> QED
    BY <1>4, <1>6, <2>2, <2>3
<1>10. ASSUME NEW k \in SampleIndex
       PROVE  filled.ring[w][k] = behind + filled.buffered + k + 1
  <2>1. behind + filled.buffered = written
    BY <1>2, <1>3, <1>4, <1>6
  <2> QED
    BY <1>5, <1>6, <2>1
<1>11. /\ HoldsFrom(a, first, behind) /\ HeldBy(a) = d + 1
       /\ a.buffered = filled.buffered + BufferLength
  BY <1>2, <1>6, <1>7, <1>8, <1>9, <1>10, WriteMoves
<1>12. a \in RingRecord /\ a.samplesWritten = 0 /\ a.readIndex = filled.readIndex
  BY <1>6, MoveWriteFields
<1> HIDE DEF a
<1>13. a.buffered = rb.buffered + BufferLength /\ a.readIndex = rb.readIndex
  BY <1>4, <1>6, <1>11, <1>12
<1> QED
  BY <1>1, <1>11, <1>12, <1>13 DEF first, behind, d

LEMMA FillHolds ==
  RingInv /\ FillAndRotate => RingInv'
<1> SUFFICES ASSUME RingInv, FillAndRotate PROVE RingInv'
  OBVIOUS
<1> DEFINE first == FirstUnread
           behind == Behind
           d == HeldBy(rb)
<1>1. PICK a \in RingRecord :
        /\ HoldsFrom(a, first, behind) /\ HeldBy(a) = d + 1
        /\ a.buffered = rb.buffered + BufferLength /\ a.samplesWritten = 0
        /\ a.readIndex = rb.readIndex
        /\ rb' = IF ~IsWritable(a) THEN MoveRead(a) ELSE a
  BY FilledHolds
<1>2. /\ behind \in Int /\ consumed \in Nat /\ written \in Nat
      /\ behind + rb.buffered + rb.samplesWritten = written /\ consumed <= behind
      /\ rb \in RingRecord /\ first \in SlotIndex
      /\ first \in {rb.readIndex, NextIndex(rb.readIndex)}
      /\ first # rb.readIndex <=> consumed = 0
      /\ rb.buffered \in Int
  BY InvCounts
<1>3. /\ style = "overrun" /\ written' = written + BufferLength
      /\ style' = style /\ got' = got /\ consumed' = consumed /\ flagsLost' = flagsLost
  BY DEF FillAndRotate
<1>4. /\ rb.samplesWritten = 0 /\ d < IF consumed = 0 THEN RingLength - 1 ELSE RingLength
      /\ got \in Seq(Sample) /\ flagsLost \in BOOLEAN
  BY <1>3 DEF RingInv, TypeOK
<1>5. d \in Int /\ d >= 0
  <2>1. HoldsFrom(rb, first, behind)
    BY DEF RingInv
  <2> QED
    BY <1>2, <2>1, HoldsCounts
<1>6. first = IF consumed = 0 THEN NextIndex(rb.readIndex) ELSE rb.readIndex
  BY <1>2, FirstUnreadIs
<1> HIDE DEF first, behind, d
<1>7. /\ first = a.readIndex => (IsWritable(a) <=> HeldBy(a) \in 1 .. RingLength - 1)
      /\ first # a.readIndex => (IsWritable(a) <=> HeldBy(a) \in 0 .. RingLength - 2)
  <2>1. first \in {a.readIndex, NextIndex(a.readIndex)}
        /\ (first # a.readIndex => HeldBy(a) < RingLength)
    BY <1>1, <1>2, <1>4, <1>5, Bounds
  <2> QED
    BY <1>1, <1>2, <2>1, WritableMeans
<1>8. written' \in Nat /\ written' > 0
  BY <1>2, <1>3, Bounds
<1>9. CASE IsWritable(a)
  <2>1. rb' = a
    BY <1>1, <1>9
  <2>2. HeldBy(a) < IF consumed = 0 THEN RingLength - 1 ELSE RingLength
    BY <1>1, <1>2, <1>5, <1>7, <1>9, Bounds
  <2>3. TypeOK'
    BY <1>2, <1>3, <1>4, <1>8, <2>1 DEF TypeOK
  <2>4. FirstUnread' = first
    BY <1>1, <1>3, <1>6, <2>1, FirstUnreadNext
  <2>5. Behind' = behind
    <3>1. Behind' = (written + BufferLength) - 0 - (rb.buffered + BufferLength)
      BY <1>1, <1>3, <2>1 DEF Behind
    <3> QED
      BY <1>2, <1>4, <3>1, Bounds
  <2>6. HeldBy(a) < RingLength
    BY <1>1, <1>5, <2>2, Bounds
  <2> QED
    BY <1>1, <1>2, <1>3, <1>8, <2>1, <2>2, <2>3, <2>4, <2>5, <2>6 DEF RingInv
<1>10. CASE ~IsWritable(a)
  <2>1. rb' = MoveRead(a)
    BY <1>1, <1>10
  <2>2. /\ HoldsFrom(rb', NextIndex(first), behind + BufferLength)
        /\ HeldBy(rb') = (d + 1) - 1 /\ rb'.buffered = (rb.buffered + BufferLength) - BufferLength
    BY <1>1, <1>2, <1>5, <2>1, ReadMoves
  <2>3. /\ rb' \in RingRecord /\ rb'.readIndex = NextIndex(rb.readIndex)
        /\ rb'.samplesWritten = 0
    BY <1>1, <2>1, MoveReadFields
  <2>4. HeldBy(rb') = d /\ rb'.buffered = rb.buffered
    BY <1>2, <1>5, <2>2, Bounds
  <2>5. TypeOK'
    BY <1>2, <1>3, <1>4, <1>8, <2>3 DEF TypeOK
  <2>6. FirstUnread' = NextIndex(first)
    BY <1>3, <1>6, <2>3, FirstUnreadNext
  <2>7. Behind' = behind + BufferLength /\ consumed <= behind + BufferLength
    <3>1. Behind' = (written + BufferLength) - 0 - rb.buffered
      BY <1>3, <2>3, <2>4 DEF Behind
    <3> QED
      BY <1>2, <1>4, <3>1, Bounds
  <2>8. d < RingLength
    BY <1>4, <1>5, Bounds
  <2> QED
    BY <1>3, <1>4, <1>8, <2>2, <2>3, <2>4, <2>5, <2>6, <2>7, <2>8 DEF RingInv
<1> QED
  BY <1>9, <1>10

\* What the flags count.
LEMMA FlagCounts ==
  ASSUME NEW r, NEW first, FlagsFollow(r, first), HeldBy(r) \in 0 .. RingLength
  PROVE  /\ ProcessedOf(r) \in 0 .. HeldBy(r) /\ ProcessedOf(r) \in 0 .. RingLength
         /\ HeldBy(r) < RingLength
         /\ r.samplesProcessed = ProcessedOf(r) * BufferLength
         /\ BuffersProcessed(r) = ProcessedOf(r)
<1>1. /\ ProcessedOf(r) \in 0 .. HeldBy(r) /\ HeldBy(r) < RingLength
      /\ r.samplesProcessed = ProcessedOf(r) * BufferLength
  BY DEF FlagsFollow
<1>2. ProcessedOf(r) \in 0 .. RingLength
  BY <1>1, Bounds
<1>3. BuffersProcessed(r) = ProcessedOf(r)
  BY <1>1, <1>2, CountValues DEF BuffersProcessed
<1> QED
  BY <1>1, <1>2, <1>3

LEMMA ProcessedIs ==
  ASSUME NEW r, NEW p \in 0 .. RingLength, r.samplesProcessed = p * BufferLength
  PROVE  ProcessedOf(r) = p
BY CountValues DEF ProcessedOf

\* The flag of the next buffer is set.
LEMMA ProcessFlags ==
  ASSUME NEW r \in RingRecord, NEW first \in SlotIndex, FlagsFollow(r, first),
         HeldBy(r) \in 0 .. RingLength, ProcessedOf(r) < HeldBy(r),
         r.processingIndex = Slot(first, ProcessedOf(r))
  PROVE  /\ FlagsFollow(RotateProcessingBuffer(r), first)
         /\ RotateProcessingBuffer(r).processingIndex =
              Slot(first, ProcessedOf(RotateProcessingBuffer(r)))
<1> DEFINE a == RotateProcessingBuffer(r)
           d == HeldBy(r)
           p == ProcessedOf(r)
           x == r.processingIndex
<1>1. /\ a \in RingRecord /\ a.processingIndex = NextIndex(x)
      /\ a.buffered = r.buffered
      /\ a.samplesProcessed = AsInt(r.samplesProcessed + BufferLength)
      /\ a.processedState = [r.processedState EXCEPT ![x] = TRUE]
  BY ProcessFields
<1>2. /\ p \in 0 .. d /\ p \in 0 .. RingLength /\ d < RingLength
      /\ r.samplesProcessed = p * BufferLength /\ d \in 0 .. RingLength
      /\ x = Slot(first, p) /\ p < d
  BY FlagCounts
<1>3. \A j \in 0 .. d : r.processedState[Slot(first, j)] <=> j < p
  BY DEF FlagsFollow
<1>4. HeldBy(a) = d
  BY <1>1 DEF HeldBy
<1>5. x \in SlotIndex /\ r.processedState \in [SlotIndex -> BOOLEAN]
  BY RingFields
<1> HIDE DEF a, d, p, x
<1>6. /\ p \in Int /\ d \in Int /\ p \in 0 .. RingLength - 1 /\ p + 1 \in 0 .. d
      /\ p + 1 \in 0 .. RingLength /\ p < RingLength
  BY <1>2, Bounds
<1>7. a.samplesProcessed = (p + 1) * BufferLength
  BY <1>1, <1>2, <1>6, CountValues
<1>8. ProcessedOf(a) = p + 1
  BY <1>6, <1>7, ProcessedIs
<1>9. a.processingIndex = Slot(first, p + 1)
  BY <1>1, <1>2, <1>6, Slots
<1>10. ASSUME NEW j \in 0 .. d
       PROVE  a.processedState[Slot(first, j)] <=> j < p + 1
  <2>1. j \in 0 .. RingLength - 1 /\ j \in 0 .. RingLength /\ j \in Int
    BY <1>2, <1>6, Bounds
  <2>2. Slot(first, j) \in SlotIndex
    BY <2>1, Slots
  <2>3. CASE j = p
    <3>1. a.processedState[x] = TRUE
      BY <1>1, <1>5
    <3>2. j < p + 1
      BY <1>6, <2>3
    <3> QED
      BY <1>2, <2>3, <3>1, <3>2
  <2>4. CASE j # p
    <3>1. Slot(first, j) # x
      BY <1>2, <1>6, <2>1, <2>4, OtherSlot
    <3>2. a.processedState[Slot(first, j)] = r.processedState[Slot(first, j)]
      BY <1>1, <1>5, <2>2, <3>1
    <3>3. j < p <=> j < p + 1
      BY <1>6, <2>1, <2>4
    <3> QED
      BY <1>3, <3>2, <3>3
  <2> QED
    BY <2>3, <2>4
<1>11. FlagsFollow(a, first)
  BY <1>2, <1>4, <1>6, <1>7, <1>8, <1>10 DEF FlagsFollow
<1> QED
  BY <1>8, <1>9, <1>11 DEF a

LEMMA ProcessHolds ==
  RingInv /\ Process => RingInv'
<1> SUFFICES ASSUME RingInv, Process PROVE RingInv'
  OBVIOUS
<1> DEFINE first == FirstUnread
           behind == Behind
<1>1. /\ behind \in Int /\ consumed \in Nat /\ written \in Nat
      /\ HoldsFrom(rb, first, behind) /\ rb \in RingRecord /\ first \in SlotIndex
      /\ consumed <= behind
      /\ BuffersBuffered(rb) = HeldBy(rb) /\ HeldBy(rb) \in 0 .. RingLength
      /\ HeldBy(rb) > 0 => written > 0
  BY InvCounts, HoldsCounts
<1>2. /\ style = "queue" /\ BuffersBuffered(rb) > BuffersProcessed(rb)
      /\ rb' = RotateProcessingBuffer(rb) /\ style' = style /\ written' = written
      /\ got' = got /\ consumed' = consumed /\ flagsLost' = flagsLost
  BY DEF Process
<1>3. /\ rb' \in RingRecord /\ rb'.readIndex = rb.readIndex /\ rb'.writeIndex = rb.writeIndex
      /\ rb'.buffered = rb.buffered
      /\ rb'.samplesWritten = rb.samplesWritten /\ rb'.samplesRemaining = rb.samplesRemaining
      /\ rb'.ring = rb.ring
  BY <1>1, <1>2, ProcessFields
<1>4. first = IF consumed = 0 THEN NextIndex(rb.readIndex) ELSE rb.readIndex
  BY <1>1, FirstUnreadIs
<1>5. FirstUnread' = first /\ Behind' = behind
  <2>1. FirstUnread' = first
    BY <1>2, <1>3, <1>4, FirstUnreadNext
  <2>2. Behind' = behind
    BY <1>2, <1>3 DEF Behind
  <2> QED
    BY <2>1, <2>2
<1>6. /\ written = 0 => consumed = 0 /\ rb.readIndex = 0
      /\ consumed = 0 => HeldBy(rb) < RingLength
      /\ consumed = behind /\ got \in Seq(Sample) /\ flagsLost \in BOOLEAN
      /\ ~flagsLost => /\ FlagsFollow(rb, first)
                       /\ written > 0 => rb.processingIndex = Slot(first, ProcessedOf(rb))
  BY <1>2 DEF RingInv, TypeOK
<1> HIDE DEF first, behind
<1>7. HoldsFrom(rb', first, behind) /\ HeldBy(rb') = HeldBy(rb)
  BY <1>1, <1>3, SameHolds
<1>8. ASSUME ~flagsLost
      PROVE  /\ FlagsFollow(rb', first) /\ rb'.processingIndex = Slot(first, ProcessedOf(rb'))
             /\ written # 0
  <2>1. FlagsFollow(rb, first)
    BY <1>6, <1>8
  <2>2. /\ ProcessedOf(rb) \in 0 .. HeldBy(rb) /\ BuffersProcessed(rb) = ProcessedOf(rb)
    BY <1>1, <2>1, FlagCounts
  <2>3. ProcessedOf(rb) < HeldBy(rb) /\ HeldBy(rb) > 0
    BY <1>1, <1>2, <2>2
  <2>4. written > 0 /\ rb.processingIndex = Slot(first, ProcessedOf(rb))
    BY <1>1, <1>6, <1>8, <2>3
  <2>5. /\ FlagsFollow(rb', first) /\ rb'.processingIndex = Slot(first, ProcessedOf(rb'))
    BY <1>1, <1>2, <2>1, <2>3, <2>4, ProcessFlags
  <2> QED
    BY <1>1, <2>4, <2>5
<1>9. TypeOK'
  BY <1>1, <1>2, <1>3, <1>6 DEF TypeOK
<1> QED
  BY <1>1, <1>2, <1>3, <1>5, <1>6, <1>7, <1>8, <1>9 DEF RingInv

\* Reading gives up the oldest flag.
LEMMA ReadFlags ==
  ASSUME NEW r \in RingRecord, NEW first \in SlotIndex, FlagsFollow(r, first),
         HeldBy(r) \in 0 .. RingLength, ProcessedOf(r) > 0,
         r.processingIndex = Slot(first, ProcessedOf(r)),
         HeldBy(MoveRead(r)) = HeldBy(r) - 1
  PROVE  /\ FlagsFollow(MoveRead(r), NextIndex(first))
         /\ MoveRead(r).processingIndex =
              Slot(NextIndex(first), ProcessedOf(MoveRead(r)))
<1> DEFINE a == MoveRead(r)
           d == HeldBy(r)
           p == ProcessedOf(r)
           next == NextIndex(first)
<1>1. /\ a.processingIndex = r.processingIndex
      /\ a.samplesProcessed = AtLeastZero(AsInt(r.samplesProcessed - BufferLength))
      /\ a.processedState = r.processedState
  BY MoveReadFields
<1>2. /\ p \in 0 .. d /\ p \in 0 .. RingLength /\ d < RingLength
      /\ r.samplesProcessed = p * BufferLength /\ d \in 0 .. RingLength /\ p > 0
      /\ r.processingIndex = Slot(first, p) /\ HeldBy(a) = d - 1
  BY FlagCounts
<1>3. \A j \in 0 .. d : r.processedState[Slot(first, j)] <=> j < p
  BY DEF FlagsFollow
<1> HIDE DEF a, d, p, next
<1>4. /\ p \in Int /\ d \in Int /\ p - 1 \in 0 .. d - 1 /\ p - 1 \in 0 .. RingLength
      /\ p - 1 \in 0 .. RingLength - 1 /\ d - 1 < RingLength /\ (p - 1) + 1 = p
  BY <1>2, Bounds
<1>5. a.samplesProcessed = (p - 1) * BufferLength
  BY <1>1, <1>2, CountValues
<1>6. ProcessedOf(a) = p - 1
  BY <1>4, <1>5, ProcessedIs
<1>7. \A j \in 0 .. RingLength - 1 : Slot(next, j) = Slot(first, j + 1)
  BY Slots DEF next
<1>8. a.processingIndex = Slot(next, p - 1)
  BY <1>1, <1>2, <1>4, <1>7
<1>9. ASSUME NEW j \in 0 .. d - 1
      PROVE  a.processedState[Slot(next, j)] <=> j < p - 1
  <2>1. j \in 0 .. RingLength - 1 /\ j + 1 \in 0 .. d /\ (j + 1 < p <=> j < p - 1)
    BY <1>2, <1>4, Bounds
  <2> QED
    BY <1>1, <1>3, <1>7, <2>1
<1>10. FlagsFollow(a, next)
  BY <1>2, <1>4, <1>5, <1>6, <1>9 DEF FlagsFollow
<1> QED
  BY <1>6, <1>8, <1>10 DEF a, next

\* What a read finds: the samples that follow those read or overrun.
LEMMA ReadFinds ==
  ASSUME RingInv, HeldBy(rb) > 0
  PROVE  \E r \in RingRecord :
           /\ r = FirstRead(rb) /\ r.readIndex = FirstUnread
           /\ HoldsFrom(r, FirstUnread, Behind) /\ HeldBy(r) = HeldBy(rb)
           /\ r.buffered = rb.buffered /\ r.samplesWritten = rb.samplesWritten
           /\ r.samplesProcessed = rb.samplesProcessed
           /\ r.processedState = rb.processedState
           /\ r.processingIndex = rb.processingIndex
           /\ \A k \in SampleIndex : r.ring[r.readIndex][k] = Behind + k + 1
<1> DEFINE r == FirstRead(rb)
           first == FirstUnread
           behind == Behind
<1>1. /\ behind \in Int /\ HoldsFrom(rb, first, behind) /\ rb \in RingRecord
      /\ first \in SlotIndex
  BY InvCounts
<1>2. /\ r \in RingRecord /\ r.buffered = rb.buffered /\ r.samplesWritten = rb.samplesWritten
      /\ r.samplesProcessed = rb.samplesProcessed
      /\ r.processedState = rb.processedState
      /\ r.processingIndex = rb.processingIndex
      /\ r.samplesRemaining = rb.samplesRemaining /\ r.writeIndex = rb.writeIndex
      /\ r.ring = rb.ring
  BY <1>1, ReadIndexFields DEF FirstRead
<1>3. r.readIndex = first
  BY DEF FirstUnread
<1> HIDE DEF r, first, behind
<1>4. HoldsFrom(r, first, behind) /\ HeldBy(r) = HeldBy(rb)
  BY <1>1, <1>2, SameHolds
<1>5. ASSUME NEW k \in SampleIndex PROVE r.ring[r.readIndex][k] = behind + k + 1
  <2>1. HeldBy(r) \in Int
    BY <1>1, <1>4, HoldsCounts
  <2>2. 0 \in 0 .. HeldBy(r) - 1 /\ Slot(first, 0) = first /\ 0 * BufferLength = 0 /\ k \in Int
    BY <1>1, <1>4, <2>1, Slots, Bounds
  <2>3. r.ring[Slot(first, 0)][k] = behind + 0 * BufferLength + k + 1
    BY <1>4, <2>2 DEF HoldsFrom
  <2> QED
    BY <1>1, <1>3, <2>2, <2>3
<1> QED
  BY <1>2, <1>3, <1>4, <1>5 DEF r, first, behind

LEMMA ReadHolds ==
  ASSUME RingInv, NEW length \in 1 .. BufferLength, Read(length)
  PROVE  /\ RingInv'
         /\ got' \in Seq(Int) /\ \A k \in DOMAIN got' : got'[k] = Behind + k
         /\ DOMAIN got' = 1 .. length /\ written' = written
         /\ Behind + BufferLength <= written
<1> DEFINE first == FirstUnread
           behind == Behind
           d == HeldBy(rb)
           next == NextIndex(first)
<1>1. /\ behind \in Int /\ consumed \in Nat /\ written \in Nat
      /\ behind + rb.buffered + rb.samplesWritten = written
      /\ HoldsFrom(rb, first, behind) /\ rb \in RingRecord /\ first \in SlotIndex
      /\ consumed <= behind /\ rb.buffered \in Int /\ rb.samplesWritten \in Int
      /\ BuffersBuffered(rb) = d /\ d \in 0 .. RingLength
      /\ d > 0 => written > 0 /\ behind + BufferLength <= written
  BY InvCounts, HoldsCounts
<1>2. /\ style = "queue" => BuffersProcessed(rb) > 0
      /\ got' = ReadSamples(FirstRead(rb), length)
      /\ consumed' = FirstRead(rb).ring[FirstRead(rb).readIndex][BufferLength - 1]
      /\ rb' = MoveRead(FirstRead(rb))
      /\ style' = style /\ written' = written /\ flagsLost' = flagsLost
  BY <1>1 DEF Read, RotateReadBuffer
<1>3. d > 0
  BY <1>1 DEF Read
<1>4. PICK r \in RingRecord :
        /\ r = FirstRead(rb) /\ r.readIndex = first
        /\ HoldsFrom(r, first, behind) /\ HeldBy(r) = d
        /\ r.buffered = rb.buffered /\ r.samplesWritten = rb.samplesWritten
        /\ r.samplesProcessed = rb.samplesProcessed
        /\ r.processedState = rb.processedState
        /\ r.processingIndex = rb.processingIndex
        /\ \A k \in SampleIndex : r.ring[r.readIndex][k] = behind + k + 1
  BY <1>3, ReadFinds
<1>5. /\ style \in {"queue", "overrun"} /\ flagsLost \in BOOLEAN
      /\ d < RingLength \/ d = RingLength
      /\ style = "queue" /\ ~flagsLost =>
           /\ FlagsFollow(rb, first)
           /\ written > 0 => rb.processingIndex = Slot(first, ProcessedOf(rb))
      /\ style = "overrun" => rb.samplesWritten = 0
  BY <1>1, Bounds DEF RingInv, TypeOK
<1> HIDE DEF first, behind, d, next
<1>6. BufferLength - 1 \in SampleIndex /\ d \in Int /\ BufferLength \in Int /\ BufferLength > 0
      /\ RingLength \in Int
  BY <1>1, Bounds
<1>7. consumed' = behind + BufferLength
  BY <1>1, <1>2, <1>4, <1>6
<1>8. /\ HoldsFrom(rb', next, behind + BufferLength) /\ HeldBy(rb') = d - 1
      /\ rb'.buffered = rb.buffered - BufferLength
  BY <1>1, <1>2, <1>3, <1>4, ReadMoves DEF next
<1>9. /\ rb' \in RingRecord /\ rb'.readIndex = next /\ rb'.samplesWritten = rb.samplesWritten
  BY <1>2, <1>4, MoveReadFields DEF next
<1>10. FirstUnread' = next /\ Behind' = behind + BufferLength
  <2>1. consumed' # 0
    BY <1>1, <1>6, <1>7
  <2>2. FirstUnread' = next
    BY <1>9, <2>1, FirstUnreadNext
  <2>3. Behind' = written - rb.samplesWritten - (rb.buffered - BufferLength)
    BY <1>2, <1>8, <1>9 DEF Behind
  <2>4. Behind' = behind + BufferLength
    BY <1>1, <1>6, <2>3
  <2> QED
    BY <2>2, <2>4
<1>11. /\ got' \in Seq(Int) /\ DOMAIN got' = 1 .. length
       /\ \A k \in DOMAIN got' : got'[k] = behind + k
  <2>1. got' = [j \in 1 .. length |-> r.ring[r.readIndex][j - 1]]
    BY <1>2, <1>4 DEF ReadSamples
  <2>2. ASSUME NEW j \in 1 .. length
        PROVE  r.ring[r.readIndex][j - 1] = behind + j /\ behind + j \in Int
    <3>1. j - 1 \in SampleIndex /\ (j - 1) + 1 = j /\ j \in Int
      BY Bounds
    <3>2. r.ring[r.readIndex][j - 1] = behind + (j - 1) + 1
      BY <1>4, <3>1
    <3> QED
      BY <1>1, <3>1, <3>2
  <2>3. length \in Nat
    BY <1>6
  <2>4. got' \in [1 .. length -> Int] /\ \A k \in 1 .. length : got'[k] = behind + k
    BY <2>1, <2>2
  <2>5. DOMAIN got' = 1 .. length
    BY <2>4
  <2>6. got' \in Seq(Int)
    BY <2>3, <2>4
  <2> QED
    BY <2>4, <2>5, <2>6
<1>12. ASSUME style = "queue", ~flagsLost
       PROVE  /\ FlagsFollow(rb', next) /\ rb'.processingIndex = Slot(next, ProcessedOf(rb'))
  <2>1. FlagsFollow(r, first) /\ ProcessedOf(r) = ProcessedOf(rb)
    BY <1>4, <1>5, <1>12, SameFlags
  <2>2. BuffersProcessed(rb) = ProcessedOf(rb)
    BY <1>1, <1>5, <1>12, FlagCounts DEF d
  <2>3. ProcessedOf(r) > 0 /\ r.processingIndex = Slot(first, ProcessedOf(r))
    BY <1>1, <1>2, <1>3, <1>4, <1>5, <1>12, <2>1, <2>2
  <2> QED
    BY <1>1, <1>2, <1>4, <1>8, <2>1, <2>3, ReadFlags DEF next
<1>13. TypeOK'
  <2>1. consumed' \in Nat
    BY <1>1, <1>6, <1>7
  <2> QED
    BY <1>1, <1>2, <1>5, <1>9, <1>11, <2>1 DEF TypeOK, Sample
<1>14. RingInv'
  <2>1. written' # 0 /\ consumed' # 0 /\ consumed' <= behind + BufferLength
    BY <1>1, <1>2, <1>3, <1>6, <1>7
  <2>2. d - 1 < RingLength
    BY <1>1, <1>6
  <2> QED
    BY <1>2, <1>5, <1>7, <1>8, <1>9, <1>10, <1>12, <1>13, <2>1, <2>2 DEF RingInv
<1> QED
  BY <1>1, <1>2, <1>3, <1>11, <1>14 DEF behind

-------------------------------------------------------------------------------
(* The results. *)

LEMMA RingInvStep ==
  RingInv /\ [Next]_vars => RingInv'
<1> SUFFICES ASSUME RingInv, [Next]_vars PROVE RingInv'
  OBVIOUS
<1>1. CASE \E n \in 1 .. RingLength * BufferLength + 1 : WriteSome(n)
  BY <1>1, WriteSomeHolds
<1>2. CASE FillAndRotate
  BY <1>2, FillHolds
<1>3. CASE Process
  BY <1>3, ProcessHolds
<1>4. CASE \E length \in 1 .. BufferLength : Read(length)
  BY <1>4, ReadHolds
<1>5. CASE Reset \/ SetSizeAgain
  BY <1>5, RestartHolds
<1>6. CASE UNCHANGED vars
  <2>1. /\ rb' = rb /\ style' = style /\ written' = written /\ got' = got
        /\ consumed' = consumed /\ flagsLost' = flagsLost
    BY <1>6 DEF vars
  <2>2. FirstUnread' = FirstUnread /\ Behind' = Behind /\ TypeOK' = TypeOK
    BY <2>1 DEF FirstUnread, FirstRead, Behind, TypeOK
  <2> QED
    BY <2>1, <2>2 DEF RingInv
<1> QED
  BY <1>1, <1>2, <1>3, <1>4, <1>5, <1>6 DEF Next

\* The ring holds the samples that follow the last one read or overrun, in order from
\* its first unread buffer; and the flags and the processing cursor follow the
\* processed count until they are lost: whatever the client does with the members.
THEOREM RingInvariant == Spec => []RingInv
BY InitHolds, RingInvStep, PTL DEF Spec

\* The fields of the ring and the client stay of their types.
THEOREM RingTypes == Spec => []TypeOK
<1>1. RingInv => TypeOK
  BY DEF RingInv
<1> QED
  BY <1>1, RingInvariant, PTL

\* Used as a queue, RingBuffer loses, repeats and reorders no sample, for rings of any
\* number of buffers of any length; its counters say what it holds, and its flags
\* which of the unread buffers were processed.
THEOREM QueueKept == Spec => []RingIsQueue
<1>1. ASSUME RingInv PROVE RingIsQueue
  <2> SUFFICES ASSUME style = "queue"
               PROVE  /\ rb.buffered = Unread * BufferLength
                      /\ rb.samplesWritten = (written - consumed) % BufferLength
                      /\ \A j \in 0 .. Unread - 1, k \in SampleIndex :
                           BufferAt(j)[k] = consumed + j * BufferLength + k + 1
                      /\ \A k \in 0 .. rb.samplesWritten - 1 :
                           BufferAt(Unread)[k] = consumed + Unread * BufferLength + k + 1
                      /\ ~flagsLost => \A j \in 0 .. Unread - 1 :
                           rb.processedState[(FirstUnread + j) % RingLength]
                             <=> j < BuffersProcessed(rb)
    BY DEF RingIsQueue
  <2> DEFINE first == FirstUnread
             d == HeldBy(rb)
             m == rb.samplesWritten
  <2>1. /\ Behind \in Int /\ consumed \in Nat /\ written \in Nat
        /\ Behind + rb.buffered + m = written
        /\ HoldsFrom(rb, first, Behind) /\ rb \in RingRecord /\ consumed = Behind
    BY <1>1, InvCounts DEF RingInv
  <2>2. /\ rb.buffered = d * BufferLength /\ d \in Int /\ d \in 0 .. RingLength
        /\ m \in Int /\ m >= 0 /\ m < BufferLength /\ rb.buffered \in Int
    BY <2>1, HoldsCounts
  <2>3. Unread = d /\ (written - consumed) % BufferLength = m
    <3> DEFINE x == written - consumed
    <3>1. x \in Int /\ x = d * BufferLength + m /\ BufferLength \in Int /\ BufferLength > 0
      <4>1. x \in Int /\ x = rb.buffered + m
        BY <2>1, <2>2
      <4>2. BufferLength \in Int /\ BufferLength > 0
        BY Bounds
      <4> QED
        BY <2>2, <4>1, <4>2
    <3> HIDE DEF x, d, m
    <3>2. x \div BufferLength = d /\ x % BufferLength = m
      BY <2>2, <3>1, QuotientIs
    <3> QED
      BY <3>2 DEF x, Unread
  <2>4. /\ rb.writeIndex = Slot(first, d)
        /\ \A j \in 0 .. d - 1, k \in SampleIndex :
             rb.ring[Slot(first, j)][k] = consumed + j * BufferLength + k + 1
        /\ \A k \in 0 .. m - 1 :
             rb.ring[rb.writeIndex][k] = consumed + rb.buffered + k + 1
    BY <2>1 DEF HoldsFrom
  <2>5. ASSUME ~flagsLost, NEW j \in 0 .. d - 1
        PROVE  rb.processedState[(first + j) % RingLength] <=> j < BuffersProcessed(rb)
    <3>1. FlagsFollow(rb, first)
      BY <1>1, <2>5 DEF RingInv
    <3>2. BuffersProcessed(rb) = ProcessedOf(rb)
      BY <2>2, <3>1, FlagCounts
    <3>3. j \in 0 .. d
      BY <2>2
    <3> QED
      BY <3>1, <3>2, <3>3 DEF FlagsFollow, Slot
  <2>6. \A j : BufferAt(j) = rb.ring[Slot(first, j)]
    BY DEF BufferAt, Slot
  <2> HIDE DEF first, d, m
  <2>7. /\ rb.buffered = Unread * BufferLength
        /\ m = (written - consumed) % BufferLength
        /\ \A j \in 0 .. Unread - 1, k \in SampleIndex :
             BufferAt(j)[k] = consumed + j * BufferLength + k + 1
        /\ \A k \in 0 .. m - 1 :
             BufferAt(Unread)[k] = consumed + Unread * BufferLength + k + 1
    BY <2>2, <2>3, <2>4, <2>6
  <2>8. ~flagsLost => \A j \in 0 .. Unread - 1 :
          rb.processedState[(first + j) % RingLength] <=> j < BuffersProcessed(rb)
    BY <2>3, <2>5
  <2> QED
    BY <2>7, <2>8 DEF first, m
<1> QED
  BY <1>1, RingInvariant, PTL

\* is_writable() refuses the writer when the ring is full, and when a queue that was
\* read is drained, and at no other time.
THEOREM RefusalsKnown == Spec => []RefusedWhenFullOrDrained
<1>1. ASSUME RingInv PROVE RefusedWhenFullOrDrained
  <2> SUFFICES ASSUME style = "queue"
               PROVE  IsWritable(rb) <=> IF consumed = 0 THEN Unread < RingLength - 1
                                         ELSE Unread \in 1 .. RingLength - 1
    BY DEF RefusedWhenFullOrDrained
  <2> DEFINE first == FirstUnread
             d == HeldBy(rb)
             m == rb.samplesWritten
  <2>1. /\ Behind \in Int /\ consumed \in Nat /\ written \in Nat
        /\ Behind + rb.buffered + m = written
        /\ HoldsFrom(rb, first, Behind) /\ rb \in RingRecord /\ consumed = Behind
        /\ first \in {rb.readIndex, NextIndex(rb.readIndex)}
        /\ first # rb.readIndex <=> consumed = 0
    BY <1>1, InvCounts DEF RingInv
  <2>2. /\ rb.buffered = d * BufferLength /\ d \in Int /\ d \in 0 .. RingLength
        /\ m \in Int /\ m >= 0 /\ m < BufferLength /\ rb.buffered \in Int
    BY <2>1, HoldsCounts
  <2>3. Unread = d
    <3> DEFINE x == written - consumed
    <3>1. x \in Int /\ x = d * BufferLength + m /\ BufferLength \in Int /\ BufferLength > 0
      <4>1. x \in Int /\ x = rb.buffered + m
        BY <2>1, <2>2
      <4>2. BufferLength \in Int /\ BufferLength > 0
        BY Bounds
      <4> QED
        BY <2>2, <4>1, <4>2
    <3> HIDE DEF x, d, m
    <3>2. x \div BufferLength = d
      BY <2>2, <3>1, QuotientIs
    <3> QED
      BY <3>2 DEF x, Unread
  <2>4. consumed = 0 => d < RingLength
    BY <1>1 DEF RingInv
  <2> HIDE DEF first, d, m
  <2>5. /\ first = rb.readIndex => (IsWritable(rb) <=> d \in 1 .. RingLength - 1)
        /\ first # rb.readIndex => (IsWritable(rb) <=> d \in 0 .. RingLength - 2)
    BY <2>1, <2>4, WritableMeans DEF d
  <2>6. d \in 0 .. RingLength - 2 <=> d < RingLength - 1
    BY <2>2, Bounds
  <2> QED
    BY <2>1, <2>3, <2>5, <2>6
<1> QED
  BY <1>1, RingInvariant, PTL

\* What a read returns are samples written, in order, and newer than any read before,
\* also when the writer has pushed the reader forward.
THEOREM ReadsOrdered == Spec => ReadsInOrder
<1> DEFINE InOrder == \A k \in DOMAIN got' : got' # got =>
             got'[k] = got'[1] + k - 1 /\ got'[k] > consumed /\ got'[k] <= written
<1>1. ASSUME RingInv, [Next]_vars PROVE [InOrder]_vars
  <2> SUFFICES ASSUME NEW k \in DOMAIN got', got' # got
               PROVE  got'[k] = got'[1] + k - 1 /\ got'[k] > consumed /\ got'[k] <= written
    OBVIOUS
  <2>1. CASE \E length \in 1 .. BufferLength : Read(length)
    <3>1. PICK length \in 1 .. BufferLength : Read(length)
      BY <2>1
    <3>2. /\ \A j \in DOMAIN got' : got'[j] = Behind + j
          /\ DOMAIN got' = 1 .. length /\ written' = written
          /\ Behind + BufferLength <= written
      BY <1>1, <3>1, ReadHolds
    <3>3. Behind \in Int /\ consumed <= Behind /\ consumed \in Nat /\ written \in Nat
      BY <1>1, InvCounts
    <3>4. k \in 1 .. BufferLength /\ k \in Int /\ 1 \in DOMAIN got'
      BY <3>2, Bounds
    <3>5. got'[k] = Behind + k /\ got'[1] = Behind + 1
      BY <3>2, <3>4
    <3> QED
      BY <3>2, <3>3, <3>4, <3>5, Bounds
  <2>2. CASE Reset \/ SetSizeAgain
    <3>1. got' = <<>>
      BY <2>2 DEF Reset, SetSizeAgain, Restarted
    <3> QED
      BY <3>1
  <2>3. CASE \/ \E n \in 1 .. RingLength * BufferLength + 1 : WriteSome(n)
             \/ FillAndRotate \/ Process
    BY <2>3 DEF WriteSome, FillAndRotate, Process
  <2>4. CASE UNCHANGED vars
    BY <2>4 DEF vars
  <2> QED
    BY <1>1, <2>1, <2>2, <2>3, <2>4 DEF Next
<1>2. Spec => [][InOrder]_vars
  BY <1>1, RingInvariant, PTL DEF Spec
<1> QED
  BY <1>2 DEF ReadsInOrder
===============================================================================
