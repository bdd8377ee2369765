-------------------------- MODULE HashWrapperProofs --------------------------
(***************************************************************************)
(* Proofs about the hash algorithms and their wrappers: for blocks of any  *)
(* length, integers of any width, messages and chunks of any length.  A    *)
(* context that holds the first bytes of a message holds those of the next *)
(* chunk as well after an update, and ends with the digest of the          *)
(* standard: first MD5, SHA-256, SHA-384 and SHA-512, which take a block   *)
(* at a time, then SHA-1, which takes a byte, then the wrappers and their  *)
(* client, for every sequence of calls.                                    *)
(***************************************************************************)
EXTENDS HashWrapper, FoldProofs, SequenceTheorems

-------------------------------------------------------------------------------
(* What a context holds. *)

\* The first n blocks of a message.
MessageBlocks(n) ==
  [i \in 1 .. n |-> [k \in 1 .. BlockLength |-> BlockLength * (i - 1) + k]]

\* What of the first n bytes of a message fills no block is in a buffer.
HoldsRest(buffer, n) ==
  \A k \in 1 .. n % BlockLength : buffer[k] = BlockLength * (n \div BlockLength) + k

Compressed(name, n) == [iv |-> name, blocks |-> MessageBlocks(n \div BlockLength)]

\* Where an unsigned long is wider than an int, the high word of count is only right
\* until the low 32 bits are used up.
CountsRight(n) == ULongMod = UIntMod \/ Bits(n) < UIntMod

MD5Holds(c, n) ==
  /\ c.state = Compressed("md5", n) /\ HoldsRest(c.buffer, n)
  /\ c.count[1] = Bits(n) % ULongMod
  /\ CountsRight(n) => c.count[2] = (Bits(n) \div UIntMod) % UIntMod

-------------------------------------------------------------------------------
(* Quotients and remainders. *)

LEMMA QuotientIs ==
  ASSUME NEW x \in Int, NEW d \in Int, d > 0, NEW q \in Int, NEW m \in Int,
         x = d * q + m, 0 <= m, m < d
  PROVE  x \div d = q /\ x % d = m
BY SMTT(30)

LEMMA Division ==
  ASSUME NEW x \in Nat, NEW d \in Nat, d > 0
  PROVE  /\ x \div d \in Nat /\ x % d \in Nat /\ x % d < d
         /\ x = d * (x \div d) + (x % d) /\ d * (x \div d) \in Nat
         /\ x < d => x \div d = 0 /\ x % d = x
BY SMTT(30)

\* Quotient and remainder after a number that fills up a multiple of the divisor.
LEMMA Beyond ==
  ASSUME NEW d \in Nat, d > 0, NEW q \in Nat, NEW y \in Nat
  PROVE  (d * q + y) \div d = q + y \div d /\ (d * q + y) % d = y % d
<1>1. /\ y \div d \in Nat /\ y % d \in Nat /\ y % d < d
      /\ y = d * (y \div d) + (y % d)
  BY Division
<1> DEFINE p == y \div d
           m == y % d
<1> HIDE DEF p, m
<1>2. d * q + y = d * (q + p) + m /\ q + p \in Int /\ d * q + y \in Int
  BY <1>1, SMTT(30) DEF p, m
<1>3. (d * q + y) \div d = q + p /\ (d * q + y) % d = m
  BY <1>1, <1>2, QuotientIs DEF p, m
<1> QED
  BY <1>3 DEF p, m

\* A sum of two remainders, and when it carries.
LEMMA SumOfRemainders ==
  ASSUME NEW d \in Nat, d > 0, NEW x \in Nat, NEW y \in Nat
  PROVE  /\ ((x % d) + y) % d = (x + y) % d
         /\ (x + y) \div d = x \div d + y \div d + IF (x + y) % d < y % d THEN 1 ELSE 0
<1> DEFINE p == x \div d
           m == x % d
           q == y \div d
           n == y % d
<1>1. /\ p \in Nat /\ m \in Nat /\ m < d /\ x = d * p + m
      /\ q \in Nat /\ n \in Nat /\ n < d /\ y = d * q + n
  BY Division
<1>2. x \div d = p /\ x % d = m /\ y \div d = q /\ y % d = n
  OBVIOUS
<1> HIDE DEF p, m, q, n
<1>3. d * p \in Nat /\ d * q \in Nat /\ d * (p + q) = d * p + d * q
      /\ d * (p + q + 1) = d * p + d * q + d
  BY <1>1, SMTT(30)
<1>4. CASE m + n < d
  <2>1. x + y = d * (p + q) + (m + n)
    BY <1>1, <1>3
  <2>2. (x + y) \div d = p + q /\ (x + y) % d = m + n
    BY <1>1, <1>4, <2>1, QuotientIs
  <2>3. (m + y) = d * q + (m + n)
    BY <1>1, <1>3
  <2>4. (m + y) % d = m + n
    BY <1>1, <1>4, <2>3, QuotientIs
  <2> QED
    BY <1>1, <1>2, <2>2, <2>4
<1>5. CASE m + n >= d
  <2>1. x + y = d * (p + q + 1) + (m + n - d)
    BY <1>1, <1>3
  <2>2. (x + y) \div d = p + q + 1 /\ (x + y) % d = m + n - d
    BY <1>1, <1>5, <2>1, QuotientIs
  <2>3. d * (q + 1) = d * q + d
    BY <1>1, SMTT(30)
  <2>4. m + y = d * (q + 1) + (m + n - d)
    BY <1>1, <1>3, <2>3
  <2>5. (m + y) % d = m + n - d
    BY <1>1, <1>5, <2>4, QuotientIs
  <2> QED
    BY <1>1, <1>2, <1>5, <2>2, <2>5
<1> QED
  BY <1>1, <1>4, <1>5

\* The quotient of a remainder.
LEMMA QuotientOfRemainder ==
  ASSUME NEW d \in Nat, d > 0, NEW e \in Nat, e > 0, NEW x \in Nat
  PROVE  /\ (x % (d * e)) \div d = (x \div d) % e
         /\ (x % (d * e)) % d = x % d
<1> DEFINE p == x \div d
           m == x % d
           q == p \div e
           n == p % e
<1>1. /\ p \in Nat /\ m \in Nat /\ m < d /\ x = d * p + m
      /\ q \in Nat /\ n \in Nat /\ n < e /\ p = e * q + n
  BY Division
<1>2. x \div d = p /\ x % d = m /\ p % e = n
  OBVIOUS
<1> HIDE DEF p, m, q, n
<1>3. d * e \in Nat /\ d * e > 0 /\ d * n \in Nat
  BY <1>1, SMTT(30)
<1>4. d * n + m < d * e
  <2>1. e - n - 1 >= 0 => d * (e - n - 1) >= 0
    BY <1>1, SMTT(30)
  <2>2. d * (e - n - 1) = d * e - d * n - d
    BY <1>1, SMTT(30)
  <2> QED
    BY <1>1, <1>3, <2>1, <2>2
<1>5. x = (d * e) * q + (d * n + m)
  <2>1. d * (e * q + n) = (d * e) * q + d * n
    BY <1>1, SMTT(30)
  <2>2. (d * e) * q \in Nat
    BY <1>1, <1>3, SMTT(30)
  <2> QED
    BY <1>1, <1>3, <2>1, <2>2
<1>6. x % (d * e) = d * n + m
  <2> DEFINE f == d * e
             g == d * n + m
  <2>1. f \in Int /\ f > 0 /\ g \in Int /\ 0 <= g /\ g < f /\ x = f * q + g
    BY <1>1, <1>3, <1>4, <1>5
  <2> HIDE DEF f, g
  <2>2. x % f = g
    BY <1>1, <2>1, QuotientIs
  <2> QED
    BY <2>2 DEF f, g
<1>7. (d * n + m) \div d = n /\ (d * n + m) % d = m
  BY <1>1, <1>3, QuotientIs
<1> QED
  BY <1>2, <1>6, <1>7

Multiple(x, d) == \E e \in Nat : e > 0 /\ x = d * e

\* The remainder by a multiple leaves the remainder.
LEMMA RemainderOfRemainder ==
  ASSUME NEW d \in Nat, d > 0, NEW w, Multiple(w, d), NEW x \in Nat
  PROVE  (x % w) % d = x % d
<1>1. PICK e \in Nat : e > 0 /\ w = d * e
  BY DEF Multiple
<1>2. (x % (d * e)) % d = x % d
  BY <1>1, QuotientOfRemainder
<1> QED
  BY <1>1, <1>2

-------------------------------------------------------------------------------
(* The constants. *)

\* The bits of a block divide every width.
LEMMA Widths ==
  /\ BlockLength \in Nat /\ BlockLength > 2 /\ ShortBlock \in Nat
  /\ ShortBlock = BlockLength - 2 /\ ByteBits \in Nat /\ ByteBits > 0
  /\ UIntMod \in Nat /\ UIntMod > 0 /\ Word64Mod \in Nat /\ Word64Mod > UIntMod
  /\ ULongMod \in {UIntMod, Word64Mod} /\ ULongMod \in Nat /\ ULongMod > 0
<1>1. /\ BlockLength \in Nat /\ BlockLength > 2 /\ ByteBits \in Nat /\ ByteBits > 0
      /\ UIntMod \in Nat /\ UIntMod > BlockLength * ByteBits
      /\ ULongMod \in {UIntMod, Word64Mod}
  BY HashAssumption DEF Word64Mod
<1>2. BlockLength * ByteBits > 2
  BY <1>1, SMTT(30)
<1>3. Word64Mod \in Nat /\ Word64Mod > UIntMod
  BY <1>1, <1>2, SMTT(30) DEF Word64Mod
<1> QED
  BY <1>1, <1>2, <1>3 DEF ShortBlock

\* So a count of bits, reduced to one of the widths, still tells how full a block is.
LEMMA CountedBytes ==
  ASSUME NEW n \in Nat, NEW width \in {UIntMod, Word64Mod}
  PROVE  ((Bits(n) % width) \div ByteBits) % BlockLength = n % BlockLength
<1> DEFINE b == ByteBits
           d == BlockLength
<1>1. b \in Nat /\ b > 0 /\ d \in Nat /\ d > 0
  BY Widths
<1>2. \E m \in Nat : m > 0 /\ width = b * (d * m)
  <2> DEFINE u == UIntMod
             c == u \div (d * b)
  <2>1. d * b \in Nat /\ d * b > 0
    BY <1>1, SMTT(30)
  <2>2. u \in Nat /\ u % (d * b) = 0 /\ u > d * b
    BY HashAssumption
  <2>3. c \in Nat /\ u = (d * b) * c
    <3> DEFINE e == d * b
    <3>1. e \in Nat /\ e > 0 /\ u % e = 0
      BY <2>1, <2>2
    <3> HIDE DEF e, u
    <3>2. u \div e \in Nat /\ u = e * (u \div e) + (u % e) /\ e * (u \div e) \in Nat
      BY <2>2, <3>1, Division DEF u
    <3>3. u = e * (u \div e)
      BY <3>1, <3>2
    <3> QED
      BY <3>2, <3>3 DEF e
  <2> HIDE DEF c, u
  <2>4. c > 0 /\ u = b * (d * c)
    <3>1. (d * b) * c = b * (d * c)
      BY <1>1, <2>3, SMTT(30)
    <3>2. (d * b) * 0 = 0
      BY <2>1
    <3> QED
      BY <2>2, <2>3, <3>1, <3>2, <2>1
  <2>5. c * u \in Nat /\ c * u > 0 /\ u * u = b * (d * (c * u))
    <3>1. (b * (d * c)) * u = b * (d * (c * u))
      BY <1>1, <2>2, <2>3, SMTT(30)
    <3>2. c * u \in Nat /\ c * u > 0
      BY <2>1, <2>2, <2>3, <2>4, SMTT(30)
    <3>3. u * u = (b * (d * c)) * u
      BY <2>4
    <3> QED
      BY <3>1, <3>2, <3>3
  <2> QED
    BY <2>3, <2>4, <2>5 DEF u, Word64Mod
<1>3. PICK m \in Nat : m > 0 /\ width = b * (d * m)
  BY <1>2
<1> DEFINE e == d * m
<1>4. e \in Nat /\ e > 0
  BY <1>1, <1>3, SMTT(30)
<1>5. Bits(n) \in Nat /\ Bits(n) = b * n + 0 /\ Bits(n) \div b = n
  <2>1. n * b \in Nat /\ n * b = b * n
    BY <1>1, SMTT(30)
  <2>2. (b * n + 0) \div b = n
    BY <1>1, <2>1, QuotientIs
  <2> QED
    BY <2>1, <2>2 DEF Bits
<1>6. (Bits(n) % (b * e)) \div b = n % e
  <2> HIDE DEF b, e
  <2> QED
    BY <1>1, <1>4, <1>5, QuotientOfRemainder
<1>7. (n % (d * m)) % d = n % d
  <2> HIDE DEF d
  <2> QED
    BY <1>1, <1>3, QuotientOfRemainder
<1> QED
  BY <1>3, <1>6, <1>7

-------------------------------------------------------------------------------
(* Blocks and buffers. *)

Buffers == [1 .. BlockLength -> Int]

\* The n bytes of the message after the first a.
Piece(a, n) == [k \in 1 .. n |-> a + k]

\* A piece of a message: the bytes a + 1 to a + n.
LEMMA PieceIs ==
  ASSUME NEW a \in Int, NEW n \in Nat
  PROVE  /\ Piece(a, n) \in Seq(Int) /\ Len(Piece(a, n)) = n
         /\ DOMAIN Piece(a, n) = 1 .. n
         /\ \A k \in 1 .. n : Piece(a, n)[k] = a + k
         /\ Piece(a, 0) = <<>> /\ (Piece(a, n) = <<>> <=> n = 0)
<1>1. Piece(a, n) \in [1 .. n -> Int]
  BY DEF Piece
<1>2. Piece(a, n) \in Seq(Int) /\ Len(Piece(a, n)) = n
  BY <1>1
<1>3. Piece(a, 0) = <<>>
  BY DEF Piece
<1>4. Len(<<>>) = 0
  OBVIOUS
<1> QED
  BY <1>2, <1>3, <1>4 DEF Piece

\* Part of a piece is a piece.
LEMMA SubPiece ==
  ASSUME NEW a \in Int, NEW n \in Nat, NEW i \in 1 .. n + 1, NEW j \in i - 1 .. n
  PROVE  SubSeq(Piece(a, n), i, j) = Piece(a + i - 1, j - i + 1)
<1>1. /\ Piece(a, n) \in Seq(Int) /\ Len(Piece(a, n)) = n
      /\ \A k \in 1 .. n : Piece(a, n)[k] = a + k
  BY PieceIs
<1>2. j - i + 1 \in Nat /\ a + i - 1 \in Int
  OBVIOUS
<1> HIDE DEF Piece
<1>3. SubSeq(Piece(a, n), i, j) = [k \in 1 .. j - i + 1 |-> Piece(a, n)[i + k - 1]]
  BY <1>1
<1>4. \A k \in 1 .. j - i + 1 : Piece(a, n)[i + k - 1] = a + i - 1 + k
  BY <1>1
<1> QED
  BY <1>3, <1>4 DEF Piece

LEMMA MessageIs == \A n : Message(n) = Piece(0, n)
<1>1. ASSUME NEW n PROVE Message(n) = Piece(0, n)
  <2>1. \A k \in 1 .. n : 0 + k = k
    OBVIOUS
  <2> QED
    BY <2>1 DEF Message, Piece
<1> QED
  BY <1>1

\* What Put() leaves in a buffer.
LEMMA PutIs ==
  ASSUME NEW buffer \in Buffers, NEW at \in Nat, NEW bytes \in Seq(Int)
  PROVE  /\ Put(buffer, at, bytes) \in Buffers
         /\ \A k \in 1 .. BlockLength :
              Put(buffer, at, bytes)[k] =
                IF k - at \in 1 .. Len(bytes) THEN bytes[k - at] ELSE buffer[k]
<1>1. DOMAIN bytes = 1 .. Len(bytes) /\ DOMAIN buffer = 1 .. BlockLength
  BY DEF Buffers
<1>2. BlockLength \in Nat
  BY Widths
<1>3. \A k \in 1 .. BlockLength : k - at \in 1 .. Len(bytes) => bytes[k - at] \in Int
  BY ElementOfSeq
<1> QED
  BY <1>1, <1>2, <1>3 DEF Put, Buffers

LEMMA BufferIs ==
  /\ \A b : b \in Buffers <=> b \in Seq(Int) /\ Len(b) = BlockLength
  /\ [k \in 1 .. BlockLength |-> Scratch] \in Buffers /\ Zeroes(BlockLength) \in Buffers
<1>1. BlockLength \in Nat /\ Word64Mod \in Nat
  BY Widths
<1>2. \A b : b \in Buffers <=> b \in Seq(Int) /\ Len(b) = BlockLength
  BY <1>1 DEF Buffers
<1> QED
  BY <1>1, <1>2 DEF Buffers, Scratch, Zeroes, ZeroByte

\* The first r cells of a buffer are those of block q of the message, counted from 0.
Filled(buffer, q, r) == \A k \in 1 .. r : buffer[k] = BlockLength * q + k

\* The next bytes of a message in a buffer.
LEMMA FillOn ==
  ASSUME NEW buffer \in Buffers, NEW q \in Nat, NEW r \in 0 .. BlockLength,
         Filled(buffer, q, r), NEW n \in 0 .. BlockLength - r, NEW a \in Int,
         a = BlockLength * q + r
  PROVE  /\ Put(buffer, r, Piece(a, n)) \in Buffers
         /\ Filled(Put(buffer, r, Piece(a, n)), q, r + n)
<1>1. BlockLength \in Nat /\ BlockLength * q \in Int
  BY Widths, SMTT(30)
<1>2. n \in Nat /\ r \in Nat
  BY <1>1
<1>3. /\ Piece(a, n) \in Seq(Int) /\ Len(Piece(a, n)) = n
      /\ \A k \in 1 .. n : Piece(a, n)[k] = a + k
  BY <1>2, PieceIs
<1> DEFINE piece == Piece(a, n)
           b == Put(buffer, r, piece)
<1>4. /\ b \in Buffers
      /\ \A k \in 1 .. BlockLength : b[k] = IF k - r \in 1 .. n THEN piece[k - r] ELSE buffer[k]
  <2>1. piece \in Seq(Int) /\ Len(piece) = n
    BY <1>3
  <2> HIDE DEF piece
  <2> QED
    BY <1>2, <2>1, PutIs
<1> HIDE DEF b
<1>5. ASSUME NEW k \in 1 .. r + n PROVE b[k] = BlockLength * q + k
  <2>1. k \in 1 .. BlockLength
    BY <1>1, <1>2
  <2>2. CASE k - r \in 1 .. n
    <3>1. b[k] = a + (k - r)
      BY <1>3, <1>4, <2>1, <2>2
    <3> QED
      BY <1>1, <1>2, <3>1
  <2>3. CASE k - r \notin 1 .. n
    <3>1. k \in 1 .. r
      BY <1>2, <2>3
    <3> QED
      BY <1>4, <2>1, <2>3, <3>1 DEF Filled
  <2> QED
    BY <2>2, <2>3
<1> QED
  BY <1>4, <1>5 DEF b, Filled

LEMMA BlocksAre ==
  ASSUME NEW n \in Nat
  PROVE  /\ MessageBlocks(n) \in Seq(Seq(Int)) /\ Len(MessageBlocks(n)) = n
         /\ DOMAIN MessageBlocks(n) = 1 .. n
         /\ \A i \in 1 .. n : MessageBlocks(n)[i] = Piece(BlockLength * (i - 1), BlockLength)
         /\ MessageBlocks(0) = <<>>
<1>1. BlockLength \in Nat
  BY Widths
<1>2. \A i \in 1 .. n : BlockLength * (i - 1) \in Int
  BY <1>1, SMTT(30)
<1>3. \A i \in 1 .. n : Piece(BlockLength * (i - 1), BlockLength) \in Seq(Int)
  BY <1>1, <1>2, PieceIs
<1>4. MessageBlocks(n) = [i \in 1 .. n |-> Piece(BlockLength * (i - 1), BlockLength)]
  BY DEF MessageBlocks, Piece
<1>5. MessageBlocks(n) \in [1 .. n -> Seq(Int)]
  BY <1>3, <1>4
<1>6. MessageBlocks(n) \in Seq(Seq(Int)) /\ Len(MessageBlocks(n)) = n
  BY <1>5
<1>7. MessageBlocks(0) = <<>>
  BY DEF MessageBlocks
<1> QED
  BY <1>4, <1>6, <1>7

\* A full buffer is a block of the message.
LEMMA FullBuffer ==
  ASSUME NEW buffer \in Buffers, NEW q \in Nat, Filled(buffer, q, BlockLength)
  PROVE  Append(MessageBlocks(q), buffer) = MessageBlocks(q + 1)
<1>1. BlockLength \in Nat
  BY Widths
<1>2. buffer = Piece(BlockLength * q, BlockLength)
  BY DEF Buffers, Filled, Piece
<1> DEFINE s == MessageBlocks(q)
           t == MessageBlocks(q + 1)
<1>3. /\ s \in Seq(Seq(Int)) /\ Len(s) = q
      /\ \A i \in 1 .. q : s[i] = Piece(BlockLength * (i - 1), BlockLength)
  BY BlocksAre
<1>4. /\ t \in Seq(Seq(Int)) /\ Len(t) = q + 1
      /\ \A i \in 1 .. q + 1 : t[i] = Piece(BlockLength * (i - 1), BlockLength)
  BY BlocksAre
<1>5. buffer \in Seq(Int)
  BY BufferIs
<1> HIDE DEF s, t
<1>6. /\ Append(s, buffer) \in Seq(Seq(Int)) /\ Len(Append(s, buffer)) = q + 1
      /\ \A i \in 1 .. q : Append(s, buffer)[i] = s[i]
      /\ Append(s, buffer)[q + 1] = buffer
  BY <1>3, <1>5, AppendProperties
<1>7. q + 1 - 1 = q
  OBVIOUS
<1>8. \A i \in 1 .. q + 1 : Append(s, buffer)[i] = t[i]
  BY <1>2, <1>3, <1>4, <1>6, <1>7
<1>9. Append(s, buffer) = t
  BY <1>4, <1>6, <1>8, SeqEqual
<1> QED
  BY <1>9 DEF s, t

\* What begins with a block is divided as the message is.
LEMMA BlocksOfPiece ==
  ASSUME NEW q \in Nat, NEW n \in Nat
  PROVE  /\ MessageBlocks(q) \o WholeBlocks(Piece(BlockLength * q, n)) =
              MessageBlocks(q + n \div BlockLength)
         /\ Rest(Piece(BlockLength * q, n)) =
              Piece(BlockLength * (q + n \div BlockLength), n % BlockLength)
<1> DEFINE d == BlockLength
           p == n \div d
           data == Piece(d * q, n)
           w == WholeBlocks(data)
           s == MessageBlocks(q)
           t == MessageBlocks(q + p)
<1>1. d \in Nat /\ d > 0
  BY Widths
<1>2. /\ p \in Nat /\ n % d \in Nat /\ n % d < d
      /\ n = d * p + (n % d) /\ d * p \in Nat
  BY <1>1, Division
<1>3. d * q \in Nat /\ d * (q + p) = d * q + d * p
  BY <1>1, <1>2, SMTT(30)
<1>4. Len(data) = n
  BY <1>3, PieceIs
<1>5. Rest(data) = SubSeq(data, d * p + 1, n)
  BY <1>4 DEF Rest
<1>6. w = [i \in 1 .. p |-> SubSeq(data, (i - 1) * d + 1, i * d)]
  BY <1>4 DEF WholeBlocks
<1>7. /\ s \in Seq(Seq(Int)) /\ Len(s) = q
      /\ \A i \in 1 .. q : s[i] = Piece(d * (i - 1), d)
      /\ t \in Seq(Seq(Int)) /\ Len(t) = q + p
      /\ \A i \in 1 .. q + p : t[i] = Piece(d * (i - 1), d)
  <2>1. q + p \in Nat
    BY <1>2
  <2> HIDE DEF p
  <2> QED
    BY <2>1, BlocksAre
<1> HIDE DEF p, w, s, t
<1>8. Rest(data) = Piece(d * (q + p), n % d)
  <2>1. d * p + 1 \in 1 .. n + 1 /\ n \in (d * p + 1) - 1 .. n
    BY <1>2
  <2> DEFINE a == d * q
             from == d * p + 1
  <2>2. SubSeq(Piece(a, n), from, n) = Piece(a + from - 1, n - from + 1)
    <3>1. a \in Int
      BY <1>3
    <3> HIDE DEF a, from
    <3> QED
      BY <2>1, <3>1, SubPiece DEF from
  <2>3. d * q + (d * p + 1) - 1 = d * (q + p) /\ n - (d * p + 1) + 1 = n % d
    BY <1>2, <1>3
  <2> QED
    BY <1>5, <2>2, <2>3
<1>9. ASSUME NEW i \in 1 .. p PROVE w[i] = Piece(d * (q + i - 1), d)
  <2>1. (i - 1) * d \in Nat /\ i * d = (i - 1) * d + d /\ i * d \in Nat /\ i * d <= d * p
        /\ d * q + (i - 1) * d = d * (q + i - 1)
    <3>1. p - i >= 0 => (p - i) * d >= 0
      BY <1>1, <1>2, SMTT(30)
    <3>2. (p - i) * d = d * p - i * d /\ i * d \in Int
      BY <1>1, <1>2, SMTT(30)
    <3>3. i - 1 >= 0 => (i - 1) * d >= 0
      BY <1>1, <1>2, SMTT(30)
    <3>4. (i - 1) * d \in Int /\ i * d = (i - 1) * d + d
      BY <1>1, <1>2, SMTT(30)
    <3>5. d * q + (i - 1) * d = d * (q + i - 1)
      BY <1>1, <1>2, SMTT(30)
    <3> QED
      BY <1>1, <1>2, <3>1, <3>2, <3>3, <3>4, <3>5
  <2>2. (i - 1) * d + 1 \in 1 .. n + 1 /\ i * d \in ((i - 1) * d + 1) - 1 .. n
    BY <1>1, <1>2, <2>1
  <2> DEFINE a == d * q
             from == (i - 1) * d + 1
             to == i * d
  <2>3. SubSeq(Piece(a, n), from, to) = Piece(a + from - 1, to - from + 1)
    <3>1. a \in Int /\ from \in 1 .. n + 1 /\ to \in from - 1 .. n
      BY <1>3, <2>2
    <3> HIDE DEF a, from, to
    <3> QED
      BY <3>1, SubPiece
  <2>4. d * q + ((i - 1) * d + 1) - 1 = d * (q + i - 1) /\ i * d - ((i - 1) * d + 1) + 1 = d
    BY <1>1, <1>3, <2>1
  <2> QED
    BY <1>6, <2>3, <2>4
<1>10. w \in Seq(Seq(Int)) /\ Len(w) = p
  <2>1. \A i \in 1 .. p : w[i] \in Seq(Int)
    <3>1. ASSUME NEW i \in 1 .. p PROVE w[i] \in Seq(Int)
      <4>1. d * (q + i - 1) \in Int
        BY <1>1, <1>2, SMTT(30)
      <4> QED
        BY <1>1, <1>9, <4>1, PieceIs
    <3> QED
      BY <3>1
  <2>2. w \in [1 .. p -> Seq(Int)]
    BY <1>6, <2>1
  <2> QED
    BY <1>2, <2>2
<1>11. /\ s \o w \in Seq(Seq(Int)) /\ Len(s \o w) = q + p
       /\ \A i \in 1 .. q + p : (s \o w)[i] = IF i <= q THEN s[i] ELSE w[i - q]
  BY <1>2, <1>7, <1>10, ConcatProperties
<1>12. \A i \in 1 .. q + p : (s \o w)[i] = t[i]
  <2>1. ASSUME NEW i \in 1 .. q + p PROVE (s \o w)[i] = t[i]
    <3>1. t[i] = Piece(d * (i - 1), d)
      BY <1>7
    <3>2. CASE i <= q
      <4>1. i \in 1 .. q
        BY <3>2
      <4>2. (s \o w)[i] = s[i] /\ s[i] = Piece(d * (i - 1), d)
        BY <1>7, <1>11, <3>2, <4>1
      <4> QED
        BY <3>1, <4>2
    <3>3. CASE ~(i <= q)
      <4>1. i - q \in 1 .. p /\ q + (i - q) - 1 = i - 1
        BY <1>2, <3>3
      <4>2. (s \o w)[i] = w[i - q]
        BY <1>11, <3>3
      <4>3. w[i - q] = Piece(d * (q + (i - q) - 1), d)
        BY <1>9, <4>1
      <4> QED
        BY <3>1, <4>1, <4>2, <4>3
    <3> QED
      BY <3>2, <3>3
  <2> QED
    BY <2>1
<1>13. s \o w = t
  BY <1>7, <1>11, <1>12, SeqEqual
<1> QED
  BY <1>8, <1>13 DEF p, w, s, t

\* Two pieces that follow one another.
LEMMA ConcatPieces ==
  ASSUME NEW a \in Int, NEW m \in Nat, NEW n \in Nat
  PROVE  Piece(a, m) \o Piece(a + m, n) = Piece(a, m + n)
<1> DEFINE u == Piece(a, m)
           v == Piece(a + m, n)
           w == Piece(a, m + n)
<1>1. /\ u \in Seq(Int) /\ Len(u) = m /\ \A k \in 1 .. m : u[k] = a + k
  BY PieceIs
<1>2. a + m \in Int /\ m + n \in Nat
  OBVIOUS
<1>3. /\ v \in Seq(Int) /\ Len(v) = n /\ \A k \in 1 .. n : v[k] = (a + m) + k
  BY <1>2, PieceIs
<1>4. /\ w \in Seq(Int) /\ Len(w) = m + n /\ \A k \in 1 .. m + n : w[k] = a + k
  BY <1>2, PieceIs
<1> HIDE DEF u, v, w
<1>5. /\ u \o v \in Seq(Int) /\ Len(u \o v) = m + n
      /\ \A k \in 1 .. m + n : (u \o v)[k] = IF k <= m THEN u[k] ELSE v[k - m]
  BY <1>1, <1>3, ConcatProperties
<1>6. ASSUME NEW k \in 1 .. m + n PROVE (u \o v)[k] = w[k]
  <2>1. w[k] = a + k
    BY <1>4
  <2>2. CASE k <= m
    <3>1. k \in 1 .. m
      BY <2>2
    <3> QED
      BY <1>1, <1>5, <2>1, <2>2, <3>1
  <2>3. CASE ~(k <= m)
    <3>1. k - m \in 1 .. n
      BY <2>3
    <3>2. v[k - m] = (a + m) + (k - m)
      BY <1>3, <3>1
    <3> QED
      BY <1>5, <2>1, <2>3, <3>2
  <2> QED
    BY <2>2, <2>3
<1>7. u \o v = w
  BY <1>4, <1>5, <1>6, SeqEqual
<1> QED
  BY <1>7 DEF u, v, w

\* The blocks of a message, one after the other, are the message.
LEMMA FlattenBlocks ==
  ASSUME NEW q \in Nat
  PROVE  FlattenSeq(MessageBlocks(q)) = Piece(0, BlockLength * q)
<1> DEFINE d == BlockLength
           s == MessageBlocks(q)
           Eq(f) == f = [i \in 1 .. q |-> IF i = 1 THEN s[i] ELSE f[i - 1] \o s[i]]
           g == [i \in 1 .. q |-> Piece(0, d * i)]
           h == CHOOSE f : Eq(f)
<1>1. d \in Nat /\ d > 0
  BY Widths
<1>2. Len(s) = q /\ \A i \in 1 .. q : s[i] = Piece(d * (i - 1), d)
  BY BlocksAre
<1>3. CASE q = 0
  <2>1. MessageBlocks(q) = <<>> /\ Len(<<>>) = 0
    BY <1>3, BlocksAre
  <2>2. Piece(0, d * q) = <<>>
    <3>1. d * q = 0
      BY <1>1, <1>3
    <3> QED
      BY <3>1, PieceIs
  <2> QED
    BY <2>1, <2>2 DEF FlattenSeq
<1>4. ASSUME NEW i \in 1 .. q, i # 1
      PROVE  Piece(0, d * (i - 1)) \o s[i] = Piece(0, d * i)
  <2> DEFINE a == d * (i - 1)
  <2>1. a \in Nat /\ d * i = a + d
    <3>1. i - 1 \in Nat
      OBVIOUS
    <3> QED
      BY <1>1, <3>1, SMTT(30)
  <2>2. s[i] = Piece(a, d)
    BY <1>2
  <2>3. Piece(0, a) \o Piece(0 + a, d) = Piece(0, a + d)
    <3>1. a \in Nat /\ 0 \in Int
      BY <2>1
    <3> HIDE DEF a
    <3> QED
      BY <1>1, <3>1, ConcatPieces
  <2>4. 0 + a = a
    BY <2>1
  <2> HIDE DEF a, s
  <2> QED
    BY <2>1, <2>2, <2>3, <2>4 DEF a
<1>5. CASE q # 0
  <2>1. FlattenSeq(s) = h[q]
    BY <1>2, <1>5 DEF FlattenSeq
  <2> HIDE DEF s
  <2>2. Eq(g)
    <3>1. ASSUME NEW i \in 1 .. q PROVE g[i] = IF i = 1 THEN s[i] ELSE g[i - 1] \o s[i]
      <4>1. CASE i = 1
        <5>1. s[i] = Piece(0, d) /\ g[i] = Piece(0, d)
          <6>1. d * (i - 1) = 0 /\ d * i = d
            BY <1>1, <4>1
          <6> QED
            BY <1>2, <6>1
        <5> QED
          BY <4>1, <5>1
      <4>2. CASE i # 1
        <5>1. i - 1 \in 1 .. q
          BY <4>2
        <5>2. g[i - 1] = Piece(0, d * (i - 1)) /\ g[i] = Piece(0, d * i)
          BY <5>1
        <5> HIDE DEF g
        <5> QED
          BY <1>4, <4>2, <5>2
      <4> QED
        BY <4>1, <4>2
    <3> QED
      BY <3>1
  <2>3. Eq(h)
    BY <2>2
  <2> HIDE DEF h
  <2>4. \A i \in 1 .. q : h[i] = IF i = 1 THEN s[i] ELSE h[i - 1] \o s[i]
    BY <2>3
  <2> HIDE DEF Eq
  <2> DEFINE T == {i \in Nat : i \in 1 .. q => h[i] = Piece(0, d * i)}
  <2>5. 0 \in T
    OBVIOUS
  <2>6. ASSUME NEW i \in Nat, i \in T PROVE i + 1 \in T
    <3>1. ASSUME i + 1 \in 1 .. q PROVE h[i + 1] = Piece(0, d * (i + 1))
      <4> DEFINE j == i + 1
      <4>1. h[j] = IF j = 1 THEN s[j] ELSE h[j - 1] \o s[j]
        BY <2>4, <3>1
      <4>2. j - 1 = i /\ j \in 1 .. q
        BY <3>1
      <4>3. CASE i = 0
        <5>1. s[j] = Piece(d * (j - 1), d)
          BY <1>2, <4>2
        <5>2. d * (j - 1) = 0 /\ d * j = d
          BY <1>1, <4>3
        <5> QED
          BY <4>1, <4>3, <5>1, <5>2
      <4>4. CASE i # 0
        <5>1. i \in 1 .. q /\ j # 1
          BY <3>1, <4>4
        <5>2. h[i] = Piece(0, d * (j - 1))
          BY <2>6, <4>2, <5>1
        <5> HIDE DEF j
        <5> QED
          BY <1>4, <4>1, <4>2, <5>1, <5>2 DEF j
      <4> QED
        BY <4>3, <4>4
    <3> QED
      BY <3>1
  <2>7. Nat \subseteq T
    <3> HIDE DEF T
    <3> QED
      BY <2>5, <2>6, AllSizes
  <2>8. h[q] = Piece(0, d * q)
    <3>1. q \in T /\ q \in 1 .. q
      BY <1>5, <2>7
    <3> QED
      BY <3>1
  <2> QED
    BY <2>1, <2>8 DEF s
<1> QED
  BY <1>3, <1>5

-------------------------------------------------------------------------------
(* The padding of a message. *)

\* A block with what is left of the message, the mark and zeroes.
Marked(q, r) ==
  [k \in 1 .. BlockLength |->
     IF k <= r THEN BlockLength * q + k ELSE IF k = r + 1 THEN OneBit ELSE ZeroByte]

\* A block that ends with the length.
WithLength(block, lengthField) ==
  [k \in 1 .. BlockLength |-> IF k > ShortBlock THEN lengthField[k - ShortBlock] ELSE block[k]]

FinalBlocks(q, r, lengthField) ==
  IF r < ShortBlock THEN << WithLength(Marked(q, r), lengthField) >>
  ELSE << Marked(q, r), WithLength(Zeroes(BlockLength), lengthField) >>

LEMMA ZeroesAre ==
  ASSUME NEW n \in Nat
  PROVE  /\ Zeroes(n) \in Seq(Int) /\ Len(Zeroes(n)) = n
         /\ \A k \in 1 .. n : Zeroes(n)[k] = 0
<1>1. Zeroes(n) \in [1 .. n -> Int]
  BY DEF Zeroes, ZeroByte
<1>2. Zeroes(n) \in Seq(Int) /\ Len(Zeroes(n)) = n
  BY <1>1
<1> QED
  BY <1>2 DEF Zeroes, ZeroByte

\* The mark and n - 1 zeroes.
LEMMA MarkIs ==
  ASSUME NEW n \in Nat
  PROVE  LET m == <<OneBit>> \o Zeroes(n) IN
         /\ m \in Seq(Int) /\ Len(m) = n + 1 /\ m[1] = OneBit
         /\ \A k \in 2 .. n + 1 : m[k] = 0
<1> DEFINE z == Zeroes(n)
           m == <<OneBit>> \o z
<1>1. z \in Seq(Int) /\ Len(z) = n /\ \A k \in 1 .. n : z[k] = 0
  BY ZeroesAre
<1>2. <<OneBit>> \in Seq(Int) /\ Len(<<OneBit>>) = 1 /\ <<OneBit>>[1] = OneBit
  BY DEF OneBit
<1> HIDE DEF z
<1>3. /\ m \in Seq(Int) /\ Len(m) = n + 1
      /\ \A k \in 1 .. n + 1 : m[k] = IF k <= 1 THEN <<OneBit>>[k] ELSE z[k - 1]
  BY <1>1, <1>2, ConcatProperties
<1> HIDE DEF m
<1>4. m[1] = OneBit
  BY <1>2, <1>3
<1>5. ASSUME NEW k \in 2 .. n + 1 PROVE m[k] = 0
  <2>1. k - 1 \in 1 .. n /\ k \in 1 .. n + 1 /\ ~(k <= 1)
    OBVIOUS
  <2> QED
    BY <1>1, <1>3, <2>1
<1> QED
  BY <1>3, <1>4, <1>5 DEF m, z

\* The number of zeroes of the padding.
ZeroesOf(r) == IF r < ShortBlock THEN ShortBlock - 1 - r ELSE BlockLength + ShortBlock - 1 - r

LEMMA PaddingIs ==
  ASSUME NEW n \in Nat, NEW lengthField \in Seq(Int), Len(lengthField) = 2
  PROVE  LET z == ZeroesOf(n % BlockLength)
             p == Padding(n, lengthField)
         IN  /\ z \in Nat /\ p \in Seq(Int) /\ Len(p) = z + 3 /\ p[1] = OneBit
             /\ \A k \in 2 .. z + 1 : p[k] = 0
             /\ \A k \in z + 2 .. z + 3 : p[k] = lengthField[k - z - 1]
<1> DEFINE r == n % BlockLength
           z == ZeroesOf(n % BlockLength)
           last == (n + 1) % BlockLength
           zeroes == IF last <= ShortBlock THEN ShortBlock - last
                     ELSE BlockLength + ShortBlock - last
           m == <<OneBit>> \o Zeroes(z)
           p == Padding(n, lengthField)
<1>1. BlockLength \in Nat /\ BlockLength > 2 /\ ShortBlock = BlockLength - 2
  BY Widths
<1>2. r \in Nat /\ r < BlockLength
  BY <1>1, Division
<1>3. last = IF r + 1 < BlockLength THEN r + 1 ELSE 0
  <2> DEFINE q == n \div BlockLength
             y == r + 1
  <2>1. q \in Nat /\ n = BlockLength * q + r /\ BlockLength * q \in Nat
    BY <1>1, Division
  <2>2. n + 1 = BlockLength * q + y /\ y \in Nat
    BY <1>2, <2>1
  <2> HIDE DEF q, y, r
  <2>3. (n + 1) % BlockLength = y % BlockLength
    <3>1. (BlockLength * q + y) % BlockLength = y % BlockLength
      <4>1. BlockLength \in Nat /\ BlockLength > 0 /\ q \in Nat /\ y \in Nat
        BY <1>1, <2>1, <2>2
      <4> QED
        BY <4>1, Beyond
    <3> QED
      BY <2>2, <3>1
  <2>4. y < BlockLength => y % BlockLength = y
    BY <1>1, <2>2, Division
  <2>5. y = BlockLength => y % BlockLength = 0
    <3>1. BlockLength = BlockLength * 1 + 0
      BY <1>1
    <3> QED
      BY <1>1, <3>1, QuotientIs
  <2> QED
    BY <1>1, <1>2, <2>2, <2>3, <2>4, <2>5 DEF y
<1> HIDE DEF r, last
<1>4. zeroes = z /\ z \in Nat
  BY <1>1, <1>2, <1>3 DEF ZeroesOf, r
<1>5. p = m \o lengthField
  BY <1>4 DEF Padding, last
<1> HIDE DEF z, zeroes, p
<1>6. /\ m \in Seq(Int) /\ Len(m) = z + 1 /\ m[1] = OneBit
      /\ \A k \in 2 .. z + 1 : m[k] = 0
  BY <1>4, MarkIs
<1> HIDE DEF m
<1>7. /\ p \in Seq(Int) /\ Len(p) = z + 3
      /\ \A k \in 1 .. z + 3 : p[k] = IF k <= z + 1 THEN m[k] ELSE lengthField[k - (z + 1)]
  <2>1. (z + 1) + 2 = z + 3
    BY <1>4
  <2>2. /\ m \o lengthField \in Seq(Int)
        /\ Len(m \o lengthField) = (z + 1) + 2
        /\ \A k \in 1 .. (z + 1) + 2 :
             (m \o lengthField)[k] = IF k <= z + 1 THEN m[k] ELSE lengthField[k - (z + 1)]
    <3>1. m \in Seq(Int) /\ Len(m) = z + 1
      BY <1>6
    <3>2. /\ m \o lengthField \in Seq(Int)
          /\ Len(m \o lengthField) = Len(m) + Len(lengthField)
          /\ \A k \in 1 .. Len(m) + Len(lengthField) :
               (m \o lengthField)[k] = IF k <= Len(m) THEN m[k] ELSE lengthField[k - Len(m)]
      BY <3>1, ConcatProperties
    <3> QED
      BY <3>1, <3>2
  <2> QED
    BY <1>5, <2>1, <2>2
<1>8. p[1] = OneBit
  <2>1. 1 \in 1 .. z + 3 /\ 1 <= z + 1
    BY <1>4
  <2> QED
    BY <1>6, <1>7, <2>1
<1>9. ASSUME NEW k \in 2 .. z + 1 PROVE p[k] = 0
  <2>1. k \in 1 .. z + 3 /\ k <= z + 1
    BY <1>4
  <2> QED
    BY <1>6, <1>7, <2>1
<1>10. ASSUME NEW k \in z + 2 .. z + 3 PROVE p[k] = lengthField[k - z - 1]
  <2>1. k \in 1 .. z + 3 /\ ~(k <= z + 1) /\ k - (z + 1) = k - z - 1
    BY <1>4
  <2> QED
    BY <1>7, <2>1
<1> QED
  BY <1>4, <1>7, <1>8, <1>9, <1>10 DEF p, z

\* Every cell of a padded message.
LEMMA PaddedCells ==
  ASSUME NEW n \in Nat, NEW lengthField \in Seq(Int), Len(lengthField) = 2
  PROVE  LET z == ZeroesOf(n % BlockLength)
             data == Message(n) \o Padding(n, lengthField)
         IN  /\ z \in Nat /\ data \in Seq(Int) /\ Len(data) = n + z + 3
             /\ \A j \in 1 .. n : data[j] = j
             /\ data[n + 1] = OneBit
             /\ \A j \in n + 2 .. n + z + 1 : data[j] = 0
             /\ \A j \in n + z + 2 .. n + z + 3 : data[j] = lengthField[j - n - z - 1]
<1> DEFINE z == ZeroesOf(n % BlockLength)
           m == Message(n)
           p == Padding(n, lengthField)
           data == m \o p
<1>1. /\ z \in Nat /\ p \in Seq(Int) /\ Len(p) = z + 3 /\ p[1] = OneBit
      /\ \A k \in 2 .. z + 1 : p[k] = 0
      /\ \A k \in z + 2 .. z + 3 : p[k] = lengthField[k - z - 1]
  BY PaddingIs
<1>2. m \in Seq(Int) /\ Len(m) = n /\ \A k \in 1 .. n : m[k] = k
  <2>1. /\ Piece(0, n) \in Seq(Int) /\ Len(Piece(0, n)) = n
        /\ \A k \in 1 .. n : Piece(0, n)[k] = 0 + k
    <3> HIDE DEF z, m, p, data
    <3>1. 0 \in Int
      OBVIOUS
    <3> QED
      BY <3>1, PieceIs
  <2> QED
    BY <2>1, MessageIs
<1> HIDE DEF z, m, p
<1>3. /\ data \in Seq(Int) /\ Len(data) = n + (z + 3)
      /\ \A j \in 1 .. n + (z + 3) : data[j] = IF j <= n THEN m[j] ELSE p[j - n]
  <2>1. /\ data \in Seq(Int) /\ Len(data) = Len(m) + Len(p)
        /\ \A j \in 1 .. Len(m) + Len(p) : data[j] = IF j <= Len(m) THEN m[j] ELSE p[j - Len(m)]
    BY <1>1, <1>2, ConcatProperties
  <2> QED
    BY <1>1, <1>2, <2>1
<1> HIDE DEF data
<1>4. ASSUME NEW j \in 1 .. n PROVE data[j] = j
  <2>1. j \in 1 .. n + (z + 3) /\ j <= n
    BY <1>1
  <2> QED
    BY <1>2, <1>3, <2>1
<1>5. ASSUME NEW j \in n + 1 .. n + (z + 3) PROVE data[j] = p[j - n] /\ j - n \in 1 .. z + 3
  <2>1. j \in 1 .. n + (z + 3) /\ ~(j <= n) /\ j - n \in 1 .. z + 3
    BY <1>1
  <2> QED
    BY <1>3, <2>1
<1>6. data[n + 1] = OneBit
  <2>1. n + 1 \in n + 1 .. n + (z + 3) /\ n + 1 - n = 1
    BY <1>1
  <2> QED
    BY <1>1, <1>5, <2>1
<1>7. ASSUME NEW j \in n + 2 .. n + z + 1 PROVE data[j] = 0
  <2>1. j \in n + 1 .. n + (z + 3) /\ j - n \in 2 .. z + 1
    BY <1>1
  <2> QED
    BY <1>1, <1>5, <2>1
<1>8. ASSUME NEW j \in n + z + 2 .. n + z + 3 PROVE data[j] = lengthField[j - n - z - 1]
  <2>1. j \in n + 1 .. n + (z + 3) /\ j - n \in z + 2 .. z + 3
    BY <1>1
  <2> QED
    BY <1>1, <1>5, <2>1
<1>9. n + (z + 3) = n + z + 3
  BY <1>1
<1> QED
  BY <1>1, <1>3, <1>4, <1>6, <1>7, <1>8, <1>9 DEF data, z, m, p

LEMMA FinalBlocksAre ==
  ASSUME NEW q \in Nat, NEW r \in 0 .. BlockLength - 1,
         NEW lengthField \in Seq(Int), Len(lengthField) = 2
  PROVE  /\ Marked(q, r) \in Buffers /\ WithLength(Marked(q, r), lengthField) \in Buffers
         /\ WithLength(Zeroes(BlockLength), lengthField) \in Buffers
         /\ FinalBlocks(q, r, lengthField) \in Seq(Seq(Int))
         /\ Len(FinalBlocks(q, r, lengthField)) = IF r < ShortBlock THEN 1 ELSE 2
<1>1. BlockLength \in Nat /\ BlockLength * q \in Int /\ ShortBlock = BlockLength - 2
  BY Widths, SMTT(30)
<1>2. Marked(q, r) \in Buffers
  <2>1. \A k \in 1 .. BlockLength : BlockLength * q + k \in Int
    BY <1>1
  <2> QED
    BY <2>1 DEF Marked, Buffers, OneBit, ZeroByte
<1>3. ASSUME NEW b \in Buffers PROVE WithLength(b, lengthField) \in Buffers
  <2>1. lengthField[1] \in Int /\ lengthField[2] \in Int
    <3>1. 1 \in 1 .. Len(lengthField) /\ 2 \in 1 .. Len(lengthField)
      OBVIOUS
    <3> QED
      BY <3>1, ElementOfSeq
  <2>2. ASSUME NEW k \in 1 .. BlockLength, k > ShortBlock PROVE lengthField[k - ShortBlock] \in Int
    <3>1. k - ShortBlock \in {1, 2}
      BY <1>1, <2>2
    <3> QED
      BY <2>1, <3>1
  <2> QED
    BY <2>2 DEF WithLength, Buffers
<1>4. Zeroes(BlockLength) \in Buffers
  BY BufferIs
<1>5. \A b \in Buffers : b \in Seq(Int)
  BY BufferIs
<1> DEFINE a == WithLength(Marked(q, r), lengthField)
           b == Marked(q, r)
           c == WithLength(Zeroes(BlockLength), lengthField)
<1>6. a \in Seq(Int) /\ b \in Seq(Int) /\ c \in Seq(Int)
  BY <1>2, <1>3, <1>4, <1>5
<1>7. FinalBlocks(q, r, lengthField) = IF r < ShortBlock THEN <<a>> ELSE <<b, c>>
  BY DEF FinalBlocks
<1> HIDE DEF a, b, c
<1>8. /\ <<a>> \in Seq(Seq(Int)) /\ Len(<<a>>) = 1
      /\ <<b, c>> \in Seq(Seq(Int)) /\ Len(<<b, c>>) = 2
  BY <1>6
<1> QED
  BY <1>2, <1>3, <1>4, <1>7, <1>8

\* The blocks of a sequence that has no rest.
LEMMA BlocksOf ==
  ASSUME NEW data \in Seq(Int), NEW g \in Nat, Len(data) = BlockLength * g
  PROVE  /\ WholeBlocks(data) \in Seq(Seq(Int)) /\ Len(WholeBlocks(data)) = g
         /\ \A i \in 1 .. g :
              /\ WholeBlocks(data)[i] \in Seq(Int) /\ Len(WholeBlocks(data)[i]) = BlockLength
              /\ \A k \in 1 .. BlockLength :
                   WholeBlocks(data)[i][k] = data[BlockLength * (i - 1) + k]
<1> DEFINE d == BlockLength
           w == WholeBlocks(data)
           n == Len(data)
<1>1. d \in Nat /\ d > 0 /\ n \in Nat
  BY Widths
<1>2. n \div d = g
  <2>1. n = d * g + 0 /\ n \in Int /\ g \in Int
    BY <1>1
  <2> HIDE DEF n, d
  <2> QED
    BY <1>1, <2>1, QuotientIs
<1>3. w = [i \in 1 .. g |-> SubSeq(data, (i - 1) * d + 1, i * d)]
  BY <1>2 DEF WholeBlocks
<1> HIDE DEF w
<1>4. ASSUME NEW i \in 1 .. g
      PROVE  /\ w[i] \in Seq(Int) /\ Len(w[i]) = d
             /\ \A k \in 1 .. d : w[i][k] = data[d * (i - 1) + k]
  <2> DEFINE a == d * (i - 1)
  <2>1. a \in Nat /\ (i - 1) * d = a /\ i * d = a + d /\ a + d <= n
    <3>1. (i - 1) * d = a /\ i * d = a + d /\ a \in Int
      BY <1>1, SMTT(30)
    <3>2. i - 1 >= 0 => a >= 0
      BY <1>1, SMTT(30)
    <3>3. g - i >= 0 => d * (g - i) >= 0
      BY <1>1, SMTT(30)
    <3>4. d * (g - i) = d * g - (a + d)
      BY <1>1, SMTT(30)
    <3> HIDE DEF a
    <3> QED
      BY <1>1, <3>1, <3>2, <3>3, <3>4
  <2>2. w[i] = SubSeq(data, a + 1, a + d)
    BY <1>3, <2>1
  <2> DEFINE x == SubSeq(data, a + 1, a + d)
  <2> HIDE DEF a
  <2>3. \A k \in 1 .. d : (a + 1) + k - 1 = a + k /\ data[a + k] \in Int
    <3>1. ASSUME NEW k \in 1 .. d PROVE (a + 1) + k - 1 = a + k /\ a + k \in 1 .. n
      BY <1>1, <2>1
    <3> QED
      BY <3>1, ElementOfSeq
  <2>4. x = [k \in 1 .. d |-> data[(a + 1) + k - 1]]
    <3>1. (a + d) - (a + 1) + 1 = d /\ a + 1 \in 1 .. n + 1 /\ a + d \in 0 .. n
      BY <1>1, <2>1
    <3> HIDE DEF d
    <3>2. x = [k \in 1 .. (a + d) - (a + 1) + 1 |-> data[(a + 1) + k - 1]]
      BY <1>1, <2>1, <3>1
    <3> QED
      BY <3>1, <3>2
  <2> HIDE DEF x
  <2>5. x \in [1 .. d -> Int] /\ \A k \in 1 .. d : x[k] = data[a + k]
    BY <2>3, <2>4
  <2>6. x \in Seq(Int) /\ Len(x) = d
    BY <1>1, <2>5
  <2> QED
    BY <2>2, <2>5, <2>6 DEF x, a
<1>5. w \in Seq(Seq(Int)) /\ Len(w) = g
  <2>1. w \in [1 .. g -> Seq(Int)]
    <3>1. w = [i \in 1 .. g |-> w[i]]
      BY <1>3
    <3> QED
      BY <1>4, <3>1
  <2> QED
    BY <2>1
<1> QED
  BY <1>4, <1>5 DEF w

\* The blocks of a padded message: whole blocks of it, then one or two that end it.
LEMMA PaddedMessage ==
  ASSUME NEW n \in Nat, NEW lengthField \in Seq(Int), Len(lengthField) = 2
  PROVE  WholeBlocks(Message(n) \o Padding(n, lengthField)) =
           MessageBlocks(n \div BlockLength)
             \o FinalBlocks(n \div BlockLength, n % BlockLength, lengthField)
<1> DEFINE d == BlockLength
           q == n \div d
           r == n % d
           z == ZeroesOf(n % BlockLength)
           data == Message(n) \o Padding(n, lengthField)
           e == IF r < ShortBlock THEN 1 ELSE 2
           f == FinalBlocks(q, r, lengthField)
           s == MessageBlocks(q)
           w == WholeBlocks(data)
<1>1. d \in Nat /\ d > 2 /\ ShortBlock = d - 2
  BY Widths
<1>2. q \in Nat /\ r \in 0 .. d - 1 /\ d * q \in Nat /\ n = d * q + r
  BY <1>1, Division
<1>3. /\ z \in Nat /\ data \in Seq(Int) /\ Len(data) = n + z + 3
      /\ \A j \in 1 .. n : data[j] = j
      /\ data[n + 1] = OneBit
      /\ \A j \in n + 2 .. n + z + 1 : data[j] = 0
      /\ \A j \in n + z + 2 .. n + z + 3 : data[j] = lengthField[j - n - z - 1]
  BY PaddedCells
<1>4. z = IF r < ShortBlock THEN ShortBlock - 1 - r ELSE d + ShortBlock - 1 - r
  BY DEF ZeroesOf
<1>5. e \in {1, 2} /\ e = IF r < ShortBlock THEN 1 ELSE 2
  OBVIOUS
<1> HIDE DEF z, data
<1>6. /\ s \in Seq(Seq(Int)) /\ Len(s) = q
      /\ \A i \in 1 .. q : s[i] = Piece(d * (i - 1), d)
  BY <1>2, BlocksAre
<1>7. /\ f \in Seq(Seq(Int)) /\ Len(f) = e
  <2> HIDE DEF q, r
  <2> QED
    BY <1>2, FinalBlocksAre
<1> HIDE DEF q, r, s, w, e
<1>8. d * (q + e) = d * q + (IF r < ShortBlock THEN d ELSE d + d) /\ q + e \in Nat
  <2>1. d * (q + 1) = d * q + d /\ d * (q + 2) = d * q + (d + d)
    BY <1>1, <1>2, SMTT(30)
  <2> QED
    BY <1>2, <1>5, <2>1
<1>9. Len(data) = d * (q + e)
  <2> DEFINE dq == d * q
             g == d * (q + e)
             b == ShortBlock
  <2>1. /\ dq \in Nat /\ n = dq + r /\ g = dq + (IF r < b THEN d ELSE d + d)
        /\ b = d - 2 /\ Len(data) = n + z + 3
        /\ z = IF r < b THEN b - 1 - r ELSE d + b - 1 - r
    BY <1>1, <1>2, <1>3, <1>4, <1>8
  <2> HIDE DEF dq, g, b, d
  <2>2. Len(data) = g
    BY <1>1, <1>2, <1>3, <2>1
  <2> QED
    BY <2>2 DEF g
<1>10. /\ w \in Seq(Seq(Int)) /\ Len(w) = q + e
       /\ \A i \in 1 .. q + e : /\ w[i] \in Seq(Int) /\ Len(w[i]) = d
                               /\ \A k \in 1 .. d : w[i][k] = data[d * (i - 1) + k]
  <2> DEFINE g == q + e
  <2>1. g \in Nat /\ Len(data) = BlockLength * g
    BY <1>8, <1>9
  <2> HIDE DEF g
  <2>2. /\ w \in Seq(Seq(Int)) /\ Len(w) = g
        /\ \A i \in 1 .. g : /\ w[i] \in Seq(Int) /\ Len(w[i]) = d
                             /\ \A k \in 1 .. d : w[i][k] = data[d * (i - 1) + k]
    BY <1>3, <2>1, BlocksOf DEF w
  <2> QED
    BY <2>2 DEF g
<1>12. /\ s \o f \in Seq(Seq(Int)) /\ Len(s \o f) = q + e
       /\ \A i \in 1 .. q + e : (s \o f)[i] = IF i <= q THEN s[i] ELSE f[i - q]
  <2>1. /\ s \o f \in Seq(Seq(Int)) /\ Len(s \o f) = Len(s) + Len(f)
        /\ \A i \in 1 .. Len(s) + Len(f) : (s \o f)[i] = IF i <= Len(s) THEN s[i] ELSE f[i - Len(s)]
    <3> HIDE DEF f
    <3> QED
      BY <1>6, <1>7, ConcatProperties
  <2> QED
    BY <1>6, <1>7, <2>1
<1>13. ASSUME NEW i \in 1 .. q PROVE w[i] = s[i]
  <2> DEFINE a == d * (i - 1)
  <2>1. a \in Nat /\ a + d <= d * q
    <3>1. a \in Int /\ (i - 1 >= 0 => a >= 0)
      BY <1>1, <1>2, SMTT(30)
    <3>2. q - i >= 0 => d * (q - i) >= 0
      BY <1>1, <1>2, SMTT(30)
    <3>3. d * (q - i) = d * q - (a + d)
      BY <1>1, <1>2, SMTT(30)
    <3> HIDE DEF a
    <3> QED
      BY <1>1, <1>2, <3>1, <3>2, <3>3
  <2>2. i \in 1 .. q + e
    BY <1>2, <1>5
  <2>3. /\ w[i] \in Seq(Int) /\ Len(w[i]) = d
        /\ \A k \in 1 .. d : w[i][k] = data[a + k]
    BY <1>10, <2>2
  <2>4. s[i] = Piece(a, d)
    BY <1>6
  <2> HIDE DEF a
  <2>5. \A k \in 1 .. d : a + k \in 1 .. n
    BY <1>1, <1>2, <2>1
  <2>6. /\ Piece(a, d) \in Seq(Int) /\ Len(Piece(a, d)) = d
        /\ \A k \in 1 .. d : Piece(a, d)[k] = a + k
    <3>1. a \in Int
      BY <2>1
    <3> QED
      BY <1>1, <3>1, PieceIs
  <2>7. \A k \in 1 .. d : w[i][k] = Piece(a, d)[k]
    BY <1>3, <2>3, <2>5, <2>6
  <2> QED
    BY <2>3, <2>4, <2>6, <2>7, SeqEqual
<1>14. ASSUME NEW i \in 1 .. e PROVE w[q + i] = f[i]
  <2>1. /\ w[q + i] \in Seq(Int) /\ Len(w[q + i]) = d
        /\ \A k \in 1 .. d : w[q + i][k] = data[(IF i = 1 THEN d * q ELSE d * q + d) + k]
    <3>1. q + i \in 1 .. q + e /\ i \in {1, 2}
      BY <1>2, <1>5
    <3> DEFINE j == q + i
               a == d * (j - 1)
    <3>3. /\ w[j] \in Seq(Int) /\ Len(w[j]) = d
          /\ \A k \in 1 .. d : w[j][k] = data[a + k]
      BY <1>10, <3>1
    <3>4. a = IF i = 1 THEN d * q ELSE d * q + d
      <4>1. d * (q + 1) = d * q + d
        BY <1>1, <1>2, SMTT(30)
      <4>2. j - 1 = IF i = 1 THEN q ELSE q + 1
        BY <1>2, <3>1
      <4> HIDE DEF j
      <4> QED
        BY <4>1, <4>2
    <3> HIDE DEF a
    <3> QED
      BY <3>3, <3>4
  <2>2. /\ Marked(q, r) \in Buffers /\ WithLength(Marked(q, r), lengthField) \in Buffers
        /\ WithLength(Zeroes(BlockLength), lengthField) \in Buffers
    BY <1>2, FinalBlocksAre
  <2>3. \A b \in Buffers : b \in Seq(Int) /\ Len(b) = d
    BY BufferIs
  <2>4. CASE r < ShortBlock
    <3>1. i = 1 /\ f[i] = WithLength(Marked(q, r), lengthField)
      BY <1>5, <2>4 DEF FinalBlocks
    <3>2. ASSUME NEW k \in 1 .. d
          PROVE  data[d * q + k] = WithLength(Marked(q, r), lengthField)[k]
      <4>1. WithLength(Marked(q, r), lengthField)[k] =
              IF k > ShortBlock THEN lengthField[k - ShortBlock]
              ELSE IF k <= r THEN d * q + k ELSE IF k = r + 1 THEN OneBit ELSE 0
        BY DEF WithLength, Marked, ZeroByte
      <4>2. n + z + 1 = d * q + ShortBlock
        BY <1>1, <1>2, <1>3, <1>4, <2>4
      <4>3. CASE k > ShortBlock
        <5>1. d * q + k \in n + z + 2 .. n + z + 3 /\ (d * q + k) - n - z - 1 = k - ShortBlock
          BY <1>1, <1>2, <1>3, <4>2, <4>3
        <5> QED
          BY <1>3, <4>1, <4>3, <5>1
      <4>4. CASE k <= r
        <5>1. d * q + k \in 1 .. n /\ ~(k > ShortBlock)
          BY <1>1, <1>2, <2>4, <4>4
        <5> QED
          BY <1>3, <4>1, <4>4, <5>1
      <4>5. CASE k = r + 1
        <5>1. d * q + k = n + 1 /\ ~(k > ShortBlock) /\ ~(k <= r)
          BY <1>1, <1>2, <2>4, <4>5
        <5> QED
          BY <1>3, <4>1, <4>5, <5>1
      <4>6. CASE k > r + 1 /\ ~(k > ShortBlock)
        <5>1. d * q + k \in n + 2 .. n + z + 1 /\ k # r + 1 /\ ~(k <= r)
          BY <1>1, <1>2, <1>3, <4>2, <4>6
        <5> QED
          BY <1>3, <4>1, <4>6, <5>1
      <4> QED
        BY <1>1, <1>2, <4>3, <4>4, <4>5, <4>6
    <3> DEFINE b == WithLength(Marked(q, r), lengthField)
               x == w[q + i]
    <3>3. \A k \in 1 .. d : x[k] = b[k]
      BY <2>1, <3>1, <3>2
    <3>4. b \in Seq(Int) /\ Len(b) = d /\ f[i] = b /\ x \in Seq(Int) /\ Len(x) = d
      BY <2>1, <2>2, <2>3, <3>1
    <3> HIDE DEF b, x
    <3>5. x = b
      BY <3>3, <3>4, SeqEqual
    <3> HIDE DEF f
    <3> QED
      BY <3>4, <3>5 DEF x
  <2>5. CASE ~(r < ShortBlock)
    <3>1. /\ i \in {1, 2}
          /\ i = 1 => f[i] = Marked(q, r)
          /\ i = 2 => f[i] = WithLength(Zeroes(BlockLength), lengthField)
      BY <1>5, <2>5 DEF FinalBlocks
    <3>2. n + z + 1 = (d * q + d) + ShortBlock
      BY <1>1, <1>2, <1>3, <1>4, <2>5
    <3>3. CASE i = 1
      <4>1. ASSUME NEW k \in 1 .. d PROVE data[d * q + k] = Marked(q, r)[k]
        <5>1. Marked(q, r)[k] = IF k <= r THEN d * q + k ELSE IF k = r + 1 THEN OneBit ELSE 0
          BY DEF Marked, ZeroByte
        <5>2. CASE k <= r
          <6>1. d * q + k \in 1 .. n
            BY <1>1, <1>2, <5>2
          <6> QED
            BY <1>3, <5>1, <5>2, <6>1
        <5>3. CASE k = r + 1
          <6>1. d * q + k = n + 1 /\ ~(k <= r)
            BY <1>1, <1>2, <5>3
          <6> QED
            BY <1>3, <5>1, <5>3, <6>1
        <5>4. CASE k > r + 1
          <6>1. d * q + k \in n + 2 .. n + z + 1 /\ k # r + 1 /\ ~(k <= r)
            BY <1>1, <1>2, <1>3, <3>2, <5>4
          <6> QED
            BY <1>3, <5>1, <5>4, <6>1
        <5> QED
          BY <1>1, <1>2, <5>2, <5>3, <5>4
      <4> DEFINE b == Marked(q, r)
                 x == w[q + i]
      <4>2. \A k \in 1 .. d : x[k] = b[k]
        BY <2>1, <3>3, <4>1
      <4>3. b \in Seq(Int) /\ Len(b) = d /\ f[i] = b /\ x \in Seq(Int) /\ Len(x) = d
        BY <2>1, <2>2, <2>3, <3>1, <3>3
      <4> HIDE DEF b, x
      <4>4. x = b
        BY <4>2, <4>3, SeqEqual
      <4> QED
        BY <4>3, <4>4 DEF x
    <3>4. CASE i = 2
      <4> DEFINE b == WithLength(Zeroes(BlockLength), lengthField)
      <4>1. ASSUME NEW k \in 1 .. d PROVE data[(d * q + d) + k] = b[k]
        <5>1. b[k] = IF k > ShortBlock THEN lengthField[k - ShortBlock] ELSE 0
          BY DEF WithLength, Zeroes, ZeroByte
        <5>2. CASE k > ShortBlock
          <6>1. /\ (d * q + d) + k \in n + z + 2 .. n + z + 3
                /\ ((d * q + d) + k) - n - z - 1 = k - ShortBlock
            BY <1>1, <1>2, <1>3, <3>2, <5>2
          <6> QED
            BY <1>3, <5>1, <5>2, <6>1
        <5>3. CASE ~(k > ShortBlock)
          <6>1. (d * q + d) + k \in n + 2 .. n + z + 1
            BY <1>1, <1>2, <1>3, <3>2, <5>3
          <6> QED
            BY <1>3, <5>1, <5>3, <6>1
        <5> QED
          BY <5>2, <5>3
      <4> DEFINE x == w[q + i]
      <4> HIDE DEF b
      <4>2. \A k \in 1 .. d : x[k] = b[k]
        BY <2>1, <3>4, <4>1
      <4>3. b \in Seq(Int) /\ Len(b) = d /\ f[i] = b /\ x \in Seq(Int) /\ Len(x) = d
        BY <2>1, <2>2, <2>3, <3>1, <3>4 DEF b
      <4> HIDE DEF x
      <4>4. x = b
        BY <4>2, <4>3, SeqEqual
      <4> QED
        BY <4>3, <4>4 DEF x
    <3> QED
      BY <3>1, <3>3, <3>4
  <2> QED
    BY <2>4, <2>5
<1>15. \A i \in 1 .. q + e : w[i] = (s \o f)[i]
  <2>1. ASSUME NEW i \in 1 .. q + e PROVE w[i] = (s \o f)[i]
    <3>1. CASE i <= q
      <4>1. i \in 1 .. q
        BY <1>2, <3>1
      <4> QED
        BY <1>12, <1>13, <3>1, <4>1
    <3>2. CASE ~(i <= q)
      <4>1. i - q \in 1 .. e /\ q + (i - q) = i
        BY <1>2, <1>5, <3>2
      <4>2. w[q + (i - q)] = f[i - q]
        BY <1>14, <4>1
      <4> HIDE DEF f
      <4> QED
        BY <1>12, <3>2, <4>1, <4>2
    <3> QED
      BY <3>1, <3>2
  <2> QED
    BY <2>1
<1>16. w = s \o f
  <2> DEFINE t == s \o f
  <2>1. /\ t \in Seq(Seq(Int)) /\ Len(t) = q + e
        /\ w \in Seq(Seq(Int)) /\ Len(w) = q + e /\ \A i \in 1 .. q + e : w[i] = t[i]
    BY <1>10, <1>12, <1>15
  <2> HIDE DEF t
  <2>2. w = t
    BY <2>1, SeqEqual
  <2> QED
    BY <2>2 DEF t
<1> QED
  BY <1>16 DEF w, s, q, r, data

-------------------------------------------------------------------------------
(* Feeding a buffer. *)

Blocks == Seq(Seq(Int))

\* A buffer is one block, and what is shorter is none.
LEMMA OneBlock ==
  ASSUME NEW b \in Buffers, NEW s \in Blocks
  PROVE  /\ WholeBlocks(b) = <<b>> /\ s \o WholeBlocks(b) = Append(s, b)
         /\ Append(s, b) \in Blocks
<1>1. BlockLength \in Nat /\ BlockLength > 0 /\ b \in Seq(Int) /\ Len(b) = BlockLength
  BY Widths, BufferIs
<1> DEFINE w == WholeBlocks(b)
<1>2. /\ w \in Seq(Seq(Int)) /\ Len(w) = 1
      /\ \A i \in 1 .. 1 : /\ w[i] \in Seq(Int) /\ Len(w[i]) = BlockLength
                           /\ \A k \in 1 .. BlockLength : w[i][k] = b[BlockLength * (i - 1) + k]
  <2>1. Len(b) = BlockLength * 1 /\ 1 \in Nat
    BY <1>1
  <2> QED
    BY <1>1, <2>1, BlocksOf
<1> HIDE DEF w
<1>3. w[1] \in Seq(Int) /\ Len(w[1]) = BlockLength /\ \A k \in 1 .. BlockLength : w[1][k] = b[k]
  <2>1. /\ w[1] \in Seq(Int) /\ Len(w[1]) = BlockLength
        /\ \A k \in 1 .. BlockLength : w[1][k] = b[BlockLength * (1 - 1) + k]
    <3>1. 1 \in 1 .. 1
      OBVIOUS
    <3> QED
      BY <1>2, <3>1
  <2>2. \A k \in 1 .. BlockLength : BlockLength * (1 - 1) + k = k
    BY <1>1
  <2> QED
    BY <2>1, <2>2
<1>4. w[1] = b
  <2> DEFINE x == w[1]
  <2>1. x \in Seq(Int) /\ Len(x) = Len(b) /\ \A k \in 1 .. Len(x) : x[k] = b[k]
    BY <1>1, <1>3
  <2> HIDE DEF x
  <2>2. x = b
    BY <1>1, <2>1, SeqEqual
  <2> QED
    BY <2>2 DEF x
<1>5. w = <<b>>
  <2>1. <<b>> \in Seq(Seq(Int)) /\ Len(<<b>>) = 1 /\ <<b>>[1] = b
    BY <1>1
  <2> DEFINE t == <<b>>
  <2>2. t \in Seq(Seq(Int)) /\ Len(w) = Len(t) /\ \A i \in 1 .. Len(w) : w[i] = t[i]
    BY <1>2, <1>4, <2>1
  <2> HIDE DEF t
  <2>3. w = t
    BY <1>2, <2>2, SeqEqual
  <2> QED
    BY <2>3 DEF t
<1>6. Append(s, b) = s \o <<b>> /\ Append(s, b) \in Seq(Seq(Int))
  BY <1>1, AppendIsConcat, AppendProperties DEF Blocks
<1> QED
  BY <1>5, <1>6 DEF w, Blocks

LEMMA NoBlock ==
  ASSUME NEW data \in Seq(Int), Len(data) < BlockLength, NEW s \in Blocks
  PROVE  WholeBlocks(data) = <<>> /\ Rest(data) = data /\ s \o WholeBlocks(data) = s
<1>1. BlockLength \in Nat /\ BlockLength > 0 /\ Len(data) \in Nat
  BY Widths, LenProperties
<1>2. Len(data) \div BlockLength = 0
  <2> DEFINE n == Len(data)
             d == BlockLength
  <2>1. n \in Nat /\ d \in Nat /\ d > 0 /\ n < d
    BY <1>1
  <2> HIDE DEF n, d
  <2>2. n \div d = 0
    BY <2>1, Division
  <2> QED
    BY <2>2 DEF n, d
<1>3. BlockLength * 0 + 1 = 1
  BY <1>1
<1>4. WholeBlocks(data) = <<>>
  BY <1>2 DEF WholeBlocks
<1>5. Rest(data) = SubSeq(data, 1, Len(data))
  BY <1>2, <1>3 DEF Rest
<1>6. SubSeq(data, 1, Len(data)) = data
  BY SubSeqFull
<1>7. s \o <<>> = s
  BY ConcatEmptySeq DEF Blocks
<1> QED
  BY <1>4, <1>5, <1>6, <1>7

\* A message of n bytes, and len more.
LEMMA Fits ==
  ASSUME NEW buffer \in Buffers, NEW n \in Nat, HoldsRest(buffer, n),
         NEW len \in Nat, len < BlockLength - (n % BlockLength)
  PROVE  /\ Put(buffer, n % BlockLength, Piece(n, len)) \in Buffers
         /\ HoldsRest(Put(buffer, n % BlockLength, Piece(n, len)), n + len)
         /\ (n + len) \div BlockLength = n \div BlockLength
         /\ (n + len) % BlockLength = (n % BlockLength) + len
<1> DEFINE d == BlockLength
           q == n \div d
           r == n % d
<1>1. /\ d \in Nat /\ d > 0 /\ q \in Nat /\ r \in Nat /\ r < d
      /\ n = d * q + r /\ d * q \in Nat
  BY Widths, Division
<1>2. Filled(buffer, q, r) /\ len < d - r
  BY DEF HoldsRest, Filled
<1> HIDE DEF q, r
<1>3. (n + len) \div d = q /\ (n + len) % d = r + len
  <2>1. n + len = d * q + (r + len)
    BY <1>1
  <2> HIDE DEF d
  <2> QED
    BY <1>1, <1>2, <2>1, QuotientIs
<1> DEFINE b == Put(buffer, r, Piece(n, len))
<1>4. b \in Buffers /\ Filled(b, q, r + len)
  <2>1. r \in 0 .. BlockLength /\ len \in 0 .. BlockLength - r /\ n \in Int
        /\ n = BlockLength * q + r
    BY <1>1, <1>2
  <2> QED
    BY <1>1, <1>2, <2>1, FillOn
<1> HIDE DEF b
<1>5. HoldsRest(b, n + len)
  BY <1>3, <1>4 DEF HoldsRest, Filled
<1> QED
  BY <1>3, <1>4, <1>5 DEF b, q, r

\* An update on a block boundary: whole blocks, and the rest in the buffer.
LEMMA Direct ==
  ASSUME NEW n \in Nat, n % BlockLength = 0, NEW len \in Nat, NEW buffer \in Buffers
  PROVE  /\ MessageBlocks(n \div BlockLength) \o WholeBlocks(Piece(n, len)) =
              MessageBlocks((n + len) \div BlockLength)
         /\ Rest(Piece(n, len)) =
              Piece(BlockLength * ((n + len) \div BlockLength), len % BlockLength)
         /\ Put(buffer, 0, Rest(Piece(n, len))) \in Buffers
         /\ HoldsRest(Put(buffer, 0, Rest(Piece(n, len))), n + len)
<1> DEFINE d == BlockLength
           q == n \div d
           p == len \div d
           m == len % d
<1>1. /\ d \in Nat /\ d > 0 /\ q \in Nat /\ n = d * q + 0 /\ d * q \in Nat
      /\ p \in Nat /\ m \in Nat /\ m < d /\ len = d * p + m
  BY Widths, Division
<1>2. n = d * q
  BY <1>1
<1> HIDE DEF q
<1>3. /\ MessageBlocks(q) \o WholeBlocks(Piece(d * q, len)) = MessageBlocks(q + p)
      /\ Rest(Piece(d * q, len)) = Piece(d * (q + p), m)
  BY <1>1, BlocksOfPiece
<1>4. (n + len) \div d = q + p /\ (n + len) % d = m
  <2>1. n + len = d * q + len
    BY <1>2
  <2>2. (d * q + len) \div d = q + p /\ (d * q + len) % d = m
    <3> HIDE DEF d
    <3> QED
      BY <1>1, Beyond
  <2> QED
    BY <2>1, <2>2
<1> DEFINE a == d * (q + p)
           b == Put(buffer, 0, Piece(a, m))
<1> HIDE DEF p, m
<1>5. a \in Int /\ a = d * (q + p) + 0
  BY <1>1, SMTT(30)
<1>6. b \in Buffers /\ Filled(b, q + p, 0 + m)
  <2>1. /\ q + p \in Nat /\ 0 \in 0 .. BlockLength /\ m \in 0 .. BlockLength - 0
        /\ a \in Int /\ a = BlockLength * (q + p) + 0 /\ Filled(buffer, q + p, 0)
    BY <1>1, <1>5 DEF Filled
  <2> HIDE DEF a
  <2> QED
    BY <2>1, FillOn
<1>7. 0 + m = m
  BY <1>1
<1> HIDE DEF b
<1>8. HoldsRest(b, n + len)
  BY <1>4, <1>6, <1>7 DEF HoldsRest, Filled
<1> QED
  BY <1>2, <1>3, <1>4, <1>6, <1>8 DEF b, a, q, p, m

\* An update that fills the block begun.
LEMMA Fills ==
  ASSUME NEW buffer \in Buffers, NEW n \in Nat, HoldsRest(buffer, n),
         NEW len \in Nat, len >= BlockLength - (n % BlockLength)
  PROVE  LET free == BlockLength - (n % BlockLength)
             filled == Put(buffer, n % BlockLength, Piece(n, free))
         IN  /\ free \in 1 .. BlockLength /\ n + free \in Nat /\ len - free \in Nat
             /\ SubSeq(Piece(n, len), 1, free) = Piece(n, free)
             /\ SubSeq(Piece(n, len), free + 1, len) = Piece(n + free, len - free)
             /\ filled \in Buffers
             /\ Append(MessageBlocks(n \div BlockLength), filled) =
                  MessageBlocks((n + free) \div BlockLength)
             /\ (n + free) % BlockLength = 0
             /\ (n + free) + (len - free) = n + len
<1> DEFINE d == BlockLength
           q == n \div d
           r == n % d
           free == d - r
           filled == Put(buffer, r, Piece(n, free))
<1>1. /\ d \in Nat /\ d > 0 /\ q \in Nat /\ r \in Nat /\ r < d
      /\ n = d * q + r /\ d * q \in Nat
  BY Widths, Division
<1>2. Filled(buffer, q, r) /\ len >= d - r
  BY DEF HoldsRest, Filled
<1> HIDE DEF q, r
<1>3. /\ free \in 1 .. d /\ n + free \in Nat /\ len - free \in Nat
      /\ (n + free) + (len - free) = n + len /\ r + free = d
  BY <1>1, <1>2
<1>4. /\ SubSeq(Piece(n, len), 1, free) = Piece(n + 1 - 1, free - 1 + 1)
      /\ SubSeq(Piece(n, len), free + 1, len) = Piece(n + (free + 1) - 1, len - (free + 1) + 1)
  <2>1. /\ 1 \in 1 .. len + 1 /\ free \in 1 - 1 .. len /\ n \in Int
        /\ free + 1 \in 1 .. len + 1 /\ len \in (free + 1) - 1 .. len
    BY <1>3
  <2> HIDE DEF free
  <2>2. SubSeq(Piece(n, len), 1, free) = Piece(n + 1 - 1, free - 1 + 1)
    BY <2>1, SubPiece
  <2> DEFINE f == free + 1
  <2>3. f \in 1 .. len + 1 /\ len \in f - 1 .. len
    BY <2>1
  <2> HIDE DEF f
  <2>4. SubSeq(Piece(n, len), f, len) = Piece(n + f - 1, len - f + 1)
    BY <2>1, <2>3, SubPiece
  <2> QED
    BY <2>2, <2>4 DEF f
<1>5. n + 1 - 1 = n /\ free - 1 + 1 = free /\ n + (free + 1) - 1 = n + free
      /\ len - (free + 1) + 1 = len - free
  BY <1>3
<1>6. filled \in Buffers /\ Filled(filled, q, r + free)
  <2>1. /\ r \in 0 .. BlockLength /\ free \in 0 .. BlockLength - r /\ n \in Int
        /\ n = BlockLength * q + r
    BY <1>1, <1>3
  <2> HIDE DEF free
  <2> QED
    BY <1>1, <1>2, <2>1, FillOn
<1> HIDE DEF filled
<1>7. Append(MessageBlocks(q), filled) = MessageBlocks(q + 1)
  BY <1>1, <1>3, <1>6, FullBuffer
<1>8. (n + free) \div d = q + 1 /\ (n + free) % d = 0
  <2> DEFINE x == n + free
  <2>1. d * (q + 1) = d * q + d
    BY <1>1, SMTT(30)
  <2>2. x \in Int /\ x = d * (q + 1) + 0 /\ q + 1 \in Int
    BY <1>1, <1>3, <2>1
  <2> HIDE DEF x, d
  <2>3. x \div d = q + 1 /\ x % d = 0
    BY <1>1, <2>2, QuotientIs
  <2> QED
    BY <2>3 DEF x
<1> QED
  BY <1>3, <1>4, <1>5, <1>6, <1>7, <1>8 DEF filled, free, q, r

-------------------------------------------------------------------------------
(* The last blocks of a message. *)

Mark(n) == <<OneBit>> \o Zeroes(n)

\* The mark and the zeroes after the rest of a message.
LEMMA PutMark ==
  ASSUME NEW buffer \in Buffers, NEW q \in Nat, NEW r \in 0 .. BlockLength - 1,
         Filled(buffer, q, r), NEW end \in r + 1 .. BlockLength
  PROVE  /\ Put(buffer, r, Mark(end - r - 1)) \in Buffers
         /\ \A k \in 1 .. end : Put(buffer, r, Mark(end - r - 1))[k] = Marked(q, r)[k]
<1>1. BlockLength \in Nat /\ r \in Nat /\ end - r - 1 \in Nat /\ (end - r - 1) + 1 = end - r
  BY Widths
<1> DEFINE n == end - r - 1
           m == Mark(n)
           b == Put(buffer, r, m)
<1>2. /\ m \in Seq(Int) /\ Len(m) = end - r /\ m[1] = OneBit
      /\ \A k \in 2 .. end - r : m[k] = 0
  <2>1. n \in Nat /\ n + 1 = end - r
    BY <1>1
  <2> HIDE DEF n
  <2> QED
    BY <2>1, MarkIs DEF Mark
<1> HIDE DEF m
<1>3. /\ b \in Buffers
      /\ \A k \in 1 .. BlockLength :
           b[k] = IF k - r \in 1 .. end - r THEN m[k - r] ELSE buffer[k]
  BY <1>1, <1>2, PutIs, SMTT(30)
<1> HIDE DEF b
<1>4. ASSUME NEW k \in 1 .. end PROVE b[k] = Marked(q, r)[k]
  <2>1. k \in 1 .. BlockLength
    BY <1>1
  <2>2. Marked(q, r)[k] = IF k <= r THEN BlockLength * q + k
                          ELSE IF k = r + 1 THEN OneBit ELSE 0
    BY <2>1 DEF Marked, ZeroByte
  <2>3. CASE k <= r
    <3>1. k \in 1 .. r /\ k - r \notin 1 .. end - r
      BY <1>1, <2>3
    <3> QED
      BY <1>3, <2>1, <2>2, <2>3, <3>1 DEF Filled
  <2>4. CASE k = r + 1
    <3>1. k - r = 1 /\ 1 \in 1 .. end - r /\ ~(k <= r)
      BY <1>1, <2>4
    <3> QED
      BY <1>2, <1>3, <2>1, <2>2, <2>4, <3>1
  <2>5. CASE k > r + 1
    <3>1. k - r \in 2 .. end - r /\ k - r \in 1 .. end - r /\ ~(k <= r) /\ k # r + 1
      BY <1>1, <2>5
    <3> QED
      BY <1>2, <1>3, <2>1, <2>2, <3>1
  <2> QED
    BY <1>1, <2>3, <2>4, <2>5
<1> QED
  BY <1>3, <1>4 DEF b, m

\* The length field goes to the end of a buffer whose short part is that of a block.
LEMMA PutLength ==
  ASSUME NEW buffer \in Buffers, NEW block, NEW lengthField \in Seq(Int),
         Len(lengthField) = 2, \A k \in 1 .. ShortBlock : buffer[k] = block[k]
  PROVE  /\ Put(buffer, ShortBlock, lengthField) = WithLength(block, lengthField)
         /\ Put(buffer, ShortBlock, lengthField) \in Buffers
<1>1. BlockLength \in Nat /\ ShortBlock \in Nat /\ ShortBlock = BlockLength - 2
  BY Widths
<1> DEFINE b == Put(buffer, ShortBlock, lengthField)
<1>2. /\ b \in Buffers
      /\ \A k \in 1 .. BlockLength :
           b[k] = IF k - ShortBlock \in 1 .. 2 THEN lengthField[k - ShortBlock] ELSE buffer[k]
  <2>1. /\ b \in Buffers
        /\ \A k \in 1 .. BlockLength :
             b[k] = IF k - ShortBlock \in 1 .. Len(lengthField)
                    THEN lengthField[k - ShortBlock] ELSE buffer[k]
    BY <1>1, PutIs
  <2> QED
    BY <2>1
<1> HIDE DEF b
<1>3. ASSUME NEW k \in 1 .. BlockLength
      PROVE  b[k] = IF k > ShortBlock THEN lengthField[k - ShortBlock] ELSE block[k]
  <2>1. CASE k > ShortBlock
    <3>1. k - ShortBlock \in 1 .. 2
      BY <1>1, <2>1
    <3> QED
      BY <1>2, <2>1, <3>1
  <2>2. CASE ~(k > ShortBlock)
    <3>1. k - ShortBlock \notin 1 .. 2 /\ k \in 1 .. ShortBlock
      BY <1>1, <2>2
    <3> QED
      BY <1>2, <2>2, <3>1
  <2> QED
    BY <2>1, <2>2
<1>4. b = [k \in 1 .. BlockLength |-> b[k]]
  BY <1>2 DEF Buffers
<1>5. b = WithLength(block, lengthField)
  BY <1>3, <1>4 DEF WithLength
<1> QED
  BY <1>2, <1>5 DEF b

\* Zeroes at the beginning of a buffer.
LEMMA PutZeroes ==
  ASSUME NEW buffer \in Buffers, NEW n \in 0 .. BlockLength
  PROVE  /\ Put(buffer, 0, Zeroes(n)) \in Buffers
         /\ \A k \in 1 .. n : Put(buffer, 0, Zeroes(n))[k] = Zeroes(BlockLength)[k]
<1>1. BlockLength \in Nat /\ n \in Nat
  BY Widths
<1> DEFINE z == Zeroes(n)
           b == Put(buffer, 0, z)
<1>2. z \in Seq(Int) /\ Len(z) = n /\ \A k \in 1 .. n : z[k] = 0
  BY <1>1, ZeroesAre
<1>3. \A k \in 1 .. BlockLength : Zeroes(BlockLength)[k] = 0
  BY <1>1, ZeroesAre
<1> HIDE DEF z
<1>4. /\ b \in Buffers
      /\ \A k \in 1 .. BlockLength :
           b[k] = IF k - 0 \in 1 .. n THEN z[k - 0] ELSE buffer[k]
  <2>1. 0 \in Nat
    OBVIOUS
  <2> QED
    BY <1>2, <2>1, PutIs
<1> HIDE DEF b
<1>5. ASSUME NEW k \in 1 .. n PROVE b[k] = Zeroes(BlockLength)[k]
  <2>1. k \in 1 .. BlockLength /\ k - 0 = k
    BY <1>1
  <2> QED
    BY <1>2, <1>3, <1>4, <2>1
<1> QED
  BY <1>4, <1>5 DEF b, z

LEMMA Pair ==
  ASSUME NEW S, NEW x \in S, NEW y \in S
  PROVE  <<x>> \o <<y>> = <<x, y>>
<1>1. <<x>> \in Seq(S) /\ Len(<<x>>) = 1 /\ <<y>> \in Seq(S) /\ Len(<<y>>) = 1
  OBVIOUS
<1>2. <<x, y>> \in Seq(S) /\ Len(<<x, y>>) = 2
  OBVIOUS
<1> DEFINE u == <<x>>
           v == <<y>>
           w == <<x, y>>
           t == u \o v
<1>3. u[1] = x /\ v[1] = y /\ w[1] = x /\ w[2] = y
  OBVIOUS
<1> HIDE DEF u, v
<1>4. /\ t \in Seq(S) /\ Len(t) = 2
      /\ \A i \in 1 .. 2 : t[i] = IF i <= 1 THEN u[i] ELSE v[i - 1]
  <2>1. u \in Seq(S) /\ Len(u) = 1 /\ v \in Seq(S) /\ Len(v) = 1
    BY <1>1 DEF u, v
  <2> QED
    BY <2>1, ConcatProperties
<1> HIDE DEF w, t
<1>5. \A i \in 1 .. 2 : t[i] = w[i]
  BY <1>3, <1>4
<1>6. t = w
  BY <1>2, <1>4, <1>5, SeqEqual DEF w
<1> QED
  BY <1>6 DEF t, u, v, w

\* The blocks of the padded message: one more than the message has whole ones if the
\* mark and the length find room, and two if not.
LEMMA LastBlock ==
  ASSUME NEW n \in Nat, NEW buffer \in Buffers, HoldsRest(buffer, n),
         NEW lengthField \in Seq(Int), Len(lengthField) = 2,
         n % BlockLength < ShortBlock
  PROVE  LET r == n % BlockLength
             marked == Put(buffer, r, Mark(ShortBlock - r - 1))
             last == Put(marked, ShortBlock, lengthField)
         IN  /\ marked \in Buffers /\ last \in Buffers
             /\ Append(MessageBlocks(n \div BlockLength), last) =
                  WholeBlocks(Message(n) \o Padding(n, lengthField))
<1> DEFINE d == BlockLength
           q == n \div d
           r == n % d
           marked == Put(buffer, r, Mark(ShortBlock - r - 1))
           last == Put(marked, ShortBlock, lengthField)
           s == MessageBlocks(q)
<1>1. /\ d \in Nat /\ d > 2 /\ q \in Nat /\ r \in Nat /\ r < d /\ ShortBlock = d - 2
  BY Widths, Division
<1>2. Filled(buffer, q, r) /\ r < ShortBlock
  BY DEF HoldsRest, Filled
<1>3. WholeBlocks(Message(n) \o Padding(n, lengthField)) = s \o FinalBlocks(q, r, lengthField)
  BY PaddedMessage
<1> HIDE DEF q, r
<1>4. s \in Seq(Seq(Int))
  BY <1>1, BlocksAre
<1> HIDE DEF s
<1>5. marked \in Buffers /\ \A k \in 1 .. ShortBlock : marked[k] = Marked(q, r)[k]
  <2>1. r \in 0 .. BlockLength - 1 /\ ShortBlock \in r + 1 .. BlockLength
    BY <1>1, <1>2
  <2> QED
    BY <1>1, <1>2, <2>1, PutMark
<1> HIDE DEF marked
<1>6. last \in Buffers /\ last = WithLength(Marked(q, r), lengthField)
  BY <1>5, PutLength
<1> HIDE DEF last
<1>7. Append(s, last) = s \o <<last>>
  BY <1>4, <1>6, BufferIs, AppendIsConcat
<1>8. FinalBlocks(q, r, lengthField) = <<last>>
  BY <1>2, <1>6 DEF FinalBlocks
<1> QED
  BY <1>3, <1>5, <1>6, <1>7, <1>8 DEF last, marked, s, q, r

\* The two blocks that end a message whose rest leaves no room for the length.
LEMMA LastBlocks ==
  ASSUME NEW n \in Nat, NEW buffer \in Buffers, HoldsRest(buffer, n),
         NEW lengthField \in Seq(Int), Len(lengthField) = 2,
         ~(n % BlockLength < ShortBlock),
         NEW other \in Buffers, NEW m \in {ShortBlock, BlockLength - 1}
  PROVE  LET r == n % BlockLength
             marked == Put(buffer, r, Mark(BlockLength - r - 1))
             zeroes == Put(other, 0, Zeroes(m))
             last == Put(zeroes, ShortBlock, lengthField)
         IN  /\ marked \in Buffers /\ zeroes \in Buffers /\ last \in Buffers
             /\ Append(MessageBlocks(n \div BlockLength), marked) \in Blocks
             /\ Append(Append(MessageBlocks(n \div BlockLength), marked), last) =
                  WholeBlocks(Message(n) \o Padding(n, lengthField))
<1> DEFINE d == BlockLength
           q == n \div d
           r == n % d
           marked == Put(buffer, r, Mark(BlockLength - r - 1))
           zeroes == Put(other, 0, Zeroes(m))
           last == Put(zeroes, ShortBlock, lengthField)
           s == MessageBlocks(q)
<1>1. /\ d \in Nat /\ d > 2 /\ q \in Nat /\ r \in Nat /\ r < d /\ ShortBlock = d - 2
  BY Widths, Division
<1>2. Filled(buffer, q, r) /\ ~(r < ShortBlock)
  BY DEF HoldsRest, Filled
<1>3. WholeBlocks(Message(n) \o Padding(n, lengthField)) = s \o FinalBlocks(q, r, lengthField)
  BY PaddedMessage
<1> HIDE DEF q, r
<1>4. s \in Seq(Seq(Int))
  BY <1>1, BlocksAre
<1> HIDE DEF s
<1>5. marked \in Buffers /\ \A k \in 1 .. BlockLength : marked[k] = Marked(q, r)[k]
  <2>1. r \in 0 .. BlockLength - 1 /\ BlockLength \in r + 1 .. BlockLength
    BY <1>1
  <2> QED
    BY <1>1, <1>2, <2>1, PutMark
<1> HIDE DEF marked
<1>6. marked = Marked(q, r)
  <2>1. marked = [k \in 1 .. BlockLength |-> marked[k]]
    BY <1>5 DEF Buffers
  <2>2. Marked(q, r) = [k \in 1 .. BlockLength |-> Marked(q, r)[k]]
    BY DEF Marked
  <2> QED
    BY <1>5, <2>1, <2>2
<1>7. zeroes \in Buffers /\ \A k \in 1 .. ShortBlock : zeroes[k] = Zeroes(BlockLength)[k]
  <2>1. m \in 0 .. BlockLength /\ \A k \in 1 .. ShortBlock : k \in 1 .. m
    BY <1>1
  <2> QED
    BY <2>1, PutZeroes
<1> HIDE DEF zeroes
<1>8. last \in Buffers /\ last = WithLength(Zeroes(BlockLength), lengthField)
  BY <1>7, PutLength
<1> HIDE DEF last
<1>9. FinalBlocks(q, r, lengthField) = <<marked, last>>
  BY <1>2, <1>6, <1>8 DEF FinalBlocks
<1>10. marked \in Seq(Int) /\ last \in Seq(Int)
  BY <1>5, <1>8, BufferIs
<1>11. Append(Append(s, marked), last) = s \o <<marked, last>> /\ Append(s, marked) \in Blocks
  <2>1. Append(s, marked) = s \o <<marked>> /\ Append(s, marked) \in Seq(Seq(Int))
    BY <1>4, <1>10, AppendIsConcat, AppendProperties
  <2>2. Append(Append(s, marked), last) = Append(s, marked) \o <<last>>
    BY <1>10, <2>1, AppendIsConcat
  <2>3. <<marked>> \in Seq(Seq(Int)) /\ <<last>> \in Seq(Seq(Int))
    BY <1>10
  <2>4. (s \o <<marked>>) \o <<last>> = s \o (<<marked>> \o <<last>>)
    BY <1>4, <2>3, ConcatAssociative
  <2>5. <<marked>> \o <<last>> = <<marked, last>>
    BY <1>10, Pair
  <2> QED
    BY <2>1, <2>2, <2>4, <2>5 DEF Blocks
<1> QED
  BY <1>3, <1>5, <1>7, <1>8, <1>9, <1>11 DEF last, zeroes, marked, s, q, r

-------------------------------------------------------------------------------
(* Counting bits. *)

\* A byte has ByteBits bits.
LEMMA BitsAre ==
  ASSUME NEW n \in Nat, NEW m \in Nat
  PROVE  /\ Bits(n) \in Nat /\ Bits(m) \in Nat /\ Bits(n + m) = Bits(n) + Bits(m)
         /\ Bits(n) <= Bits(n + m) /\ Bits(0) = 0 /\ (n <= m => Bits(n) <= Bits(m))
<1>1. ByteBits \in Nat
  BY Widths
<1>2. /\ n * ByteBits \in Nat /\ m * ByteBits \in Nat
      /\ (n + m) * ByteBits = n * ByteBits + m * ByteBits
  BY <1>1, SMTT(30)
<1>3. 0 * ByteBits = 0
  BY <1>1
<1>4. n <= m => n * ByteBits <= m * ByteBits
  <2>1. m - n >= 0 => (m - n) * ByteBits >= 0
    BY <1>1, SMTT(30)
  <2>2. (m - n) * ByteBits = m * ByteBits - n * ByteBits
    BY <1>1, SMTT(30)
  <2> QED
    BY <1>2, <2>1, <2>2
<1> QED
  BY <1>2, <1>3, <1>4 DEF Bits

\* A counter of bits goes on counting modulo its width.
LEMMA CountOn ==
  ASSUME NEW n \in Nat, NEW m \in Nat, NEW width \in Nat, width > 0
  PROVE  /\ ((Bits(n) % width) + Bits(m)) % width = Bits(n + m) % width
         /\ Bits(n + m) \div width =
              (Bits(n) \div width) + (Bits(m) \div width)
                + IF Bits(n + m) % width < Bits(m) % width THEN 1 ELSE 0
<1> DEFINE x == Bits(n)
           y == Bits(m)
<1>1. x \in Nat /\ y \in Nat /\ Bits(n + m) = x + y
  BY BitsAre
<1> HIDE DEF x, y
<1>2. /\ ((x % width) + y) % width = (x + y) % width
      /\ (x + y) \div width = x \div width + y \div width
           + IF (x + y) % width < y % width THEN 1 ELSE 0
  BY <1>1, SumOfRemainders
<1> QED
  BY <1>1, <1>2 DEF x, y

\* The high word of a counter takes the carry of the low one.
LEMMA CarryOn ==
  ASSUME NEW x \in Nat, NEW y \in Nat, NEW d \in Nat, d > 0
  PROVE  ((x % d) + y) % d = (x + y) % d
BY SumOfRemainders

LEMMA Below ==
  ASSUME NEW x \in Nat, NEW d \in Nat, x < d
  PROVE  x \div d = 0 /\ x % d = x
BY Division

\* A 64-bit count in two words.
LEMMA TwoWords ==
  ASSUME NEW x \in Nat
  PROVE  /\ (x % Word64Mod) \div UIntMod = (x \div UIntMod) % UIntMod
         /\ (x % Word64Mod) % UIntMod = x % UIntMod
BY Widths, QuotientOfRemainder DEF Word64Mod

\* The halves of the length field of a message shorter than 2^64 bits.
LEMMA ShortCount ==
  ASSUME NEW x \in Nat, x < Word64Mod
  PROVE  /\ x \div UIntMod \in 0 .. UIntMod - 1 /\ (x \div UIntMod) % UIntMod = x \div UIntMod
         /\ x % UIntMod \in 0 .. UIntMod - 1
<1>1. UIntMod \in Nat /\ UIntMod > 0 /\ Word64Mod \in Nat
  BY Widths
<1>2. x % Word64Mod = x
  BY <1>1, Division, Widths
<1>3. (x % Word64Mod) \div UIntMod = (x \div UIntMod) % UIntMod
  BY TwoWords
<1>4. x \div UIntMod \in Nat /\ (x \div UIntMod) % UIntMod \in Nat
      /\ (x \div UIntMod) % UIntMod < UIntMod /\ x % UIntMod \in Nat /\ x % UIntMod < UIntMod
  BY <1>1, Division
<1> QED
  BY <1>1, <1>2, <1>3, <1>4

\* MD5: count holds the bits of n bytes.
Count(count, n) ==
  /\ count \in Seq(0 .. ULongMod - 1) /\ Len(count) = 2
  /\ count[1] = Bits(n) % ULongMod
  /\ CountsRight(n) => count[2] = (Bits(n) \div UIntMod) % UIntMod

\* The count of MD5 after an update: the low word carries once.
LEMMA CountAdds ==
  ASSUME NEW n \in Nat, NEW m \in Nat, NEW count, Count(count, n)
  PROVE  /\ Count(AddToCount(count, m), n + m)
         /\ CountsRight(n + m) => CountsRight(n)
<1> DEFINE u == UIntMod
           l == ULongMod
           x == Bits(n)
           y == Bits(m)
           low == (count[1] + Bits(m)) % ULongMod
           carry == IF low < Bits(m) % ULongMod THEN 1 ELSE 0
           high == (count[2] + carry + Bits(m) \div UIntMod) % ULongMod
<1>1. u \in Nat /\ u > 0 /\ l \in Nat /\ l > 0
  BY Widths
<1>2. x \in Nat /\ y \in Nat /\ Bits(n + m) = x + y
  BY BitsAre
<1>3. count[1] = x % l /\ count[2] \in Nat
      /\ (CountsRight(n) => count[2] = (x \div u) % u)
  <2>1. count[2] \in 0 .. ULongMod - 1
    <3>1. count \in Seq(0 .. ULongMod - 1) /\ 2 \in 1 .. Len(count)
      BY DEF Count
    <3> QED
      BY <3>1, ElementOfSeq
  <2> QED
    BY <2>1 DEF Count
<1>4. low = (x + y) % l
  <2> HIDE DEF x, y, l
  <2>1. ((x % l) + y) % l = (x + y) % l
    BY <1>1, <1>2, CarryOn, ZenonT(30)
  <2> QED
    BY <1>3, <2>1 DEF y, l
<1>5. y \div u \in Nat /\ x \div u \in Nat /\ (x + y) \div u \in Nat
  BY <1>1, <1>2, Division
<1>6. low \in 0 .. l - 1 /\ high \in 0 .. l - 1
  <2>1. low \in Nat /\ low < l
    <3>1. x + y \in Nat
      BY <1>2
    <3> QED
      BY <1>1, <1>4, <3>1, Division
  <2>2. high \in Nat /\ high < l
    <3> DEFINE z == count[2] + carry + Bits(m) \div UIntMod
    <3>1. z \in Nat
      BY <1>3, <1>5
    <3> HIDE DEF z
    <3>2. z % l \in Nat /\ z % l < l
      BY <1>1, <3>1, Division
    <3> QED
      BY <3>2 DEF z
  <2> QED
    BY <1>1, <2>1, <2>2
<1>7. AddToCount(count, m) = <<low, high>>
  BY DEF AddToCount
<1>8. ASSUME CountsRight(n + m)
      PROVE  CountsRight(n) /\ high = ((x + y) \div u) % u
  <2>1. CASE l = u
    <3>1. CountsRight(n) /\ count[2] = (x \div u) % u
      BY <1>3, <2>1 DEF CountsRight
    <3>2. (x + y) \div u = x \div u + y \div u + carry
      BY <1>1, <1>2, <1>4, <2>1, SumOfRemainders
    <3> DEFINE p == x \div u
               q == carry + y \div u
    <3>3. p \in Nat /\ q \in Nat /\ (x + y) \div u = p + q
      BY <1>5, <3>2
    <3>4. high = ((p % u) + q) % u
      <4>1. p % u \in Nat
        BY <1>1, <1>5, Division
      <4>2. count[2] + carry + Bits(m) \div UIntMod = (p % u) + q
        BY <1>5, <3>1, <4>1
      <4> QED
        BY <2>1, <4>2
    <3> HIDE DEF p, q
    <3>5. ((p % u) + q) % u = (p + q) % u
      BY <1>1, <3>3, CarryOn
    <3> QED
      BY <3>1, <3>3, <3>4, <3>5
  <2>2. CASE l # u
    <3>1. x + y < u /\ u < l
      BY <1>2, <1>8, <2>2, Widths DEF CountsRight
    <3>2. CountsRight(n)
      BY <1>1, <1>2, <3>1 DEF CountsRight
    <3>3. /\ x \div u = 0 /\ y \div u = 0 /\ (x + y) \div u = 0
          /\ (x + y) % l = x + y /\ y % l = y /\ 0 % u = 0 /\ 0 % l = 0
      <4> DEFINE t == x + y
      <4>1. t \in Nat /\ x < u /\ y < u /\ t < l /\ t < u /\ y < l /\ 0 < u /\ 0 < l
        BY <1>1, <1>2, <3>1
      <4> HIDE DEF x, y, u, l, t
      <4>2. x \div u = 0 /\ y \div u = 0 /\ t \div u = 0
        BY <1>1, <1>2, <4>1, Below
      <4>3. t % l = t /\ y % l = y
        BY <1>1, <1>2, <4>1, Below
      <4>4. 0 % u = 0 /\ 0 % l = 0
        BY <1>1
      <4> QED
        BY <4>2, <4>3, <4>4 DEF t
    <3>4. count[2] = 0 /\ carry = 0
      BY <1>2, <1>3, <1>4, <3>2, <3>3
    <3> HIDE DEF carry
    <3>5. high = 0 % l
      BY <3>3, <3>4
    <3> QED
      BY <3>2, <3>3, <3>5
  <2> QED
    BY <2>1, <2>2
<1> HIDE DEF low, high, l
<1>9. <<low, high>> \in Seq(0 .. l - 1) /\ Len(<<low, high>>) = 2
      /\ <<low, high>>[1] = low /\ <<low, high>>[2] = high
  BY <1>6
<1> QED
  BY <1>2, <1>4, <1>7, <1>8, <1>9 DEF Count, l

\* The bytes that wait follow from the count.
LEMMA CountBuffered ==
  ASSUME NEW n \in Nat, NEW c, Count(c.count, n)
  PROVE  BufferedMD5(c) = n % BlockLength
<1>1. c.count[1] = Bits(n) % ULongMod
  BY DEF Count
<1>2. ULongMod \in {UIntMod, Word64Mod}
  BY Widths
<1> QED
  BY <1>1, <1>2, CountedBytes DEF BufferedMD5

\* What MD5Final() appends: the words of the length, the low one first.
LEMMA CountEncoded ==
  ASSUME NEW n \in Nat, NEW count, Count(count, n)
  PROVE  /\ Encode(count) \in Seq(Int) /\ Len(Encode(count)) = 2
         /\ CountsRight(n) => Encode(count) = Reverse(HighLow(n, UIntMod))
<1> DEFINE u == UIntMod
           x == Bits(n)
           a == count[1] % UIntMod
           b == count[2] % UIntMod
<1>1. u \in Nat /\ u > 0 /\ x \in Nat /\ count[1] \in Nat /\ count[2] \in Nat
  <2>1. count[1] \in 0 .. ULongMod - 1 /\ count[2] \in 0 .. ULongMod - 1
    <3>1. count \in Seq(0 .. ULongMod - 1) /\ 1 \in 1 .. Len(count) /\ 2 \in 1 .. Len(count)
      BY DEF Count
    <3> QED
      BY <3>1, ElementOfSeq
  <2> QED
    BY <2>1, Widths, BitsAre
<1>2. a = x % u
  <2>1. count[1] = x % ULongMod
    BY DEF Count
  <2>2. CASE ULongMod = Word64Mod
    BY <1>1, <2>1, <2>2, TwoWords
  <2>3. CASE ULongMod = u
    <3>1. x % u \in Nat /\ x % u < u
      BY <1>1, Division
    <3> DEFINE y == x % u
    <3> HIDE DEF y
    <3>2. y % u = y
      BY <1>1, <3>1, Division DEF y
    <3> QED
      BY <2>1, <2>3, <3>2 DEF y
  <2> QED
    BY <2>2, <2>3, Widths
<1>3. CountsRight(n) => b = (x \div u) % u
  <2> DEFINE z == x \div u
             y == z % u
  <2>1. z \in Nat
    BY <1>1, Division
  <2> HIDE DEF z
  <2>2. y \in Nat /\ y < u
    BY <1>1, <2>1, Division
  <2> HIDE DEF y
  <2>3. y % u = y
    BY <1>1, <2>2, Division
  <2>4. CountsRight(n) => count[2] = y
    BY DEF Count, y, z
  <2> QED
    BY <2>3, <2>4 DEF y, z
<1>4. a \in Int /\ b \in Int
  BY <1>1, Division
<1>5. Encode(count) = <<LengthWord(a), LengthWord(b)>>
  BY DEF Encode
<1>6. LengthWord(a) \in Int /\ LengthWord(b) \in Int
  BY <1>4 DEF LengthWord
<1>7. Reverse(HighLow(n, UIntMod)) = <<LengthWord(x % u), LengthWord((x \div u) % u)>>
  <2> DEFINE s == LengthWord((x \div u) % u)
             t == LengthWord(x % u)
  <2>1. HighLow(n, UIntMod) = <<s, t>>
    BY DEF HighLow
  <2> HIDE DEF s, t
  <2>2. Reverse(<<s, t>>) = <<t, s>>
    <3>1. Reverse(<<s, t>>) = [i \in 1 .. 2 |-> <<s, t>>[(2 - i) + 1]]
      BY DEF Reverse
    <3>2. \A i \in 1 .. 2 : <<s, t>>[(2 - i) + 1] = <<t, s>>[i]
      OBVIOUS
    <3>3. <<t, s>> = [i \in 1 .. 2 |-> <<t, s>>[i]]
      OBVIOUS
    <3> QED
      BY <3>1, <3>2, <3>3
  <2> QED
    BY <2>1, <2>2 DEF s, t
<1> HIDE DEF a, b
<1>8. <<LengthWord(a), LengthWord(b)>> \in Seq(Int) /\ Len(<<LengthWord(a), LengthWord(b)>>) = 2
  BY <1>6
<1> QED
  BY <1>2, <1>3, <1>5, <1>7, <1>8

\* SHA-384 and SHA-512: the 128-bit count of n bytes.
Count128(w, n) ==
  w = << Bits(n) % Word64Mod, (Bits(n) \div Word64Mod) % Word64Mod >>

\* The 128-bit count after a block.
LEMMA Count128Adds ==
  ASSUME NEW n \in Nat, NEW m \in Nat, m <= BlockLength, NEW w, Count128(w, n)
  PROVE  Count128(ADDINC128(w, Bits(m)), n + m)
<1> DEFINE d == Word64Mod
           x == Bits(n)
           y == Bits(m)
           p == x \div d
           e == IF (x + y) % d < y THEN 1 ELSE 0
<1>1. /\ d \in Nat /\ d > 0 /\ x \in Nat /\ y \in Nat /\ Bits(n + m) = x + y
  <2>1. x \in Nat /\ y \in Nat /\ Bits(n + m) = x + y
    BY BitsAre
  <2> QED
    BY <2>1, Widths
<1>2. y < d
  <2>1. Bits(m) <= Bits(BlockLength) /\ Bits(BlockLength) < UIntMod /\ UIntMod < d
    BY BitsAre, Widths, HashAssumption DEF Bits
  <2> QED
    BY <1>1, <2>1, BitsAre, Widths
<1>3. w[1] = x % d /\ w[2] = p % d
  BY DEF Count128
<1> HIDE DEF d, x, y
<1>4. y \div d = 0 /\ y % d = y
  BY <1>1, <1>2, Division
<1>5. /\ ((x % d) + y) % d = (x + y) % d /\ (x + y) \div d = p + 0 + e
  BY <1>1, <1>4, SumOfRemainders
<1>6. p \in Nat /\ p % d \in Nat /\ p % d < d
  BY <1>1, Division
<1> HIDE DEF p
<1>7. (x + y) \div d = p + e /\ e \in Nat
  BY <1>5, <1>6
<1>8. (IF (x + y) % d < y THEN (w[2] + 1) % d ELSE w[2]) = ((x + y) \div d) % d
  <2>1. ((p % d) + 1) % d = (p + 1) % d
    <3> DEFINE one == 1
    <3>1. one \in Nat
      OBVIOUS
    <3>0. p \in Nat /\ d \in Nat /\ d > 0
      BY <1>1, <1>6
    <3> HIDE DEF one, e
    <3>2. ((p % d) + one) % d = (p + one) % d
      BY <3>0, <3>1, CarryOn
    <3> QED
      BY <3>2 DEF one
  <2>2. p + 0 = p
    BY <1>6
  <2> QED
    BY <1>3, <1>6, <1>7, <2>1, <2>2
<1>9. ADDINC128(w, y) = << (x + y) % d, ((x + y) \div d) % d >>
  BY <1>3, <1>5, <1>8 DEF ADDINC128, d
<1> QED
  BY <1>1, <1>9 DEF Count128, d, x, y

-------------------------------------------------------------------------------
(* Chaining values. *)

Chained(name, blocks) == [iv |-> name, blocks |-> blocks]

LEMMA BlocksField ==
  ASSUME NEW name, NEW blocks, NEW c, c = Chained(name, blocks), NEW x
  PROVE  [c EXCEPT !.blocks = x] = Chained(name, x)
<1> DEFINE u == [c EXCEPT !.blocks = x]
<1>1. u \in [iv : {name}, blocks : {x}]
  BY DEF Chained
<1> HIDE DEF u
<1>2. u = [iv |-> name, blocks |-> x]
  BY <1>1
<1> QED
  BY <1>2 DEF u, Chained

\* Compressing a block.
LEMMA CompressIs ==
  ASSUME NEW name, NEW blocks, NEW b
  PROVE  Compress(Chained(name, blocks), b) = Chained(name, Append(blocks, b))
<1> DEFINE c == Chained(name, blocks)
<1>1. c.blocks = blocks
  BY DEF Chained
<1> HIDE DEF c
<1>2. Compress(c, b) = [c EXCEPT !.blocks = Append(blocks, b)]
  BY <1>1 DEF Compress
<1> QED
  BY <1>2, BlocksField DEF c

\* Compressing blocks.
LEMMA CompressAllIs ==
  ASSUME NEW name, NEW blocks, NEW data
  PROVE  CompressAll(Chained(name, blocks), data) = Chained(name, blocks \o WholeBlocks(data))
<1> DEFINE c == Chained(name, blocks)
           x == blocks \o WholeBlocks(data)
<1>1. c.blocks = blocks
  BY DEF Chained
<1> HIDE DEF c
<1>2. CompressAll(c, data) = [c EXCEPT !.blocks = x]
  BY <1>1 DEF CompressAll
<1> HIDE DEF x
<1>3. [c EXCEPT !.blocks = x] = Chained(name, x)
  BY BlocksField DEF c
<1> QED
  BY <1>2, <1>3 DEF c, x

LEMMA ChainedIs ==
  ASSUME NEW name, NEW blocks
  PROVE  /\ \A w : DigestOf(Chained(name, blocks), w) =
                     [iv |-> name, words |-> w, blocks |-> blocks]
         /\ InitialValue(name) = Chained(name, <<>>)
         /\ (name \in Algorithms /\ blocks \in Blocks => Chained(name, blocks) \in ChainingValue)
<1>1. InitialValue(name) = Chained(name, <<>>)
  BY DEF InitialValue, Chained
<1>2. \A w : DigestOf(Chained(name, blocks), w) = [iv |-> name, words |-> w, blocks |-> blocks]
  BY DEF DigestOf, Chained
<1>3. name \in Algorithms /\ blocks \in Blocks => Chained(name, blocks) \in ChainingValue
  BY DEF Chained, ChainingValue, Blocks
<1> QED
  BY <1>1, <1>2, <1>3

LEMMA Names ==
  {"md5", "sha1", "sha256", "sha384", "sha512", "garbage"} \subseteq Algorithms
BY DEF Algorithms

\* The chaining value of n bytes.
LEMMA CompressedIs ==
  ASSUME NEW name \in Algorithms, NEW n \in Nat
  PROVE  /\ Compressed(name, n) = Chained(name, MessageBlocks(n \div BlockLength))
         /\ MessageBlocks(n \div BlockLength) \in Blocks
         /\ Compressed(name, n) \in ChainingValue
         /\ InitialValue(name) = Compressed(name, 0)
<1>1. n \div BlockLength \in Nat /\ 0 \div BlockLength = 0
  BY Widths, Division
<1>2. MessageBlocks(n \div BlockLength) \in Blocks /\ MessageBlocks(0) = <<>>
  BY <1>1, BlocksAre DEF Blocks
<1>3. Compressed(name, n) = Chained(name, MessageBlocks(n \div BlockLength))
  BY DEF Compressed, Chained
<1>4. Compressed(name, 0) = Chained(name, <<>>)
  BY <1>1, <1>2 DEF Compressed, Chained
<1> QED
  BY <1>2, <1>3, <1>4, ChainedIs

\* Nothing is held of no bytes.
LEMMA HoldsNothing ==
  ASSUME NEW buffer PROVE HoldsRest(buffer, 0)
<1>1. 0 % BlockLength = 0
  BY Widths
<1> QED
  BY <1>1 DEF HoldsRest

\* The digest of a standard has its type.
LEMMA StandardIs ==
  ASSUME NEW name \in Algorithms, NEW words \in Nat, NEW n \in Nat,
         NEW lengthField \in Seq(Int), Len(lengthField) = 2
  PROVE  /\ WholeBlocks(Message(n) \o Padding(n, lengthField)) \in Blocks
         /\ StandardDigest(name, words, n, lengthField) \in
              [iv : Algorithms, words : Nat, blocks : Seq(Seq(Int))]
<1> DEFINE q == n \div BlockLength
           r == n % BlockLength
           s == MessageBlocks(q)
           f == FinalBlocks(q, r, lengthField)
<1>1. q \in Nat /\ r \in 0 .. BlockLength - 1
  BY Widths, Division
<1>2. WholeBlocks(Message(n) \o Padding(n, lengthField)) = s \o f
  BY PaddedMessage
<1> HIDE DEF q, r
<1>3. s \in Seq(Seq(Int)) /\ f \in Seq(Seq(Int))
  BY <1>1, BlocksAre, FinalBlocksAre
<1> HIDE DEF s, f
<1>4. s \o f \in Seq(Seq(Int))
  BY <1>3, ConcatProperties
<1> QED
  BY <1>2, <1>4 DEF StandardDigest, Blocks

-------------------------------------------------------------------------------
(* MD5 *)

MD5Sized(c) == c \in MD5Context /\ Len(c.buffer) = BlockLength /\ Len(c.count) = 2

IsMD5(c) == c = [state |-> c.state, count |-> c.count, buffer |-> c.buffer]

\* MD5Update(), field by field.
LEMMA MD5UpdateIs ==
  ASSUME NEW c, IsMD5(c), NEW input
  PROVE  LET index == BufferedMD5(c)
             partLen == BlockLength - index
             filled == Put(c.buffer, index, SubSeq(input, 1, partLen))
             left == SubSeq(input, partLen + 1, Len(input))
         IN  MD5Update(c, input) =
               IF Len(input) >= partLen
               THEN [ state |-> CompressAll(Compress(c.state, filled), left),
                      count |-> AddToCount(c.count, Len(input)),
                      buffer |-> Put(filled, 0, Rest(left)) ]
               ELSE [ state |-> c.state, count |-> AddToCount(c.count, Len(input)),
                      buffer |-> Put(c.buffer, index, input) ]
<1> DEFINE index == BufferedMD5(c)
           partLen == BlockLength - index
           counted == [c EXCEPT !.count = AddToCount(@, Len(input))]
           filled == Put(c.buffer, index, SubSeq(input, 1, partLen))
           left == SubSeq(input, partLen + 1, Len(input))
           short == Put(c.buffer, index, input)
           rest == Put(filled, 0, Rest(left))
           state == CompressAll(Compress(c.state, filled), left)
           count == AddToCount(c.count, Len(input))
<1>1. MD5Update(c, input) =
        IF Len(input) >= partLen
        THEN [counted EXCEPT !.state = CompressAll(MD5Transform(@, filled), left),
                             !.buffer = rest]
        ELSE [counted EXCEPT !.buffer = Put(@, index, input)]
  BY DEF MD5Update
<1>2. c = [state |-> c.state, count |-> c.count, buffer |-> c.buffer]
  BY DEF IsMD5
<1>3. counted = [state |-> c.state, count |-> count, buffer |-> c.buffer]
  <2> HIDE DEF count
  <2>1. counted = [c EXCEPT !.count = count]
    BY DEF count
  <2> QED
    BY <1>2, <2>1
<1>4. [counted EXCEPT !.buffer = Put(@, index, input)] =
        [state |-> c.state, count |-> count, buffer |-> short]
  <2> HIDE DEF count, counted, index
  <2>1. counted.buffer = c.buffer
    BY <1>3
  <2>2. [counted EXCEPT !.buffer = Put(@, index, input)] = [counted EXCEPT !.buffer = short]
    BY <2>1
  <2> DEFINE st == c.state
             b == c.buffer
  <2>3. counted = [state |-> st, count |-> count, buffer |-> b]
    BY <1>3
  <2> HIDE DEF short, st, b
  <2> DEFINE u == [counted EXCEPT !.buffer = short]
  <2>4. u \in [state : {st}, count : {count}, buffer : {short}]
    BY <2>3
  <2> HIDE DEF u
  <2>5. u = [state |-> st, count |-> count, buffer |-> short]
    BY <2>4
  <2> QED
    BY <2>2, <2>5 DEF u, st
<1>5. [counted EXCEPT !.state = CompressAll(MD5Transform(@, filled), left), !.buffer = rest] =
        [state |-> state, count |-> count, buffer |-> rest]
  <2> HIDE DEF count, counted, filled, left, rest
  <2>1. counted.state = c.state
    BY <1>3
  <2>2. [counted EXCEPT !.state = CompressAll(MD5Transform(@, filled), left), !.buffer = rest] =
          [counted EXCEPT !.state = state, !.buffer = rest]
    BY <2>1 DEF MD5Transform
  <2> DEFINE st == c.state
             b == c.buffer
  <2>3. counted = [state |-> st, count |-> count, buffer |-> b]
    BY <1>3
  <2> HIDE DEF state, st, b
  <2> DEFINE u == [counted EXCEPT !.state = state, !.buffer = rest]
  <2>4. u \in [state : {state}, count : {count}, buffer : {rest}]
    BY <2>3
  <2> HIDE DEF u
  <2>5. u = [state |-> state, count |-> count, buffer |-> rest]
    BY <2>4
  <2> QED
    BY <2>2, <2>5 DEF u
<1> HIDE DEF counted
<1> QED
  BY <1>1, <1>4, <1>5

\* A context that holds n bytes of the message, and is given the next ones.
LEMMA MD5Feeds ==
  ASSUME NEW c, MD5Sized(c), NEW n \in Nat, MD5Holds(c, n), NEW len \in Nat
  PROVE  /\ MD5Sized(MD5Update(c, Piece(n, len)))
         /\ MD5Holds(MD5Update(c, Piece(n, len)), n + len)
<1> DEFINE d == BlockLength
           r == n % d
           input == Piece(n, len)
           free == d - r
           filled == Put(c.buffer, r, Piece(n, free))
           left == Piece(n + free, len - free)
           count == AddToCount(c.count, len)
           rest == Put(filled, 0, Rest(left))
           short == Put(c.buffer, r, input)
           u == MD5Update(c, input)
<1>1. c \in MD5Context /\ c.buffer \in Buffers /\ HoldsRest(c.buffer, n)
      /\ c.state = Compressed("md5", n) /\ IsMD5(c)
  BY BufferIs DEF MD5Sized, MD5Context, MD5Holds, IsMD5
<1>2. Count(c.count, n)
  BY DEF MD5Sized, MD5Context, MD5Holds, Count
<1>3. BufferedMD5(c) = r
  BY <1>2, CountBuffered
<1>4. Len(input) = len
  BY PieceIs
<1>5. Count(count, n + len)
  BY <1>2, CountAdds
<1>6. d \in Nat /\ r \in Nat
  BY Widths, Division
<1> DEFINE first == Put(c.buffer, r, SubSeq(input, 1, free))
           after == SubSeq(input, free + 1, len)
<1>7. u = IF len >= free
          THEN [ state |-> CompressAll(Compress(c.state, first), after),
                 count |-> count, buffer |-> Put(first, 0, Rest(after)) ]
          ELSE [ state |-> c.state, count |-> count, buffer |-> short ]
  <2> HIDE DEF input, r
  <2> QED
    BY <1>1, <1>3, <1>4, MD5UpdateIs
<1>8. n + len \in Nat /\ "md5" \in Algorithms
  BY Names
<1>9. ASSUME NEW st, NEW b \in Buffers, st = Compressed("md5", n + len),
             HoldsRest(b, n + len), u = [state |-> st, count |-> count, buffer |-> b]
      PROVE  MD5Sized(u) /\ MD5Holds(u, n + len)
  <2> HIDE DEF u, count
  <2>1. u.state = st /\ u.count = count /\ u.buffer = b
    BY <1>9
  <2>2. b \in Seq(Int) /\ Len(b) = BlockLength
    BY BufferIs
  <2>3. st \in ChainingValue
    BY <1>8, <1>9, CompressedIs
  <2>4. count \in Seq(0 .. ULongMod - 1) /\ Len(count) = 2
    BY <1>5 DEF Count
  <2>5. u \in MD5Context
    BY <1>9, <2>2, <2>3, <2>4 DEF MD5Context, ChainingValue
  <2>6. MD5Holds(u, n + len)
    BY <1>5, <1>9, <2>1 DEF MD5Holds, Count
  <2> QED
    BY <2>1, <2>2, <2>4, <2>5, <2>6 DEF MD5Sized
<1>10. CASE len < free
  <2>1. /\ short \in Buffers /\ HoldsRest(short, n + len)
        /\ (n + len) \div BlockLength = n \div BlockLength
    BY <1>1, <1>10, Fits
  <2>2. c.state = Compressed("md5", n + len)
    BY <1>1, <2>1 DEF Compressed
  <2>3. u = [state |-> c.state, count |-> count, buffer |-> short]
    <3>1. ~(len >= free)
      BY <1>6, <1>10
    <3> QED
      BY <1>7, <3>1
  <2> HIDE DEF u, short, count
  <2>4. MD5Sized(u) /\ MD5Holds(u, n + len)
    BY <1>9, <2>1, <2>2, <2>3
  <2> QED
    BY <2>4 DEF u
<1>11. CASE len >= free
  <2>1. /\ free \in 1 .. BlockLength /\ n + free \in Nat /\ len - free \in Nat
        /\ SubSeq(Piece(n, len), 1, free) = Piece(n, free)
        /\ SubSeq(Piece(n, len), free + 1, len) = Piece(n + free, len - free)
        /\ filled \in Buffers
        /\ Append(MessageBlocks(n \div BlockLength), filled) =
             MessageBlocks((n + free) \div BlockLength)
        /\ (n + free) % BlockLength = 0
        /\ (n + free) + (len - free) = n + len
    BY <1>1, <1>11, Fills
  <2>2. first = filled /\ after = left
    BY <2>1
  <2> DEFINE m == n + free
             l == len - free
  <2>3. /\ MessageBlocks(m \div BlockLength) \o WholeBlocks(Piece(m, l)) =
             MessageBlocks((m + l) \div BlockLength)
        /\ Put(filled, 0, Rest(Piece(m, l))) \in Buffers
        /\ HoldsRest(Put(filled, 0, Rest(Piece(m, l))), m + l)
    <3>1. m \in Nat /\ m % BlockLength = 0 /\ l \in Nat /\ filled \in Buffers
      BY <2>1
    <3> HIDE DEF m, l, filled
    <3> QED
      BY <3>1, Direct
  <2>4. rest \in Buffers /\ HoldsRest(rest, n + len)
    BY <2>1, <2>3
  <2>5. MessageBlocks(m \div BlockLength) \o WholeBlocks(left) =
          MessageBlocks((n + len) \div BlockLength)
    BY <2>1, <2>3
  <2>6. CompressAll(Compress(c.state, filled), left) = Compressed("md5", n + len)
    <3>1. c.state = Chained("md5", MessageBlocks(n \div BlockLength))
      BY <1>1, <1>8, CompressedIs
    <3>2. Compress(c.state, filled) = Chained("md5", MessageBlocks(m \div BlockLength))
      <4> DEFINE a == MessageBlocks(n \div BlockLength)
                 b == MessageBlocks(m \div BlockLength)
      <4>1. Append(a, filled) = b /\ c.state = Chained("md5", a)
        BY <2>1, <3>1
      <4> HIDE DEF a, b, filled
      <4>2. Compress(Chained("md5", a), filled) = Chained("md5", Append(a, filled))
        BY CompressIs
      <4> QED
        BY <4>1, <4>2 DEF b
    <3>3. CompressAll(Compress(c.state, filled), left) =
            Chained("md5", MessageBlocks((n + len) \div BlockLength))
      <4> DEFINE a == MessageBlocks(m \div BlockLength)
                 b == MessageBlocks((n + len) \div BlockLength)
                 st == Compress(c.state, filled)
      <4>1. a \o WholeBlocks(left) = b /\ st = Chained("md5", a)
        BY <2>5, <3>2
      <4> HIDE DEF a, b, left, st
      <4>2. CompressAll(Chained("md5", a), left) = Chained("md5", a \o WholeBlocks(left))
        BY CompressAllIs
      <4> QED
        BY <4>1, <4>2 DEF b, st
    <3> QED
      BY <1>8, <3>3, CompressedIs
  <2>7. u = [ state |-> CompressAll(Compress(c.state, filled), left),
              count |-> count, buffer |-> rest ]
    <3> HIDE DEF first, after, u, count, free
    <3> QED
      BY <1>7, <1>11, <2>2
  <2> HIDE DEF u, rest, count
  <2>8. MD5Sized(u) /\ MD5Holds(u, n + len)
    BY <1>9, <2>4, <2>6, <2>7
  <2> QED
    BY <2>8 DEF u
<1> QED
  <2>1. len < free \/ len >= free
    BY <1>6
  <2> QED
    BY <1>10, <1>11, <2>1

\* Parts of a mark.
LEMMA PartOfMark ==
  ASSUME NEW n \in Nat, NEW i \in 1 .. n + 2, NEW j \in i - 1 .. n + 1
  PROVE  /\ i = 1 /\ j # 0 => SubSeq(Mark(n), i, j) = Mark(j - 1)
         /\ i # 1 => SubSeq(Mark(n), i, j) = Zeroes(j - i + 1)
<1> DEFINE m == Mark(n)
           s == SubSeq(m, i, j)
<1>1. /\ m \in Seq(Int) /\ Len(m) = n + 1 /\ m[1] = OneBit
      /\ \A k \in 2 .. n + 1 : m[k] = 0
  BY MarkIs DEF Mark
<1> HIDE DEF m
<1>2. \A k \in i .. j : m[k] \in Int
  <2>1. ASSUME NEW k \in i .. j PROVE k \in 1 .. Len(m)
    BY <1>1
  <2> QED
    BY <1>1, <2>1, ElementOfSeq
<1>3. /\ s \in Seq(Int) /\ Len(s) = j - i + 1
      /\ \A k \in 1 .. j - i + 1 : s[k] = m[i + k - 1]
  <2>1. /\ s \in Seq(Int) /\ Len(s) = IF i <= j THEN j - i + 1 ELSE 0
        /\ \A k \in 1 .. j - i + 1 : s[k] = m[i + k - 1]
    <3>1. i \in Int /\ j \in Int
      OBVIOUS
    <3> QED
      BY <1>2, <3>1, SubSeqProperties
  <2>2. ~(i <= j) => j - i + 1 = 0
    OBVIOUS
  <2> QED
    BY <2>1, <2>2
<1> HIDE DEF s
<1>4. ASSUME i = 1, j # 0 PROVE s = Mark(j - 1)
  <2> DEFINE t == Mark(j - 1)
  <2>1. j - 1 \in Nat /\ (j - 1) + 1 = j
    BY <1>4
  <2>2. /\ t \in Seq(Int) /\ Len(t) = j /\ t[1] = OneBit /\ \A k \in 2 .. j : t[k] = 0
    <3> DEFINE l == j - 1
    <3>1. l \in Nat /\ l + 1 = j
      BY <2>1
    <3> HIDE DEF l
    <3>2. /\ Mark(l) \in Seq(Int) /\ Len(Mark(l)) = l + 1 /\ Mark(l)[1] = OneBit
          /\ \A k \in 2 .. l + 1 : Mark(l)[k] = 0
      BY <3>1, MarkIs DEF Mark
    <3> QED
      BY <3>1, <3>2 DEF l
  <2> HIDE DEF t
  <2>3. ASSUME NEW k \in 1 .. j PROVE s[k] = t[k]
    <3>1. s[k] = m[k]
      <4>1. k \in 1 .. j - i + 1 /\ i + k - 1 = k
        BY <1>4
      <4> QED
        BY <1>3, <4>1
    <3>2. CASE k = 1
      BY <1>1, <2>2, <3>1, <3>2
    <3>3. CASE k # 1
      <4>1. k \in 2 .. n + 1 /\ k \in 2 .. j
        BY <3>3
      <4> QED
        BY <1>1, <2>2, <3>1, <4>1
    <3> QED
      BY <3>2, <3>3
  <2>4. Len(s) = j
    BY <1>3, <1>4
  <2>5. s = t
    BY <1>3, <2>2, <2>3, <2>4, SeqEqual
  <2> QED
    BY <2>5 DEF t
<1>5. ASSUME i # 1 PROVE s = Zeroes(j - i + 1)
  <2> DEFINE l == j - i + 1
             t == Zeroes(l)
  <2>1. l \in Nat
    OBVIOUS
  <2>2. Len(s) = l /\ \A k \in 1 .. l : s[k] = m[i + k - 1] /\ i + k - 1 \in 2 .. n + 1
    <3>1. ASSUME NEW k \in 1 .. l PROVE i + k - 1 \in 2 .. n + 1
      BY <1>5
    <3> QED
      BY <1>3, <3>1
  <2> HIDE DEF l
  <2>3. t \in Seq(Int) /\ Len(t) = l /\ \A k \in 1 .. l : t[k] = 0
    BY <2>1, ZeroesAre
  <2> HIDE DEF t
  <2>4. \A k \in 1 .. l : s[k] = t[k]
    BY <1>1, <2>2, <2>3
  <2>5. s = t
    BY <1>3, <2>2, <2>3, <2>4, SeqEqual
  <2> QED
    BY <2>5 DEF t, l
<1> QED
  BY <1>4, <1>5 DEF s, m

\* The padding MD5Final() passes to MD5Update().
LEMMA PaddingBytes ==
  ASSUME NEW n \in 1 .. BlockLength
  PROVE  FirstOf(PADDING, n) = Mark(n - 1) /\ Len(Mark(n - 1)) = n
<1> DEFINE d == BlockLength - 1
<1>1. d \in Nat /\ BlockLength = d + 1 /\ n \in Nat /\ n - 1 \in Nat /\ (n - 1) + 1 = n
  BY Widths
<1>2. PADDING = Mark(d)
  BY DEF PADDING, Mark
<1> HIDE DEF d
<1>3. Len(Mark(d)) = d + 1
  BY <1>1, MarkIs DEF Mark
<1>4. Len(Mark(n - 1)) = n
  <2> DEFINE l == n - 1
  <2>1. l \in Nat /\ l + 1 = n
    BY <1>1
  <2> HIDE DEF l
  <2>2. Len(Mark(l)) = n
    BY <2>1, MarkIs DEF Mark
  <2> QED
    BY <2>2 DEF l
<1>5. CASE n < d + 1
  <2>1. FirstOf(PADDING, n) = SubSeq(Mark(d), 1, n)
    BY <1>2, <1>3, <1>5 DEF FirstOf
  <2>2. SubSeq(Mark(d), 1, n) = Mark(n - 1)
    <3> DEFINE i == 1
    <3>1. i \in 1 .. d + 2 /\ n \in i - 1 .. d + 1 /\ i = 1 /\ n # 0
      BY <1>1, <1>5
    <3> HIDE DEF i
    <3>2. SubSeq(Mark(d), i, n) = Mark(n - 1)
      BY <1>1, <3>1, PartOfMark
    <3> QED
      BY <3>1, <3>2
  <2> QED
    BY <1>4, <2>1, <2>2
<1>6. CASE n = d + 1
  <2>1. FirstOf(PADDING, n) = Mark(d)
    BY <1>1, <1>2, <1>3, <1>6 DEF FirstOf
  <2>2. d = n - 1
    BY <1>1, <1>6
  <2> QED
    BY <1>4, <2>1, <2>2
<1> QED
  BY <1>1, <1>5, <1>6

\* The second of the two updates of MD5Final().
LEMMA MD5LastStep ==
  ASSUME NEW s \in Blocks, NEW ct, NEW b \in Buffers, NEW lengthField \in Seq(Int),
         Len(lengthField) = 2, NEW c,
         c = [state |-> Chained("md5", s), count |-> ct, buffer |-> b],
         BufferedMD5(c) = ShortBlock
  PROVE  MD5Update(c, lengthField).state =
           Chained("md5", Append(s, Put(b, ShortBlock, lengthField)))
<1>1. /\ BlockLength \in Nat /\ ShortBlock \in Nat /\ BlockLength - ShortBlock = 2
      /\ BlockLength > 0
  BY Widths
<1>2. c.state = Chained("md5", s) /\ c.buffer = b /\ c.count = ct /\ IsMD5(c)
  BY DEF IsMD5
<1> DEFINE first == Put(b, ShortBlock, SubSeq(lengthField, 1, 2))
           last == Put(b, ShortBlock, lengthField)
           after == SubSeq(lengthField, 3, 2)
           state == CompressAll(Compress(c.state, first), after)
           count == AddToCount(c.count, Len(lengthField))
           buffer == Put(first, 0, Rest(after))
<1>3. MD5Update(c, lengthField) = [state |-> state, count |-> count, buffer |-> buffer]
  <2> DEFINE u == MD5Update(c, lengthField)
             index == BufferedMD5(c)
             partLen == BlockLength - index
             filled == Put(c.buffer, index, SubSeq(lengthField, 1, partLen))
             left == SubSeq(lengthField, partLen + 1, Len(lengthField))
  <2>1. u = IF Len(lengthField) >= partLen
            THEN [ state |-> CompressAll(Compress(c.state, filled), left),
                   count |-> count, buffer |-> Put(filled, 0, Rest(left)) ]
            ELSE [ state |-> c.state, count |-> count,
                   buffer |-> Put(c.buffer, index, lengthField) ]
    BY <1>2, MD5UpdateIs
  <2>2. partLen = 2 /\ partLen + 1 = 3 /\ index = ShortBlock
    BY <1>1
  <2>3. filled = first /\ left = after
    BY <1>2, <2>2
  <2>4. Len(lengthField) >= partLen
    BY <2>2
  <2> HIDE DEF u, filled, left, partLen, index, first, after, count
  <2>5. u = [ state |-> CompressAll(Compress(c.state, filled), left),
              count |-> count, buffer |-> Put(filled, 0, Rest(left)) ]
    BY <2>1, <2>4
  <2> QED
    BY <2>3, <2>5 DEF u
<1>4. SubSeq(lengthField, 1, 2) = lengthField
  <2>1. SubSeq(lengthField, 1, Len(lengthField)) = lengthField
    BY SubSeqFull
  <2> QED
    BY <2>1
<1>5. after = <<>>
  BY SubSeqEmpty
<1>6. last \in Buffers /\ last \in Seq(Int)
  BY <1>1, PutIs, BufferIs
<1> HIDE DEF first, after, count, buffer
<1>7. first = last
  BY <1>4 DEF first
<1>8. Compress(Chained("md5", s), last) = Chained("md5", Append(s, last))
  BY CompressIs
<1>9. Append(s, last) \in Blocks
  BY <1>6, OneBlock
<1>10. CompressAll(Chained("md5", Append(s, last)), after) =
         Chained("md5", Append(s, last) \o WholeBlocks(after))
  BY CompressAllIs
<1>11. Append(s, last) \o WholeBlocks(after) = Append(s, last)
  <2> DEFINE t == Append(s, last)
  <2>1. after \in Seq(Int) /\ Len(after) < BlockLength /\ t \in Blocks
    BY <1>1, <1>5, <1>9
  <2> HIDE DEF t
  <2>2. t \o WholeBlocks(after) = t
    BY <2>1, NoBlock
  <2> QED
    BY <2>2 DEF t
<1>12. state = Chained("md5", Append(s, last))
  BY <1>2, <1>7, <1>8, <1>10, <1>11
<1> HIDE DEF state
<1> QED
  BY <1>3, <1>12

\* The digest is the standard's, for the length that count encodes.
LEMMA MD5Ends ==
  ASSUME NEW c, MD5Sized(c), NEW n \in Nat, MD5Holds(c, n)
  PROVE  MD5Digest(c) = StandardDigest("md5", 4, n, Encode(c.count))
<1> DEFINE d == BlockLength
           r == n % d
           s == MessageBlocks(n \div BlockLength)
           len == PadLen(r)
           padding == Mark(len - 1)
           field == Encode(c.count)
           count == AddToCount(c.count, len)
           u == MD5Update(c, padding)
           standard == WholeBlocks(Message(n) \o Padding(n, field))
<1>1. /\ d \in Nat /\ d > 2 /\ r \in Nat /\ r < d /\ ShortBlock = d - 2 /\ ShortBlock \in Nat
      /\ d * (n \div d) \in Nat /\ n = d * (n \div d) + r /\ n \div d \in Nat
  BY Widths, Division
<1>2. c.buffer \in Buffers /\ HoldsRest(c.buffer, n) /\ IsMD5(c)
      /\ c.state = Chained("md5", s) /\ s \in Blocks
  <2>1. c.state = Compressed("md5", n)
    BY DEF MD5Holds
  <2>2. Compressed("md5", n) = Chained("md5", s) /\ s \in Blocks
    BY Names, CompressedIs
  <2> QED
    BY <2>1, <2>2, BufferIs DEF MD5Sized, MD5Context, MD5Holds, IsMD5
<1>3. Count(c.count, n)
  BY DEF MD5Sized, MD5Context, MD5Holds, Count
<1>4. BufferedMD5(c) = r
  BY <1>3, CountBuffered
<1>5. field \in Seq(Int) /\ Len(field) = 2
  BY <1>3, CountEncoded
<1>6. /\ len = IF r < ShortBlock THEN ShortBlock - r ELSE d + ShortBlock - r
      /\ len \in 1 .. d
  BY <1>1 DEF PadLen
<1> HIDE DEF len
<1>7. FirstOf(PADDING, len) = padding /\ Len(padding) = len
  BY <1>6, PaddingBytes
<1>8. MD5Finished(c) = MD5Update(u, field).state
  <2>1. FirstOf(PADDING, PadLen(BufferedMD5(c))) = padding
    BY <1>4, <1>7 DEF len
  <2> QED
    BY <2>1 DEF MD5Finished
<1>9. BufferedMD5([state |-> 0, count |-> count, buffer |-> 0]) = ShortBlock
  <2> DEFINE m == n + len
             x == [state |-> 0, count |-> count, buffer |-> 0]
  <2>1. m \in Nat /\ Count(count, m)
    BY <1>1, <1>3, <1>6, CountAdds, SMTT(30)
  <2>2. x.count = count
    OBVIOUS
  <2>3. m % d = ShortBlock
    <3> DEFINE q == n \div d
               p == IF r < ShortBlock THEN q ELSE q + 1
               e == ShortBlock
    <3>1. q \in Int /\ d * (q + 1) = d * q + d
      BY <1>1, SMTT(30)
    <3>2. d * p = IF r < ShortBlock THEN d * q ELSE d * q + d
      BY <3>1
    <3>3. m = d * p + e /\ m \in Int /\ p \in Int
      <4> HIDE DEF p
      <4> DEFINE z == d * p
                 y == d * q
      <4>1. z = (IF r < ShortBlock THEN y ELSE y + d) /\ n = y + r /\ y \in Nat
        BY <1>1, <3>2
      <4> HIDE DEF z, y, r
      <4>2. m = z + e
        BY <1>1, <1>6, <4>1
      <4> QED
        BY <3>1, <4>1, <4>2, <1>1 DEF z, p
    <3>4. d \in Int /\ d > 0 /\ e \in Int /\ 0 <= e /\ e < d
      BY <1>1
    <3> HIDE DEF m, p, d, e
    <3>5. m % d = e
      BY <3>3, <3>4, QuotientIs
    <3> QED
      BY <3>5 DEF e
  <2> HIDE DEF x, m
  <2>4. BufferedMD5(x) = m % BlockLength
    BY <2>1, <2>2, CountBuffered
  <2> QED
    BY <2>3, <2>4 DEF x
<1>10. \A st, b : BufferedMD5([state |-> st, count |-> count, buffer |-> b]) = ShortBlock
  BY <1>9 DEF BufferedMD5
<1> HIDE DEF count
<1> DEFINE free == d - r
           filled == Put(c.buffer, r, SubSeq(padding, 1, free))
           left == SubSeq(padding, free + 1, len)
<1>11. u = IF len >= free
           THEN [ state |-> CompressAll(Compress(c.state, filled), left),
                  count |-> count, buffer |-> Put(filled, 0, Rest(left)) ]
           ELSE [ state |-> c.state, count |-> count, buffer |-> Put(c.buffer, r, padding) ]
  <2> HIDE DEF padding, r
  <2> QED
    BY <1>2, <1>4, <1>7, MD5UpdateIs DEF count
<1>12. ASSUME NEW b \in Buffers, NEW t \in Blocks,
              u = [state |-> Chained("md5", t), count |-> count, buffer |-> b],
              Append(t, Put(b, ShortBlock, field)) = standard
       PROVE  MD5Finished(c) = Chained("md5", standard)
  <2> HIDE DEF u, field, standard
  <2>1. BufferedMD5(u) = ShortBlock
    BY <1>10, <1>12
  <2>2. MD5Update(u, field).state = Chained("md5", Append(t, Put(b, ShortBlock, field)))
    BY <1>5, <1>12, <2>1, MD5LastStep
  <2> QED
    BY <1>8, <1>12, <2>2
<1>13. ASSUME r < ShortBlock PROVE MD5Finished(c) = Chained("md5", standard)
  <2> DEFINE marked == Put(c.buffer, r, Mark(ShortBlock - r - 1))
  <2>1. /\ marked \in Buffers
        /\ Append(s, Put(marked, ShortBlock, field)) = standard
    <3> HIDE DEF field
    <3> QED
      BY <1>2, <1>5, <1>13, LastBlock
  <2>2. len = ShortBlock - r /\ ~(len >= free)
    BY <1>1, <1>6, <1>13
  <2>3. Put(c.buffer, r, padding) = marked
    BY <2>2
  <2> HIDE DEF u, padding, marked, filled, left, s, field, standard
  <2>4. u = [state |-> Chained("md5", s), count |-> count, buffer |-> marked]
    BY <1>2, <1>11, <2>2, <2>3
  <2> QED
    BY <1>2, <1>12, <2>1, <2>4
<1>14. ASSUME ~(r < ShortBlock) PROVE MD5Finished(c) = Chained("md5", standard)
  <2> DEFINE marked == Put(c.buffer, r, Mark(BlockLength - r - 1))
             zeroes == Put(marked, 0, Zeroes(ShortBlock))
             t == Append(s, marked)
  <2>0. marked \in Buffers
    <3> DEFINE q == n \div BlockLength
    <3>1. r \in 0 .. BlockLength - 1 /\ BlockLength \in r + 1 .. BlockLength /\ q \in Nat
          /\ Filled(c.buffer, q, r)
      BY <1>1, <1>2 DEF HoldsRest, Filled
    <3> HIDE DEF r, q
    <3> QED
      BY <1>2, <3>1, PutMark
  <2>1. /\ marked \in Buffers /\ zeroes \in Buffers /\ t \in Blocks
        /\ Append(t, Put(zeroes, ShortBlock, field)) = standard
    <3> DEFINE other == marked
               m == ShortBlock
    <3>1. other \in Buffers /\ m \in {ShortBlock, BlockLength - 1}
      BY <2>0
    <3> HIDE DEF field, other, m
    <3>2. /\ marked \in Buffers /\ Put(other, 0, Zeroes(m)) \in Buffers
          /\ Append(MessageBlocks(n \div BlockLength), marked) \in Blocks
          /\ Append(Append(MessageBlocks(n \div BlockLength), marked),
                    Put(Put(other, 0, Zeroes(m)), ShortBlock, field)) =
               WholeBlocks(Message(n) \o Padding(n, field))
      BY <1>2, <1>5, <1>14, <3>1, LastBlocks
    <3> QED
      BY <3>2 DEF other, m
  <2>2. len = d + ShortBlock - r /\ len >= free /\ free \in 1 .. len /\ len - free = ShortBlock
    BY <1>1, <1>6, <1>14
  <2>3. filled = marked /\ left = Zeroes(ShortBlock)
    <3> DEFINE l == len - 1
               i == 1
               k == free + 1
    <3>1. /\ l \in Nat /\ l + 1 = len /\ i \in 1 .. l + 2 /\ free \in i - 1 .. l + 1
          /\ i = 1 /\ free # 0 /\ k \in 1 .. l + 2 /\ len \in k - 1 .. l + 1 /\ k # 1
          /\ len - k + 1 = ShortBlock /\ free - 1 = BlockLength - r - 1
      BY <1>1, <2>2
    <3> HIDE DEF l, i, k, free
    <3>2. SubSeq(Mark(l), i, free) = Mark(free - 1)
      BY <3>1, PartOfMark
    <3>3. SubSeq(Mark(l), k, len) = Zeroes(len - k + 1)
      BY <3>1, PartOfMark
    <3> QED
      BY <3>1, <3>2, <3>3 DEF l, i, k
  <2>4. Rest(left) = left /\ t \o WholeBlocks(left) = t
    <3>1. left \in Seq(Int) /\ Len(left) < BlockLength
      <4> DEFINE e == ShortBlock
      <4>1. e \in Nat /\ e < BlockLength /\ left = Zeroes(e)
        BY <1>1, <2>3
      <4> HIDE DEF e, left
      <4>2. Zeroes(e) \in Seq(Int) /\ Len(Zeroes(e)) = e
        BY <4>1, ZeroesAre
      <4> QED
        BY <4>1, <4>2
    <3> HIDE DEF left, t
    <3> QED
      BY <2>1, <3>1, NoBlock
  <2>5. CompressAll(Compress(c.state, filled), left) = Chained("md5", t)
    <3> HIDE DEF s, filled, left, marked
    <3>1. Compress(Chained("md5", s), marked) = Chained("md5", Append(s, marked))
      BY CompressIs
    <3> HIDE DEF t
    <3>2. CompressAll(Chained("md5", t), left) = Chained("md5", t \o WholeBlocks(left))
      BY CompressAllIs
    <3> QED
      BY <1>2, <2>3, <2>4, <3>1, <3>2 DEF t
  <2>6. Put(filled, 0, Rest(left)) = zeroes
    BY <2>3, <2>4
  <2>7. u = [state |-> Chained("md5", t), count |-> count, buffer |-> zeroes]
    <3> HIDE DEF u, t, filled, left, zeroes, free
    <3> QED
      BY <1>11, <2>2, <2>5, <2>6
  <2> HIDE DEF u, t, zeroes, field, standard
  <2> QED
    BY <1>12, <2>1, <2>7
<1> HIDE DEF standard
<1>15. MD5Finished(c) = Chained("md5", standard)
  BY <1>13, <1>14
<1>16. DigestOf(Chained("md5", standard), 4) = [iv |-> "md5", words |-> 4, blocks |-> standard]
  BY ChainedIs
<1> QED
  BY <1>15, <1>16 DEF MD5Digest, StandardDigest, standard

\* The digest of MD5 is the standard's, where its length field is right.
LEMMA MD5Right ==
  ASSUME NEW c, MD5Sized(c), NEW n \in Nat, MD5Holds(c, n)
  PROVE  /\ MD5Digest(c) \in [iv : Algorithms, words : Nat, blocks : Seq(Seq(Int))]
         /\ CountsRight(n) => MD5Digest(c) = StandardMD5(n)
<1>1. Count(c.count, n)
  BY DEF MD5Sized, MD5Context, MD5Holds, Count
<1> DEFINE field == Encode(c.count)
<1>2. /\ field \in Seq(Int) /\ Len(field) = 2
      /\ CountsRight(n) => field = Reverse(HighLow(n, UIntMod))
  BY <1>1, CountEncoded
<1>3. MD5Digest(c) = StandardDigest("md5", 4, n, field)
  BY MD5Ends
<1> HIDE DEF field
<1>4. StandardDigest("md5", 4, n, field) \in
        [iv : Algorithms, words : Nat, blocks : Seq(Seq(Int))]
  <2> DEFINE name == "md5"
             words == 4
  <2>1. name \in Algorithms /\ words \in Nat
    BY Names
  <2> HIDE DEF name, words
  <2>2. StandardDigest(name, words, n, field) \in
          [iv : Algorithms, words : Nat, blocks : Seq(Seq(Int))]
    BY <1>2, <2>1, StandardIs
  <2> QED
    BY <2>2 DEF name, words
<1> QED
  BY <1>2, <1>3, <1>4 DEF StandardMD5

-------------------------------------------------------------------------------
(* The contexts of SHA-2. *)

Context(st, count, b) == [state |-> st, bitcount |-> count, buffer |-> b]

LEMMA ContextIs ==
  ASSUME NEW st, NEW count, NEW b, NEW c, c = Context(st, count, b)
  PROVE  c.state = st /\ c.bitcount = count /\ c.buffer = b
BY DEF Context

LEMMA StateField ==
  ASSUME NEW st, NEW count, NEW b, NEW c, c = Context(st, count, b), NEW x
  PROVE  [c EXCEPT !.state = x] = Context(x, count, b)
<1> DEFINE u == [c EXCEPT !.state = x]
<1>1. u \in [state : {x}, bitcount : {count}, buffer : {b}]
  BY DEF Context
<1> HIDE DEF u
<1>2. u = [state |-> x, bitcount |-> count, buffer |-> b]
  BY <1>1
<1> QED
  BY <1>2 DEF u, Context

LEMMA BufferField ==
  ASSUME NEW st, NEW count, NEW b, NEW c, c = Context(st, count, b), NEW x
  PROVE  [c EXCEPT !.buffer = x] = Context(st, count, x)
<1> DEFINE u == [c EXCEPT !.buffer = x]
<1>1. u \in [state : {st}, bitcount : {count}, buffer : {x}]
  BY DEF Context
<1> HIDE DEF u
<1>2. u = [state |-> st, bitcount |-> count, buffer |-> x]
  BY <1>1
<1> QED
  BY <1>2 DEF u, Context

LEMMA CountField ==
  ASSUME NEW st, NEW count, NEW b, NEW c, c = Context(st, count, b), NEW x
  PROVE  [c EXCEPT !.bitcount = x] = Context(st, x, b)
<1> DEFINE u == [c EXCEPT !.bitcount = x]
<1>1. u \in [state : {st}, bitcount : {x}, buffer : {b}]
  BY DEF Context
<1> HIDE DEF u
<1>2. u = [state |-> st, bitcount |-> x, buffer |-> b]
  BY <1>1
<1> QED
  BY <1>2 DEF u, Context

LEMMA PieceSize ==
  \A a \in Int, k \in Nat : Piece(a, k) \in Seq(Int) /\ Len(Piece(a, k)) = k
BY PieceIs

Scratches == [k \in 1 .. BlockLength |-> Scratch]

\* A compression of SHA-2 overwrites the buffer.
LEMMA TransformIs ==
  ASSUME NEW st, NEW count, NEW b, NEW c, c = Context(st, count, b), NEW data
  PROVE  /\ SHA256Transform(c, data) = Context(CompressAll(st, data), count, Scratches)
         /\ SHA512Transform(c, data) = Context(CompressAll(st, data), count, Scratches)
<1> DEFINE x == CompressAll(st, data)
           y == Scratches
           u == [c EXCEPT !.state = x, !.buffer = y]
<1>1. c.state = st
  BY ContextIs
<1>2. SHA256Transform(c, data) = u /\ SHA512Transform(c, data) = u
  BY <1>1 DEF SHA256Transform, SHA512Transform, Scratches
<1> HIDE DEF x, y
<1>3. u \in [state : {x}, bitcount : {count}, buffer : {y}]
  BY DEF Context
<1> HIDE DEF u
<1>4. u = [state |-> x, bitcount |-> count, buffer |-> y]
  BY <1>3
<1> QED
  BY <1>2, <1>4 DEF x, y, Context

LEMMA CountedIs ==
  ASSUME NEW st, NEW count, NEW b, NEW c, c = Context(st, count, b), NEW len
  PROVE  Counted(c, len) = Context(st, (count + Bits(len)) % Word64Mod, b)
<1> DEFINE x == (count + Bits(len)) % Word64Mod
<1>1. c.bitcount = count
  BY ContextIs
<1>2. Counted(c, len) = [c EXCEPT !.bitcount = x]
  BY <1>1 DEF Counted
<1> HIDE DEF x
<1>3. [c EXCEPT !.bitcount = x] = Context(st, x, b)
  BY CountField
<1> QED
  BY <1>2, <1>3 DEF x

\* A context that holds the first n bytes of a message.
HoldsBytes(c, name, count, n) ==
  \E b \in Buffers : HoldsRest(b, n) /\ c = Context(Compressed(name, n), count, b)

\* The blocks of the bytes that follow whole blocks.
LEMMA CompressedOn ==
  ASSUME NEW name \in Algorithms, NEW n \in Nat, n % BlockLength = 0, NEW len \in Nat
  PROVE  CompressAll(Compressed(name, n), Piece(n, len)) = Compressed(name, n + len)
<1> DEFINE s == MessageBlocks(n \div BlockLength)
           t == MessageBlocks((n + len) \div BlockLength)
           data == Piece(n, len)
<1>1. n + len \in Nat
  OBVIOUS
<1>2. Compressed(name, n) = Chained(name, s) /\ Compressed(name, n + len) = Chained(name, t)
  BY <1>1, CompressedIs
<1>3. s \o WholeBlocks(data) = t
  <2> DEFINE b == Scratches
  <2>1. b \in Buffers
    BY BufferIs DEF Scratches
  <2> HIDE DEF b
  <2> QED
    BY <2>1, Direct
<1> HIDE DEF s, t, data
<1>4. CompressAll(Chained(name, s), data) = Chained(name, s \o WholeBlocks(data))
  BY CompressAllIs
<1> QED
  BY <1>2, <1>3, <1>4 DEF data

\* A block that is full.
LEMMA CompressedBlock ==
  ASSUME NEW name \in Algorithms, NEW n \in Nat, NEW m \in Nat, NEW b \in Buffers,
         Append(MessageBlocks(n \div BlockLength), b) = MessageBlocks(m \div BlockLength)
  PROVE  CompressAll(Compressed(name, n), b) = Compressed(name, m)
<1> DEFINE s == MessageBlocks(n \div BlockLength)
           t == MessageBlocks(m \div BlockLength)
<1>1. /\ Compressed(name, n) = Chained(name, s) /\ Compressed(name, m) = Chained(name, t)
      /\ s \in Blocks
  BY CompressedIs
<1>2. Append(s, b) = t
  OBVIOUS
<1> HIDE DEF s, t
<1>3. s \o WholeBlocks(b) = t
  BY <1>1, <1>2, OneBlock
<1>4. CompressAll(Chained(name, s), b) = Chained(name, s \o WholeBlocks(b))
  BY CompressAllIs
<1> QED
  BY <1>1, <1>3, <1>4

-------------------------------------------------------------------------------
(* SHA-256 *)

Holds256(c, n) == HoldsBytes(c, "sha256", Bits(n) % Word64Mod, n)

\* An update of SHA-256 on a block boundary.
LEMMA SHA256DirectFeeds ==
  ASSUME NEW n \in Nat, n % BlockLength = 0, NEW len \in Nat, NEW b \in Buffers, NEW c,
         c = Context(Compressed("sha256", n), Bits(n) % Word64Mod, b)
  PROVE  Holds256(DirectUpdate(c, Piece(n, len)), n + len)
<1> DEFINE name == "sha256"
           st == Compressed(name, n)
           data == Piece(n, len)
           count == Bits(n) % Word64Mod
           processed == IF Len(data) < BlockLength THEN c ELSE SHA256Transform(c, data)
           after == Compressed(name, n + len)
           total == Bits(n + len) % Word64Mod
<1>1. name \in Algorithms
  BY Names
<1> HIDE DEF name
<1>2. data \in Seq(Int) /\ Len(data) = len
  <2>1. n \in Int
    OBVIOUS
  <2> QED
    BY <2>1, PieceSize
<1>3. Scratches \in Buffers
  BY BufferIs DEF Scratches
<1>4. CompressAll(st, data) = after
  BY <1>1, CompressedOn
<1>5. (count + Bits(len)) % Word64Mod = total
  <2> DEFINE w == Word64Mod
  <2>1. w \in Nat /\ w > 0
    BY Widths
  <2> HIDE DEF w
  <2>2. ((Bits(n) % w) + Bits(len)) % w = Bits(n + len) % w
    BY <2>1, CountOn
  <2> QED
    BY <2>2 DEF w
<1> HIDE DEF st, count, after, total
<1>6. c = Context(st, count, b)
  BY DEF st, count, name
<1>7. PICK x \in Buffers : processed = Context(after, count, x)
  <2>1. CASE Len(data) < BlockLength
    <3> DEFINE s == MessageBlocks(n \div BlockLength)
    <3>1. s \in Blocks /\ st = Chained(name, s)
      BY <1>1, CompressedIs DEF st
    <3> HIDE DEF s, data
    <3>2. s \o WholeBlocks(data) = s
      BY <1>2, <2>1, <3>1, NoBlock
    <3>3. CompressAll(st, data) = st
      <4>1. CompressAll(Chained(name, s), data) = Chained(name, s \o WholeBlocks(data))
        BY CompressAllIs
      <4> HIDE DEF processed
      <4> QED
        BY <3>1, <3>2, <4>1
    <3>4. st = after
      BY <1>4, <3>3
    <3>5. processed = c
      BY <2>1
    <3> QED
      BY <1>6, <3>4, <3>5
  <2>2. CASE ~(Len(data) < BlockLength)
    <3>1. SHA256Transform(c, data) = Context(CompressAll(st, data), count, Scratches)
      BY <1>6, TransformIs
    <3>2. processed = SHA256Transform(c, data)
      BY <2>2
    <3> HIDE DEF processed, data
    <3> QED
      BY <1>3, <1>4, <3>1, <3>2
  <2> QED
    BY <2>1, <2>2
<1> DEFINE y == Put(x, 0, Rest(data))
           saved == [processed EXCEPT !.buffer = Put(@, 0, Rest(data))]
<1>8. y \in Buffers /\ HoldsRest(y, n + len)
  BY <1>7, Direct
<1>9. DirectUpdate(c, data) = Counted(saved, len)
  BY <1>2 DEF DirectUpdate
<1> HIDE DEF processed
<1>10. saved = Context(after, count, y)
  <2>1. processed.buffer = x
    BY <1>7, ContextIs
  <2>2. saved = [processed EXCEPT !.buffer = y]
    BY <2>1
  <2> HIDE DEF y, saved
  <2>3. [processed EXCEPT !.buffer = y] = Context(after, count, y)
    BY <1>7, BufferField
  <2> QED
    BY <2>2, <2>3
<1> HIDE DEF saved, y
<1>11. Counted(saved, len) = Context(after, (count + Bits(len)) % Word64Mod, y)
  BY <1>10, CountedIs
<1>12. DirectUpdate(c, data) = Context(after, total, y)
  BY <1>5, <1>9, <1>11
<1> QED
  BY <1>8, <1>12 DEF Holds256, HoldsBytes, after, total, name, data

\* An update of SHA-256 anywhere.
LEMMA SHA256Feeds ==
  ASSUME NEW c, NEW n \in Nat, Holds256(c, n), NEW len \in Nat
  PROVE  Holds256(SHA256Update(c, Piece(n, len)), n + len)
<1> DEFINE name == "sha256"
           st == Compressed(name, n)
           data == Piece(n, len)
           w == Word64Mod
           count == Bits(n) % w
           r == n % BlockLength
           free == BlockLength - r
           taken == FirstOf(data, free)
<1>1. name \in Algorithms
  BY Names
<1>2. PICK b \in Buffers : HoldsRest(b, n) /\ c = Context(st, count, b)
  BY DEF Holds256, HoldsBytes
<1> HIDE DEF name
<1>3. data \in Seq(Int) /\ Len(data) = len /\ r \in Nat /\ BlockLength \in Nat /\ r < BlockLength
      /\ w \in Nat /\ w > 0
  <2>1. n \in Int
    OBVIOUS
  <2>2. data \in Seq(Int) /\ Len(data) = len
    BY <2>1, PieceSize
  <2> HIDE DEF data
  <2> QED
    BY <2>2, Widths, Division
<1>4. c.bitcount = count /\ c.buffer = b
  BY <1>2, ContextIs
<1>5. UsedSpace(c) = r
  BY <1>4, CountedBytes, Widths DEF UsedSpace
<1> DEFINE put == [c EXCEPT !.buffer = Put(@, r, taken)]
           fill == Counted(put, Len(taken))
           left == SubSeq(data, free + 1, Len(data))
<1>6. SHA256Update(c, data) =
        IF r = 0 THEN DirectUpdate(c, data)
        ELSE IF Len(data) < free THEN fill
        ELSE DirectUpdate(SHA256Transform(fill, fill.buffer), left)
  BY <1>5 DEF SHA256Update
<1> DEFINE y == Put(b, r, taken)
           more == (count + Bits(Len(taken))) % w
<1>7. fill = Context(st, more, y)
  <2>1. put = [c EXCEPT !.buffer = y]
    BY <1>4
  <2> DEFINE k == Len(taken)
  <2> HIDE DEF st, count, y, put, k
  <2>2. put = Context(st, count, y)
    BY <1>2, <2>1, BufferField
  <2>3. Counted(put, k) = Context(st, (count + Bits(k)) % Word64Mod, y)
    BY <2>2, CountedIs
  <2> QED
    BY <2>3 DEF k
<1>8. \A m \in Nat : (count + Bits(m)) % w = Bits(n + m) % w
  <2> TAKE m \in Nat
  <2> HIDE DEF w
  <2> QED
    BY <1>3, CountOn
<1>9. CASE r = 0
  <2>1. Holds256(DirectUpdate(c, data), n + len)
    <3>1. c = Context(Compressed("sha256", n), Bits(n) % Word64Mod, b)
      BY <1>2 DEF name
    <3> QED
      BY <1>9, <3>1, SHA256DirectFeeds
  <2> QED
    BY <1>6, <1>9, <2>1
<1>10. CASE r # 0 /\ len < free
  <2>1. taken = data
    <3>1. ~(free < Len(data))
      BY <1>3, <1>10
    <3> QED
      BY <3>1 DEF FirstOf
  <2>2. /\ Put(b, r, data) \in Buffers /\ HoldsRest(Put(b, r, data), n + len)
        /\ (n + len) \div BlockLength = n \div BlockLength
    BY <1>2, <1>10, Fits
  <2>3. st = Compressed(name, n + len)
    BY <2>2 DEF Compressed
  <2>4. more = Bits(n + len) % w
    BY <1>3, <1>8, <2>1
  <2>5. SHA256Update(c, data) = fill
    BY <1>3, <1>6, <1>10
  <2> HIDE DEF more, st, fill, data, taken
  <2>6. SHA256Update(c, data) =
          Context(Compressed(name, n + len), Bits(n + len) % w, Put(b, r, data))
    BY <1>7, <2>1, <2>3, <2>4, <2>5
  <2> QED
    BY <2>2, <2>6 DEF Holds256, HoldsBytes, name, data
<1>11. CASE r # 0 /\ len >= free
  <2> DEFINE filled == Put(b, r, Piece(n, free))
             m == n + free
             l == len - free
  <2>1. /\ free \in 1 .. BlockLength /\ m \in Nat /\ l \in Nat
        /\ SubSeq(Piece(n, len), 1, free) = Piece(n, free)
        /\ SubSeq(Piece(n, len), free + 1, len) = Piece(m, l)
        /\ filled \in Buffers
        /\ Append(MessageBlocks(n \div BlockLength), filled) = MessageBlocks(m \div BlockLength)
        /\ m % BlockLength = 0
        /\ m + l = n + len
    BY <1>2, <1>11, Fills
  <2>2. taken = Piece(n, free)
    <3>1. CASE free < Len(data)
      BY <2>1, <3>1 DEF FirstOf
    <3>2. CASE ~(free < Len(data))
      <4>1. free = len
        BY <1>3, <1>11, <2>1, <3>2
      <4> QED
        BY <3>2, <4>1 DEF FirstOf
    <3> QED
      BY <3>1, <3>2
  <2>3. Len(taken) = free /\ free \in Nat
    <3>0. free \in Nat
      BY <2>1
    <3> DEFINE f == free
    <3> HIDE DEF f, taken
    <3>1. Len(Piece(n, f)) = f
      BY <3>0, PieceIs DEF f
    <3> QED
      BY <2>2, <3>0, <3>1 DEF f
  <2>4. more = Bits(m) % w
    BY <1>8, <2>3
  <2>5. y = filled
    BY <2>2
  <2> DEFINE full == SHA256Transform(fill, fill.buffer)
  <2>6. SHA256Update(c, data) = DirectUpdate(full, Piece(m, l))
    <3>1. left = Piece(m, l)
      BY <1>3, <2>1
    <3>2. ~(len < free)
      BY <1>3, <1>11
    <3> HIDE DEF left, data, fill, free
    <3> QED
      BY <1>3, <1>6, <1>11, <3>1, <3>2
  <2> HIDE DEF fill, more, y, filled, taken, data, m, l
  <2>7. full = Context(CompressAll(st, filled), more, Scratches)
    <3> HIDE DEF st
    <3>1. fill.buffer = y
      BY <1>7, ContextIs
    <3>2. SHA256Transform(fill, y) = Context(CompressAll(st, y), more, Scratches)
      BY <1>7, TransformIs
    <3> QED
      BY <2>5, <3>1, <3>2
  <2>8. CompressAll(st, filled) = Compressed(name, m)
    BY <1>1, <2>1, CompressedBlock
  <2>9. Scratches \in Buffers
    BY BufferIs DEF Scratches
  <2> HIDE DEF full, st
  <2>10. full = Context(Compressed("sha256", m), Bits(m) % Word64Mod, Scratches)
    BY <2>4, <2>7, <2>8 DEF name
  <2>11. Holds256(DirectUpdate(full, Piece(m, l)), m + l)
    BY <2>1, <2>9, <2>10, SHA256DirectFeeds
  <2> QED
    BY <2>1, <2>6, <2>11 DEF data
<1> QED
  <2>1. len < free \/ len >= free
    BY <1>3
  <2> QED
    BY <1>9, <1>10, <1>11, <2>1 DEF data

LEMMA SameTransform ==
  ASSUME NEW c, NEW data PROVE SHA512Transform(c, data) = SHA256Transform(c, data)
BY DEF SHA256Transform, SHA512Transform

LEMMA PutField ==
  ASSUME NEW st, NEW count, NEW b, NEW c, c = Context(st, count, b), NEW at, NEW bytes
  PROVE  [c EXCEPT !.buffer = Put(@, at, bytes)] = Context(st, count, Put(b, at, bytes))
<1> DEFINE x == Put(b, at, bytes)
<1>1. c.buffer = b
  BY ContextIs
<1>2. [c EXCEPT !.buffer = Put(@, at, bytes)] = [c EXCEPT !.buffer = x]
  BY <1>1
<1> HIDE DEF x
<1>3. [c EXCEPT !.buffer = x] = Context(st, count, x)
  BY BufferField
<1> QED
  BY <1>2, <1>3 DEF x

LEMMA TwoLastBlocks ==
  ASSUME NEW n \in Nat, NEW b \in Buffers, HoldsRest(b, n),
         NEW lengthField \in Seq(Int), Len(lengthField) = 2, ~(n % BlockLength < ShortBlock),
         NEW m \in {ShortBlock, BlockLength - 1}
  PROVE  /\ Put(b, n % BlockLength, Mark(BlockLength - (n % BlockLength) - 1)) \in Buffers
         /\ Put(Scratches, 0, Zeroes(m)) \in Buffers
         /\ Append(MessageBlocks(n \div BlockLength),
                   Put(b, n % BlockLength, Mark(BlockLength - (n % BlockLength) - 1))) \in Blocks
         /\ Append(Append(MessageBlocks(n \div BlockLength),
                          Put(b, n % BlockLength, Mark(BlockLength - (n % BlockLength) - 1))),
                   Put(Put(Scratches, 0, Zeroes(m)), ShortBlock, lengthField)) =
              WholeBlocks(Message(n) \o Padding(n, lengthField))
<1> DEFINE other == Scratches
           first == MessageBlocks(n \div BlockLength)
           marked == Put(b, n % BlockLength, Mark(BlockLength - (n % BlockLength) - 1))
           last == Put(Put(other, 0, Zeroes(m)), ShortBlock, lengthField)
<1>1. other \in Buffers
  BY BufferIs DEF Scratches
<1> HIDE DEF other
<1>2. marked \in Buffers
  BY <1>1, LastBlocks
<1>3. Put(other, 0, Zeroes(m)) \in Buffers
  BY <1>1, LastBlocks
<1>4. last \in Buffers
  BY <1>1, LastBlocks
<1>5. Append(first, marked) \in Blocks
  BY <1>1, LastBlocks
<1>6. Append(Append(first, marked), last) = WholeBlocks(Message(n) \o Padding(n, lengthField))
  BY <1>1, <1>4, <1>5, LastBlocks
<1> QED
  BY <1>2, <1>3, <1>5, <1>6 DEF other

\* The blocks that end a message: its rest, the mark, zeroes and the length.
LEMMA Ends ==
  ASSUME NEW name \in Algorithms, NEW n \in Nat, NEW count, NEW b \in Buffers, HoldsRest(b, n),
         NEW c, c = Context(Compressed(name, n), count, b),
         NEW lengthField \in Seq(Int), Len(lengthField) = 2,
         NEW m \in {ShortBlock, BlockLength - 1}, NEW p,
         n % BlockLength < ShortBlock =>
           p = [c EXCEPT !.buffer = Put(@, n % BlockLength,
                                        Mark(ShortBlock - (n % BlockLength) - 1))],
         ~(n % BlockLength < ShortBlock) =>
           p = [SHA256Transform(c, [c EXCEPT !.buffer = Put(@, n % BlockLength,
                                      Mark(BlockLength - (n % BlockLength) - 1))].buffer)
                  EXCEPT !.buffer = Put(@, 0, Zeroes(m))]
  PROVE  SHA256Transform(p, Put(p.buffer, ShortBlock, lengthField)) =
           Context(Chained(name, WholeBlocks(Message(n) \o Padding(n, lengthField))),
                   count, Scratches)
<1> DEFINE r == n % BlockLength
           s == MessageBlocks(n \div BlockLength)
           standard == WholeBlocks(Message(n) \o Padding(n, lengthField))
<1>1. Compressed(name, n) = Chained(name, s) /\ s \in Blocks
  BY CompressedIs
<1>2. c.buffer = b
  BY ContextIs
<1>3. ASSUME NEW t \in Blocks, NEW x \in Buffers, p = Context(Chained(name, t), count, x),
             Append(t, Put(x, ShortBlock, lengthField)) = standard
      PROVE  SHA256Transform(p, Put(p.buffer, ShortBlock, lengthField)) =
               Context(Chained(name, standard), count, Scratches)
  <2> DEFINE last == Put(x, ShortBlock, lengthField)
  <2>1. p.buffer = x
    BY <1>3, ContextIs
  <2>2. last \in Buffers
    BY Widths, PutIs
  <2> HIDE DEF last, standard
  <2>3. t \o WholeBlocks(last) = Append(t, last)
    BY <2>2, OneBlock
  <2>4. CompressAll(Chained(name, t), last) = Chained(name, t \o WholeBlocks(last))
    BY CompressAllIs
  <2>5. SHA256Transform(p, last) = Context(CompressAll(Chained(name, t), last), count, Scratches)
    BY <1>3, TransformIs
  <2>6. Append(t, last) = standard
    BY <1>3 DEF last
  <2> QED
    BY <2>1, <2>3, <2>4, <2>5, <2>6 DEF last
<1>4. ASSUME r < ShortBlock
      PROVE  SHA256Transform(p, Put(p.buffer, ShortBlock, lengthField)) =
               Context(Chained(name, standard), count, Scratches)
  <2> DEFINE marked == Put(b, r, Mark(ShortBlock - r - 1))
  <2>1. marked \in Buffers /\ Append(s, Put(marked, ShortBlock, lengthField)) = standard
    BY <1>4, LastBlock
  <2>2. p = [c EXCEPT !.buffer = marked]
    BY <1>2, <1>4
  <2> HIDE DEF marked, s, standard
  <2>3. p = Context(Chained(name, s), count, marked)
    BY <1>1, <2>2, BufferField
  <2> QED
    BY <1>1, <1>3, <2>1, <2>3
<1>5. ASSUME ~(r < ShortBlock)
      PROVE  SHA256Transform(p, Put(p.buffer, ShortBlock, lengthField)) =
               Context(Chained(name, standard), count, Scratches)
  <2> DEFINE marked == Put(b, r, Mark(BlockLength - r - 1))
             zeroes == Put(Scratches, 0, Zeroes(m))
             t == Append(s, marked)
             d == SHA256Transform(c, marked)
  <2>1. /\ marked \in Buffers /\ zeroes \in Buffers /\ t \in Blocks
        /\ Append(t, Put(zeroes, ShortBlock, lengthField)) = standard
    BY <1>5, TwoLastBlocks
  <2>2. [c EXCEPT !.buffer = Put(@, r, Mark(BlockLength - r - 1))].buffer = marked
    <3> DEFINE bytes == Mark(BlockLength - r - 1)
               e == [c EXCEPT !.buffer = Put(@, r, bytes)]
               st == Compressed(name, n)
    <3> HIDE DEF bytes, st
    <3>1. e = Context(st, count, Put(b, r, bytes))
      BY PutField DEF st
    <3> HIDE DEF e
    <3>2. e.buffer = Put(b, r, bytes)
      BY <3>1, ContextIs
    <3> QED
      BY <3>2 DEF e, bytes
  <2>3. p = [d EXCEPT !.buffer = Put(@, 0, Zeroes(m))]
    BY <1>5, <2>2
  <2> HIDE DEF marked, zeroes, s, standard
  <2>4. d = Context(Chained(name, t), count, Scratches)
    <3>1. d = Context(CompressAll(Chained(name, s), marked), count, Scratches)
      BY <1>1, TransformIs
    <3>2. CompressAll(Chained(name, s), marked) = Chained(name, s \o WholeBlocks(marked))
      BY CompressAllIs
    <3>3. s \o WholeBlocks(marked) = t
      BY <1>1, <2>1, OneBlock
    <3> QED
      BY <3>1, <3>2, <3>3
  <2> HIDE DEF d, t
  <2>5. p = [d EXCEPT !.buffer = zeroes]
    <3>1. d.buffer = Scratches
      BY <2>4, ContextIs
    <3> QED
      BY <2>3, <3>1 DEF zeroes
  <2>6. p = Context(Chained(name, t), count, zeroes)
    BY <2>4, <2>5, BufferField
  <2> QED
    BY <1>3, <2>1, <2>6
<1> QED
  BY <1>4, <1>5

\* The digest of SHA-256 is the standard's.
LEMMA SHA256Right ==
  ASSUME NEW c, NEW n \in Nat, Holds256(c, n)
  PROVE  /\ SHA256Digest(c) = StandardSHA256(n)
         /\ SHA256Digest(c) \in [iv : Algorithms, words : Nat, blocks : Seq(Seq(Int))]
         /\ \E blocks \in Blocks, count \in 0 .. Word64Mod - 1 :
              SHA256Finished(c) = Context(Chained("sha256", blocks), count, Scratches)
<1> DEFINE name == "sha256"
           words == 8
           w == Word64Mod
           x == Bits(n)
           count == x % w
           st == Compressed(name, n)
           r == n % BlockLength
           m == ShortBlock
           field == HighLow(n, UIntMod)
           p == SHA256Padded(c)
           standard == WholeBlocks(Message(n) \o Padding(n, field))
<1>1. PICK b \in Buffers : HoldsRest(b, n) /\ c = Context(st, count, b)
  BY DEF Holds256, HoldsBytes
<1>2. name \in Algorithms /\ words \in Nat
  BY Names
<1>3. w \in Nat /\ w > 0 /\ x \in Nat
  BY Widths, BitsAre
<1>4. c.bitcount = count /\ c.buffer = b
  BY <1>1, ContextIs
<1>5. UsedSpace(c) = r
  BY <1>4, CountedBytes, Widths DEF UsedSpace
<1>6. count \div UIntMod = (x \div UIntMod) % UIntMod /\ count % UIntMod = x % UIntMod
  <2> HIDE DEF x
  <2> QED
    BY <1>3, TwoWords
<1>7. field \in Seq(Int) /\ Len(field) = 2
  <2> DEFINE a == LengthWord((x \div UIntMod) % UIntMod)
             e == LengthWord(x % UIntMod)
  <2>1. (x \div UIntMod) % UIntMod \in Nat /\ x % UIntMod \in Nat
    <3> HIDE DEF x
    <3>1. x \div UIntMod \in Nat /\ x % UIntMod \in Nat
      BY <1>3, Widths, Division
    <3> DEFINE z == x \div UIntMod
    <3> HIDE DEF z
    <3>2. z % UIntMod \in Nat
      BY <3>1, Widths, Division DEF z
    <3> QED
      BY <3>1, <3>2 DEF z
  <2>2. a \in Int /\ e \in Int
    BY <2>1 DEF LengthWord
  <2>3. field = <<a, e>>
    BY DEF HighLow
  <2> HIDE DEF a, e, field
  <2> QED
    BY <2>2, <2>3
<1>8. << LengthWord(c.bitcount \div UIntMod), LengthWord(c.bitcount % UIntMod) >> = field
  BY <1>4, <1>6 DEF HighLow
<1>9. SHA256Finished(c) = SHA256Transform(p, Put(p.buffer, ShortBlock, field))
  <2> DEFINE length == << LengthWord(c.bitcount \div UIntMod), LengthWord(c.bitcount % UIntMod) >>
  <2>1. SHA256Finished(c) = SHA256Transform(p, Put(p.buffer, ShortBlock, length))
    BY DEF SHA256Finished
  <2> QED
    BY <1>8, <2>1
<1>10. m \in {ShortBlock, BlockLength - 1}
  OBVIOUS
<1>11. r < ShortBlock => p = [c EXCEPT !.buffer = Put(@, r, Mark(ShortBlock - r - 1))]
  BY <1>5 DEF SHA256Padded, Mark
<1>12. ~(r < ShortBlock) =>
         p = [SHA256Transform(c, [c EXCEPT !.buffer = Put(@, r, Mark(BlockLength - r - 1))].buffer)
                EXCEPT !.buffer = Put(@, 0, Zeroes(m))]
  BY <1>5 DEF SHA256Padded, Mark
<1>13. count \in 0 .. w - 1
  <2> HIDE DEF x, w
  <2> QED
    BY <1>3, Division
<1> HIDE DEF name, words, w, x, st, m, field, p
<1>14. SHA256Transform(p, Put(p.buffer, ShortBlock, field)) =
         Context(Chained(name, standard), count, Scratches)
  <2> HIDE DEF count
  <2>2. c = Context(Compressed(name, n), count, b)
    BY <1>1 DEF st
  <2> QED
    BY <1>1, <1>2, <1>7, <1>10, <1>11, <1>12, <2>2, Ends
<1>15. /\ standard \in Blocks
       /\ StandardDigest(name, words, n, field) \in
            [iv : Algorithms, words : Nat, blocks : Seq(Seq(Int))]
  BY <1>2, <1>7, StandardIs
<1> HIDE DEF standard, count
<1>16. SHA256Finished(c).state = Chained(name, standard)
  BY <1>9, <1>14, ContextIs
<1>17. DigestOf(Chained(name, standard), words) =
         [iv |-> name, words |-> words, blocks |-> standard]
  BY ChainedIs
<1>18. SHA256Digest(c) = StandardDigest(name, words, n, field)
  BY <1>16, <1>17 DEF SHA256Digest, StandardDigest, standard, words
<1>19. StandardDigest(name, words, n, field) = StandardSHA256(n)
  BY DEF StandardSHA256, name, words, field
<1> QED
  BY <1>9, <1>13, <1>14, <1>15, <1>18, <1>19 DEF name, w

-------------------------------------------------------------------------------
(* Folds of a sequence. *)

\* The turns of the loops of this project: SHA-512 counts the blocks of an update,
\* SHA-1 takes the bytes of an update, a wrapper the blocks of a file.
Turn(loop, acc, x) ==
  CASE loop = "count" -> ADDINC128(acc, Bits(Len(x)))
    [] loop = "bytes" -> InputByte(acc, x)
    [] loop = "blocks" -> updateContext(acc, x)

LEMMA Turns ==
  /\ \A acc, x : Turn("count", acc, x) = ADDINC128(acc, Bits(Len(x)))
  /\ \A acc, x : Turn("bytes", acc, x) = InputByte(acc, x)
  /\ \A acc, x : Turn("blocks", acc, x) = updateContext(acc, x)
BY DEF Turn

\* g makes a turn for every element of a set, the largest one last.
Recurses(g, loop, base, seq, n) ==
  g = [s \in SUBSET (1 .. n) |->
         IF s = {} THEN base ELSE Turn(loop, g[s \ {Max(s)}], seq[Max(s)])]

\* The fold has a value for every set of indices: by induction on its size.
LEMMA TurnsExist ==
  ASSUME NEW loop, NEW base, NEW seq, NEW n \in Nat
  PROVE  \E g : Recurses(g, loop, base, seq, n)
<1> DEFINE S == 1 .. n
           Step(g, s) == IF s = {} THEN base ELSE Turn(loop, g[s \ {Max(s)}], seq[Max(s)])
           Upto(k) == \E g : g = [s \in SUBSET S |-> g[s]] /\
                        \A s \in SUBSET S : Cardinality(s) <= k => g[s] = Step(g, s)
           Sizes == {k \in Nat : Upto(k)}
<1>0. /\ IsFiniteSet(S)
      /\ \A s \in SUBSET S : IsFiniteSet(s) /\ Cardinality(s) \in Nat
                             /\ Cardinality(s) <= Cardinality(S)
  <2>1. IsFiniteSet(S)
    BY FS_Interval
  <2> HIDE DEF S
  <2> QED
    BY <2>1, FS_Subset, FS_CardinalityType
<1>1. 0 \in Sizes
  <2> DEFINE g == [s \in SUBSET S |-> base]
  <2>1. g = [s \in SUBSET S |-> g[s]]
    OBVIOUS
  <2>2. \A s \in SUBSET S : Cardinality(s) <= 0 => s = {}
    <3> HIDE DEF S
    <3> QED
      BY <1>0, FS_EmptySet
  <2>3. \A s \in SUBSET S : s = {} => g[s] = Step(g, s)
    OBVIOUS
  <2> HIDE DEF g, Step
  <2> QED
    BY <2>1, <2>2, <2>3
<1>2. ASSUME NEW k \in Nat, k \in Sizes PROVE k + 1 \in Sizes
  <2>1. PICK g : g = [s \in SUBSET S |-> g[s]] /\
                 \A s \in SUBSET S : Cardinality(s) <= k => g[s] = Step(g, s)
    <3> HIDE DEF Step
    <3> QED
      BY <1>2
  <2> DEFINE h == [s \in SUBSET S |-> Step(g, s)]
  <2>2. h = [s \in SUBSET S |-> h[s]] /\ \A s \in SUBSET S : h[s] = Step(g, s)
    <3> HIDE DEF Step
    <3> QED
      OBVIOUS
  <2> HIDE DEF h
  <2>3. ASSUME NEW s \in SUBSET S, Cardinality(s) <= k + 1, s # {}
        PROVE  h[s \ {Max(s)}] = g[s \ {Max(s)}]
    <3> DEFINE r == s \ {Max(s)}
    <3>1. Max(s) \in s /\ r \in SUBSET S /\ IsFiniteSet(s)
      BY <1>0, <2>3, MaxOfSome
    <3>2. Cardinality(r) = Cardinality(s) - 1 /\ Cardinality(s) \in Nat
      BY <3>1, OneLess
    <3>3. Cardinality(r) <= k
      BY <2>3, <3>2
    <3> HIDE DEF r, Step, S
    <3>4. h[r] = g[r]
      BY <2>1, <2>2, <3>1, <3>3
    <3> QED
      BY <3>4 DEF r
  <2>4. \A s \in SUBSET S : Cardinality(s) <= k + 1 => h[s] = Step(h, s)
    <3> TAKE s \in SUBSET S
    <3> HAVE Cardinality(s) <= k + 1
    <3>1. h[s] = Step(g, s)
      BY <2>2
    <3>2. CASE s = {}
      BY <3>1, <3>2
    <3>3. CASE s # {}
      BY <2>3, <3>1, <3>3
    <3> QED
      BY <3>2, <3>3
  <2>5. Upto(k + 1)
    <3> HIDE DEF Step, S
    <3> QED
      BY <2>2, <2>4
  <2> HIDE DEF Upto
  <2> QED
    BY <2>5
<1>3. Cardinality(S) \in Nat
  BY <1>0, FS_CardinalityType
<1> HIDE DEF Upto
<1>4. Cardinality(S) \in Sizes
  <2> HIDE DEF Sizes, S
  <2>1. Nat \subseteq Sizes
    BY <1>1, <1>2, AllSizes
  <2> QED
    BY <1>3, <2>1
<1>5. PICK g : g = [s \in SUBSET S |-> g[s]] /\
               \A s \in SUBSET S : Cardinality(s) <= Cardinality(S) => g[s] = Step(g, s)
  <2>1. Upto(Cardinality(S))
    BY <1>4
  <2> HIDE DEF Step, S
  <2> QED
    BY <2>1 DEF Upto
<1>6. g = [s \in SUBSET S |-> Step(g, s)]
  <2> HIDE DEF Step, S
  <2> QED
    BY <1>0, <1>5
<1> QED
  BY <1>6 DEF Recurses

\* One after the other: v[i] is what the first i turns make of base.
Steps(v, loop, base, seq, n) ==
  v[0] = base /\ \A i \in 1 .. n : v[i] = Turn(loop, v[i - 1], seq[i])

\* The values of a fold, one after the other.
LEMMA StepsOf ==
  ASSUME NEW loop, NEW base, NEW seq, NEW n \in Nat, NEW h,
         Recurses(h, loop, base, seq, n)
  PROVE  \E v : Steps(v, loop, base, seq, n) /\ v[n] = h[1 .. n]
<1> DEFINE v == [i \in 0 .. n |-> h[1 .. i]]
<1>1. \A s \in SUBSET (1 .. n) :
        h[s] = IF s = {} THEN base ELSE Turn(loop, h[s \ {Max(s)}], seq[Max(s)])
  <2>1. h = [s \in SUBSET (1 .. n) |->
               IF s = {} THEN base ELSE Turn(loop, h[s \ {Max(s)}], seq[Max(s)])]
    BY DEF Recurses
  <2> QED
    BY <2>1
<1>2. v[0] = base
  <2>1. 1 .. 0 = {} /\ 0 \in 0 .. n
    OBVIOUS
  <2> QED
    BY <1>1, <2>1
<1>3. ASSUME NEW i \in 1 .. n PROVE v[i] = Turn(loop, v[i - 1], seq[i])
  <2>1. i \in Nat /\ i > 0 /\ i \in 0 .. n /\ i - 1 \in 0 .. n /\ 1 .. i \in SUBSET (1 .. n)
    OBVIOUS
  <2>2. Max(1 .. i) = i /\ 1 .. i # {} /\ (1 .. i) \ {Max(1 .. i)} = 1 .. i - 1
    BY <2>1, MaxOfFirst
  <2>3. v[i] = h[1 .. i] /\ v[i - 1] = h[1 .. i - 1]
    BY <2>1
  <2> HIDE DEF v
  <2>4. h[1 .. i] = Turn(loop, h[(1 .. i) \ {Max(1 .. i)}], seq[Max(1 .. i)])
    BY <1>1, <2>1, <2>2
  <2> QED
    BY <2>2, <2>3, <2>4
<1>4. v[n] = h[1 .. n]
  OBVIOUS
<1> HIDE DEF v
<1> QED
  BY <1>2, <1>3, <1>4 DEF Steps

FoldedCount(w, seq) ==
  LET count(c, block) == ADDINC128(c, Bits(Len(block)))
  IN  FoldLeft(count, w, seq)

LEMMA CountSteps ==
  ASSUME NEW w, NEW seq, NEW n \in Nat, DOMAIN seq = 1 .. n
  PROVE  \E v : Steps(v, "count", w, seq, n) /\ FoldedCount(w, seq) = v[n]
<1> DEFINE Eq(g) == g = [s \in SUBSET (1 .. n) |->
                           IF s = {} THEN w
                           ELSE ADDINC128(g[s \ {Max(s)}], Bits(Len(seq[Max(s)])))]
           h == CHOOSE g : Eq(g)
<1>1. FoldedCount(w, seq) = h[1 .. n]
  BY DEF FoldedCount, FoldLeft, MapThenFoldSet
<1>2. \A g : Recurses(g, "count", w, seq, n) <=> Eq(g)
  BY Turns DEF Recurses
<1>3. \E g : Eq(g)
  <2> DEFINE loop == "count"
  <2> HIDE DEF loop, Eq
  <2>1. \E g : Recurses(g, loop, w, seq, n)
    BY TurnsExist
  <2> QED
    BY <1>2, <2>1 DEF loop
<1>4. Eq(h)
  BY <1>3
<1> DEFINE loop == "count"
<1> HIDE DEF loop, Eq, h
<1>5. Recurses(h, loop, w, seq, n)
  BY <1>2, <1>4 DEF loop
<1>6. \E v : Steps(v, loop, w, seq, n) /\ v[n] = h[1 .. n]
  BY <1>5, StepsOf
<1> QED
  BY <1>1, <1>6 DEF loop

LEMMA ByteSteps ==
  ASSUME NEW c, NEW seq, NEW n \in Nat, DOMAIN seq = 1 .. n
  PROVE  \E v : Steps(v, "bytes", c, seq, n) /\ FoldLeft(InputByte, c, seq) = v[n]
<1> DEFINE Eq(g) == g = [s \in SUBSET (1 .. n) |->
                           IF s = {} THEN c
                           ELSE InputByte(g[s \ {Max(s)}], seq[Max(s)])]
           h == CHOOSE g : Eq(g)
<1>1. FoldLeft(InputByte, c, seq) = h[1 .. n]
  BY DEF FoldLeft, MapThenFoldSet
<1>2. \A g : Recurses(g, "bytes", c, seq, n) <=> Eq(g)
  BY Turns DEF Recurses
<1>3. \E g : Eq(g)
  <2> DEFINE loop == "bytes"
  <2> HIDE DEF loop, Eq
  <2>1. \E g : Recurses(g, loop, c, seq, n)
    BY TurnsExist
  <2> QED
    BY <1>2, <2>1 DEF loop
<1>4. Eq(h)
  BY <1>3
<1> DEFINE loop == "bytes"
<1> HIDE DEF loop, Eq, h
<1>5. Recurses(h, loop, c, seq, n)
  BY <1>2, <1>4 DEF loop
<1>6. \E v : Steps(v, loop, c, seq, n) /\ v[n] = h[1 .. n]
  BY <1>5, StepsOf
<1> QED
  BY <1>1, <1>6 DEF loop

LEMMA BlockSteps ==
  ASSUME NEW c, NEW seq, NEW n \in Nat, DOMAIN seq = 1 .. n
  PROVE  \E v : Steps(v, "blocks", c, seq, n) /\ FoldLeft(updateContext, c, seq) = v[n]
<1> DEFINE Eq(g) == g = [s \in SUBSET (1 .. n) |->
                           IF s = {} THEN c
                           ELSE updateContext(g[s \ {Max(s)}], seq[Max(s)])]
           h == CHOOSE g : Eq(g)
<1>1. FoldLeft(updateContext, c, seq) = h[1 .. n]
  BY DEF FoldLeft, MapThenFoldSet
<1>2. \A g : Recurses(g, "blocks", c, seq, n) <=> Eq(g)
  BY Turns DEF Recurses
<1>3. \E g : Eq(g)
  <2> DEFINE loop == "blocks"
  <2> HIDE DEF loop, Eq
  <2>1. \E g : Recurses(g, loop, c, seq, n)
    BY TurnsExist
  <2> QED
    BY <1>2, <2>1 DEF loop
<1>4. Eq(h)
  BY <1>3
<1> DEFINE loop == "blocks"
<1> HIDE DEF loop, Eq, h
<1>5. Recurses(h, loop, c, seq, n)
  BY <1>2, <1>4 DEF loop
<1>6. \E v : Steps(v, loop, c, seq, n) /\ v[n] = h[1 .. n]
  BY <1>5, StepsOf
<1> QED
  BY <1>1, <1>6 DEF loop

-------------------------------------------------------------------------------
(* SHA-384 and SHA-512 *)

\* The blocks an update counts: whole ones, and what is left.
LEMMA CountedBlocks ==
  ASSUME NEW n \in Nat, n % BlockLength = 0, NEW len \in Nat
  PROVE  LET seq == Append(WholeBlocks(Piece(n, len)), Rest(Piece(n, len)))
             p == len \div BlockLength
         IN  /\ p \in Nat /\ DOMAIN seq = 1 .. p + 1
             /\ \A i \in 1 .. p : Len(seq[i]) = BlockLength
             /\ Len(seq[p + 1]) = len % BlockLength
             /\ WholeBlocks(Piece(n, len)) = <<>> <=> len < BlockLength
<1> DEFINE d == BlockLength
           data == Piece(n, len)
           p == len \div d
           m == len % d
           w == WholeBlocks(data)
           rest == Rest(data)
           seq == Append(w, rest)
<1>1. d \in Nat /\ d > 0 /\ p \in Nat /\ m \in Nat /\ m < d /\ len = d * p + m /\ d * p \in Nat
  BY Widths, Division
<1>2. data \in Seq(Int) /\ Len(data) = len /\ n \in Int
  BY PieceSize
<1>3. w = [i \in 1 .. p |-> SubSeq(data, (i - 1) * d + 1, i * d)]
  BY <1>2 DEF WholeBlocks
<1>4. ASSUME NEW i \in 1 .. p
      PROVE  w[i] \in Seq(Int) /\ Len(w[i]) = d
  <2> DEFINE a == (i - 1) * d
             e == i * d
             l == d * p
  <2>1. a \in Nat /\ e = a + d /\ e <= l
    <3>1. i - 1 \in Nat /\ p - i \in Nat
      BY <1>1
    <3>2. a \in Nat
      BY <1>1, <3>1, SMTT(30)
    <3>3. e = a + d
      BY <1>1, SMTT(30)
    <3>4. (p - i) * d \in Nat
      BY <1>1, <3>1, SMTT(30)
    <3>5. (p - i) * d = l - e
      BY <1>1, SMTT(30)
    <3>6. e \in Nat /\ l \in Nat
      BY <1>1, <3>2, <3>3
    <3> DEFINE z == (p - i) * d
    <3> HIDE DEF a, e, l, z
    <3>7. z \in Nat /\ z = l - e
      BY <3>4, <3>5 DEF z
    <3> QED
      BY <3>2, <3>3, <3>6, <3>7
  <2>2. w[i] = SubSeq(data, a + 1, e)
    BY <1>3
  <2>3. len = l + m /\ l \in Nat
    BY <1>1
  <2> HIDE DEF a, e, l
  <2> DEFINE f == a + 1
  <2>4. f \in 1 .. len + 1 /\ e \in f - 1 .. len /\ n + f - 1 \in Int /\ e - f + 1 = d
    BY <1>1, <1>2, <2>1, <2>3
  <2> HIDE DEF f, p, d
  <2>5. w[i] = Piece(n + f - 1, e - f + 1)
    BY <1>2, <2>2, <2>4, SubPiece DEF f
  <2> QED
    BY <1>1, <2>4, <2>5, PieceSize
<1>5. w \in Seq(Seq(Int)) /\ Len(w) = p
  <2>1. DOMAIN w = 1 .. p /\ \A i \in 1 .. p : w[i] \in Seq(Int)
    BY <1>3, <1>4
  <2>2. w = [i \in 1 .. p |-> w[i]]
    BY <1>3
  <2> HIDE DEF w, p
  <2>3. w \in [1 .. p -> Seq(Int)]
    BY <2>1, <2>2
  <2> QED
    BY <1>1, <2>3
<1>6. rest \in Seq(Int) /\ Len(rest) = m
  <2> DEFINE a == BlockLength * ((n + len) \div BlockLength)
             b == Scratches
  <2>1. a \in Int
    <3> DEFINE x == n + len
    <3>1. x \in Nat
      OBVIOUS
    <3> HIDE DEF x
    <3> QED
      BY <1>1, <3>1, Division DEF x
  <2>2. b \in Buffers
    BY BufferIs DEF Scratches
  <2> HIDE DEF b
  <2>3. rest = Piece(a, m)
    BY <2>2, Direct
  <2> HIDE DEF a, m
  <2> QED
    BY <1>1, <2>1, <2>3, PieceSize
<1>7. w = <<>> <=> len < d
  <2>1. len < d => p = 0
    <3> HIDE DEF d
    <3> QED
      BY <1>1, Division
  <2>2. ~(len < d) => p > 0
    <3> DEFINE l == d * p
    <3>1. p = 0 => l = 0
      BY <1>1
    <3> HIDE DEF l
    <3>2. ~(len < d) => l # 0
      BY <1>1 DEF l
    <3> QED
      BY <1>1, <3>1, <3>2
  <2>3. w = <<>> <=> p = 0
    <3> HIDE DEF w, p
    <3> QED
      BY <1>1, <1>5
  <2> QED
    BY <1>1, <2>1, <2>2, <2>3
<1> HIDE DEF w, rest
<1>8. Len(seq) = p + 1 /\ DOMAIN seq = 1 .. Len(seq) /\ seq[p + 1] = rest
      /\ \A i \in 1 .. p : seq[i] = w[i]
  <2> HIDE DEF p
  <2>1. /\ seq \in Seq(Seq(Int)) /\ Len(seq) = Len(w) + 1
        /\ seq[Len(w) + 1] = rest /\ \A i \in 1 .. Len(w) : seq[i] = w[i]
    BY <1>5, <1>6, AppendProperties
  <2> HIDE DEF seq
  <2> QED
    BY <1>1, <1>5, <2>1
<1> HIDE DEF seq
<1> QED
  BY <1>1, <1>4, <1>6, <1>7, <1>8 DEF seq, w, rest

\* SHA-512 counts the blocks of an update one by one.
LEMMA BitsFolded ==
  ASSUME NEW n \in Nat, n % BlockLength = 0, NEW len \in Nat, NEW w, Count128(w, n)
  PROVE  Count128(FoldedCount(w, Append(WholeBlocks(Piece(n, len)), Rest(Piece(n, len)))), n + len)
<1> DEFINE seq == Append(WholeBlocks(Piece(n, len)), Rest(Piece(n, len)))
           d == BlockLength
           p == len \div d
           k == p + 1
           loop == "count"
<1>1. /\ p \in Nat /\ DOMAIN seq = 1 .. k /\ Len(seq[k]) = len % d
      /\ \A i \in 1 .. p : Len(seq[i]) = d
  BY CountedBlocks
<1>2. d \in Nat /\ len = d * p + (len % d) /\ len % d \in Nat /\ len % d < d /\ k \in Nat
  BY <1>1, Widths, Division
<1>3. \A a, x : Turn(loop, a, x) = ADDINC128(a, Bits(Len(x)))
  BY Turns
<1> HIDE DEF seq, p, loop
<1>4. PICK v : Steps(v, loop, w, seq, k) /\ FoldedCount(w, seq) = v[k]
  BY <1>1, <1>2, CountSteps DEF loop
<1>5. v[0] = w /\ \A i \in 1 .. k : v[i] = ADDINC128(v[i - 1], Bits(Len(seq[i])))
  BY <1>3, <1>4 DEF Steps
<1> DEFINE Sizes == {i \in Nat : i <= p => Count128(v[i], n + d * i)}
<1>6. 0 \in Sizes
  BY <1>2, <1>5
<1>7. ASSUME NEW i \in Nat, i \in Sizes PROVE i + 1 \in Sizes
  <2>1. ASSUME i + 1 <= p PROVE Count128(v[i + 1], n + d * (i + 1))
    <3> DEFINE m == n + d * i
               j == i + 1
    <3>1. m \in Nat /\ n + d * (i + 1) = m + d
      BY <1>2, SMTT(30)
    <3>2. Count128(v[i], m) /\ j \in 1 .. p /\ j \in 1 .. k /\ j - 1 = i
      BY <1>1, <1>7, <2>1
    <3> HIDE DEF m, j
    <3>3. v[j] = ADDINC128(v[i], Bits(d))
      BY <1>1, <1>5, <3>2
    <3>4. Count128(ADDINC128(v[i], Bits(d)), m + d)
      BY <1>2, <3>1, <3>2, Count128Adds
    <3> QED
      BY <3>1, <3>3, <3>4 DEF j
  <2> QED
    BY <2>1
<1>8. p \in Sizes
  <2> HIDE DEF Sizes
  <2>1. Nat \subseteq Sizes
    BY <1>6, <1>7, AllSizes
  <2> QED
    BY <1>1, <2>1
<1> DEFINE m == n + d * p
           e == len % d
<1>9. m \in Nat /\ m + e = n + len /\ e \in Nat /\ e <= d
  <2> DEFINE l == d * p
  <2>1. l \in Nat
    BY <1>1, <1>2, SMTT(30)
  <2>2. len = l + e
    BY <1>2
  <2> HIDE DEF l, e
  <2>3. e \in Nat /\ e < d
    BY <1>2 DEF e
  <2> QED
    BY <1>2, <2>1, <2>2, <2>3 DEF l
<1>10. Count128(v[p], m)
  BY <1>8, <1>1
<1> HIDE DEF m, e, Sizes
<1>11. v[k] = ADDINC128(v[p], Bits(e))
  <2>1. k \in 1 .. k /\ k - 1 = p
    BY <1>1
  <2> QED
    BY <1>1, <1>5, <2>1 DEF e
<1>12. Count128(ADDINC128(v[p], Bits(e)), m + e)
  BY <1>9, <1>10, Count128Adds
<1> QED
  BY <1>4, <1>9, <1>11, <1>12 DEF seq

LongCount(n) == << Bits(n) % Word64Mod, (Bits(n) \div Word64Mod) % Word64Mod >>

Holds512(c, name, n) == HoldsBytes(c, name, LongCount(n), n)

LEMMA LongCountIs ==
  ASSUME NEW n \in Nat
  PROVE  /\ \A w : Count128(w, n) <=> w = LongCount(n)
         /\ LongCount(n)[1] = Bits(n) % Word64Mod
         /\ LongCount(n) \in Seq(0 .. Word64Mod - 1) /\ Len(LongCount(n)) = 2
         /\ LongCount(n)[2] = (Bits(n) \div Word64Mod) % Word64Mod
<1> DEFINE a == Bits(n) % Word64Mod
           b == (Bits(n) \div Word64Mod) % Word64Mod
<1>1. a \in 0 .. Word64Mod - 1 /\ b \in 0 .. Word64Mod - 1
  <2> DEFINE x == Bits(n)
             w == Word64Mod
             y == x \div w
  <2>1. x \in Nat /\ w \in Nat /\ w > 0
    BY BitsAre, Widths
  <2> HIDE DEF x, w
  <2>2. y \in Nat /\ x % w \in Nat /\ x % w < w
    BY <2>1, Division
  <2> HIDE DEF y
  <2>3. y % w \in Nat /\ y % w < w
    BY <2>1, <2>2, Division
  <2> QED
    BY <2>1, <2>2, <2>3 DEF x, y, w
<1>2. LongCount(n) = <<a, b>> /\ \A w : Count128(w, n) <=> w = <<a, b>>
  BY DEF LongCount, Count128
<1> HIDE DEF a, b
<1>3. <<a, b>> \in Seq(0 .. Word64Mod - 1)
  BY <1>1
<1> QED
  BY <1>2, <1>3 DEF a, b

\* A block at most is counted at once.
LEMMA LongCountAdds ==
  ASSUME NEW n \in Nat, NEW m \in Nat, m <= BlockLength
  PROVE  ADDINC128(LongCount(n), Bits(m)) = LongCount(n + m)
<1> DEFINE w == LongCount(n)
           x == ADDINC128(w, Bits(m))
<1>1. Count128(w, n)
  BY LongCountIs
<1> HIDE DEF w
<1>2. Count128(x, n + m)
  BY <1>1, Count128Adds
<1> HIDE DEF x
<1>3. n + m \in Nat
  OBVIOUS
<1>4. x = LongCount(n + m)
  BY <1>2, <1>3, LongCountIs
<1> QED
  BY <1>4 DEF x, w

\* An update of SHA-512 on a block boundary.
LEMMA SHA512DirectFeeds ==
  ASSUME NEW name \in Algorithms, NEW n \in Nat, n % BlockLength = 0, NEW len \in Nat,
         NEW b \in Buffers, NEW c,
         c = Context(Compressed(name, n), LongCount(n), b)
  PROVE  Holds512(SHA512Direct(c, Piece(n, len)), name, n + len)
<1> DEFINE st == Compressed(name, n)
           data == Piece(n, len)
           count == LongCount(n)
           whole == WholeBlocks(data)
           processed == IF whole = <<>> THEN c ELSE SHA512Transform(c, data)
           after == Compressed(name, n + len)
           total == LongCount(n + len)
<1>2. data \in Seq(Int) /\ Len(data) = len
  <2>1. n \in Int
    OBVIOUS
  <2> QED
    BY <2>1, PieceSize
<1>3. Scratches \in Buffers
  BY BufferIs DEF Scratches
<1>4. CompressAll(st, data) = after
  BY CompressedOn
<1>5. FoldedCount(count, Append(whole, Rest(data))) = total
  <2> DEFINE sum == FoldedCount(count, Append(whole, Rest(data)))
  <2>1. Count128(count, n) /\ n + len \in Nat
    BY LongCountIs
  <2> HIDE DEF count
  <2>2. Count128(sum, n + len)
    BY <2>1, BitsFolded
  <2> HIDE DEF sum
  <2>3. sum = LongCount(n + len)
    BY <2>1, <2>2, LongCountIs
  <2> QED
    BY <2>3 DEF sum
<1>0. whole = <<>> <=> Len(data) < BlockLength
  BY <1>2, CountedBlocks
<1> HIDE DEF st, count, after, total
<1>6. c = Context(st, count, b)
  BY DEF st, count
<1> HIDE DEF whole
<1>7. PICK x \in Buffers : processed = Context(after, count, x)
  <2>1. CASE Len(data) < BlockLength
    <3> DEFINE s == MessageBlocks(n \div BlockLength)
    <3>1. s \in Blocks /\ st = Chained(name, s)
      BY CompressedIs DEF st
    <3> HIDE DEF s, data
    <3>2. s \o WholeBlocks(data) = s
      BY <1>2, <2>1, <3>1, NoBlock
    <3>3. CompressAll(st, data) = st
      <4>1. CompressAll(Chained(name, s), data) = Chained(name, s \o WholeBlocks(data))
        BY CompressAllIs
      <4> HIDE DEF processed
      <4> QED
        BY <3>1, <3>2, <4>1
    <3>4. st = after
      BY <1>4, <3>3
    <3>5. processed = c
      BY <1>0, <2>1
    <3> QED
      BY <1>6, <3>4, <3>5
  <2>2. CASE ~(Len(data) < BlockLength)
    <3>1. SHA512Transform(c, data) = Context(CompressAll(st, data), count, Scratches)
      BY <1>6, TransformIs
    <3>2. processed = SHA512Transform(c, data)
      BY <1>0, <2>2
    <3> HIDE DEF processed, data
    <3> QED
      BY <1>3, <1>4, <3>1, <3>2
  <2> QED
    BY <2>1, <2>2
<1> DEFINE y == Put(x, 0, Rest(data))
           seq == Append(whole, Rest(data))
<1>8. y \in Buffers /\ HoldsRest(y, n + len)
  BY <1>7, Direct
<1>9. SHA512Direct(c, data) =
        [processed EXCEPT !.buffer = Put(@, 0, Rest(data)),
                          !.bitcount = FoldedCount(@, seq)]
  BY DEF SHA512Direct, FoldedCount, whole
<1> HIDE DEF processed, seq
<1>10. processed.buffer = x /\ processed.bitcount = count
  BY <1>7, ContextIs
<1>11. FoldedCount(count, seq) = total
  BY <1>5 DEF seq
<1>12. SHA512Direct(c, data) = [processed EXCEPT !.buffer = y, !.bitcount = total]
  BY <1>9, <1>10, <1>11
<1> HIDE DEF y, data
<1>13. SHA512Direct(c, data) = Context(after, total, y)
  <2> DEFINE u == [processed EXCEPT !.buffer = y, !.bitcount = total]
  <2>1. u \in [state : {after}, bitcount : {total}, buffer : {y}]
    BY <1>7 DEF Context
  <2> HIDE DEF u
  <2>2. u = [state |-> after, bitcount |-> total, buffer |-> y]
    BY <2>1
  <2> QED
    BY <1>12, <2>2 DEF u, Context
<1> QED
  BY <1>8, <1>13 DEF Holds512, HoldsBytes, after, total, data

\* An update of SHA-512 anywhere.
LEMMA SHA512Feeds ==
  ASSUME NEW name \in Algorithms, NEW c, NEW n \in Nat, Holds512(c, name, n), NEW len \in Nat
  PROVE  Holds512(SHA512Update(c, Piece(n, len)), name, n + len)
<1> DEFINE st == Compressed(name, n)
           data == Piece(n, len)
           w == Word64Mod
           count == LongCount(n)
           r == n % BlockLength
           free == BlockLength - r
           taken == FirstOf(data, free)
<1>2. PICK b \in Buffers : HoldsRest(b, n) /\ c = Context(st, count, b)
  BY DEF Holds512, HoldsBytes
<1>3. data \in Seq(Int) /\ Len(data) = len /\ r \in Nat /\ BlockLength \in Nat /\ r < BlockLength
      /\ w \in Nat /\ w > 0
  <2>1. n \in Int
    OBVIOUS
  <2>2. data \in Seq(Int) /\ Len(data) = len
    BY <2>1, PieceSize
  <2> HIDE DEF data
  <2> QED
    BY <2>2, Widths, Division
<1>4. c.bitcount = count /\ c.buffer = b /\ count[1] = Bits(n) % Word64Mod
  BY <1>2, ContextIs, LongCountIs
<1>5. SHA512UsedSpace(c) = r
  BY <1>4, CountedBytes, Widths DEF SHA512UsedSpace
<1> DEFINE fill == [c EXCEPT !.buffer = Put(@, r, taken),
                              !.bitcount = ADDINC128(@, Bits(Len(taken)))]
           left == SubSeq(data, free + 1, Len(data))
<1>6. SHA512Update(c, data) =
        IF r = 0 THEN SHA512Direct(c, data)
        ELSE IF Len(data) < free THEN fill
        ELSE SHA512Direct(SHA512Transform(fill, fill.buffer), left)
  BY <1>5 DEF SHA512Update
<1> DEFINE y == Put(b, r, taken)
           more == ADDINC128(count, Bits(Len(taken)))
<1>7. fill = Context(st, more, y)
  <2>1. fill = [c EXCEPT !.buffer = y, !.bitcount = more]
    BY <1>4
  <2> HIDE DEF st, count, y, more, fill
  <2> DEFINE u == [c EXCEPT !.buffer = y, !.bitcount = more]
  <2>2. u \in [state : {st}, bitcount : {more}, buffer : {y}]
    BY <1>2 DEF Context
  <2> HIDE DEF u
  <2>3. u = [state |-> st, bitcount |-> more, buffer |-> y]
    BY <2>2
  <2> QED
    BY <2>1, <2>3 DEF u, Context
<1>8. \A m \in Nat : m <= BlockLength => ADDINC128(count, Bits(m)) = LongCount(n + m)
  BY LongCountAdds
<1>9. CASE r = 0
  <2>1. Holds512(SHA512Direct(c, data), name, n + len)
    <3>1. c = Context(Compressed(name, n), LongCount(n), b)
      BY <1>2
    <3> QED
      BY <1>9, <3>1, SHA512DirectFeeds
  <2> QED
    BY <1>6, <1>9, <2>1
<1>10. CASE r # 0 /\ len < free
  <2>1. taken = data
    <3>1. ~(free < Len(data))
      BY <1>3, <1>10
    <3> QED
      BY <3>1 DEF FirstOf
  <2>2. /\ Put(b, r, data) \in Buffers /\ HoldsRest(Put(b, r, data), n + len)
        /\ (n + len) \div BlockLength = n \div BlockLength
    BY <1>2, <1>10, Fits
  <2>3. st = Compressed(name, n + len)
    BY <2>2 DEF Compressed
  <2>4. more = LongCount(n + len)
    BY <1>3, <1>8, <1>10, <2>1
  <2>5. SHA512Update(c, data) = fill
    BY <1>3, <1>6, <1>10
  <2> HIDE DEF more, st, fill, data, taken
  <2>6. SHA512Update(c, data) =
          Context(Compressed(name, n + len), LongCount(n + len), Put(b, r, data))
    BY <1>7, <2>1, <2>3, <2>4, <2>5
  <2> QED
    BY <2>2, <2>6 DEF Holds512, HoldsBytes, data
<1>11. CASE r # 0 /\ len >= free
  <2> DEFINE filled == Put(b, r, Piece(n, free))
             m == n + free
             l == len - free
  <2>1. /\ free \in 1 .. BlockLength /\ m \in Nat /\ l \in Nat
        /\ SubSeq(Piece(n, len), 1, free) = Piece(n, free)
        /\ SubSeq(Piece(n, len), free + 1, len) = Piece(m, l)
        /\ filled \in Buffers
        /\ Append(MessageBlocks(n \div BlockLength), filled) = MessageBlocks(m \div BlockLength)
        /\ m % BlockLength = 0
        /\ m + l = n + len
    BY <1>2, <1>11, Fills
  <2>2. taken = Piece(n, free)
    <3>1. CASE free < Len(data)
      BY <2>1, <3>1 DEF FirstOf
    <3>2. CASE ~(free < Len(data))
      <4>1. free = len
        BY <1>3, <1>11, <2>1, <3>2
      <4> QED
        BY <3>2, <4>1 DEF FirstOf
    <3> QED
      BY <3>1, <3>2
  <2>3. Len(taken) = free /\ free \in Nat
    <3>0. free \in Nat
      BY <2>1
    <3> DEFINE f == free
    <3> HIDE DEF f, taken
    <3>1. Len(Piece(n, f)) = f
      BY <3>0, PieceIs DEF f
    <3> QED
      BY <2>2, <3>0, <3>1 DEF f
  <2>4. more = LongCount(m)
    BY <1>8, <2>1, <2>3
  <2>5. y = filled
    BY <2>2
  <2> DEFINE full == SHA512Transform(fill, fill.buffer)
  <2>6. SHA512Update(c, data) = SHA512Direct(full, Piece(m, l))
    <3>1. left = Piece(m, l)
      BY <1>3, <2>1
    <3>2. ~(len < free)
      BY <1>3, <1>11
    <3> HIDE DEF left, data, fill, free
    <3> QED
      BY <1>3, <1>6, <1>11, <3>1, <3>2
  <2> HIDE DEF fill, more, y, filled, taken, data, m, l
  <2>7. full = Context(CompressAll(st, filled), more, Scratches)
    <3> HIDE DEF st
    <3>1. fill.buffer = y
      BY <1>7, ContextIs
    <3>2. SHA512Transform(fill, y) = Context(CompressAll(st, y), more, Scratches)
      BY <1>7, TransformIs
    <3> QED
      BY <2>5, <3>1, <3>2
  <2>8. CompressAll(st, filled) = Compressed(name, m)
    BY <2>1, CompressedBlock
  <2>9. Scratches \in Buffers
    BY BufferIs DEF Scratches
  <2> HIDE DEF full, st
  <2>10. full = Context(Compressed(name, m), LongCount(m), Scratches)
    BY <2>4, <2>7, <2>8
  <2>11. Holds512(SHA512Direct(full, Piece(m, l)), name, m + l)
    BY <2>1, <2>9, <2>10, SHA512DirectFeeds
  <2> QED
    BY <2>1, <2>6, <2>11 DEF data
<1> QED
  <2>1. len < free \/ len >= free
    BY <1>3
  <2> QED
    BY <1>9, <1>10, <1>11, <2>1 DEF data

\* The digest of SHA-512 is the standard's.
LEMMA SHA512Right ==
  ASSUME NEW name \in Algorithms, NEW c, NEW n \in Nat, Holds512(c, name, n)
  PROVE  \E blocks \in Blocks :
           /\ SHA512Last(c) = Context(Chained(name, blocks), LongCount(n), Scratches)
           /\ \A words \in Nat :
                /\ DigestOf(SHA512Last(c).state, words) =
                     StandardDigest(name, words, n, HighLow(n, Word64Mod))
                /\ DigestOf(SHA512Last(c).state, words) \in
                     [iv : Algorithms, words : Nat, blocks : Seq(Seq(Int))]
<1> DEFINE w == Word64Mod
           x == Bits(n)
           count == LongCount(n)
           st == Compressed(name, n)
           r == n % BlockLength
           m == BlockLength - 1
           field == HighLow(n, Word64Mod)
           p == SHA512Padded(c)
           standard == WholeBlocks(Message(n) \o Padding(n, field))
<1>1. PICK b \in Buffers : HoldsRest(b, n) /\ c = Context(st, count, b)
  BY DEF Holds512, HoldsBytes
<1>3. w \in Nat /\ w > 0 /\ x \in Nat
  BY Widths, BitsAre
<1>4. /\ c.bitcount = count /\ c.buffer = b
      /\ count[1] = x % w /\ count[2] = (x \div w) % w
  BY <1>1, ContextIs, LongCountIs
<1>5. SHA512UsedSpace(c) = r
  BY <1>4, CountedBytes, Widths DEF SHA512UsedSpace
<1>7. field \in Seq(Int) /\ Len(field) = 2
  <2> DEFINE a == LengthWord((x \div w) % w)
             e == LengthWord(x % w)
  <2>1. (x \div w) % w \in Nat /\ x % w \in Nat
    <3> HIDE DEF x, w
    <3>1. x \div w \in Nat /\ x % w \in Nat
      BY <1>3, Division
    <3> DEFINE z == x \div w
    <3> HIDE DEF z
    <3>2. z % w \in Nat
      BY <1>3, <3>1, Division DEF z
    <3> QED
      BY <3>1, <3>2 DEF z
  <2>2. a \in Int /\ e \in Int
    BY <2>1 DEF LengthWord
  <2>3. field = <<a, e>>
    BY DEF HighLow
  <2> HIDE DEF a, e, field
  <2> QED
    BY <2>2, <2>3
<1>8. << LengthWord(c.bitcount[2]), LengthWord(c.bitcount[1]) >> = field
  BY <1>4 DEF HighLow
<1>9. SHA512Last(c) = SHA512Transform(p, Put(p.buffer, ShortBlock, field))
  <2> DEFINE length == << LengthWord(c.bitcount[2]), LengthWord(c.bitcount[1]) >>
  <2>1. SHA512Last(c) = SHA512Transform(p, Put(p.buffer, ShortBlock, length))
    BY DEF SHA512Last
  <2> QED
    BY <1>8, <2>1
<1>10. m \in {ShortBlock, BlockLength - 1}
  OBVIOUS
<1>11. r < ShortBlock => p = [c EXCEPT !.buffer = Put(@, r, Mark(ShortBlock - r - 1))]
  BY <1>5 DEF SHA512Padded, Mark
<1>12. ~(r < ShortBlock) =>
         p = [SHA512Transform(c, [c EXCEPT !.buffer = Put(@, r, Mark(BlockLength - r - 1))].buffer)
                EXCEPT !.buffer = Put(@, 0, Zeroes(m))]
  BY <1>5 DEF SHA512Padded, Mark
<1>13. SHA512Last(c) = SHA256Transform(p, Put(p.buffer, ShortBlock, field))
  BY <1>9, SameTransform
<1>14. ~(r < ShortBlock) =>
         p = [SHA256Transform(c, [c EXCEPT !.buffer = Put(@, r, Mark(BlockLength - r - 1))].buffer)
                EXCEPT !.buffer = Put(@, 0, Zeroes(m))]
  BY <1>12, SameTransform
<1> HIDE DEF w, x, st, m, field, p, count
<1>15. SHA256Transform(p, Put(p.buffer, ShortBlock, field)) =
         Context(Chained(name, standard), count, Scratches)
  <2>1. c = Context(Compressed(name, n), count, b)
    BY <1>1 DEF st
  <2> QED
    BY <1>1, <1>7, <1>10, <1>11, <1>14, <2>1, Ends
<1>16. standard \in Blocks
  <2> DEFINE words == 8
  <2>1. words \in Nat
    OBVIOUS
  <2> HIDE DEF words
  <2> QED
    BY <1>7, <2>1, StandardIs
<1>17. SHA512Last(c) = Context(Chained(name, standard), count, Scratches)
  BY <1>13, <1>15
<1>18. ASSUME NEW words \in Nat
       PROVE  /\ DigestOf(SHA512Last(c).state, words) = StandardDigest(name, words, n, field)
              /\ DigestOf(SHA512Last(c).state, words) \in
                   [iv : Algorithms, words : Nat, blocks : Seq(Seq(Int))]
  <2>1. StandardDigest(name, words, n, field) \in
          [iv : Algorithms, words : Nat, blocks : Seq(Seq(Int))]
    BY <1>7, StandardIs
  <2> HIDE DEF standard
  <2>2. SHA512Last(c).state = Chained(name, standard)
    BY <1>17, ContextIs
  <2>3. DigestOf(Chained(name, standard), words) =
         [iv |-> name, words |-> words, blocks |-> standard]
    BY ChainedIs
  <2>4. DigestOf(SHA512Last(c).state, words) = StandardDigest(name, words, n, field)
    BY <2>2, <2>3 DEF StandardDigest, standard
  <2> QED
    BY <2>1, <2>4
<1> HIDE DEF standard
<1> QED
  BY <1>16, <1>17, <1>18 DEF field, count

-------------------------------------------------------------------------------
(* SHA-1: one byte after the other. *)

Hashed(h, low, high, i, b, corrupted) ==
  [ Intermediate_Hash |-> h, Length_Low |-> low, Length_High |-> high,
    Message_Block_Index |-> i, Message_Block |-> b,
    Computed |-> FALSE, Corrupted |-> corrupted ]

LEMMA MessageBlockField ==
  ASSUME NEW h, NEW low, NEW high, NEW i, NEW b, NEW corrupted, NEW c,
         c = Hashed(h, low, high, i, b, corrupted), NEW x
  PROVE  [c EXCEPT !.Message_Block = x] = Hashed(h, low, high, i, x, corrupted)
<1> DEFINE u == [c EXCEPT !.Message_Block = x]
<1>1. u \in [ Intermediate_Hash : {h}, Length_Low : {low}, Length_High : {high},
              Message_Block_Index : {i}, Message_Block : {x},
              Computed : {FALSE}, Corrupted : {corrupted} ]
  BY DEF Hashed
<1> HIDE DEF u
<1>2. u = [ Intermediate_Hash |-> h, Length_Low |-> low, Length_High |-> high,
            Message_Block_Index |-> i, Message_Block |-> x,
            Computed |-> FALSE, Corrupted |-> corrupted ]
  BY <1>1
<1> QED
  BY <1>2 DEF u, Hashed

\* SHA1ProcessMessageBlock(), field by field.
LEMMA ProcessIs ==
  ASSUME NEW h, NEW low, NEW high, NEW i, NEW b, NEW corrupted, NEW c,
         c = Hashed(h, low, high, i, b, corrupted)
  PROVE  SHA1ProcessMessageBlock(c) = Hashed(Compress(h, b), low, high, 0, b, corrupted)
<1> DEFINE x == Compress(h, b)
           u == [c EXCEPT !.Intermediate_Hash = x, !.Message_Block_Index = 0]
<1>1. c.Intermediate_Hash = h /\ c.Message_Block = b
  <2> HIDE DEF u
  <2> QED
    BY DEF Hashed
<1>2. SHA1ProcessMessageBlock(c) = u
  BY <1>1 DEF SHA1ProcessMessageBlock
<1> HIDE DEF x
<1>3. u \in [ Intermediate_Hash : {x}, Length_Low : {low}, Length_High : {high},
              Message_Block_Index : {0}, Message_Block : {b},
              Computed : {FALSE}, Corrupted : {corrupted} ]
  BY DEF Hashed
<1> HIDE DEF u
<1>4. u = [ Intermediate_Hash |-> x, Length_Low |-> low, Length_High |-> high,
            Message_Block_Index |-> 0, Message_Block |-> b,
            Computed |-> FALSE, Corrupted |-> corrupted ]
  BY <1>3
<1> QED
  BY <1>2, <1>4 DEF x, Hashed

\* The counter after one more byte: the high word takes the carry when the low one is 0.
LEMMA OneMoreByte ==
  ASSUME NEW n \in Nat, Bits(n) < Word64Mod
  PROVE  LET low == ((Bits(n) % UIntMod) + ByteBits) % UIntMod
             high == IF low = 0 THEN ((Bits(n) \div UIntMod) + 1) % UIntMod
                     ELSE Bits(n) \div UIntMod
         IN  /\ low \in 0 .. UIntMod - 1 /\ high \in 0 .. UIntMod - 1
             /\ (low = 0 /\ high = 0) <=> Bits(n + 1) >= Word64Mod
             /\ Bits(n + 1) < Word64Mod =>
                  low = Bits(n + 1) % UIntMod /\ high = Bits(n + 1) \div UIntMod
<1> DEFINE u == UIntMod
           y == ByteBits
           x == Bits(n)
           p == x \div u
           m == x % u
           low == (m + y) % u
           high == IF low = 0 THEN (p + 1) % u ELSE p
           one == 1
           z == Bits(n + one)
<1>1. u \in Nat /\ u > 0 /\ y \in Nat /\ y > 0 /\ y < u /\ BlockLength \in Nat /\ BlockLength > 0
  <2>1. /\ u \in Nat /\ u > 0 /\ y \in Nat /\ y > 0 /\ BlockLength \in Nat /\ BlockLength > 0
        /\ u > BlockLength * y
    BY Widths, HashAssumption
  <2>2. BlockLength * y >= y
    <3>1. (BlockLength - 1) * y >= 0
      BY <2>1, SMTT(30)
    <3>2. (BlockLength - 1) * y = BlockLength * y - y
      BY <2>1, SMTT(30)
    <3> DEFINE w == BlockLength * y
    <3>3. w \in Int
      BY <2>1
    <3> HIDE DEF w
    <3>4. w - y >= 0
      BY <3>1, <3>2 DEF w
    <3> QED
      BY <2>1, <3>3, <3>4 DEF w
  <2> QED
    BY <2>1, <2>2
<1>2. Bits(one) = y
  BY <1>1 DEF Bits
<1>3. one \in Nat /\ n + one \in Nat
  OBVIOUS
<1> HIDE DEF one
<1>4. x \in Nat /\ z = x + y /\ z \in Nat
  <2>1. Bits(n) \in Nat /\ Bits(n + one) = Bits(n) + Bits(one)
    BY <1>3, BitsAre
  <2> QED
    BY <1>1, <1>2, <2>1
<1>5. /\ (m + y) % u = z % u
      /\ z \div u = p + (y \div u) + (IF z % u < y % u THEN 1 ELSE 0)
  <2> HIDE DEF u, y, x, z
  <2> QED
    BY <1>1, <1>4, SumOfRemainders, ZenonT(30)
<1>6. z % y = 0
  <2>1. z = y * (n + one) + 0
    BY <1>1, <1>3, SMTT(30) DEF Bits
  <2> DEFINE k == n + one
  <2>2. z = y * k + 0 /\ k \in Int /\ z \in Int /\ y \in Int
    BY <1>1, <1>3, <1>4, <2>1
  <2> HIDE DEF k, y, z
  <2> QED
    BY <1>1, <2>2, QuotientIs
<1>7. (z % u) % y = 0
  <2> DEFINE a == BlockLength
             c == u \div (a * y)
             e == a * c
  <2>1. a * y \in Nat /\ a * y > 0
    BY <1>1, SMTT(30)
  <2>2. c \in Nat /\ u = (a * y) * c
    <3> DEFINE f == a * y
    <3>1. u % f = 0 /\ f \in Nat /\ f > 0
      BY <2>1, HashAssumption
    <3> HIDE DEF f, u
    <3>2. u \div f \in Nat /\ u = f * (u \div f) + (u % f) /\ f * (u \div f) \in Nat
      BY <1>1, <3>1, Division
    <3> DEFINE g == f * (u \div f)
    <3>3. u = g + 0 /\ g \in Nat
      BY <3>1, <3>2
    <3> HIDE DEF g
    <3>4. u = g
      BY <3>3
    <3> QED
      BY <3>2, <3>4 DEF f, g
  <2> HIDE DEF c
  <2>3. u = y * e
    BY <1>1, <2>2, SMTT(30)
  <2>4. e \in Nat
    BY <1>1, <2>2, SMTT(30)
  <2>5. e > 0
    <3>1. e = 0 => y * e = 0
      BY <1>1
    <3> HIDE DEF e
    <3>2. e # 0
      <4> DEFINE g == y * e
      <4>1. u = g /\ (e = 0 => g = 0)
        BY <2>3, <3>1
      <4> HIDE DEF g
      <4> QED
        BY <1>1, <4>1
    <3> QED
      BY <2>4, <3>2
  <2> HIDE DEF e, u, y, z
  <2>6. Multiple(u, y)
    BY <2>3, <2>4, <2>5 DEF Multiple
  <2>7. (z % u) % y = z % y
    BY <1>1, <1>4, <2>6, RemainderOfRemainder
  <2> QED
    BY <1>6, <2>7
<1>8. y \div u = 0 /\ y % u = y
  <2> HIDE DEF u, y
  <2> QED
    BY <1>1, Below
<1>9. low = z % u /\ low \in Nat /\ low < u
  <2>1. low = z % u
    BY <1>5
  <2>2. z % u \in Nat /\ z % u < u
    <3> HIDE DEF u, z
    <3> QED
      BY <1>1, <1>4, Division
  <2> QED
    BY <2>1, <2>2
<1>10. low < y <=> low = 0
  <2> HIDE DEF low, y
  <2>1. low < y => low % y = low
    BY <1>1, <1>9, Below
  <2>2. low % y = 0
    BY <1>7, <1>9 DEF y
  <2> QED
    BY <1>1, <1>9, <2>1, <2>2
<1>11. p \in 0 .. u - 1 /\ x = u * p + m /\ m \in Nat /\ m < u /\ u * p \in Nat
  <2>1. x < Word64Mod
    OBVIOUS
  <2> HIDE DEF x
  <2>2. p \in 0 .. u - 1
    BY <1>4, <2>1, ShortCount
  <2>3. x = u * p + m /\ m \in Nat /\ m < u /\ u * p \in Nat
    BY <1>1, <1>4, Division
  <2> QED
    BY <2>2, <2>3
<1>12. z \div u = p + (IF low = 0 THEN 1 ELSE 0)
  <2>1. z % u = low /\ y % u = y
    BY <1>8, <1>9
  <2> HIDE DEF low, p
  <2> QED
    BY <1>5, <1>8, <1>10, <1>11, <2>1
<1> DEFINE q == z \div u
<1>13. z = u * q + low /\ q \in Nat
  <2> HIDE DEF u, z
  <2>1. z = u * (z \div u) + (z % u) /\ z \div u \in Nat
    BY <1>1, <1>4, Division
  <2> QED
    BY <1>9, <2>1 DEF u, z
<1>14. z >= Word64Mod <=> q >= u
  <2>1. Word64Mod = u * u
    BY DEF Word64Mod
  <2> HIDE DEF u, q, z, low
  <2>2. u * q - u * u = u * (q - u)
    BY <1>1, <1>13, SMTT(30)
  <2>3. q >= u => u * (q - u) >= 0
    BY <1>1, <1>13, SMTT(30)
  <2>4. u * (u - q) = u * u - u * q /\ (u - q >= 1 => u * (u - q) >= u)
    BY <1>1, <1>13, SMTT(30)
  <2> DEFINE a == u * q
             b == u * u
             d == u * (q - u)
             e == u * (u - q)
  <2>5. a \in Int /\ b \in Int /\ d \in Int /\ e \in Int
    BY <1>1, <1>13
  <2>6. /\ Word64Mod = b /\ a - b = d /\ (q >= u => d >= 0) /\ e = b - a
        /\ (u - q >= 1 => e >= u) /\ z = a + low
    BY <1>13, <2>1, <2>2, <2>3, <2>4
  <2> HIDE DEF a, b, d, e
  <2> QED
    BY <1>1, <1>9, <1>13, <2>5, <2>6
<1> HIDE DEF low, p, z, x
<1>15. q = p + (IF low = 0 THEN 1 ELSE 0)
  BY <1>12
<1> HIDE DEF q
<1>16. CASE low # 0
  BY <1>1, <1>9, <1>11, <1>13, <1>14, <1>15, <1>16 DEF q, low, x, p, z, one, m
<1>17. CASE low = 0
  <2>1. q = p + 1 /\ high = (p + 1) % u
    BY <1>15, <1>17
  <2>2. p + 1 = u => (p + 1) % u = 0
    <3>1. u = u * 1 + 0 /\ u \in Int /\ 1 \in Int /\ 0 \in Int
      BY <1>1
    <3> HIDE DEF u
    <3>2. u % u = 0
      BY <1>1
    <3> QED
      BY <3>2
  <2>3. p + 1 < u => (p + 1) % u = p + 1
    <3> DEFINE k == p + 1
    <3>1. k \in Nat
      BY <1>1, <1>11
    <3> HIDE DEF k, u
    <3>2. k < u => k % u = k
      BY <1>1, <3>1, Below
    <3> QED
      BY <3>2 DEF k
  <2>4. p + 1 = u \/ p + 1 < u
    BY <1>1, <1>11
  <2>5. high \in 0 .. u - 1 /\ (high = 0 <=> q >= u) /\ (q < u => high = q)
    <3> HIDE DEF high
    <3> QED
      BY <1>1, <1>11, <2>1, <2>2, <2>3, <2>4
  <2>6. z \in Int /\ Word64Mod \in Int /\ q \in Int
    BY <1>4, <1>13, Widths
  <2> HIDE DEF high
  <2>7. /\ low \in 0 .. u - 1 /\ high \in 0 .. u - 1
        /\ (low = 0 /\ high = 0) <=> z >= Word64Mod
        /\ z < Word64Mod => low = z % u /\ high = z \div u
    <3>1. q = z \div u
      BY DEF q
    <3> QED
      BY <1>1, <1>9, <1>14, <1>17, <2>5, <2>6, <3>1
  <2> QED
    BY <2>7 DEF high, low, x, p, z, one, m
<1> QED
  BY <1>16, <1>17

HoldsShort(c, n) ==
  \E b \in Buffers :
    /\ HoldsRest(b, n)
    /\ c = Hashed(Compressed("sha1", n), Bits(n) % UIntMod, Bits(n) \div UIntMod,
                  n % BlockLength, b, shaSuccess)

HoldsTooMuch(c) ==
  \E h \in ChainingValue, low, high \in 0 .. UIntMod - 1, i \in 0 .. BlockLength, b \in Buffers :
    c = Hashed(h, low, high, i, b, shaTooLong)

Holds1(c, n) ==
  /\ Bits(n) < Word64Mod => HoldsShort(c, n)
  /\ Bits(n) >= Word64Mod => HoldsTooMuch(c)

\* A byte that is stored is a piece of one byte.
LEMMA StoreByte ==
  ASSUME NEW b \in Buffers, NEW n \in Nat, NEW r \in 0 .. BlockLength - 1
  PROVE  [b EXCEPT ![r + 1] = n + 1] = Put(b, r, Piece(n, 1))
<1>1. BlockLength \in Nat /\ b = [k \in 1 .. BlockLength |-> b[k]] /\ DOMAIN b = 1 .. BlockLength
  BY Widths DEF Buffers
<1>2. DOMAIN Piece(n, 1) = {1} /\ Piece(n, 1)[1] = n + 1
  <2>1. 1 .. 1 = {1}
    OBVIOUS
  <2> QED
    BY <2>1 DEF Piece
<1> DEFINE p == Piece(n, 1)
<1> HIDE DEF p
<1>3. Put(b, r, p) = [k \in 1 .. BlockLength |-> IF k - r \in {1} THEN p[k - r] ELSE b[k]]
  BY <1>1, <1>2 DEF Put, p
<1>4. \A k \in 1 .. BlockLength :
        (IF k - r \in {1} THEN p[k - r] ELSE b[k]) = [b EXCEPT ![r + 1] = n + 1][k]
  <2> TAKE k \in 1 .. BlockLength
  <2>1. CASE k = r + 1
    <3>1. k - r = 1
      BY <2>1
    <3> QED
      BY <1>1, <1>2, <2>1, <3>1 DEF p
  <2>2. CASE k # r + 1
    <3>1. k - r # 1
      BY <1>1, <2>2
    <3> QED
      BY <1>1, <2>2, <3>1
  <2> QED
    BY <2>1, <2>2
<1>5. [b EXCEPT ![r + 1] = n + 1] = [k \in 1 .. BlockLength |-> [b EXCEPT ![r + 1] = n + 1][k]]
  BY <1>1
<1> QED
  BY <1>3, <1>4, <1>5 DEF p

\* What a loop turn of SHA1Input() stores and counts.
Stores(low, high, r, b, byte, more, carried, corrupted, x) ==
  /\ more = (low + ByteBits) % UIntMod
  /\ carried = (IF more = 0 THEN (high + 1) % UIntMod ELSE high)
  /\ corrupted = (IF more = 0 /\ carried = 0 THEN shaTooLong ELSE shaSuccess)
  /\ x = [b EXCEPT ![r + 1] = byte]

\* A loop turn of SHA1Input(), on a message that is not too long so far.
LEMMA InputByteIs ==
  ASSUME NEW h, NEW low, NEW high, NEW r, NEW b, NEW c, NEW byte,
         NEW more, NEW carried, NEW corrupted, NEW x,
         c = Hashed(h, low, high, r, b, shaSuccess),
         Stores(low, high, r, b, byte, more, carried, corrupted, x)
  PROVE  InputByte(c, byte) =
           IF r + 1 = BlockLength
           THEN Hashed(Compress(h, x), more, carried, 0, x, corrupted)
           ELSE Hashed(h, more, carried, r + 1, x, corrupted)
<1> DEFINE i == r + 1
           stored == [c EXCEPT
                   !.Message_Block[c.Message_Block_Index + 1] = byte,
                   !.Message_Block_Index = @ + 1,
                   !.Length_Low = more, !.Length_High = carried,
                   !.Corrupted = IF more = 0 /\ carried = 0 THEN shaTooLong ELSE @]
<1>1. /\ c.Intermediate_Hash = h /\ c.Length_Low = low /\ c.Length_High = high
      /\ c.Message_Block_Index = r /\ c.Message_Block = b
      /\ c.Computed = FALSE /\ c.Corrupted = shaSuccess
  <2> HIDE DEF stored
  <2> QED
    BY DEF Hashed
<1>2. InputByte(c, byte) =
        IF c.Corrupted # shaSuccess THEN c
        ELSE IF stored.Message_Block_Index = BlockLength
        THEN SHA1ProcessMessageBlock(stored)
        ELSE stored
  BY <1>1 DEF InputByte, Stores
<1>3. stored = [c EXCEPT !.Message_Block = x, !.Message_Block_Index = i,
                         !.Length_Low = more, !.Length_High = carried,
                         !.Corrupted = corrupted]
  BY <1>1 DEF Stores
<1> HIDE DEF i, stored
<1>4. stored = Hashed(h, more, carried, i, x, corrupted)
  <2> DEFINE u == [c EXCEPT !.Message_Block = x, !.Message_Block_Index = i,
                            !.Length_Low = more, !.Length_High = carried,
                            !.Corrupted = corrupted]
  <2>1. u \in [ Intermediate_Hash : {h}, Length_Low : {more}, Length_High : {carried},
                Message_Block_Index : {i}, Message_Block : {x},
                Computed : {FALSE}, Corrupted : {corrupted} ]
    BY DEF Hashed
  <2> HIDE DEF u
  <2>2. u = [ Intermediate_Hash |-> h, Length_Low |-> more, Length_High |-> carried,
              Message_Block_Index |-> i, Message_Block |-> x,
              Computed |-> FALSE, Corrupted |-> corrupted ]
    BY <2>1
  <2> QED
    BY <1>3, <2>2 DEF u, Hashed
<1>5. stored.Message_Block_Index = i
  BY <1>4 DEF Hashed
<1>6. SHA1ProcessMessageBlock(stored) = Hashed(Compress(h, x), more, carried, 0, x, corrupted)
  BY <1>4, ProcessIs
<1> QED
  BY <1>1, <1>2, <1>4, <1>5, <1>6 DEF i

\* A byte more for SHA-1.
LEMMA ByteFeeds ==
  ASSUME NEW n \in Nat, NEW c, Holds1(c, n)
  PROVE  Holds1(InputByte(c, n + 1), n + 1)
<1> DEFINE x == Bits(n)
           u == UIntMod
           low == x % u
           high == x \div u
           more == (low + ByteBits) % u
           carried == IF more = 0 THEN (high + 1) % u ELSE high
           corrupted == IF more = 0 /\ carried = 0 THEN shaTooLong ELSE shaSuccess
           name == "sha1"
           h == Compressed(name, n)
           r == n % BlockLength
           byte == n + 1
           one == 1
<1>1. /\ x \in Nat /\ Bits(n + 1) \in Nat /\ x <= Bits(n + 1) /\ Word64Mod \in Nat
      /\ r \in Nat /\ r < BlockLength /\ BlockLength \in Nat /\ BlockLength > 0
      /\ n + 1 \in Nat /\ n \div BlockLength \in Nat
  <2>1. Bits(n) \in Nat /\ Bits(n) <= Bits(n + one) /\ one \in Nat /\ n + one \in Nat
    <3>1. one \in Nat
      OBVIOUS
    <3> HIDE DEF one
    <3> QED
      BY <3>1, BitsAre
  <2>2. Bits(n + one) \in Nat
    BY <2>1, BitsAre
  <2> QED
    BY <2>1, <2>2, Widths, Division
<1>2. CASE x >= Word64Mod
  <2>1. PICK h_1 \in ChainingValue, low_1, high_1 \in 0 .. UIntMod - 1, i \in 0 .. BlockLength,
             b \in Buffers : c = Hashed(h_1, low_1, high_1, i, b, shaTooLong)
    BY <1>2 DEF Holds1, HoldsTooMuch
  <2>2. c.Corrupted = shaTooLong /\ shaTooLong # shaSuccess
    BY <2>1 DEF Hashed, shaTooLong, shaSuccess
  <2>3. InputByte(c, n + 1) = c
    BY <2>2 DEF InputByte
  <2>4. Bits(n + 1) >= Word64Mod /\ ~(Bits(n + 1) < Word64Mod)
    BY <1>1, <1>2
  <2> QED
    BY <1>2, <2>3, <2>4 DEF Holds1
<1>3. CASE x < Word64Mod
  <2>1. PICK b \in Buffers : /\ HoldsRest(b, n)
                             /\ c = Hashed(h, low, high, r, b, shaSuccess)
    BY <1>3 DEF Holds1, HoldsShort
  <2>2. /\ more \in 0 .. UIntMod - 1 /\ carried \in 0 .. UIntMod - 1
        /\ (more = 0 /\ carried = 0) <=> Bits(n + 1) >= Word64Mod
        /\ Bits(n + 1) < Word64Mod =>
             more = Bits(n + 1) % UIntMod /\ carried = Bits(n + 1) \div UIntMod
    BY <1>3, OneMoreByte
  <2> DEFINE y == [b EXCEPT ![r + 1] = byte]
             st == IF r + 1 = BlockLength THEN Compress(h, y) ELSE h
             i == IF r + 1 = BlockLength THEN 0 ELSE r + 1
  <2>3. InputByte(c, byte) = Hashed(st, more, carried, i, y, corrupted)
    <3> DEFINE bad == corrupted
               full == Compress(h, y)
    <3>1. Stores(low, high, r, b, byte, more, carried, bad, y)
      BY DEF Stores
    <3> HIDE DEF bad, h, low, high, r, byte, more, carried, y, full
    <3>2. InputByte(c, byte) =
            IF r + 1 = BlockLength
            THEN Hashed(Compress(h, y), more, carried, 0, y, bad)
            ELSE Hashed(h, more, carried, r + 1, y, bad)
      BY <2>1, <3>1, InputByteIs
    <3> QED
      BY <3>2 DEF bad, full
  <2>4. name \in Algorithms
    BY Names
  <2>5. y = Put(b, r, Piece(n, 1))
    BY <1>1, StoreByte
  <2>6. /\ y \in Buffers /\ HoldsRest(y, n + 1)
        /\ st = Compressed(name, n + 1) /\ i = (n + 1) % BlockLength
    <3>1. CASE r + 1 < BlockLength
      <4>1. one \in Nat /\ one < BlockLength - (n % BlockLength)
        BY <1>1, <3>1
      <4> HIDE DEF one
      <4>2. /\ Put(b, r, Piece(n, one)) \in Buffers
            /\ HoldsRest(Put(b, r, Piece(n, one)), n + one)
            /\ (n + one) \div BlockLength = n \div BlockLength
            /\ (n + one) % BlockLength = r + one
        BY <2>1, <4>1, Fits
      <4>3. i = r + 1 /\ st = h
        BY <1>1, <3>1
      <4>4. Compressed(name, n + one) = h
        BY <4>2 DEF Compressed
      <4> HIDE DEF y, st, i
      <4> QED
        BY <2>5, <4>2, <4>3, <4>4 DEF one
    <3>2. CASE r + 1 = BlockLength
      <4>0. /\ one \in Nat /\ one >= BlockLength - (n % BlockLength)
            /\ BlockLength - (n % BlockLength) = one
        BY <1>1, <3>2
      <4> DEFINE free == BlockLength - (n % BlockLength)
                 filled == Put(b, n % BlockLength, Piece(n, free))
      <4>1. /\ filled \in Buffers
            /\ Append(MessageBlocks(n \div BlockLength), filled) =
                 MessageBlocks((n + free) \div BlockLength)
            /\ (n + free) % BlockLength = 0
        <5> HIDE DEF one
        <5> QED
          BY <2>1, <4>0, Fills
      <4>2. free = 1 /\ filled = y /\ n + free = n + 1
        BY <2>5, <4>0
      <4>3. i = 0 /\ st = Compress(h, y)
        BY <3>2
      <4> HIDE DEF y, st, i
      <4>4. (n + 1) % BlockLength = 0
        BY <4>1, <4>2
      <4>5. HoldsRest(y, n + 1)
        BY <4>4 DEF HoldsRest
      <4>6. Compress(h, y) = Compressed(name, n + 1)
        <5> DEFINE s == MessageBlocks(n \div BlockLength)
                   t == MessageBlocks((n + 1) \div BlockLength)
        <5>1. h = Chained(name, s) /\ Compressed(name, n + 1) = Chained(name, t)
          BY <1>1, <2>4, CompressedIs
        <5>2. Append(s, y) = t
          BY <4>1, <4>2
        <5> HIDE DEF s, t, h
        <5>3. Compress(Chained(name, s), y) = Chained(name, Append(s, y))
          BY CompressIs
        <5> QED
          BY <5>1, <5>2, <5>3
      <4> QED
        BY <4>1, <4>2, <4>3, <4>4, <4>5, <4>6
    <3> QED
      BY <1>1, <3>1, <3>2
  <2> HIDE DEF y, st, i, more, carried
  <2>7. CASE Bits(n + 1) < Word64Mod
    <3>1. corrupted = shaSuccess
      BY <1>1, <2>2, <2>7
    <3> DEFINE m == n + 1
    <3>2. InputByte(c, byte) =
            Hashed(Compressed("sha1", m), Bits(m) % UIntMod, Bits(m) \div UIntMod,
                   m % BlockLength, y, shaSuccess)
      BY <2>2, <2>3, <2>6, <2>7, <3>1 DEF name
    <3>3. ~(Bits(m) >= Word64Mod)
      BY <1>1, <2>7
    <3> HIDE DEF m
    <3>4. HoldsShort(InputByte(c, byte), m)
      BY <2>6, <3>2 DEF HoldsShort, m
    <3> QED
      BY <3>3, <3>4 DEF Holds1, m
  <2>8. CASE Bits(n + 1) >= Word64Mod
    <3>1. corrupted = shaTooLong
      BY <2>2, <2>8
    <3>2. st \in ChainingValue
      BY <1>1, <2>4, <2>6, CompressedIs
    <3>3. i \in 0 .. BlockLength
      BY <1>1, <2>6, Division
    <3>4. HoldsTooMuch(InputByte(c, byte))
      BY <2>2, <2>3, <2>6, <3>1, <3>2, <3>3 DEF HoldsTooMuch
    <3>5. ~(Bits(n + 1) < Word64Mod)
      BY <1>1, <2>8
    <3> QED
      BY <3>4, <3>5 DEF Holds1
  <2> QED
    BY <1>1, <2>7, <2>8
<1> QED
  BY <1>1, <1>2, <1>3

\* An update of SHA-1.
LEMMA SHA1Feeds ==
  ASSUME NEW c, NEW n \in Nat, Holds1(c, n), NEW len \in Nat
  PROVE  Holds1(SHA1Input(c, Piece(n, len)), n + len)
<1> DEFINE bytes == Piece(n, len)
           loop == "bytes"
<1>1. /\ bytes = <<>> <=> len = 0
      /\ DOMAIN bytes = 1 .. len /\ \A k \in 1 .. len : bytes[k] = n + k
  <2>1. n \in Int
    OBVIOUS
  <2> QED
    BY <2>1, PieceIs
<1>2. c.Computed = FALSE
  <2>1. ASSUME NEW h, NEW low, NEW high, NEW i, NEW b, NEW corrupted,
               c = Hashed(h, low, high, i, b, corrupted)
        PROVE  c.Computed = FALSE
    BY <2>1 DEF Hashed
  <2>2. HoldsShort(c, n) \/ HoldsTooMuch(c)
    <3>1. Bits(n) \in Nat /\ Word64Mod \in Nat
      BY Widths, BitsAre
    <3>2. Bits(n) < Word64Mod \/ Bits(n) >= Word64Mod
      BY <3>1
    <3> QED
      BY <3>2 DEF Holds1
  <2> QED
    BY <2>1, <2>2 DEF HoldsShort, HoldsTooMuch
<1>3. \A a, x : Turn(loop, a, x) = InputByte(a, x)
  BY Turns
<1> HIDE DEF bytes, loop
<1>4. CASE len = 0
  <2>1. SHA1Input(c, bytes) = c
    BY <1>1, <1>4 DEF SHA1Input
  <2>2. n + len = n
    BY <1>4
  <2> QED
    BY <2>1, <2>2 DEF bytes
<1>5. CASE len # 0
  <2>1. PICK v : Steps(v, loop, c, bytes, len) /\ FoldLeft(InputByte, c, bytes) = v[len]
    BY <1>1, ByteSteps DEF loop
  <2>2. SHA1Input(c, bytes) = v[len]
    <3>1. SHA1Input(c, bytes) = FoldLeft(InputByte, c, bytes)
      BY <1>1, <1>2, <1>5 DEF SHA1Input
    <3> QED
      BY <2>1, <3>1
  <2>3. v[0] = c /\ \A k \in 1 .. len : v[k] = InputByte(v[k - 1], n + k)
    BY <1>1, <1>3, <2>1 DEF Steps
  <2> DEFINE Sizes == {k \in Nat : k <= len => Holds1(v[k], n + k)}
  <2>4. 0 \in Sizes
    BY <2>3
  <2>5. ASSUME NEW k \in Nat, k \in Sizes PROVE k + 1 \in Sizes
    <3>1. ASSUME k + 1 <= len PROVE Holds1(v[k + 1], n + (k + 1))
      <4> DEFINE m == n + k
                 j == k + 1
      <4>1. m \in Nat /\ n + j = m + 1 /\ j \in 1 .. len /\ j - 1 = k /\ Holds1(v[k], m)
        BY <2>5, <3>1
      <4> HIDE DEF m, j
      <4>2. v[j] = InputByte(v[k], m + 1)
        BY <2>3, <4>1
      <4>3. Holds1(InputByte(v[k], m + 1), m + 1)
        BY <4>1, ByteFeeds
      <4> QED
        BY <4>1, <4>2, <4>3 DEF j
    <3> QED
      BY <3>1
  <2>6. len \in Sizes
    <3> HIDE DEF Sizes
    <3>1. Nat \subseteq Sizes
      BY <2>4, <2>5, AllSizes
    <3> QED
      BY <3>1
  <2> QED
    BY <2>2, <2>6 DEF bytes
<1> QED
  BY <1>4, <1>5

LEMMA PutMessageBlock ==
  ASSUME NEW h, NEW low, NEW high, NEW i, NEW b, NEW corrupted, NEW c,
         c = Hashed(h, low, high, i, b, corrupted), NEW at, NEW bytes
  PROVE  [c EXCEPT !.Message_Block = Put(@, at, bytes)] =
           Hashed(h, low, high, i, Put(b, at, bytes), corrupted)
<1> DEFINE x == Put(b, at, bytes)
<1>1. c.Message_Block = b
  BY DEF Hashed
<1>2. [c EXCEPT !.Message_Block = Put(@, at, bytes)] = [c EXCEPT !.Message_Block = x]
  BY <1>1
<1> HIDE DEF x
<1>3. [c EXCEPT !.Message_Block = x] = Hashed(h, low, high, i, x, corrupted)
  BY MessageBlockField
<1> QED
  BY <1>2, <1>3 DEF x

\* The block that ends a message gets the length field.
LEMMA EndsWith ==
  ASSUME NEW name, NEW blocks, NEW low, NEW high, NEW i, NEW b, NEW corrupted, NEW c,
         c = Hashed(Chained(name, blocks), low, high, i, b, corrupted), NEW lengthField
  PROVE  SHA1ProcessMessageBlock([c EXCEPT !.Message_Block = Put(@, ShortBlock, lengthField)]) =
           Hashed(Chained(name, Append(blocks, Put(b, ShortBlock, lengthField))),
                  low, high, 0, Put(b, ShortBlock, lengthField), corrupted)
<1> DEFINE h == Chained(name, blocks)
           x == Put(b, ShortBlock, lengthField)
           at == ShortBlock
           d == [c EXCEPT !.Message_Block = Put(@, at, lengthField)]
<1>1. Compress(h, x) = Chained(name, Append(blocks, x))
  BY CompressIs
<1>2. d = Hashed(h, low, high, i, x, corrupted)
  <2> HIDE DEF h, at
  <2>1. d = Hashed(h, low, high, i, Put(b, at, lengthField), corrupted)
    BY PutMessageBlock DEF h
  <2> QED
    BY <2>1 DEF at
<1> HIDE DEF h, d, x
<1>3. SHA1ProcessMessageBlock(d) = Hashed(Compress(h, x), low, high, 0, x, corrupted)
  BY <1>2, ProcessIs
<1> QED
  BY <1>1, <1>3 DEF d, x

\* The two last blocks, the second of them written over the first.
LEMMA TwoLastOfBuffer ==
  ASSUME NEW n \in Nat, NEW b \in Buffers, HoldsRest(b, n),
         NEW lengthField \in Seq(Int), Len(lengthField) = 2, ~(n % BlockLength < ShortBlock),
         NEW marked, marked = Put(b, n % BlockLength, Mark(BlockLength - (n % BlockLength) - 1))
  PROVE  /\ marked \in Buffers /\ Put(marked, 0, Zeroes(ShortBlock)) \in Buffers
         /\ Append(MessageBlocks(n \div BlockLength), marked) \in Blocks
         /\ Append(Append(MessageBlocks(n \div BlockLength), marked),
                   Put(Put(marked, 0, Zeroes(ShortBlock)), ShortBlock, lengthField)) =
              WholeBlocks(Message(n) \o Padding(n, lengthField))
<1> DEFINE m == ShortBlock
           first == MessageBlocks(n \div BlockLength)
           r == n % BlockLength
           last == Put(Put(marked, 0, Zeroes(m)), ShortBlock, lengthField)
<1>1. m \in {ShortBlock, BlockLength - 1}
  OBVIOUS
<1> HIDE DEF m
<1>2. Put(b, r, Mark(BlockLength - r - 1)) \in Buffers
  BY <1>1, LastBlocks
<1>3. marked \in Buffers
  BY <1>2
<1>4. Put(marked, 0, Zeroes(m)) \in Buffers /\ last \in Buffers
  BY <1>1, <1>3, LastBlocks
<1>5. Append(first, Put(b, r, Mark(BlockLength - r - 1))) \in Blocks
  BY <1>1, <1>3, LastBlocks
<1>6. Append(Append(first, Put(b, r, Mark(BlockLength - r - 1))), last) =
        WholeBlocks(Message(n) \o Padding(n, lengthField))
  BY <1>1, <1>3, <1>4, <1>5, LastBlocks
<1> QED
  BY <1>3, <1>4, <1>5, <1>6 DEF m

Field(high, low) == << LengthWord(high), LengthWord(low) >>

\* SHA1PadMessage() of a message that is not too long.
LEMMA SHA1Pads ==
  ASSUME NEW n \in Nat, NEW name \in Algorithms, NEW low, NEW high, NEW b \in Buffers,
         HoldsRest(b, n), NEW corrupted, NEW c,
         c = Hashed(Compressed(name, n), low, high, n % BlockLength, b, corrupted),
         Field(high, low) \in Seq(Int), Len(Field(high, low)) = 2
  PROVE  \E last \in Buffers :
           SHA1PadMessage(c) =
             Hashed(Chained(name, WholeBlocks(Message(n) \o Padding(n, Field(high, low)))),
                    low, high, 0, last, corrupted)
<1> DEFINE lengthField == Field(high, low)
           r == n % BlockLength
           s == MessageBlocks(n \div BlockLength)
           standard == WholeBlocks(Message(n) \o Padding(n, lengthField))
           Finished == \E last \in Buffers :
                         SHA1PadMessage(c) =
                           Hashed(Chained(name, standard), low, high, 0, last, corrupted)
<1>1. Compressed(name, n) = Chained(name, s) /\ s \in Blocks
  BY CompressedIs
<1>2. /\ c.Message_Block_Index = r /\ c.Length_Low = low /\ c.Length_High = high
  BY DEF Hashed
<1>3. /\ lengthField \in Seq(Int) /\ Len(lengthField) = 2
      /\ r \in Nat /\ BlockLength \in Nat /\ ShortBlock = BlockLength - 2
      /\ ShortBlock \in Nat
  BY Widths, Division
<1>4. NeedsSecondBlock(c) <=> ~(r < ShortBlock)
  BY <1>2, <1>3 DEF NeedsSecondBlock
<1>5. ASSUME r < ShortBlock PROVE Finished
  <2> DEFINE bytes == Mark(ShortBlock - r - 1)
             marked == Put(b, r, bytes)
             last == Put(marked, ShortBlock, lengthField)
             room == [c EXCEPT !.Message_Block = Put(@, r, bytes)]
  <2>1. marked \in Buffers /\ last \in Buffers /\ Append(s, last) = standard
    BY <1>5, LastBlock
  <2>2. SHA1PadMessage(c) =
          SHA1ProcessMessageBlock([room EXCEPT !.Message_Block = Put(@, ShortBlock, lengthField)])
    BY <1>2, <1>4, <1>5 DEF SHA1PadMessage, Mark, Field
  <2> HIDE DEF bytes
  <2>3. room = Hashed(Chained(name, s), low, high, r, marked, corrupted)
    <3> DEFINE h == Compressed(name, n)
    <3> HIDE DEF h
    <3>1. room = Hashed(h, low, high, r, Put(b, r, bytes), corrupted)
      BY PutMessageBlock DEF h
    <3> QED
      BY <1>1, <3>1 DEF h
  <2> HIDE DEF room, marked, s, standard
  <2>4. SHA1ProcessMessageBlock([room EXCEPT !.Message_Block = Put(@, ShortBlock, lengthField)]) =
          Hashed(Chained(name, Append(s, last)), low, high, 0, last, corrupted)
    BY <2>3, EndsWith
  <2> HIDE DEF last
  <2> QED
    BY <2>1, <2>2, <2>4
<1>6. ASSUME ~(r < ShortBlock) PROVE Finished
  <2> DEFINE bytes == Mark(BlockLength - r - 1)
             marked == Put(b, r, bytes)
             zeroes == Put(marked, 0, Zeroes(ShortBlock))
             t == Append(s, marked)
             last == Put(zeroes, ShortBlock, lengthField)
             full == [c EXCEPT !.Message_Block = Put(@, r, bytes)]
             next == SHA1ProcessMessageBlock(full)
             room == [next EXCEPT !.Message_Block = Put(@, 0, Zeroes(ShortBlock))]
  <2>1. marked \in Buffers /\ zeroes \in Buffers /\ t \in Blocks /\ Append(t, last) = standard
    <3> DEFINE first == s
    <3> HIDE DEF marked
    <3>1. marked = Put(b, n % BlockLength, Mark(BlockLength - (n % BlockLength) - 1))
      BY DEF marked
    <3> QED
      BY <1>6, <3>1, TwoLastOfBuffer
  <2>2. SHA1PadMessage(c) =
          SHA1ProcessMessageBlock([room EXCEPT !.Message_Block = Put(@, ShortBlock, lengthField)])
    BY <1>2, <1>4, <1>6 DEF SHA1PadMessage, Mark, Field
  <2> HIDE DEF bytes
  <2>3. full = Hashed(Chained(name, s), low, high, r, marked, corrupted)
    <3> DEFINE h == Compressed(name, n)
    <3> HIDE DEF h
    <3>1. full = Hashed(h, low, high, r, Put(b, r, bytes), corrupted)
      BY PutMessageBlock DEF h
    <3> QED
      BY <1>1, <3>1 DEF h
  <2> HIDE DEF full, marked, s, standard
  <2>4. next = Hashed(Chained(name, t), low, high, 0, marked, corrupted)
    <3> DEFINE h == Chained(name, s)
    <3>1. Compress(h, marked) = Chained(name, t)
      BY CompressIs
    <3> HIDE DEF h, t
    <3>2. next = Hashed(Compress(h, marked), low, high, 0, marked, corrupted)
      BY <2>3, ProcessIs DEF h
    <3> QED
      BY <3>1, <3>2
  <2> HIDE DEF next, t
  <2>5. room = Hashed(Chained(name, t), low, high, 0, zeroes, corrupted)
    <3> DEFINE h == Chained(name, t)
               none == 0
               z == Zeroes(ShortBlock)
    <3> HIDE DEF h, none, z
    <3>1. [next EXCEPT !.Message_Block = Put(@, none, z)] =
            Hashed(h, low, high, none, Put(marked, none, z), corrupted)
      BY <2>4, PutMessageBlock DEF h, none
    <3> QED
      BY <3>1 DEF h, none, z
  <2> HIDE DEF room, zeroes
  <2>6. SHA1ProcessMessageBlock([room EXCEPT !.Message_Block = Put(@, ShortBlock, lengthField)]) =
          Hashed(Chained(name, Append(t, last)), low, high, 0, last, corrupted)
    <3> DEFINE i == 0
    <3> HIDE DEF i
    <3>1. room = Hashed(Chained(name, t), low, high, i, zeroes, corrupted)
      BY <2>5 DEF i
    <3> QED
      BY <3>1, EndsWith
  <2>7. last \in Buffers
    BY <2>1, <1>3, PutIs
  <2> HIDE DEF last
  <2> QED
    BY <2>1, <2>2, <2>6, <2>7
<1> QED
  BY <1>5, <1>6

\* The digest of SHA-1 is the standard's, of a message of less than 2^64 bits.
LEMMA SHA1Right ==
  ASSUME NEW c, NEW n \in Nat, HoldsShort(c, n), Bits(n) < Word64Mod
  PROVE  /\ SHA1Digest(c) = StandardSHA1(n)
         /\ SHA1Digest(c) \in [iv : Algorithms, words : Nat, blocks : Seq(Seq(Int))]
         /\ SHA1Result(c) \in SHA1Context /\ Len(SHA1Result(c).Message_Block) = BlockLength
<1> DEFINE name == "sha1"
           words == 5
           x == Bits(n)
           low == x % UIntMod
           high == x \div UIntMod
           r == n % BlockLength
           field == HighLow(n, UIntMod)
           p == SHA1PadMessage(c)
           standard == WholeBlocks(Message(n) \o Padding(n, field))
<1>1. PICK b \in Buffers : /\ HoldsRest(b, n)
                           /\ c = Hashed(Compressed(name, n), low, high, r, b, shaSuccess)
  BY DEF HoldsShort
<1>2. name \in Algorithms /\ words \in Nat
  BY Names
<1>3. x \in Nat
  BY BitsAre
<1>4. low \in 0 .. UIntMod - 1 /\ high \in 0 .. UIntMod - 1 /\ high % UIntMod = high
  <2> HIDE DEF x
  <2> QED
    BY <1>3, ShortCount DEF x
<1>5. field = << LengthWord(high), LengthWord(low) >>
  BY <1>4 DEF HighLow
<1>6. field \in Seq(Int) /\ Len(field) = 2
  <2> DEFINE a == LengthWord(high)
             e == LengthWord(low)
  <2>1. a \in Int /\ e \in Int
    <3>1. high \in Nat /\ low \in Nat
      BY <1>4, Widths
    <3> QED
      BY <3>1 DEF LengthWord
  <2>2. field = <<a, e>>
    BY <1>5
  <2> HIDE DEF a, e, field
  <2> QED
    BY <2>1, <2>2
<1>7. c.Computed = FALSE /\ c.Corrupted = shaSuccess
  BY <1>1 DEF Hashed
<1>8. PICK last \in Buffers :
        p = Hashed(Chained(name, standard), low, high, 0, last, shaSuccess)
  <2> DEFINE bad == shaSuccess
  <2>1. field = Field(high, low)
    BY <1>5 DEF Field
  <2> HIDE DEF name, low, high, field, bad
  <2>2. c = Hashed(Compressed(name, n), low, high, n % BlockLength, b, bad)
    BY <1>1 DEF bad
  <2>3. Field(high, low) \in Seq(Int) /\ Len(Field(high, low)) = 2
    BY <1>6, <2>1
  <2>4. \E last \in Buffers :
          SHA1PadMessage(c) =
            Hashed(Chained(name, WholeBlocks(Message(n) \o Padding(n, Field(high, low)))),
                   low, high, 0, last, bad)
    BY <1>1, <1>2, <2>2, <2>3, SHA1Pads
  <2> QED
    BY <2>1, <2>4 DEF bad
<1> HIDE DEF p, standard, x, low, high, field, name, words
<1>9. SHA1Computed(c) = [p EXCEPT !.Message_Block = Zeroes(BlockLength),
                                  !.Length_Low = 0, !.Length_High = 0, !.Computed = TRUE]
  BY <1>7 DEF SHA1Computed, p
<1> DEFINE st == Chained(name, standard)
           z == Zeroes(BlockLength)
           d == [p EXCEPT !.Message_Block = z,
                          !.Length_Low = 0, !.Length_High = 0, !.Computed = TRUE]
<1>10. /\ standard \in Blocks
       /\ StandardDigest(name, words, n, field) \in
            [iv : Algorithms, words : Nat, blocks : Seq(Seq(Int))]
  BY <1>2, <1>6, StandardIs DEF standard
<1>11. st \in ChainingValue
  BY <1>2, <1>10, ChainedIs
<1>12. z \in Seq(Int) /\ Len(z) = BlockLength
  BY Widths, ZeroesAre
<1> HIDE DEF st, z
<1>13. d \in [ Intermediate_Hash : {st}, Length_Low : {0}, Length_High : {0},
               Message_Block_Index : {0}, Message_Block : {z},
               Computed : {TRUE}, Corrupted : {shaSuccess} ]
  BY <1>8 DEF Hashed, st
<1> HIDE DEF d
<1>14. d = [ Intermediate_Hash |-> st, Length_Low |-> 0, Length_High |-> 0,
             Message_Block_Index |-> 0, Message_Block |-> z,
             Computed |-> TRUE, Corrupted |-> shaSuccess ]
  BY <1>13
<1>15. SHA1Computed(c) = d /\ SHA1Result(c) = d
  BY <1>7, <1>9 DEF SHA1Result, d, z
<1>16. d \in SHA1Context /\ d.Message_Block = z /\ d.Intermediate_Hash = st
  <2>1. 0 \in 0 .. UIntMod - 1 /\ 0 \in 0 .. BlockLength
    BY Widths
  <2> QED
    BY <1>11, <1>12, <1>14, <2>1 DEF SHA1Context
<1>17. SHA1Digest(c) = DigestOf(st, 5)
  BY <1>7, <1>15, <1>16 DEF SHA1Digest
<1>18. DigestOf(Chained(name, standard), words) =
         [iv |-> name, words |-> words, blocks |-> standard]
  BY ChainedIs
<1>19. SHA1Digest(c) = StandardDigest(name, words, n, field)
  BY <1>17, <1>18 DEF StandardDigest, standard, words, st
<1>20. StandardDigest(name, words, n, field) = StandardSHA1(n)
  BY DEF StandardSHA1, name, words, field
<1> QED
  BY <1>10, <1>12, <1>15, <1>16, <1>19, <1>20

-------------------------------------------------------------------------------
(* The contexts of all kinds of wrapper. *)

\* What a context of a kind is at any time ...
Shaped(k, c) ==
  /\ k = "md5" => MD5Sized(c)
  /\ k = "sha1" => c \in SHA1Context /\ Len(c.Message_Block) = BlockLength
  /\ k = "sha256" => c \in SHA256Context
  /\ k \in {"sha384", "sha512"} => c \in SHA512Context

\* ... and when it holds the first n bytes of a message.
Fed(k, c, n) ==
  /\ k = "md5" => MD5Sized(c) /\ MD5Holds(c, n)
  /\ k = "sha1" => Holds1(c, n)
  /\ k = "sha256" => Holds256(c, n)
  /\ k \in {"sha384", "sha512"} => Holds512(c, k, n)

LEMMA KindsAre ==
  ASSUME NEW k \in Kinds
  PROVE  /\ k \in Algorithms
         /\ k = "md5" \/ k = "sha1" \/ k = "sha256" \/ k \in {"sha384", "sha512"}
         /\ k = "md5" => k # "sha1" /\ k # "sha256" /\ k # "sha384" /\ k # "sha512"
         /\ k = "sha1" => k # "md5" /\ k # "sha256" /\ k # "sha384" /\ k # "sha512"
         /\ k = "sha256" => k # "md5" /\ k # "sha1" /\ k # "sha384" /\ k # "sha512"
         /\ k \in {"sha384", "sha512"} => k # "md5" /\ k # "sha1" /\ k # "sha256"
         /\ k = "sha384" => k # "sha512"
BY DEF Kinds, Algorithms

LEMMA RawBuffer ==
  /\ Scratches \in Buffers /\ Scratches \in Seq(Int) /\ Len(Scratches) = BlockLength
  /\ Garbage \in ChainingValue
<1>1. Scratches \in Buffers
  BY BufferIs DEF Scratches
<1>2. Scratches \in Seq(Int) /\ Len(Scratches) = BlockLength
  BY <1>1, BufferIs
<1>3. Garbage \in ChainingValue
  <2>1. <<>> \in Seq(Seq(Int))
    OBVIOUS
  <2> QED
    BY <2>1 DEF Garbage, InitialValue, ChainingValue, Algorithms
<1> QED
  BY <1>1, <1>2, <1>3

\* A new wrapper has a context of its kind.
LEMMA RawIsShaped ==
  ASSUME NEW k \in Kinds PROVE Shaped(k, RawContext(k))
<1> DEFINE b == [j \in 1 .. BlockLength |-> Scratch]
           none == <<0, 0>>
           g == Garbage
<1>1. b \in Seq(Int) /\ Len(b) = BlockLength /\ g \in ChainingValue
  BY RawBuffer DEF Scratches
<1>2. /\ 0 \in 0 .. ULongMod - 1 /\ 0 \in 0 .. UIntMod - 1 /\ 0 \in 0 .. Word64Mod - 1
      /\ 0 \in 0 .. BlockLength
  BY Widths
<1>3. none \in Seq(0 .. ULongMod - 1) /\ none \in Seq(0 .. Word64Mod - 1) /\ Len(none) = 2
  BY <1>2
<1> HIDE DEF b, none, g
<1>4. CASE k = "md5"
  <2>1. RawContext(k) = [state |-> g, count |-> none, buffer |-> b]
    BY <1>4 DEF RawContext, RawMD5Context, b, none, g
  <2>2. MD5Sized(RawContext(k))
    BY <1>1, <1>3, <2>1 DEF MD5Sized, MD5Context
  <2> QED
    BY <1>4, <2>2 DEF Shaped
<1>5. CASE k = "sha1"
  <2>1. RawContext(k) =
          [ Intermediate_Hash |-> g, Length_Low |-> 0, Length_High |-> 0,
            Message_Block_Index |-> 0, Message_Block |-> b,
            Computed |-> FALSE, Corrupted |-> shaSuccess ]
    BY <1>5 DEF RawContext, RawSHA1Context, b, g
  <2>2. RawContext(k) \in SHA1Context /\ Len(RawContext(k).Message_Block) = BlockLength
    BY <1>1, <1>2, <2>1 DEF SHA1Context
  <2> QED
    BY <1>5, <2>2 DEF Shaped
<1>6. CASE k = "sha256"
  <2>1. RawContext(k) = [state |-> g, bitcount |-> 0, buffer |-> b]
    BY <1>6 DEF RawContext, RawSHA256Context, b, g
  <2>2. RawContext(k) \in SHA256Context
    BY <1>1, <1>2, <2>1 DEF SHA256Context
  <2> QED
    BY <1>6, <2>2 DEF Shaped
<1>7. CASE k \in {"sha384", "sha512"}
  <2>1. RawContext(k) = [state |-> g, bitcount |-> none, buffer |-> b]
    BY <1>7, KindsAre DEF RawContext, RawSHA512Context, b, none, g
  <2>2. RawContext(k) \in SHA512Context
    BY <1>1, <1>3, <2>1 DEF SHA512Context
  <2> QED
    BY <1>7, <2>2, KindsAre DEF Shaped
<1> QED
  BY <1>4, <1>5, <1>6, <1>7, KindsAre

\* A reset context holds nothing, whatever it was used for.
LEMMA MD5Resets ==
  ASSUME NEW c, MD5Sized(c) PROVE MD5Sized(MD5Init(c)) /\ MD5Holds(MD5Init(c), 0)
<1> DEFINE none == <<0, 0>>
           st == InitialValue("md5")
           b == c.buffer
           d == [c EXCEPT !.count = none, !.state = st]
<1>1. b \in Seq(Int) /\ Len(b) = BlockLength
  BY DEF MD5Sized, MD5Context
<1>2. none \in Seq(0 .. ULongMod - 1) /\ Len(none) = 2 /\ none[1] = 0 /\ none[2] = 0
  <2>1. 0 \in 0 .. ULongMod - 1
    BY Widths
  <2> QED
    BY <2>1
<1>3. st = Compressed("md5", 0) /\ st \in ChainingValue
  BY CompressedIs, Names
<1>4. MD5Init(c) = d
  BY DEF MD5Init
<1> HIDE DEF none, st, b
<1>5. d \in [state : {st}, count : {none}, buffer : {b}]
  BY DEF MD5Sized, MD5Context, b
<1> HIDE DEF d
<1>6. d = [state |-> st, count |-> none, buffer |-> b]
  BY <1>5
<1>7. MD5Sized(d)
  BY <1>1, <1>2, <1>3, <1>6 DEF MD5Sized, MD5Context
<1>8. MD5Holds(d, 0)
  <2>1. HoldsRest(d.buffer, 0)
    BY HoldsNothing
  <2>2. Bits(0) = 0 /\ 0 % ULongMod = 0 /\ (0 \div UIntMod) % UIntMod = 0
    BY BitsAre, Widths
  <2> QED
    BY <1>2, <1>3, <1>6, <2>1, <2>2 DEF MD5Holds
<1> QED
  BY <1>4, <1>7, <1>8

LEMMA SHA1Resets ==
  ASSUME NEW c \in SHA1Context, Len(c.Message_Block) = BlockLength PROVE Holds1(SHA1Reset(c), 0)
<1> DEFINE st == InitialValue("sha1")
           b == c.Message_Block
           d == SHA1Reset(c)
<1>1. b \in Buffers
  BY BufferIs DEF SHA1Context
<1>2. st = Compressed("sha1", 0)
  BY CompressedIs, Names
<1> HIDE DEF st, b
<1>3. d \in [ Intermediate_Hash : {st}, Length_Low : {0}, Length_High : {0},
              Message_Block_Index : {0}, Message_Block : {b},
              Computed : {FALSE}, Corrupted : {shaSuccess} ]
  BY DEF SHA1Context, SHA1Reset, st, b
<1> HIDE DEF d
<1>4. d = Hashed(st, 0, 0, 0, b, shaSuccess)
  BY <1>3 DEF Hashed
<1>5. /\ Bits(0) = 0 /\ 0 % UIntMod = 0 /\ 0 \div UIntMod = 0 /\ 0 % BlockLength = 0
      /\ 0 < Word64Mod /\ ~(0 >= Word64Mod)
  BY BitsAre, Widths
<1>6. HoldsRest(b, 0)
  BY HoldsNothing
<1>7. HoldsShort(d, 0)
  BY <1>1, <1>2, <1>4, <1>5, <1>6 DEF HoldsShort
<1> QED
  BY <1>5, <1>7 DEF Holds1, d

LEMMA SHA256Resets ==
  ASSUME NEW c \in SHA256Context PROVE Holds256(SHA256Init(c), 0)
<1> DEFINE st == InitialValue("sha256")
           b == Zeroes(BlockLength)
           d == SHA256Init(c)
<1>1. b \in Buffers
  BY ZeroesAre, BufferIs, Widths
<1>2. st = Compressed("sha256", 0)
  BY CompressedIs, Names
<1> HIDE DEF st, b
<1>3. d \in [state : {st}, bitcount : {0}, buffer : {b}]
  BY DEF SHA256Context, SHA256Init, st, b
<1> HIDE DEF d
<1>4. d = Context(st, 0, b)
  BY <1>3 DEF Context
<1>5. Bits(0) = 0 /\ 0 % Word64Mod = 0
  BY BitsAre, Widths
<1>6. HoldsRest(b, 0)
  BY HoldsNothing
<1> QED
  BY <1>1, <1>2, <1>4, <1>5, <1>6 DEF Holds256, HoldsBytes, d

LEMMA SHA512Resets ==
  ASSUME NEW c \in SHA512Context, NEW name \in Algorithms
  PROVE  Holds512(Initialized(c, name), name, 0)
<1> DEFINE st == InitialValue(name)
           b == Zeroes(BlockLength)
           none == <<0, 0>>
           d == Initialized(c, name)
<1>1. b \in Buffers
  BY ZeroesAre, BufferIs, Widths
<1>2. st = Compressed(name, 0)
  BY CompressedIs
<1>3. none = LongCount(0)
  <2>1. Bits(0) = 0 /\ 0 % Word64Mod = 0 /\ (0 \div Word64Mod) % Word64Mod = 0
    BY BitsAre, Widths
  <2> QED
    BY <2>1 DEF LongCount
<1> HIDE DEF st, b, none
<1>4. d \in [state : {st}, bitcount : {none}, buffer : {b}]
  BY DEF SHA512Context, Initialized, st, b, none
<1> HIDE DEF d
<1>5. d = Context(st, none, b)
  BY <1>4 DEF Context
<1>6. HoldsRest(b, 0)
  BY HoldsNothing
<1> QED
  BY <1>1, <1>2, <1>3, <1>5, <1>6 DEF Holds512, HoldsBytes, d

\* A reset context holds no byte of a message.
LEMMA ResetHoldsNothing ==
  ASSUME kind \in Kinds, NEW c, Shaped(kind, c) PROVE Fed(kind, resetContext(c), 0)
<1>1. CASE kind = "md5"
  <2>1. resetContext(c) = MD5Init(c)
    BY <1>1 DEF resetContext
  <2>2. MD5Sized(MD5Init(c)) /\ MD5Holds(MD5Init(c), 0)
    BY <1>1, MD5Resets DEF Shaped
  <2> QED
    BY <1>1, <2>1, <2>2, KindsAre DEF Fed
<1>2. CASE kind = "sha1"
  <2>1. resetContext(c) = SHA1Reset(c)
    BY <1>2 DEF resetContext
  <2>2. Holds1(SHA1Reset(c), 0)
    BY <1>2, SHA1Resets DEF Shaped
  <2> QED
    BY <1>2, <2>1, <2>2, KindsAre DEF Fed
<1>3. CASE kind = "sha256"
  <2>1. resetContext(c) = SHA256Init(c)
    BY <1>3 DEF resetContext
  <2>2. Holds256(SHA256Init(c), 0)
    BY <1>3, SHA256Resets DEF Shaped
  <2> QED
    BY <1>3, <2>1, <2>2, KindsAre DEF Fed
<1>4. CASE kind \in {"sha384", "sha512"}
  <2>1. resetContext(c) = Initialized(c, kind)
    BY <1>4 DEF resetContext, SHA384Init, SHA512Init
  <2>2. Holds512(Initialized(c, kind), kind, 0)
    BY <1>4, KindsAre, SHA512Resets DEF Shaped
  <2> QED
    BY <1>4, <2>1, <2>2, KindsAre DEF Fed
<1> QED
  BY <1>1, <1>2, <1>3, <1>4, KindsAre

DigestType == [iv : Algorithms, words : Nat, blocks : Seq(Seq(Int))]

\* A SHA-1 context whose fields are what they may be.
LEMMA HashedShape ==
  ASSUME NEW h \in ChainingValue, NEW low \in 0 .. UIntMod - 1, NEW high \in 0 .. UIntMod - 1,
         NEW i \in 0 .. BlockLength, NEW b \in Buffers,
         NEW corrupted \in {shaSuccess, shaTooLong, shaStateError},
         NEW c, c = Hashed(h, low, high, i, b, corrupted)
  PROVE  c \in SHA1Context /\ Len(c.Message_Block) = BlockLength
<1>1. b \in Seq(Int) /\ Len(b) = BlockLength
  BY BufferIs
<1> QED
  BY <1>1 DEF Hashed, SHA1Context

\* ... of SHA-1 ...
LEMMA Holds1Shape ==
  ASSUME NEW c, NEW n \in Nat, Holds1(c, n)
  PROVE  c \in SHA1Context /\ Len(c.Message_Block) = BlockLength
<1> DEFINE x == Bits(n)
           bad == shaTooLong
           fine == shaSuccess
           name == "sha1"
<1>1. x \in Nat /\ Word64Mod \in Nat /\ (x < Word64Mod \/ x >= Word64Mod)
  BY BitsAre, Widths
<1>2. {bad, fine} \subseteq {shaSuccess, shaTooLong, shaStateError}
  OBVIOUS
<1>3. CASE x < Word64Mod
  <2> DEFINE low == x % UIntMod
             high == x \div UIntMod
             r == n % BlockLength
             h == Compressed(name, n)
  <2>1. PICK b \in Buffers : c = Hashed(h, low, high, r, b, fine)
    BY <1>3 DEF Holds1, HoldsShort
  <2>2. low \in 0 .. UIntMod - 1 /\ high \in 0 .. UIntMod - 1
    <3> HIDE DEF x
    <3> QED
      BY <1>1, <1>3, ShortCount
  <2>3. r \in 0 .. BlockLength
    BY Widths, Division
  <2>4. h \in ChainingValue
    BY CompressedIs, Names
  <2> HIDE DEF h, low, high, r, fine, bad
  <2> QED
    BY <1>2, <2>1, <2>2, <2>3, <2>4, HashedShape
<1>4. CASE x >= Word64Mod
  <2>1. PICK h \in ChainingValue, low \in 0 .. UIntMod - 1, high \in 0 .. UIntMod - 1,
             i \in 0 .. BlockLength, b \in Buffers : c = Hashed(h, low, high, i, b, bad)
    BY <1>4 DEF Holds1, HoldsTooMuch
  <2> HIDE DEF bad, fine
  <2> QED
    BY <1>2, <2>1, HashedShape
<1> QED
  BY <1>1, <1>3, <1>4

\* ... and of SHA-2.
LEMMA HoldsBytesShape ==
  ASSUME NEW c, NEW name \in Algorithms, NEW n \in Nat, NEW count, HoldsBytes(c, name, count, n)
  PROVE  /\ c \in [state : ChainingValue, bitcount : {count}, buffer : Seq(Int)]
         /\ Len(c.buffer) = BlockLength
<1>1. PICK b \in Buffers : c = Context(Compressed(name, n), count, b)
  BY DEF HoldsBytes
<1>2. Compressed(name, n) \in ChainingValue
  BY CompressedIs
<1>3. b \in Seq(Int) /\ Len(b) = BlockLength
  BY BufferIs
<1> QED
  BY <1>1, <1>2, <1>3 DEF Context

\* A context that holds bytes is one of its kind.
LEMMA FedIsShaped ==
  ASSUME NEW k \in Kinds, NEW c, NEW n \in Nat, Fed(k, c, n)
  PROVE  Shaped(k, c)
<1>1. CASE k = "md5"
  BY <1>1 DEF Fed, Shaped
<1>2. CASE k = "sha1"
  BY <1>2, Holds1Shape DEF Fed, Shaped
<1>3. CASE k = "sha256"
  <2> DEFINE count == Bits(n) % Word64Mod
             name == "sha256"
  <2>1. count \in 0 .. Word64Mod - 1
    <3>1. Bits(n) \in Nat
      BY BitsAre
    <3> QED
      BY <3>1, Widths, Division
  <2>2. HoldsBytes(c, name, count, n)
    BY <1>3 DEF Fed, Holds256
  <2>3. name \in Algorithms
    BY Names
  <2> HIDE DEF count, name
  <2>4. c \in [state : ChainingValue, bitcount : {count}, buffer : Seq(Int)]
    BY <2>2, <2>3, HoldsBytesShape
  <2>5. c \in SHA256Context
    BY <2>1, <2>4 DEF SHA256Context
  <2> QED
    BY <1>3, <2>5 DEF Shaped
<1>4. CASE k \in {"sha384", "sha512"}
  <2> DEFINE count == LongCount(n)
  <2>1. count \in Seq(0 .. Word64Mod - 1)
    BY LongCountIs
  <2>2. HoldsBytes(c, k, count, n)
    BY <1>4 DEF Fed, Holds512
  <2> HIDE DEF count
  <2>3. c \in [state : ChainingValue, bitcount : {count}, buffer : Seq(Int)]
    BY <2>2, KindsAre, HoldsBytesShape
  <2>4. c \in SHA512Context
    BY <2>1, <2>3 DEF SHA512Context
  <2> QED
    BY <1>4, <2>4, KindsAre DEF Shaped
<1> QED
  BY <1>1, <1>2, <1>3, <1>4, KindsAre

\* The next bytes of the message.
LEMMA UpdateFeeds ==
  ASSUME kind \in Kinds, NEW c, NEW n \in Nat, Fed(kind, c, n), NEW len \in Nat
  PROVE  Fed(kind, updateContext(c, Piece(n, len)), n + len)
<1> DEFINE data == Piece(n, len)
           total == n + len
<1>1. ASSUME kind = "md5" PROVE Fed(kind, updateContext(c, data), total)
  <2>1. updateContext(c, data) = MD5Update(c, data)
    BY <1>1 DEF updateContext
  <2>2. MD5Sized(MD5Update(c, data)) /\ MD5Holds(MD5Update(c, data), total)
    BY <1>1, MD5Feeds DEF Fed
  <2> HIDE DEF data, total
  <2> QED
    BY <1>1, <2>1, <2>2, KindsAre DEF Fed
<1>2. ASSUME kind = "sha1" PROVE Fed(kind, updateContext(c, data), total)
  <2>1. updateContext(c, data) = SHA1Input(c, data)
    BY <1>2 DEF updateContext
  <2>2. Holds1(SHA1Input(c, data), total)
    BY <1>2, SHA1Feeds DEF Fed
  <2> HIDE DEF data, total
  <2> QED
    BY <1>2, <2>1, <2>2, KindsAre DEF Fed
<1>3. ASSUME kind = "sha256" PROVE Fed(kind, updateContext(c, data), total)
  <2>1. updateContext(c, data) = SHA256Update(c, data)
    BY <1>3 DEF updateContext
  <2>2. Holds256(SHA256Update(c, data), total)
    BY <1>3, SHA256Feeds DEF Fed
  <2> HIDE DEF data, total
  <2> QED
    BY <1>3, <2>1, <2>2, KindsAre DEF Fed
<1>4. ASSUME kind \in {"sha384", "sha512"} PROVE Fed(kind, updateContext(c, data), total)
  <2>1. updateContext(c, data) = SHA512Update(c, data)
    BY <1>4 DEF updateContext, SHA384Update
  <2>2. Holds512(SHA512Update(c, data), kind, total)
    BY <1>4, SHA512Feeds, KindsAre DEF Fed
  <2> HIDE DEF data, total
  <2> QED
    BY <1>4, <2>1, <2>2, KindsAre DEF Fed
<1> HIDE DEF data, total
<1>5. Fed(kind, updateContext(c, data), total)
  BY <1>1, <1>2, <1>3, <1>4, KindsAre
<1> QED
  BY <1>5 DEF data, total

\* A message whose digest is the standard's: the length field of MD5 is right, and
\* SHA-1 does not find it too long.
Short(k, n) ==
  /\ k = "md5" => CountsRight(n)
  /\ k = "sha1" => Bits(n) < Word64Mod

LEMMA MD5WipedIs == MD5Sized(MD5Wiped)
<1> DEFINE z == Zeroes(BlockLength)
           none == <<0, 0>>
           g == Garbage
<1>1. z \in Seq(Int) /\ Len(z) = BlockLength
  BY BufferIs
<1>2. none \in Seq(0 .. ULongMod - 1) /\ Len(none) = 2
  <2>1. 0 \in 0 .. ULongMod - 1
    BY Widths
  <2> QED
    BY <2>1
<1>3. g \in ChainingValue
  BY RawBuffer
<1>4. MD5Wiped = [state |-> g, count |-> none, buffer |-> z]
  BY DEF MD5Wiped
<1> HIDE DEF z, none, g
<1> QED
  BY <1>1, <1>2, <1>3, <1>4 DEF MD5Sized, MD5Context

\* The end of a message of SHA-1 ...
LEMMA SHA1Finishes ==
  ASSUME NEW c, NEW n \in Nat, Holds1(c, n)
  PROVE  /\ SHA1Result(c) \in SHA1Context /\ Len(SHA1Result(c).Message_Block) = BlockLength
         /\ SHA1Digest(c) \in DigestType
         /\ Bits(n) < Word64Mod => SHA1Digest(c) = StandardSHA1(n)
<1>1. Bits(n) \in Nat /\ Word64Mod \in Nat
  BY BitsAre, Widths
<1>2. CASE Bits(n) < Word64Mod
  <2>1. HoldsShort(c, n)
    BY <1>2 DEF Holds1
  <2> QED
    BY <1>2, <2>1, SHA1Right DEF DigestType
<1>3. CASE Bits(n) >= Word64Mod
  <2>1. PICK h \in ChainingValue, low \in 0 .. UIntMod - 1, high \in 0 .. UIntMod - 1,
             i \in 0 .. BlockLength, b \in Buffers : c = Hashed(h, low, high, i, b, shaTooLong)
    BY <1>3 DEF Holds1, HoldsTooMuch
  <2>2. c.Corrupted # shaSuccess
    BY <2>1 DEF Hashed, shaTooLong, shaSuccess
  <2>3. SHA1Result(c) = c
    BY <2>2 DEF SHA1Result
  <2>4. SHA1Digest(c) = DigestOf(Garbage, 5)
    BY <2>2 DEF SHA1Digest
  <2>5. DigestOf(Garbage, 5) \in DigestType
    BY RawBuffer DEF DigestOf, DigestType, ChainingValue
  <2>6. ~(Bits(n) < Word64Mod)
    BY <1>1, <1>3
  <2> QED
    BY <2>3, <2>4, <2>5, <2>6, Holds1Shape
<1> QED
  BY <1>1, <1>2, <1>3

\* ... of SHA-256 ...
LEMMA SHA256Finishes ==
  ASSUME NEW c, NEW n \in Nat, Holds256(c, n)
  PROVE  /\ [SHA256Finished(c) EXCEPT !.state = Garbage] \in SHA256Context
         /\ SHA256Digest(c) \in DigestType /\ SHA256Digest(c) = StandardSHA256(n)
<1>1. PICK blocks \in Blocks, count \in 0 .. Word64Mod - 1 :
        SHA256Finished(c) = Context(Chained("sha256", blocks), count, Scratches)
  BY SHA256Right
<1>2. SHA256Digest(c) \in DigestType /\ SHA256Digest(c) = StandardSHA256(n)
  BY SHA256Right DEF DigestType
<1> DEFINE st == Chained("sha256", blocks)
           d == SHA256Finished(c)
           g == Garbage
           b == Scratches
<1>3. g \in ChainingValue /\ b \in Seq(Int)
  BY RawBuffer
<1> HIDE DEF st, d, g, b
<1>4. [d EXCEPT !.state = g] = Context(g, count, b)
  BY <1>1, StateField DEF st, d, b
<1>5. Context(g, count, b) \in SHA256Context
  BY <1>3 DEF Context, SHA256Context
<1> QED
  BY <1>2, <1>4, <1>5 DEF d, g

\* ... and of SHA-384 and SHA-512.
LEMMA SHA512Finishes ==
  ASSUME NEW name \in Algorithms, NEW c, NEW n \in Nat, Holds512(c, name, n), NEW words \in Nat
  PROVE  /\ [SHA512Last(c) EXCEPT !.state = Garbage] \in SHA512Context
         /\ DigestOf(SHA512Last(c).state, words) \in DigestType
         /\ DigestOf(SHA512Last(c).state, words) =
              StandardDigest(name, words, n, HighLow(n, Word64Mod))
<1> DEFINE count == LongCount(n)
           d == SHA512Last(c)
           g == Garbage
           b == Scratches
<1>1. PICK blocks :
        /\ d = Context(Chained(name, blocks), count, b)
        /\ DigestOf(d.state, words) = StandardDigest(name, words, n, HighLow(n, Word64Mod))
        /\ DigestOf(d.state, words) \in DigestType
  BY SHA512Right DEF DigestType
<1>2. count \in Seq(0 .. Word64Mod - 1)
  BY LongCountIs
<1> DEFINE st == Chained(name, blocks)
<1>3. g \in ChainingValue /\ b \in Seq(Int)
  BY RawBuffer
<1> HIDE DEF st, d, g, b, count
<1>4. [d EXCEPT !.state = g] = Context(g, count, b)
  BY <1>1, StateField DEF st
<1>5. Context(g, count, b) \in SHA512Context
  BY <1>2, <1>3 DEF Context, SHA512Context
<1> QED
  BY <1>1, <1>4, <1>5 DEF d, g

\* hashIt() of the context that holds a message.
LEMMA HashItFinishes ==
  ASSUME kind \in Kinds, NEW c, NEW n \in Nat, Fed(kind, c, n)
  PROVE  /\ Shaped(kind, AfterHashIt(c)) /\ hashIt(c) \in DigestType
         /\ Short(kind, n) => hashIt(c) = Standard(n)
<1>1. CASE kind = "md5"
  <2>1. /\ hashIt(c) = MD5Digest(c) /\ AfterHashIt(c) = MD5Wiped
        /\ Standard(n) = StandardMD5(n)
    BY <1>1 DEF hashIt, AfterHashIt, Standard
  <2>2. MD5Sized(c) /\ MD5Holds(c, n)
    BY <1>1 DEF Fed
  <2>3. MD5Digest(c) \in DigestType /\ (CountsRight(n) => MD5Digest(c) = StandardMD5(n))
    BY <2>2, MD5Right DEF DigestType
  <2>4. Shaped(kind, MD5Wiped)
    BY <1>1, MD5WipedIs, KindsAre DEF Shaped
  <2> QED
    BY <1>1, <2>1, <2>3, <2>4 DEF Short
<1>2. CASE kind = "sha1"
  <2>1. /\ hashIt(c) = SHA1Digest(c) /\ AfterHashIt(c) = SHA1Result(c)
        /\ Standard(n) = StandardSHA1(n)
    BY <1>2 DEF hashIt, AfterHashIt, Standard
  <2>2. Holds1(c, n)
    BY <1>2 DEF Fed
  <2>3. /\ SHA1Result(c) \in SHA1Context /\ Len(SHA1Result(c).Message_Block) = BlockLength
        /\ SHA1Digest(c) \in DigestType
        /\ Bits(n) < Word64Mod => SHA1Digest(c) = StandardSHA1(n)
    BY <2>2, SHA1Finishes
  <2>4. Shaped(kind, SHA1Result(c))
    BY <1>2, <2>3, KindsAre DEF Shaped
  <2> QED
    BY <1>2, <2>1, <2>3, <2>4 DEF Short
<1>3. CASE kind = "sha256"
  <2> DEFINE after == [SHA256Finished(c) EXCEPT !.state = Garbage]
  <2>1. /\ hashIt(c) = SHA256Digest(c) /\ AfterHashIt(c) = after
        /\ Standard(n) = StandardSHA256(n)
    BY <1>3 DEF hashIt, AfterHashIt, Standard
  <2>2. Holds256(c, n)
    BY <1>3 DEF Fed
  <2>3. after \in SHA256Context /\ SHA256Digest(c) \in DigestType
        /\ SHA256Digest(c) = StandardSHA256(n)
    BY <2>2, SHA256Finishes
  <2> HIDE DEF after
  <2>4. Shaped(kind, after)
    BY <1>3, <2>3, KindsAre DEF Shaped
  <2> QED
    BY <2>1, <2>3, <2>4
<1>4. CASE kind \in {"sha384", "sha512"}
  <2> DEFINE after == [SHA512Last(c) EXCEPT !.state = Garbage]
             words == IF kind = "sha384" THEN 6 ELSE 8
             standard == StandardDigest(kind, words, n, HighLow(n, Word64Mod))
             digested == DigestOf(SHA512Last(c).state, words)
  <2>1. hashIt(c) = digested
    BY <1>4 DEF hashIt, SHA384Digest, SHA512Digest
  <2>2. AfterHashIt(c) = after
    BY <1>4 DEF AfterHashIt
  <2>3. Standard(n) = standard
    BY <1>4 DEF Standard, StandardSHA384, StandardSHA512
  <2>4. Holds512(c, kind, n) /\ kind \in Algorithms /\ words \in Nat
    BY <1>4, KindsAre DEF Fed
  <2> HIDE DEF words
  <2>5. after \in SHA512Context /\ digested \in DigestType /\ digested = standard
    BY <2>4, SHA512Finishes
  <2> HIDE DEF after, standard, digested
  <2>6. Shaped(kind, after)
    BY <1>4, <2>5, KindsAre DEF Shaped
  <2> QED
    BY <2>1, <2>2, <2>3, <2>5, <2>6
<1> QED
  BY <1>1, <1>2, <1>3, <1>4, KindsAre

-------------------------------------------------------------------------------
(* Strings and files. *)

\* A message of n bytes in m chunks: chunk i ends with byte at[i].
Cuts(seq, at, m) ==
  /\ DOMAIN seq = 1 .. m /\ at \in [0 .. m -> Nat] /\ at[0] = 0
  /\ \A i \in 1 .. m : /\ at[i - 1] <= at[i]
                       /\ seq[i] = Piece(at[i - 1], at[i] - at[i - 1])

\* A message that is cut into chunks, by induction on their number.
LEMMA ChunksFeed ==
  ASSUME kind \in Kinds, NEW c, Fed(kind, c, 0), NEW seq, NEW at, NEW m \in Nat, Cuts(seq, at, m)
  PROVE  Fed(kind, FoldLeft(updateContext, c, seq), at[m])
<1> DEFINE loop == "blocks"
           k == kind
<1>1. \A a, x : Turn(loop, a, x) = updateContext(a, x)
  BY Turns
<1>2. /\ DOMAIN seq = 1 .. m /\ at \in [0 .. m -> Nat] /\ at[0] = 0
      /\ \A i \in 1 .. m : at[i - 1] <= at[i] /\ seq[i] = Piece(at[i - 1], at[i] - at[i - 1])
  BY DEF Cuts
<1>3. PICK v : Steps(v, loop, c, seq, m) /\ FoldLeft(updateContext, c, seq) = v[m]
  <2>1. DOMAIN seq = 1 .. m
    BY <1>2
  <2> HIDE DEF k
  <2> QED
    BY <2>1, BlockSteps
<1> HIDE DEF loop
<1>4. v[0] = c /\ \A i \in 1 .. m : v[i] = updateContext(v[i - 1], seq[i])
  BY <1>1, <1>3 DEF Steps
<1> DEFINE Sizes == {i \in Nat : i <= m => Fed(k, v[i], at[i])}
<1> HIDE DEF k
<1>5. 0 \in Sizes
  BY <1>2, <1>4 DEF k
<1>6. ASSUME NEW i \in Nat, i \in Sizes PROVE i + 1 \in Sizes
  <2>1. ASSUME i + 1 <= m PROVE Fed(k, v[i + 1], at[i + 1])
    <3> DEFINE j == i + 1
               n == at[i]
               len == at[j] - at[i]
    <3>1. /\ j \in 1 .. m /\ j - 1 = i /\ i \in 0 .. m /\ j \in 0 .. m /\ Fed(k, v[i], n)
      BY <1>6, <2>1
    <3>2. n \in Nat /\ len \in Nat /\ n + len = at[j] /\ seq[j] = Piece(n, len)
      <4>1. at[i] \in Nat /\ at[j] \in Nat /\ at[i] <= at[j] /\ seq[j] = Piece(at[i], at[j] - at[i])
        BY <1>2, <3>1
      <4> HIDE DEF j
      <4> QED
        BY <4>1
    <3>3. v[j] = updateContext(v[i], seq[j])
      BY <1>4, <3>1
    <3> HIDE DEF j, n, len
    <3>4. Fed(kind, updateContext(v[i], Piece(n, len)), n + len)
      BY <3>1, <3>2, UpdateFeeds DEF k
    <3>5. Fed(k, v[j], at[j])
      BY <3>2, <3>3, <3>4 DEF k
    <3> QED
      BY <3>5 DEF j
  <2> QED
    BY <2>1
<1>7. m \in Sizes
  <2> HIDE DEF Sizes
  <2>1. Nat \subseteq Sizes
    BY <1>5, <1>6, AllSizes
  <2> QED
    BY <2>1
<1> QED
  BY <1>3, <1>7 DEF k

\* The blocks of a file and what is left are the file.
LEMMA FileCuts ==
  ASSUME NEW n \in Nat
  PROVE  LET blocks == [i \in 1 .. n \div FileBlock |->
                          [k \in 1 .. FileBlock |-> (i - 1) * FileBlock + k]]
             last == [k \in 1 .. n % FileBlock |-> FileBlock * (n \div FileBlock) + k]
             chunks == IF last = <<>> THEN blocks ELSE Append(blocks, last)
         IN  \E m \in Nat : \E at : Cuts(chunks, at, m) /\ at[m] = n
<1> DEFINE f == FileBlock
           q == n \div f
           r == n % f
           blocks == [i \in 1 .. q |-> [k \in 1 .. f |-> (i - 1) * f + k]]
           last == [k \in 1 .. r |-> f * q + k]
           chunks == IF last = <<>> THEN blocks ELSE Append(blocks, last)
           Whole(i) == i * f
<1>1. f \in Nat /\ f > 0
  BY WrapperAssumption, Widths
<1>2. q \in Nat /\ r \in Nat /\ r < f /\ n = f * q + r /\ f * q \in Nat
  BY <1>1, Division
<1>3. \A i \in 1 .. q : blocks[i] = Piece(Whole(i - 1), f)
  BY DEF Piece
<1>4. last = Piece(f * q, r)
  BY DEF Piece
<1>5. \A i \in Nat : Whole(i) \in Nat /\ Whole(i) <= Whole(i + 1) /\ Whole(i + 1) - Whole(i) = f
  <2> TAKE i \in Nat
  <2>1. i * f \in Nat /\ (i + 1) * f = i * f + f
    BY <1>1, SMTT(30)
  <2> DEFINE x == i * f
             y == (i + 1) * f
  <2>2. x \in Nat /\ y = x + f
    BY <2>1
  <2> HIDE DEF x, y
  <2>3. x \in Nat /\ x <= y /\ y - x = f
    BY <1>1, <2>2
  <2> QED
    BY <2>3 DEF x, y
<1>6. Whole(0) = 0 /\ Whole(q) = f * q
  BY <1>1, <1>2, SMTT(30)
<1>7. DOMAIN blocks = 1 .. q /\ Len(blocks) = q /\ blocks \in Seq(Seq(Int))
  <2> HIDE DEF Whole, q
  <2>1. \A i \in 1 .. q : Piece(Whole(i - 1), f) \in Seq(Int)
    <3> TAKE i \in 1 .. q
    <3>1. i - 1 \in Nat
      BY <1>2
    <3>2. Whole(i - 1) \in Int
      BY <1>5, <3>1
    <3> QED
      BY <1>1, <3>2, PieceSize
  <2> DEFINE b == blocks
  <2>2. b = [i \in 1 .. q |-> b[i]] /\ \A i \in 1 .. q : b[i] \in Seq(Int)
    BY <1>3, <2>1
  <2>3. DOMAIN b = 1 .. q
    OBVIOUS
  <2> HIDE DEF b
  <2>4. b \in [1 .. q -> Seq(Int)]
    BY <2>2
  <2>5. b \in Seq(Seq(Int)) /\ Len(b) = q
    BY <1>2, <2>4
  <2> QED
    BY <2>3, <2>5 DEF b
<1>8. last \in Seq(Int) /\ (last = <<>> <=> r = 0)
  <2> DEFINE x == f * q
  <2>1. x \in Int
    BY <1>2
  <2> HIDE DEF x, r
  <2>2. Piece(x, r) \in Seq(Int) /\ (Piece(x, r) = <<>> <=> r = 0)
    BY <1>2, <2>1, PieceIs
  <2> QED
    BY <1>4, <2>2 DEF x
<1> HIDE DEF blocks, last, q, r
<1>9. CASE r = 0
  <2> DEFINE at == [i \in 0 .. q |-> Whole(i)]
  <2>1. at \in [0 .. q -> Nat] /\ at[0] = 0 /\ at[q] = n
    <3>1. 0 \in 0 .. q /\ q \in 0 .. q
      BY <1>2
    <3>2. at[0] = 0 /\ at[q] = f * q
      BY <1>6, <3>1
    <3>3. f * q = n
      BY <1>2, <1>9
    <3>4. \A i \in 0 .. q : at[i] \in Nat
      <4> TAKE i \in 0 .. q
      <4>1. i \in Nat /\ at[i] = Whole(i)
        OBVIOUS
      <4> HIDE DEF at, Whole
      <4> QED
        BY <1>5, <4>1
    <3> HIDE DEF Whole
    <3>5. at = [i \in 0 .. q |-> at[i]]
      OBVIOUS
    <3> HIDE DEF at
    <3> QED
      BY <3>2, <3>3, <3>4, <3>5
  <2>2. \A i \in 1 .. q : /\ at[i - 1] <= at[i]
                          /\ blocks[i] = Piece(at[i - 1], at[i] - at[i - 1])
    <3> TAKE i \in 1 .. q
    <3>1. i - 1 \in Nat /\ i - 1 \in 0 .. q /\ i \in 0 .. q /\ (i - 1) + 1 = i
      BY <1>2
    <3>2. at[i - 1] = Whole(i - 1) /\ at[i] = Whole(i)
      BY <3>1
    <3> HIDE DEF at, Whole
    <3>3. Whole(i - 1) <= Whole((i - 1) + 1) /\ Whole((i - 1) + 1) - Whole(i - 1) = f
      BY <1>5, <3>1
    <3> QED
      BY <1>3, <3>1, <3>2, <3>3
  <2>3. chunks = blocks
    BY <1>8, <1>9
  <2> HIDE DEF at, chunks
  <2>4. Cuts(chunks, at, q)
    BY <1>7, <2>1, <2>2, <2>3 DEF Cuts
  <2>5. \E m \in Nat : \E a : Cuts(chunks, a, m) /\ a[m] = n
    BY <1>2, <2>1, <2>4
  <2> QED
    BY <2>5 DEF chunks, blocks, last, q, r
<1>10. CASE r # 0
  <2> DEFINE m == q + 1
             at == [i \in 0 .. m |-> IF i <= q THEN Whole(i) ELSE n]
  <2>1. chunks = Append(blocks, last)
    BY <1>8, <1>10
  <2>2. DOMAIN chunks = 1 .. m /\ chunks[m] = last /\ \A i \in 1 .. q : chunks[i] = blocks[i]
    BY <1>2, <1>7, <1>8, <2>1
  <2>3. m \in Nat /\ q <= q /\ 0 <= q /\ ~(m <= q) /\ 0 \in 0 .. m /\ m \in 0 .. m /\ q \in 0 .. m
    BY <1>2
  <2>4. at[0] = 0 /\ at[m] = n /\ at[q] = f * q
    BY <1>6, <2>3
  <2>5. at \in [0 .. m -> Nat]
    <3>1. \A i \in 0 .. m : at[i] \in Nat
      <4> TAKE i \in 0 .. m
      <4>1. i \in Nat /\ at[i] = IF i <= q THEN Whole(i) ELSE n
        OBVIOUS
      <4> HIDE DEF at, Whole
      <4> QED
        BY <1>5, <4>1
    <3>2. at = [i \in 0 .. m |-> at[i]]
      OBVIOUS
    <3> HIDE DEF at
    <3> QED
      BY <3>1, <3>2
  <2>6. \A i \in 1 .. m : /\ at[i - 1] <= at[i]
                          /\ chunks[i] = Piece(at[i - 1], at[i] - at[i - 1])
    <3> TAKE i \in 1 .. m
    <3>1. CASE i <= q
      <4>1. i \in 1 .. q /\ i - 1 \in Nat /\ i - 1 \in 0 .. m /\ i \in 0 .. m /\ (i - 1) + 1 = i
            /\ i - 1 <= q
        BY <1>2, <3>1
      <4>2. at[i - 1] = Whole(i - 1) /\ at[i] = Whole(i)
        BY <3>1, <4>1
      <4> HIDE DEF at, Whole
      <4>3. Whole(i - 1) <= Whole((i - 1) + 1) /\ Whole((i - 1) + 1) - Whole(i - 1) = f
        BY <1>5, <4>1
      <4> HIDE DEF chunks
      <4> QED
        BY <1>3, <2>2, <4>1, <4>2, <4>3
    <3>2. CASE ~(i <= q)
      <4>1. i = m /\ i - 1 = q
        BY <1>2, <2>3, <3>2
      <4> DEFINE x == f * q
      <4>2. x \in Nat /\ n = x + r
        BY <1>2
      <4> HIDE DEF x
      <4>3. x <= n /\ n - x = r
        BY <1>2, <4>2
      <4> HIDE DEF at, chunks
      <4>4. at[i - 1] = x /\ at[i] = n
        BY <2>4, <4>1 DEF x
      <4>5. chunks[i] = Piece(x, r)
        BY <1>4, <2>2, <4>1 DEF x
      <4> QED
        BY <4>3, <4>4, <4>5
    <3> QED
      BY <3>1, <3>2
  <2> HIDE DEF at, chunks, m
  <2>7. Cuts(chunks, at, m)
    BY <2>2, <2>4, <2>5, <2>6 DEF Cuts
  <2>8. \E mm \in Nat : \E a : Cuts(chunks, a, mm) /\ a[mm] = n
    BY <2>3, <2>4, <2>7
  <2> QED
    BY <2>8 DEF chunks, blocks, last, q, r
<1> QED
  BY <1>9, <1>10

\* The context of a file holds the file ...
LEMMA FileIsFed ==
  ASSUME kind \in Kinds, Shaped(kind, ctx), NEW n \in Nat
  PROVE  Fed(kind, FileContext(n), n)
<1> DEFINE blocks == [i \in 1 .. n \div FileBlock |->
                        [k \in 1 .. FileBlock |-> (i - 1) * FileBlock + k]]
           last == [k \in 1 .. n % FileBlock |-> FileBlock * (n \div FileBlock) + k]
           chunks == IF last = <<>> THEN blocks ELSE Append(blocks, last)
           c == resetContext(ctx)
<1>1. \E m \in Nat : \E at : Cuts(chunks, at, m) /\ at[m] = n
  BY FileCuts
<1>2. FileContext(n) = FoldLeft(updateContext, c, chunks)
  BY DEF FileContext
<1>3. Fed(kind, c, 0)
  BY ResetHoldsNothing
<1> HIDE DEF chunks, c
<1>4. PICK m \in Nat : \E at : Cuts(chunks, at, m) /\ at[m] = n
  BY <1>1
<1>5. PICK at : Cuts(chunks, at, m) /\ at[m] = n
  BY <1>4
<1>6. Fed(kind, FoldLeft(updateContext, c, chunks), at[m])
  BY <1>3, <1>4, <1>5, ChunksFeed
<1> QED
  BY <1>2, <1>5, <1>6

\* ... and that of a string what of it has a length of an unsigned int.
LEMMA StringIsFed ==
  ASSUME kind \in Kinds, Shaped(kind, ctx), NEW n \in Nat
  PROVE  Fed(kind, StringContext(n), n % UIntMod)
<1> DEFINE c == resetContext(ctx)
           len == n % UIntMod
           none == 0
<1>1. Fed(kind, c, none)
  BY ResetHoldsNothing
<1>2. len \in Nat /\ none \in Nat /\ none + len = len
  BY Widths, Division
<1>3. StringContext(n) = updateContext(c, Piece(none, len))
  BY MessageIs DEF StringContext
<1> HIDE DEF c, len, none
<1>4. Fed(kind, updateContext(c, Piece(none, len)), none + len)
  BY <1>1, <1>2, UpdateFeeds
<1> QED
  BY <1>2, <1>3, <1>4 DEF len

-------------------------------------------------------------------------------
(* What a context shows of the message. *)

\* The whole blocks of a message and what waits in the buffer are the message.
LEMMA WholeMessage ==
  ASSUME NEW n \in Nat, NEW b \in Buffers, HoldsRest(b, n), NEW name
  PROVE  /\ FlattenSeq(Compressed(name, n).blocks) \o FirstOf(b, n % BlockLength) = Message(n)
         /\ Compressed(name, n).iv = name
<1> DEFINE d == BlockLength
           q == n \div d
           r == n % d
           x == d * q
           none == 0
<1>1. d \in Nat /\ d > 2 /\ q \in Nat /\ r \in Nat /\ r < d /\ n = x + r /\ x \in Nat
  BY Widths, Division
<1>2. Compressed(name, n).blocks = MessageBlocks(q) /\ Compressed(name, n).iv = name
  BY DEF Compressed
<1>3. FlattenSeq(MessageBlocks(q)) = Piece(0, x)
  BY <1>1, FlattenBlocks
<1>4. FirstOf(b, r) = Piece(x, r)
  <2>1. \A k \in 1 .. r : b[k] = x + k
    BY DEF HoldsRest
  <2>2. b \in Seq(Int) /\ Len(b) = d
    BY BufferIs
  <2> HIDE DEF d, q, x, r
  <2>3. FirstOf(b, r) = SubSeq(b, 1, r)
    BY <1>1, <2>2 DEF FirstOf
  <2>4. SubSeq(b, 1, r) = [k \in 1 .. r |-> b[k]]
    <3> DEFINE s == SubSeq(b, 1, r)
    <3>1. s \in Seq(Int) /\ Len(s) = r /\ \A k \in 1 .. r : s[k] = b[k]
      BY <1>1, <2>2
    <3> HIDE DEF s
    <3>2. s = [k \in 1 .. r |-> s[k]]
      BY <3>1
    <3> QED
      BY <3>1, <3>2 DEF s
  <2> QED
    BY <2>1, <2>3, <2>4 DEF Piece
<1>5. Piece(none, x) \o Piece(none + x, r) = Piece(none, x + r)
  <2>1. none \in Int
    OBVIOUS
  <2> HIDE DEF none, x, r
  <2> QED
    BY <1>1, <2>1, ConcatPieces
<1>6. none + x = x
  BY <1>1
<1>7. Piece(none, x) \o Piece(x, r) = Piece(none, n)
  BY <1>1, <1>5, <1>6
<1> QED
  BY <1>2, <1>3, <1>4, <1>7, MessageIs

LEMMA LengthTwice ==
  ASSUME NEW n, NEW w
  PROVE  Reverse(Reverse(HighLow(n, w))) = HighLow(n, w)
<1> DEFINE s == LengthWord((Bits(n) \div w) % w)
           t == LengthWord(Bits(n) % w)
<1>1. HighLow(n, w) = <<s, t>>
  BY DEF HighLow
<1> HIDE DEF s, t
<1>2. ASSUME NEW x, NEW y PROVE Reverse(<<x, y>>) = <<y, x>>
  <2>1. Reverse(<<x, y>>) = [i \in 1 .. 2 |-> <<x, y>>[(2 - i) + 1]]
    BY DEF Reverse
  <2>2. \A i \in 1 .. 2 : <<x, y>>[(2 - i) + 1] = <<y, x>>[i]
    OBVIOUS
  <2>3. <<y, x>> = [i \in 1 .. 2 |-> <<y, x>>[i]]
    OBVIOUS
  <2> QED
    BY <2>1, <2>2, <2>3
<1> QED
  BY <1>1, <1>2

\* What ContextHoldsMessage says while a message is fed, of the whole message ...
MessageShown(state) ==
  /\ state.iv = kind
  /\ FlattenSeq(state.blocks) \o Waiting = Message(fed)
  /\ LengthField = HighLow(fed, WordMod)

\* ... for each kind of wrapper.
LEMMA MD5Shows ==
  ASSUME kind = "md5", MD5Sized(ctx), fed \in Nat, MD5Holds(ctx, fed), CountsRight(fed)
  PROVE  MessageShown(ctx.state)
<1> DEFINE n == fed
           name == "md5"
<1>1. Count(ctx.count, n)
  BY DEF MD5Sized, MD5Context, MD5Holds, Count
<1>2. BufferedMD5(ctx) = n % BlockLength
  BY <1>1, CountBuffered
<1>3. Waiting = FirstOf(ctx.buffer, n % BlockLength)
  BY <1>2 DEF Waiting
<1>4. ctx.buffer \in Buffers /\ HoldsRest(ctx.buffer, n) /\ ctx.state = Compressed(name, n)
  BY BufferIs DEF MD5Sized, MD5Context, MD5Holds
<1>5. LengthField = HighLow(n, UIntMod)
  <2>1. LengthField = Reverse(Encode(ctx.count))
    BY DEF LengthField
  <2>2. Encode(ctx.count) = Reverse(HighLow(n, UIntMod))
    <3> DEFINE w == ctx.count
    <3>1. Count(w, n)
      BY <1>1
    <3> HIDE DEF w
    <3>2. Encode(w) = Reverse(HighLow(n, UIntMod))
      BY <3>1, CountEncoded
    <3> QED
      BY <3>2 DEF w
  <2> QED
    BY <2>1, <2>2, LengthTwice
<1>6. WordMod = UIntMod
  BY DEF WordMod
<1>7. /\ FlattenSeq(Compressed(name, n).blocks) \o FirstOf(ctx.buffer, n % BlockLength) = Message(n)
      /\ Compressed(name, n).iv = name
  <2> DEFINE b == ctx.buffer
  <2>1. b \in Buffers /\ HoldsRest(b, n)
    BY <1>4
  <2> HIDE DEF b, name
  <2>2. /\ FlattenSeq(Compressed(name, n).blocks) \o FirstOf(b, n % BlockLength) = Message(n)
        /\ Compressed(name, n).iv = name
    BY <2>1, WholeMessage
  <2> QED
    BY <2>2 DEF b
<1> QED
  BY <1>3, <1>4, <1>5, <1>6, <1>7 DEF MessageShown

LEMMA SHA1Shows ==
  ASSUME kind = "sha1", fed \in Nat, HoldsShort(ctx, fed), Bits(fed) < Word64Mod
  PROVE  MessageShown(ctx.Intermediate_Hash) /\ ctx.Corrupted = shaSuccess
<1> DEFINE n == fed
           name == "sha1"
           x == Bits(n)
           low == x % UIntMod
           high == x \div UIntMod
           h == Compressed(name, n)
           r == n % BlockLength
<1>1. PICK b \in Buffers : HoldsRest(b, n) /\ ctx = Hashed(h, low, high, r, b, shaSuccess)
  BY DEF HoldsShort
<1>2. high % UIntMod = high
  <2>1. x \in Nat
    BY BitsAre
  <2> HIDE DEF x
  <2> QED
    BY <2>1, ShortCount DEF x
<1> HIDE DEF h, low, high, r, name
<1>3. /\ ctx.Intermediate_Hash = h /\ ctx.Length_Low = low /\ ctx.Length_High = high
      /\ ctx.Message_Block_Index = r /\ ctx.Message_Block = b /\ ctx.Corrupted = shaSuccess
  BY <1>1 DEF Hashed
<1>4. Waiting = FirstOf(b, r)
  BY <1>3 DEF Waiting
<1>5. LengthField = HighLow(n, UIntMod)
  <2>1. LengthField = <<LengthWord(high), LengthWord(low)>>
    BY <1>3 DEF LengthField
  <2> QED
    BY <1>2, <2>1 DEF HighLow, high, low
<1>6. WordMod = UIntMod
  BY DEF WordMod
<1>7. FlattenSeq(h.blocks) \o FirstOf(b, r) = Message(n) /\ h.iv = name
  BY <1>1, WholeMessage DEF h, r
<1> QED
  BY <1>3, <1>4, <1>5, <1>6, <1>7 DEF MessageShown, name

LEMMA SHA256Shows ==
  ASSUME kind = "sha256", fed \in Nat, Holds256(ctx, fed)
  PROVE  MessageShown(ctx.state)
<1> DEFINE n == fed
           name == "sha256"
           x == Bits(n)
           count == x % Word64Mod
           h == Compressed(name, n)
           r == n % BlockLength
<1>1. PICK b \in Buffers : HoldsRest(b, n) /\ ctx = Context(h, count, b)
  BY DEF Holds256, HoldsBytes
<1>2. count \div UIntMod = (x \div UIntMod) % UIntMod /\ count % UIntMod = x % UIntMod
  <2>1. x \in Nat
    BY BitsAre
  <2> HIDE DEF x
  <2> QED
    BY <2>1, TwoWords
<1>3. ctx.state = h /\ ctx.bitcount = count /\ ctx.buffer = b
  <2> HIDE DEF h, count
  <2> QED
    BY <1>1 DEF Context
<1>4. UsedSpace(ctx) = r
  BY <1>3, CountedBytes, Widths DEF UsedSpace
<1>5. Waiting = FirstOf(b, r)
  BY <1>3, <1>4 DEF Waiting
<1>6. LengthField = HighLow(n, UIntMod)
  <2>1. LengthField = <<LengthWord(count \div UIntMod), LengthWord(count % UIntMod)>>
    BY <1>3 DEF LengthField
  <2> QED
    BY <1>2, <2>1 DEF HighLow
<1>7. WordMod = UIntMod
  BY DEF WordMod
<1> HIDE DEF h, r, name
<1>8. FlattenSeq(h.blocks) \o FirstOf(b, r) = Message(n) /\ h.iv = name
  BY <1>1, WholeMessage DEF h, r
<1> QED
  BY <1>3, <1>5, <1>6, <1>7, <1>8 DEF MessageShown, name

LEMMA SHA512Shows ==
  ASSUME kind \in {"sha384", "sha512"}, fed \in Nat, Holds512(ctx, kind, fed)
  PROVE  MessageShown(ctx.state)
<1> DEFINE n == fed
           name == kind
           count == LongCount(n)
           h == Compressed(name, n)
           r == n % BlockLength
<1>1. PICK b \in Buffers : HoldsRest(b, n) /\ ctx = Context(h, count, b)
  BY DEF Holds512, HoldsBytes
<1>2. /\ count[1] = Bits(n) % Word64Mod
      /\ count[2] = (Bits(n) \div Word64Mod) % Word64Mod
  BY LongCountIs
<1>3. ctx.state = h /\ ctx.bitcount = count /\ ctx.buffer = b
  <2> HIDE DEF h, count
  <2> QED
    BY <1>1 DEF Context
<1> HIDE DEF count
<1>4. SHA512UsedSpace(ctx) = r
  BY <1>2, <1>3, CountedBytes, Widths DEF SHA512UsedSpace
<1>5. Waiting = FirstOf(b, r)
  BY <1>3, <1>4 DEF Waiting
<1>6. LengthField = HighLow(n, Word64Mod)
  <2>1. LengthField = <<LengthWord(count[2]), LengthWord(count[1])>>
    BY <1>3 DEF LengthField
  <2> QED
    BY <1>2, <2>1 DEF HighLow
<1>7. WordMod = Word64Mod
  BY DEF WordMod
<1> HIDE DEF h, r, name
<1>8. FlattenSeq(h.blocks) \o FirstOf(b, r) = Message(n) /\ h.iv = name
  BY <1>1, WholeMessage DEF h, r
<1> QED
  BY <1>3, <1>5, <1>6, <1>7, <1>8 DEF MessageShown, name

\* What ContextHoldsMessage says.
LEMMA FedShows ==
  ASSUME kind \in Kinds, fed \in Nat, Fed(kind, ctx, fed), kind = "md5" => CountsRight(fed)
  PROVE  LET state == IF kind = "sha1" THEN ctx.Intermediate_Hash ELSE ctx.state
         IN  /\ ~TooLong => /\ state.iv = kind
                            /\ FlattenSeq(state.blocks) \o Waiting = Message(fed)
                            /\ LengthField = HighLow(fed, WordMod)
             /\ kind = "sha1" => (TooLong <=> ctx.Corrupted # shaSuccess)
<1> DEFINE state == IF kind = "sha1" THEN ctx.Intermediate_Hash ELSE ctx.state
<1> SUFFICES /\ ~TooLong => MessageShown(state)
             /\ kind = "sha1" => (TooLong <=> ctx.Corrupted # shaSuccess)
  BY DEF MessageShown
<1>1. CASE kind = "md5"
  BY <1>1, MD5Shows, KindsAre DEF Fed
<1>2. CASE kind = "sha1"
  <2>1. Bits(fed) \in Nat /\ Word64Mod \in Nat
    BY BitsAre, Widths
  <2>2. TooLong <=> ~(Bits(fed) < Word64Mod)
    BY <1>2, <2>1 DEF TooLong
  <2>3. Holds1(ctx, fed)
    BY <1>2 DEF Fed
  <2>4. CASE Bits(fed) < Word64Mod
    BY <1>2, <2>2, <2>3, <2>4, SHA1Shows DEF Holds1
  <2>5. CASE ~(Bits(fed) < Word64Mod)
    <3>1. HoldsTooMuch(ctx)
      BY <2>1, <2>3, <2>5 DEF Holds1
    <3>2. ctx.Corrupted # shaSuccess
      BY <3>1 DEF HoldsTooMuch, Hashed, shaTooLong, shaSuccess
    <3> QED
      BY <2>2, <2>5, <3>2
  <2> QED
    BY <2>4, <2>5
<1>3. CASE kind = "sha256"
  BY <1>3, SHA256Shows, KindsAre DEF Fed
<1>4. CASE kind \in {"sha384", "sha512"}
  BY <1>4, SHA512Shows, KindsAre DEF Fed
<1> QED
  BY <1>1, <1>2, <1>3, <1>4, KindsAre

-------------------------------------------------------------------------------
(* The wrappers and their client. *)

\* The length field of MD5 is right: where an unsigned long is wider than an int, until
\* the low 32 bits of the count are used up.
FieldRight == kind = "md5" => CountsRight(fed)

\* The inductive invariant: the context is one of the wrapper's kind, whatever it was
\* used for, and while a message is fed it holds its bytes; the digest of a message
\* that has been fed is the standard's.
HashInv ==
  /\ kind \in Kinds \cup {"none"} /\ phase \in {"idle", "hashing", "hashed"}
  /\ fed \in Nat /\ digest \in DigestType
  /\ thrown \in {"none", "HL_UNKNOWN_HASH_TYPE", "HL_FILE_READ_ERROR",
                 "HL_VERIFY_TEST_FAILED"}
  /\ phase # "idle" => kind # "none"
  /\ kind # "none" => Shaped(kind, ctx)
  /\ phase = "hashing" => Fed(kind, ctx, fed)
  /\ phase = "hashed" /\ Short(kind, fed) /\ (fed \in Strings => fed < UIntMod)
       => digest = Standard(fed)

LEMMA NoDigestIs == NoDigest \in DigestType
BY RawBuffer DEF NoDigest, DigestOf, DigestType, ChainingValue

LEMMA InitHolds == Init => HashInv
<1> SUFFICES ASSUME Init PROVE HashInv
  OBVIOUS
<1> QED
  BY NoDigestIs DEF Init, HashInv, Kinds

\* Every call that ends a message ends it with its digest: the context c holds the m bytes
\* the call passed on of the n that the message has.
LEMMA FinishHolds ==
  ASSUME HashInv, kind # "none", NEW c, NEW m \in Nat, NEW n \in Nat, Fed(kind, c, m),
         (n \in Strings /\ n < UIntMod) \/ n \notin Strings => m = n,
         Finish(c, n),
         thrown' \in {"none", "HL_UNKNOWN_HASH_TYPE", "HL_FILE_READ_ERROR",
                      "HL_VERIFY_TEST_FAILED"}
  PROVE  HashInv'
<1>1. kind \in Kinds
  BY DEF HashInv
<1>2. /\ digest' = hashIt(c) /\ ctx' = AfterHashIt(c) /\ phase' = "hashed" /\ fed' = n
      /\ kind' = kind
  BY DEF Finish
<1>3. /\ Shaped(kind, AfterHashIt(c)) /\ hashIt(c) \in DigestType
      /\ Short(kind, m) => hashIt(c) = Standard(m)
  BY <1>1, HashItFinishes
<1>4. Short(kind', fed') /\ (fed' \in Strings => fed' < UIntMod) => digest' = Standard(n)
  BY <1>2, <1>3
<1>5. Standard(fed)' = Standard(n)
  BY <1>2 DEF Standard
<1>6. /\ kind' \in Kinds \cup {"none"} /\ phase' \in {"idle", "hashing", "hashed"}
      /\ fed' \in Nat /\ digest' \in DigestType /\ kind' # "none" /\ phase' # "hashing"
      /\ Shaped(kind', ctx')
  BY <1>1, <1>2, <1>3
<1> QED
  BY <1>4, <1>5, <1>6 DEF HashInv

\* Every call keeps the inductive invariant.
LEMMA NextHolds == HashInv /\ [Next]_vars => HashInv'
<1> SUFFICES ASSUME HashInv, [Next]_vars PROVE HashInv'
  OBVIOUS
<1>1. ASSUME NEW type \in Kinds, NEW known \in BOOLEAN, NEW byName \in BOOLEAN,
             Create(type, known, byName)
      PROVE  HashInv'
  <2>1. /\ kind = "none" /\ kind' \in {type, "none"} /\ ctx' = RawContext(type)
        /\ thrown' \in {"none", "HL_UNKNOWN_HASH_TYPE"}
        /\ phase' = phase /\ fed' = fed /\ digest' = digest
    BY <1>1 DEF Create
  <2>2. phase' = "idle"
    BY <2>1 DEF HashInv
  <2>3. kind' # "none" => Shaped(kind', ctx')
    BY <2>1, RawIsShaped
  <2>4. /\ kind' \in Kinds \cup {"none"} /\ fed' \in Nat /\ digest' \in DigestType
        /\ thrown' \in {"none", "HL_UNKNOWN_HASH_TYPE", "HL_FILE_READ_ERROR",
                        "HL_VERIFY_TEST_FAILED"}
    BY <2>1 DEF HashInv
  <2> QED
    BY <2>2, <2>3, <2>4 DEF HashInv
<1>2. CASE ResetContext
  <2>1. kind \in Kinds /\ Shaped(kind, ctx)
    BY <1>2 DEF ResetContext, HashInv
  <2>2. Fed(kind, resetContext(ctx), 0)
    BY <2>1, ResetHoldsNothing
  <2>3. Shaped(kind, resetContext(ctx))
    <3> DEFINE none == 0
               c == resetContext(ctx)
    <3>1. none \in Nat /\ Fed(kind, c, none)
      BY <2>2
    <3> HIDE DEF none, c
    <3>2. Shaped(kind, c)
      BY <2>1, <3>1, FedIsShaped
    <3> QED
      BY <3>2 DEF c
  <2>4. /\ ctx' = resetContext(ctx) /\ phase' = "hashing" /\ fed' = 0 /\ thrown' = "none"
        /\ digest' = NoDigest /\ kind' = kind
    BY <1>2 DEF ResetContext
  <2>5. Shaped(kind', ctx') /\ Fed(kind', ctx', fed') /\ fed' \in Nat
    BY <2>2, <2>3, <2>4
  <2>6. /\ kind' \in Kinds \cup {"none"} /\ kind' # "none" /\ phase' = "hashing"
        /\ digest' \in DigestType
        /\ thrown' \in {"none", "HL_UNKNOWN_HASH_TYPE", "HL_FILE_READ_ERROR",
                        "HL_VERIFY_TEST_FAILED"}
    BY <2>1, <2>4, NoDigestIs DEF ResetContext, Kinds
  <2> QED
    BY <2>5, <2>6 DEF HashInv
<1>3. ASSUME NEW len \in Chunks, UpdateContext(len) PROVE HashInv'
  <2>1. len \in Nat
    BY WrapperAssumption, Widths
  <2>2. /\ phase = "hashing" /\ fed' = fed + len /\ kind' = kind /\ phase' = phase
        /\ digest' = digest /\ thrown' = thrown
        /\ ctx' = updateContext(ctx, Piece(fed, len))
    BY <1>3 DEF UpdateContext, Piece
  <2>3. kind \in Kinds /\ fed \in Nat /\ Fed(kind, ctx, fed)
    BY <2>2 DEF HashInv
  <2> DEFINE c == updateContext(ctx, Piece(fed, len))
             n == fed + len
  <2>4. Fed(kind, c, n)
    BY <2>1, <2>3, UpdateFeeds
  <2>5. n \in Nat
    BY <2>1, <2>3
  <2> HIDE DEF c, n
  <2>6. Shaped(kind, c)
    BY <2>3, <2>4, <2>5, FedIsShaped
  <2>7. Shaped(kind', ctx') /\ Fed(kind', ctx', fed') /\ fed' \in Nat
    BY <2>2, <2>4, <2>5, <2>6 DEF c, n
  <2>8. /\ kind' \in Kinds \cup {"none"} /\ kind' # "none" /\ phase' = "hashing"
        /\ digest' \in DigestType
        /\ thrown' \in {"none", "HL_UNKNOWN_HASH_TYPE", "HL_FILE_READ_ERROR",
                        "HL_VERIFY_TEST_FAILED"}
    BY <2>2, <2>3 DEF HashInv, Kinds
  <2> QED
    BY <2>7, <2>8 DEF HashInv
<1>4. CASE HashIt
  <2>1. phase = "hashing" /\ kind # "none" /\ fed \in Nat /\ Fed(kind, ctx, fed)
    BY <1>4 DEF HashIt, HashInv
  <2>2. Finish(ctx, fed) /\ thrown' = thrown
    BY <1>4 DEF HashIt, Finish
  <2>3. thrown' \in {"none", "HL_UNKNOWN_HASH_TYPE", "HL_FILE_READ_ERROR",
                     "HL_VERIFY_TEST_FAILED"}
    BY <2>2 DEF HashInv
  <2> QED
    BY <2>1, <2>2, <2>3, FinishHolds
<1>5. ASSUME NEW n \in Strings, getHashFromString(n) PROVE HashInv'
  <2>1. kind # "none" /\ Finish(StringContext(n), n) /\ thrown' = "none"
    BY <1>5 DEF getHashFromString
  <2>2. kind \in Kinds /\ Shaped(kind, ctx)
    BY <2>1 DEF HashInv
  <2>3. n \in Nat
    BY WrapperAssumption
  <2>4. Fed(kind, StringContext(n), n % UIntMod)
    BY <2>2, <2>3, StringIsFed
  <2> DEFINE m == n % UIntMod
             c == StringContext(n)
  <2>5. m \in Nat /\ (n < UIntMod => m = n)
    BY <2>3, Widths, Division
  <2>6. Fed(kind, c, m) /\ Finish(c, n)
    BY <2>1, <2>4
  <2>7. (n \in Strings /\ n < UIntMod) \/ n \notin Strings => m = n
    BY <2>5
  <2> HIDE DEF m, c
  <2> QED
    BY <2>1, <2>3, <2>5, <2>6, <2>7, FinishHolds
<1>6. ASSUME NEW n \in Files, getHashFromFile(n) PROVE HashInv'
  <2>1. kind # "none" /\ Finish(FileContext(n), n) /\ thrown' = "none"
    BY <1>6 DEF getHashFromFile
  <2>2. kind \in Kinds /\ Shaped(kind, ctx)
    BY <2>1 DEF HashInv
  <2>3. n \in Nat
    BY WrapperAssumption
  <2>4. Fed(kind, FileContext(n), n)
    BY <2>2, <2>3, FileIsFed
  <2> DEFINE c == FileContext(n)
  <2>5. Fed(kind, c, n) /\ Finish(c, n)
    BY <2>1, <2>4
  <2> HIDE DEF c
  <2> QED
    BY <2>1, <2>3, <2>5, FinishHolds
<1>7. CASE FileNotOpened
  <2>1. kind \in Kinds /\ Shaped(kind, ctx)
    BY <1>7 DEF FileNotOpened, HashInv
  <2> DEFINE none == 0
             c == resetContext(ctx)
  <2>2. none \in Nat /\ Fed(kind, c, none)
    BY <2>1, ResetHoldsNothing
  <2>3. /\ ctx' = c /\ phase' = "idle" /\ fed' = 0 /\ thrown' = "HL_FILE_READ_ERROR"
        /\ digest' = NoDigest /\ kind' = kind
    BY <1>7 DEF FileNotOpened
  <2> HIDE DEF none, c
  <2>4. Shaped(kind, c)
    BY <2>1, <2>2, FedIsShaped
  <2>5. Shaped(kind', ctx')
    BY <2>3, <2>4
  <2> QED
    BY <2>1, <2>3, <2>5, NoDigestIs DEF HashInv
<1>8. CASE Test
  <2>1. /\ kind # "none" /\ Finish(StringContext(TestString), TestString)
        /\ thrown' \in {"none", "HL_VERIFY_TEST_FAILED"}
    BY <1>8 DEF Test
  <2>2. kind \in Kinds /\ Shaped(kind, ctx)
    BY <2>1 DEF HashInv
  <2> DEFINE n == TestString
             m == n % UIntMod
             c == StringContext(n)
  <2>3. n \in Nat /\ n < UIntMod /\ UIntMod \in Nat
    BY WrapperAssumption, Widths
  <2>4. Fed(kind, c, m)
    BY <2>2, <2>3, StringIsFed
  <2>5. m \in Nat /\ m = n
    BY <2>3, Widths, Division
  <2>6. Finish(c, n)
    BY <2>1
  <2> HIDE DEF m, c, n
  <2> QED
    BY <2>1, <2>3, <2>4, <2>5, <2>6, FinishHolds
<1>9. CASE UNCHANGED vars
  <2>1. /\ kind' = kind /\ ctx' = ctx /\ phase' = phase /\ fed' = fed
        /\ digest' = digest /\ thrown' = thrown
    BY <1>9 DEF vars
  <2>2. Standard(fed)' = Standard(fed)
    BY <2>1 DEF Standard
  <2> QED
    BY <2>1, <2>2 DEF HashInv
<1> QED
  BY <1>1, <1>2, <1>3, <1>4, <1>5, <1>6, <1>7, <1>8, <1>9 DEF Next

\* The inductive invariant holds, for every width of the integers, every length of a block
\* and every sequence of calls.
THEOREM HashInvariant == Spec => []HashInv
<1> QED
  BY InitHolds, NextHolds, PTL DEF Spec

LEMMA HashInvTypes == HashInv => TypeOK
<1> SUFFICES ASSUME HashInv PROVE TypeOK
  OBVIOUS
<1>1. /\ kind \in Kinds \cup {"none"} /\ phase \in {"idle", "hashing", "hashed"}
      /\ fed \in Nat /\ digest \in DigestType
      /\ thrown \in {"none", "HL_UNKNOWN_HASH_TYPE", "HL_FILE_READ_ERROR",
                     "HL_VERIFY_TEST_FAILED"}
  BY DEF HashInv
<1>2. kind = "md5" => ctx \in MD5Context
  BY DEF HashInv, Shaped, MD5Sized
<1>3. ContextType
  <2>1. /\ kind = "sha1" => ctx \in SHA1Context
        /\ kind = "sha256" => ctx \in SHA256Context
        /\ kind \in {"sha384", "sha512"} => ctx \in SHA512Context
    BY DEF HashInv, Shaped
  <2> QED
    BY <2>1 DEF ContextType
<1> QED
  BY <1>1, <1>2, <1>3 DEF TypeOK, DigestType

\* The context of every wrapper keeps its type: no counter leaves its width and no
\* index its block.
THEOREM HashTypes == Spec => []TypeOK
<1> QED
  BY HashInvariant, HashInvTypes, PTL

LEMMA HashInvHolds == HashInv /\ FieldRight => ContextHoldsMessage
<1> SUFFICES ASSUME HashInv, FieldRight, phase = "hashing"
             PROVE  LET state == IF kind = "sha1" THEN ctx.Intermediate_Hash ELSE ctx.state
                    IN  /\ ~TooLong => /\ state.iv = kind
                                       /\ FlattenSeq(state.blocks) \o Waiting = Message(fed)
                                       /\ LengthField = HighLow(fed, WordMod)
                        /\ kind = "sha1" => (TooLong <=> ctx.Corrupted # shaSuccess)
  BY DEF ContextHoldsMessage
<1>1. kind \in Kinds /\ fed \in Nat /\ Fed(kind, ctx, fed) /\ (kind = "md5" => CountsRight(fed))
  BY DEF HashInv, FieldRight
<1> QED
  BY <1>1, FedShows

LEMMA HashInvDigests == HashInv /\ FieldRight => DigestRight
<1> SUFFICES ASSUME HashInv, FieldRight, phase = "hashed", ~TooLong,
                    fed \in Strings => fed < UIntMod
             PROVE  digest = Standard(fed)
  BY DEF DigestRight
<1>1. Bits(fed) \in Nat /\ Word64Mod \in Nat
  BY BitsAre, Widths DEF HashInv
<1>2. Short(kind, fed)
  BY <1>1 DEF Short, FieldRight, TooLong
<1> QED
  BY <1>2 DEF HashInv

LEMMA FieldIsRight == ULongMod = UIntMod => FieldRight
BY DEF FieldRight, CountsRight

\* Where the length field of MD5 is right (always, if an unsigned long is as wide as an
\* int; otherwise up to 2^32 bits), the context holds the message, every byte once and in
\* order, however it was cut into chunks.
THEOREM ContextHoldsShort == Spec => [](FieldRight => ContextHoldsMessage)
<1> QED
  BY HashInvariant, HashInvHolds, PTL

\* ... and the digest is the one the standard defines.
THEOREM DigestsShort == Spec => [](FieldRight => DigestRight)
<1> QED
  BY HashInvariant, HashInvDigests, PTL

\* With an unsigned long as wide as an int, ContextHoldsMessage holds of every message.
THEOREM ContextHolds == ULongMod = UIntMod => (Spec => []ContextHoldsMessage)
<1> SUFFICES ASSUME ULongMod = UIntMod PROVE Spec => []ContextHoldsMessage
  OBVIOUS
<1>1. HashInv => ContextHoldsMessage
  BY HashInvHolds, FieldIsRight
<1> QED
  BY <1>1, HashInvariant, PTL

\* With an unsigned long as wide as an int, every digest is the standard's.
THEOREM DigestsRight == ULongMod = UIntMod => (Spec => []DigestRight)
<1> SUFFICES ASSUME ULongMod = UIntMod PROVE Spec => []DigestRight
  OBVIOUS
<1>1. HashInv => DigestRight
  BY HashInvDigests, FieldIsRight
<1> QED
  BY <1>1, HashInvariant, PTL
===============================================================================
