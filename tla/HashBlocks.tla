------------------------------ MODULE HashBlocks ------------------------------
(***************************************************************************)
(* What the hash algorithms of hashlib2plus have in common: blocks, the    *)
(* padding of a message, integers of the widths the code uses.             *)
(*                                                                         *)
(* A byte is a cell of a block.  The bytes of a message are 1, 2, 3, ...,  *)
(* so that a block shows which bytes it holds and in which order; the      *)
(* other cells are written below.  A chaining value is not computed: it is *)
(* the initial value it started from and the blocks compressed into it,    *)
(* and two digests are equal exactly if these are.                         *)
(*                                                                         *)
(* The numbers are scaled: a byte has ByteBits bits (8), a block           *)
(* BlockLength bytes (64, or 128 for SHA-384 and SHA-512), an unsigned int *)
(* UIntMod values (2^32).  The length field at the end of a padded message *)
(* is two words, each written in one cell.                                 *)
(***************************************************************************)
EXTENDS Integers, SequencesExt

CONSTANTS
  BlockLength,    \* bytes of a block
  ByteBits,       \* bits of a byte
  UIntMod,        \* an unsigned int (and a 32-bit word) is in 0 .. UIntMod-1
  ULongMod        \* an unsigned long is in 0 .. ULongMod-1

ASSUME HashAssumption ==
  /\ BlockLength \in Nat /\ BlockLength > 2
  /\ ByteBits \in Nat \ {0}
  /\ UIntMod \in Nat /\ ULongMod \in Nat
  /\ UIntMod % (BlockLength * ByteBits) = 0
  /\ UIntMod > BlockLength * ByteBits
  /\ ULongMod \in {UIntMod, UIntMod * UIntMod}

\* A 64-bit word has two 32-bit halves.
Word64Mod == UIntMod * UIntMod

\* Where the length field begins.
ShortBlock == BlockLength - 2

-------------------------------------------------------------------------------
(* Cells. *)

ZeroByte == 0
OneBit == -1                    \* 0x80, the first byte of the padding
LengthWord(w) == -2 - w         \* a word of the length field
Scratch == -2 - Word64Mod       \* what a compression leaves behind in a buffer

Zeroes(n) == [k \in 1 .. n |-> ZeroByte]

Bits(n) == n * ByteBits

FirstOf(data, n) == IF n < Len(data) THEN SubSeq(data, 1, n) ELSE data

\* memcpy(&buffer[at], bytes, Len(bytes))
Put(buffer, at, bytes) ==
  [k \in DOMAIN buffer |->
     IF k - at \in DOMAIN bytes THEN bytes[k - at] ELSE buffer[k]]

-------------------------------------------------------------------------------
(* Chaining values. *)

Algorithms == {"md5", "sha1", "sha256", "sha384", "sha512", "garbage"}

ChainingValue == [iv : Algorithms, blocks : Seq(Seq(Int))]

InitialValue(name) == [iv |-> name, blocks |-> <<>>]

\* An object that was never initialized, or was wiped.
Garbage == InitialValue("garbage")

\* The compression function.
Compress(state, block) == [state EXCEPT !.blocks = Append(@, block)]

WholeBlocks(data) ==
  [i \in 1 .. Len(data) \div BlockLength |->
     SubSeq(data, (i - 1) * BlockLength + 1, i * BlockLength)]

Rest(data) == SubSeq(data, BlockLength * (Len(data) \div BlockLength) + 1, Len(data))

CompressAll(state, data) == [state EXCEPT !.blocks = @ \o WholeBlocks(data)]

-------------------------------------------------------------------------------
(* The standards: the digest of a message of n bytes. *)

Message(n) == [k \in 1 .. n |-> k]

Padding(n, lengthField) ==
  LET last == (n + 1) % BlockLength
  IN  <<OneBit>>
      \o Zeroes(IF last <= ShortBlock THEN ShortBlock - last
                ELSE BlockLength + ShortBlock - last)
      \o lengthField

StandardDigest(iv, words, n, lengthField) ==
  [iv |-> iv, words |-> words,
   blocks |-> WholeBlocks(Message(n) \o Padding(n, lengthField))]

\* The number of bits as two words below wordMod, the high one first.
HighLow(n, wordMod) ==
  << LengthWord((Bits(n) \div wordMod) % wordMod), LengthWord(Bits(n) % wordMod) >>

\* A digest made of the first words of a chaining value.
DigestOf(state, words) == [iv |-> state.iv, words |-> words, blocks |-> state.blocks]
===============================================================================
