--------------------------------- MODULE Md5 ---------------------------------
(***************************************************************************)
(* class MD5 (lib/hashlib2plus, hl_md5.cpp).  An HL_MD5_CTX is a record; a *)
(* member function maps the old record to the new one.                     *)
(***************************************************************************)
EXTENDS HashBlocks

MD5Context ==
  [ state : ChainingValue,
    count : Seq(0 .. ULongMod - 1), buffer : Seq(Int) ]

\* A context nobody initialized.
RawMD5Context ==
  [state |-> Garbage, count |-> <<0, 0>>, buffer |-> [k \in 1 .. BlockLength |-> Scratch]]

MD5Init(context) ==
  [context EXCEPT !.count = <<0, 0>>, !.state = InitialValue("md5")]

\* count is an array of two unsigned longs, updated from the shifted length.
AddToCount(count, inputLen) ==
  LET low == (count[1] + Bits(inputLen)) % ULongMod
      carry == IF low < Bits(inputLen) % ULongMod THEN 1 ELSE 0
  IN  << low, (count[2] + carry + Bits(inputLen) \div UIntMod) % ULongMod >>

BufferedMD5(context) == (context.count[1] \div ByteBits) % BlockLength

MD5Transform(state, block) == Compress(state, block)

MD5Update(context, input) ==
  LET index == BufferedMD5(context)
      partLen == BlockLength - index
      counted == [context EXCEPT !.count = AddToCount(@, Len(input))]
      filled == Put(context.buffer, index, SubSeq(input, 1, partLen))
      left == SubSeq(input, partLen + 1, Len(input))
  IN  IF Len(input) >= partLen
      THEN [counted EXCEPT
              !.state = CompressAll(MD5Transform(@, filled), left),
              !.buffer = Put(filled, 0, Rest(left))]
      ELSE [counted EXCEPT !.buffer = Put(@, index, input)]

PADDING == <<OneBit>> \o Zeroes(BlockLength - 1)

\* Encode(bits, count, 8): the low 32 bits of each word of count.
Encode(count) == << LengthWord(count[1] % UIntMod), LengthWord(count[2] % UIntMod) >>

\* Mutant: a message that just leaves no room is not given a second block.
PadLenTooShort(index) ==
  IF index <= ShortBlock THEN ShortBlock - index ELSE BlockLength + ShortBlock - index

PadLen(index) ==
  IF index < ShortBlock THEN ShortBlock - index ELSE BlockLength + ShortBlock - index

\* The state MD5Final() encodes into the digest.
MD5Finished(context) ==
  LET padding == FirstOf(PADDING, PadLen(BufferedMD5(context)))
  IN  MD5Update(MD5Update(context, padding), Encode(context.count)).state

\* MD5Final() leaves a context of zeroes.
MD5Wiped == [state |-> Garbage, count |-> <<0, 0>>, buffer |-> Zeroes(BlockLength)]

MD5Digest(context) == DigestOf(MD5Finished(context), 4)

StandardMD5(n) ==
  StandardDigest("md5", 4, n, Reverse(HighLow(n, UIntMod)))
===============================================================================
