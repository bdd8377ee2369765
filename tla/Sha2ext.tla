-------------------------------- MODULE Sha2ext --------------------------------
(***************************************************************************)
(* class SHA2ext (lib/hashlib2plus, hl_sha2ext.cpp): SHA-512, and SHA-384, *)
(* which is SHA-512 with another initial value and a shorter digest.  Its  *)
(* block is twice as long as that of the other algorithms, in words of 64  *)
(* bits, and so is its length field: scaled, both are what they were.      *)
(***************************************************************************)
EXTENDS HashBlocks

SHA512Context ==
  [ state : ChainingValue,
    bitcount : Seq(0 .. Word64Mod - 1), buffer : Seq(Int) ]

RawSHA512Context ==
  [ state |-> Garbage, bitcount |-> <<0, 0>>,
    buffer |-> [k \in 1 .. BlockLength |-> Scratch] ]

Initialized(context, name) ==
  [context EXCEPT !.state = InitialValue(name), !.buffer = Zeroes(BlockLength),
                  !.bitcount = <<0, 0>>]

SHA512Init(context) == Initialized(context, "sha512")

SHA384Init(context) == Initialized(context, "sha384")

SHA512Transform(context, data) ==
  [context EXCEPT !.state = CompressAll(@, data),
                  !.buffer = [k \in 1 .. BlockLength |-> Scratch]]

\* Mutant: the carry out of the low word is lost.
ADDINC128NoCarry(w, n) == << (w[1] + n) % Word64Mod, w[2] >>

ADDINC128(w, n) ==
  LET low == (w[1] + n) % Word64Mod
  IN  << low, IF low < n THEN (w[2] + 1) % Word64Mod ELSE w[2] >>

SHA512UsedSpace(context) == (context.bitcount[1] \div ByteBits) % BlockLength

\* The bit count grows by one sum per block, and one for what is left.
SHA512Direct(context, data) ==
  LET whole == WholeBlocks(data)
      processed == IF whole = <<>> THEN context ELSE SHA512Transform(context, data)
      count(w, block) == ADDINC128(w, Bits(Len(block)))
  IN  [processed EXCEPT !.buffer = Put(@, 0, Rest(data)),
                        !.bitcount = FoldLeft(count, @, Append(whole, Rest(data)))]

SHA512Update(context, data) ==
  LET used == SHA512UsedSpace(context)
      free == BlockLength - used
      taken == FirstOf(data, free)
      fill == [context EXCEPT
                 !.buffer = Put(@, used, taken),
                 !.bitcount = ADDINC128(@, Bits(Len(taken)))]
  IN  IF used = 0 THEN SHA512Direct(context, data)
      ELSE IF Len(data) < free THEN fill
      ELSE SHA512Direct(SHA512Transform(fill, fill.buffer),
                        SubSeq(data, free + 1, Len(data)))

SHA384Update(context, data) == SHA512Update(context, data)

\* SHA512_Last() up to the bit count: it leaves the last two bytes of the buffer,
\* which the bit count overwrites.
SHA512Padded(context) ==
  LET used == SHA512UsedSpace(context)
      marked(end) == [context EXCEPT
                        !.buffer = Put(@, used, <<OneBit>> \o Zeroes(end - used - 1))]
  IN  IF used < ShortBlock THEN marked(ShortBlock)
      ELSE [SHA512Transform(context, marked(BlockLength).buffer) EXCEPT
              !.buffer = Put(@, 0, Zeroes(BlockLength - 1))]

SHA512Last(context) ==
  LET length == << LengthWord(context.bitcount[2]), LengthWord(context.bitcount[1]) >>
  IN  SHA512Transform(SHA512Padded(context),
        Put(SHA512Padded(context).buffer, ShortBlock, length))

SHA512Digest(context) == DigestOf(SHA512Last(context).state, 8)

SHA384Digest(context) == DigestOf(SHA512Last(context).state, 6)

StandardSHA512(n) == StandardDigest("sha512", 8, n, HighLow(n, Word64Mod))

StandardSHA384(n) == StandardDigest("sha384", 6, n, HighLow(n, Word64Mod))
===============================================================================
