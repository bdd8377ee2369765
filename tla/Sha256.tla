-------------------------------- MODULE Sha256 --------------------------------
(***************************************************************************)
(* class SHA256 (lib/hashlib2plus, hl_sha256.cpp).  SHA256_Transform uses  *)
(* the buffer of the context as its word schedule, so that the buffer      *)
(* holds nothing of the message after it.                                  *)
(***************************************************************************)
EXTENDS HashBlocks

SHA256Context ==
  [ state : ChainingValue,
    bitcount : 0 .. Word64Mod - 1, buffer : Seq(Int) ]

RawSHA256Context ==
  [state |-> Garbage, bitcount |-> 0, buffer |-> [k \in 1 .. BlockLength |-> Scratch]]

SHA256Init(context) ==
  [context EXCEPT !.state = InitialValue("sha256"), !.buffer = Zeroes(BlockLength),
                  !.bitcount = 0]

SHA256Transform(context, data) ==
  [context EXCEPT !.state = CompressAll(@, data),
                  !.buffer = [k \in 1 .. BlockLength |-> Scratch]]

UsedSpace(context) == (context.bitcount \div ByteBits) % BlockLength

\* bitcount += len << 3
Counted(context, len) == [context EXCEPT !.bitcount = (@ + Bits(len)) % Word64Mod]

\* Whole blocks are compressed where they are, the left-overs saved.
DirectUpdate(context, data) ==
  LET processed == IF Len(data) < BlockLength THEN context
                   ELSE SHA256Transform(context, data)
  IN  Counted([processed EXCEPT !.buffer = Put(@, 0, Rest(data))], Len(data))

SHA256Update(context, data) ==
  LET used == UsedSpace(context)
      free == BlockLength - used
      taken == FirstOf(data, free)
      fill == Counted([context EXCEPT !.buffer = Put(@, used, taken)], Len(taken))
  IN  IF used = 0 THEN DirectUpdate(context, data)
      ELSE IF Len(data) < free THEN fill
      ELSE DirectUpdate(SHA256Transform(fill, fill.buffer),
                        SubSeq(data, free + 1, Len(data)))

\* SHA256_Final() up to the bit count.
SHA256Padded(context) ==
  LET used == UsedSpace(context)
      marked(end) == [context EXCEPT
                        !.buffer = Put(@, used, <<OneBit>> \o Zeroes(end - used - 1))]
  IN  IF used < ShortBlock THEN marked(ShortBlock)
      ELSE [SHA256Transform(context, marked(BlockLength).buffer) EXCEPT
              !.buffer = Put(@, 0, Zeroes(ShortBlock))]

\* The context after the final transform; memset of sizeof(context), the size of a
\* pointer, wipes no more than the first words of the state after the digest is out.
SHA256Finished(context) ==
  LET length == << LengthWord(context.bitcount \div UIntMod),
                   LengthWord(context.bitcount % UIntMod) >>
  IN  SHA256Transform(SHA256Padded(context), Put(SHA256Padded(context).buffer, ShortBlock, length))

SHA256Digest(context) == DigestOf(SHA256Finished(context).state, 8)

StandardSHA256(n) == StandardDigest("sha256", 8, n, HighLow(n, UIntMod))
===============================================================================
