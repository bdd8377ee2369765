--------------------------------- MODULE Sha1 ---------------------------------
(***************************************************************************)
(* class SHA1 (lib/hashlib2plus, hl_sha1.cpp).  An HL_SHA1_CTX is a record *)
(* whose Message_Block_Index is the length of what its Message_Block holds.*)
(***************************************************************************)
EXTENDS HashBlocks

shaSuccess == 0
shaTooLong == 1         \* the literal 1 the code stores
shaStateError == 3

SHA1Context ==
  [ Intermediate_Hash : ChainingValue,
    Length_Low : 0 .. UIntMod - 1, Length_High : 0 .. UIntMod - 1,
    Message_Block_Index : 0 .. BlockLength, Message_Block : Seq(Int),
    Computed : BOOLEAN, Corrupted : {shaSuccess, shaTooLong, shaStateError} ]

RawSHA1Context ==
  [ Intermediate_Hash |-> Garbage, Length_Low |-> 0, Length_High |-> 0,
    Message_Block_Index |-> 0,
    Message_Block |-> [k \in 1 .. BlockLength |-> Scratch],
    Computed |-> FALSE, Corrupted |-> shaSuccess ]

SHA1Reset(context) ==
  [context EXCEPT !.Length_Low = 0, !.Length_High = 0, !.Message_Block_Index = 0,
                  !.Intermediate_Hash = InitialValue("sha1"),
                  !.Computed = FALSE, !.Corrupted = shaSuccess]

\* Mutant: the index is not reset.
ProcessKeepingIndex(context) ==
  [context EXCEPT !.Intermediate_Hash = Compress(@, context.Message_Block)]

SHA1ProcessMessageBlock(context) ==
  [context EXCEPT
     !.Intermediate_Hash = Compress(@, context.Message_Block),
     !.Message_Block_Index = 0]

\* One turn of the loop of SHA1Input().
InputByte(context, byte) ==
  LET low == (context.Length_Low + ByteBits) % UIntMod
      high == IF low = 0 THEN (context.Length_High + 1) % UIntMod
              ELSE context.Length_High
      tooLong == low = 0 /\ high = 0
      stored == [context EXCEPT
                   !.Message_Block[context.Message_Block_Index + 1] = byte,
                   !.Message_Block_Index = @ + 1,
                   !.Length_Low = low, !.Length_High = high,
                   !.Corrupted = IF tooLong THEN shaTooLong ELSE @]
  IN  IF context.Corrupted # shaSuccess THEN context
      ELSE IF stored.Message_Block_Index = BlockLength
      THEN SHA1ProcessMessageBlock(stored)
      ELSE stored

SHA1Input(context, bytes) ==
  IF bytes = <<>> THEN context
  ELSE IF context.Computed THEN [context EXCEPT !.Corrupted = shaStateError]
  ELSE FoldLeft(InputByte, context, bytes)

NeedsSecondBlock(context) == context.Message_Block_Index > ShortBlock - 1

\* 0x80, zeroes up to the end of the block or of its short part, and the length.
SHA1PadMessage(context) ==
  LET index == context.Message_Block_Index
      \* while (Message_Block_Index < end) Message_Block[Message_Block_Index++] = 0
      marked(end) == [context EXCEPT
                        !.Message_Block = Put(@, index, <<OneBit>> \o Zeroes(end - index - 1))]
      room == IF NeedsSecondBlock(context)
              THEN [SHA1ProcessMessageBlock(marked(BlockLength)) EXCEPT
                      !.Message_Block = Put(@, 0, Zeroes(ShortBlock))]
              ELSE marked(ShortBlock)
  IN  SHA1ProcessMessageBlock(
        [room EXCEPT
           !.Message_Block = Put(@, ShortBlock, << LengthWord(context.Length_High),
                                                   LengthWord(context.Length_Low) >>)])

\* SHA1Result() of a context that is not corrupted.
SHA1Computed(context) ==
  IF context.Computed THEN context
  ELSE [SHA1PadMessage(context) EXCEPT
          !.Message_Block = Zeroes(BlockLength),
          !.Length_Low = 0, !.Length_High = 0, !.Computed = TRUE]

SHA1Result(context) ==
  IF context.Corrupted # shaSuccess THEN context ELSE SHA1Computed(context)

\* The digest array of the caller, which an error leaves uninitialized.
SHA1Digest(context) ==
  DigestOf(IF context.Corrupted # shaSuccess THEN Garbage
           ELSE SHA1Computed(context).Intermediate_Hash, 5)

StandardSHA1(n) == StandardDigest("sha1", 5, n, HighLow(n, UIntMod))
===============================================================================
