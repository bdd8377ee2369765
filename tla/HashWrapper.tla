------------------------------ MODULE HashWrapper ------------------------------
(***************************************************************************)
(* The wrappers of hashlib2plus and their client: wrapperfactory makes a   *)
(* wrapper of some kind, which hashes strings, files and its test string,  *)
(* one message after the other with the same context.                      *)
(*                                                                         *)
(* The member functions a wrapper forwards to are those of the classes     *)
(* MD5, SHA1, SHA256 and SHA2ext, which execute_transfer() also uses       *)
(* without a wrapper, passing it a chunk at a time: ResetContext,          *)
(* UpdateContext and HashIt are those single calls.                        *)
(***************************************************************************)
EXTENDS Md5, Sha1, Sha256, Sha2ext

CONSTANTS
  FileBlock,      \* bytes getHashFromFile() reads at a time (1024)
  Strings,        \* lengths of the strings to hash
  Files,          \* lengths of the files to hash
  Chunks,         \* lengths of the chunks of a message passed piecewise
  TestString,     \* length of the test string
  MaxMessage      \* bound of a message passed piecewise

ASSUME WrapperAssumption ==
  /\ FileBlock \in 1 .. UIntMod - 1
  /\ Strings \subseteq Nat /\ Files \subseteq Nat
  /\ Chunks \subseteq 0 .. UIntMod - 1 /\ TestString \in 0 .. UIntMod - 1
  /\ MaxMessage \in Nat

Kinds == {"md5", "sha1", "sha256", "sha384", "sha512"}

VARIABLES
  kind,        \* of the wrapper the client has; "none" if it has no wrapper
  ctx,         \* the member ctx of the wrapper
  phase,       \* "idle", "hashing" (between a reset and hashIt) or "hashed"
  fed,         \* number of bytes of the message so far
  digest,      \* what hashIt() returned for the message
  thrown       \* what the last call threw

vars == <<kind, ctx, phase, fed, digest, thrown>>

NoDigest == DigestOf(Garbage, 0)

-------------------------------------------------------------------------------
(* The virtual member functions. *)

RawContext(k) ==
  CASE k = "md5" -> RawMD5Context
    [] k = "sha1" -> RawSHA1Context
    [] k = "sha256" -> RawSHA256Context
    [] OTHER -> RawSHA512Context

resetContext(c) ==
  CASE kind = "md5" -> MD5Init(c)
    [] kind = "sha1" -> SHA1Reset(c)
    [] kind = "sha256" -> SHA256Init(c)
    [] kind = "sha384" -> SHA384Init(c)
    [] kind = "sha512" -> SHA512Init(c)

updateContext(c, data) ==
  CASE kind = "md5" -> MD5Update(c, data)
    [] kind = "sha1" -> SHA1Input(c, data)
    [] kind = "sha256" -> SHA256Update(c, data)
    [] kind = "sha384" -> SHA384Update(c, data)
    [] kind = "sha512" -> SHA512Update(c, data)

\* hashIt() and convToString(): the digest, in full.
hashIt(c) ==
  CASE kind = "md5" -> MD5Digest(c)
    [] kind = "sha1" -> SHA1Digest(c)
    [] kind = "sha256" -> SHA256Digest(c)
    [] kind = "sha384" -> SHA384Digest(c)
    [] kind = "sha512" -> SHA512Digest(c)

\* What hashIt() leaves of the context: the SHA-2 classes wipe the size of a pointer.
AfterHashIt(c) ==
  CASE kind = "md5" -> MD5Wiped
    [] kind = "sha1" -> SHA1Result(c)
    [] kind = "sha256" -> [SHA256Finished(c) EXCEPT !.state = Garbage]
    [] OTHER -> [SHA512Last(c) EXCEPT !.state = Garbage]

Standard(n) ==
  CASE kind = "md5" -> StandardMD5(n)
    [] kind = "sha1" -> StandardSHA1(n)
    [] kind = "sha256" -> StandardSHA256(n)
    [] kind = "sha384" -> StandardSHA384(n)
    [] kind = "sha512" -> StandardSHA512(n)

-------------------------------------------------------------------------------
(* The client's calls. *)

Init ==
  /\ kind = "none" /\ ctx = RawMD5Context
  /\ phase = "idle" /\ fed = 0 /\ digest = NoDigest /\ thrown = "none"

\* wrapperfactory::create(HL_Wrappertype) throws on a type it does not know, and
\* create(std::string), case-insensitive, returns NULL.
Create(type, known, byName) ==
  /\ kind = "none"
  /\ kind' = IF known THEN type ELSE "none"
  /\ ctx' = RawContext(type)
  /\ thrown' = IF known \/ byName THEN "none" ELSE "HL_UNKNOWN_HASH_TYPE"
  /\ UNCHANGED <<phase, fed, digest>>

ResetContext ==
  /\ kind # "none"
  /\ ctx' = resetContext(ctx)
  /\ phase' = "hashing" /\ fed' = 0 /\ thrown' = "none"
  /\ digest' = NoDigest
  /\ UNCHANGED kind

\* The len bytes of the message that follow those fed already.
UpdateContext(len) ==
  /\ phase = "hashing"
  /\ fed + len <= MaxMessage
  /\ ctx' = updateContext(ctx, [k \in 1 .. len |-> fed + k])
  /\ fed' = fed + len
  /\ UNCHANGED <<kind, phase, digest, thrown>>

HashIt ==
  /\ phase = "hashing"
  /\ digest' = hashIt(ctx)
  /\ ctx' = AfterHashIt(ctx)
  /\ phase' = "hashed"
  /\ UNCHANGED <<kind, fed, thrown>>

\* Finish a message of n bytes whose context is c.
Finish(c, n) ==
  /\ digest' = hashIt(c)
  /\ ctx' = AfterHashIt(c)
  /\ phase' = "hashed" /\ fed' = n
  /\ UNCHANGED kind

\* The context of a string: its length becomes an unsigned int.
StringContext(n) == updateContext(resetContext(ctx), Message(n % UIntMod))

getHashFromString(n) ==
  /\ kind # "none"
  /\ Finish(StringContext(n), n)
  /\ thrown' = "none"

\* The context of a file that is read to its end, a block at a time.
FileContext(n) ==
  LET blocks == [i \in 1 .. n \div FileBlock |->
                   [k \in 1 .. FileBlock |-> (i - 1) * FileBlock + k]]
      last == [k \in 1 .. n % FileBlock |-> FileBlock * (n \div FileBlock) + k]
      chunks == IF last = <<>> THEN blocks ELSE Append(blocks, last)
  IN  FoldLeft(updateContext, resetContext(ctx), chunks)

getHashFromFile(n) ==
  /\ kind # "none"
  /\ Finish(FileContext(n), n)
  /\ thrown' = "none"

\* getHashFromFile() of a file that cannot be opened: the context is reset.
FileNotOpened ==
  /\ kind # "none"
  /\ ctx' = resetContext(ctx)
  /\ phase' = "idle" /\ fed' = 0 /\ thrown' = "HL_FILE_READ_ERROR"
  /\ digest' = NoDigest
  /\ UNCHANGED kind

\* test(): the digest of the test string is a constant of the wrapper.
Test ==
  /\ kind # "none"
  /\ Finish(StringContext(TestString), TestString)
  /\ thrown' = IF digest' = Standard(TestString) THEN "none" ELSE "HL_VERIFY_TEST_FAILED"

Next ==
  \/ \E type \in Kinds, known, byName \in BOOLEAN : Create(type, known, byName)
  \/ ResetContext
  \/ \E len \in Chunks : UpdateContext(len)
  \/ HashIt
  \/ \E n \in Strings : getHashFromString(n)
  \/ \E n \in Files : getHashFromFile(n)
  \/ FileNotOpened
  \/ Test

Spec == Init /\ [][Next]_vars

-------------------------------------------------------------------------------
(* Properties. *)

ContextType ==
  CASE kind = "sha1" -> ctx \in SHA1Context
    [] kind = "sha256" -> ctx \in SHA256Context
    [] kind \in {"sha384", "sha512"} -> ctx \in SHA512Context
    [] OTHER -> TRUE

TypeOK ==
  /\ kind \in Kinds \cup {"none"}
  /\ kind = "md5" => ctx \in MD5Context
  /\ ContextType
  /\ phase \in {"idle", "hashing", "hashed"}
  /\ fed \in Nat
  /\ digest \in [iv : Algorithms, words : Nat, blocks : Seq(Seq(Int))]
  /\ thrown \in {"none", "HL_UNKNOWN_HASH_TYPE", "HL_FILE_READ_ERROR",
                 "HL_VERIFY_TEST_FAILED"}

\* The part of the message that waits in the buffer of a context, and the length
\* field that would end the message now.
Waiting ==
  CASE kind = "md5" -> FirstOf(ctx.buffer, BufferedMD5(ctx))
    [] kind = "sha1" -> FirstOf(ctx.Message_Block, ctx.Message_Block_Index)
    [] kind = "sha256" -> FirstOf(ctx.buffer, UsedSpace(ctx))
    [] OTHER -> FirstOf(ctx.buffer, SHA512UsedSpace(ctx))

LengthField ==
  CASE kind = "md5" -> Reverse(Encode(ctx.count))
    [] kind = "sha1" -> << LengthWord(ctx.Length_High), LengthWord(ctx.Length_Low) >>
    [] kind = "sha256" -> << LengthWord(ctx.bitcount \div UIntMod),
                             LengthWord(ctx.bitcount % UIntMod) >>
    [] OTHER -> << LengthWord(ctx.bitcount[2]), LengthWord(ctx.bitcount[1]) >>

WordMod == IF kind \in {"sha384", "sha512"} THEN Word64Mod ELSE UIntMod

\* SHA-1 gives up on a message of 2^64 bits.
TooLong == kind = "sha1" /\ Bits(fed) >= Word64Mod

\* At any time the blocks compressed and the bytes that wait in the buffer are the
\* message, every byte once and in order, and the bit counter is its length modulo
\* the width of the length field, although the compression of the SHA-2 classes
\* overwrites the buffer; SHA-1 reports a message that is too long, and only that.
ContextHoldsMessage ==
  phase = "hashing" =>
    LET state == IF kind = "sha1" THEN ctx.Intermediate_Hash ELSE ctx.state
    IN  /\ ~TooLong => /\ state.iv = kind
                       /\ FlattenSeq(state.blocks) \o Waiting = Message(fed)
                       /\ LengthField = HighLow(fed, WordMod)
        /\ kind = "sha1" => (TooLong <=> ctx.Corrupted # shaSuccess)

\* The digest is the one the standard defines for the message, however the message was
\* cut into chunks and whatever the context was used for before: for lengths on
\* either side of every boundary of block and padding.  Excepted are a string whose
\* length does not fit an unsigned int, and SHA-1 beyond 2^64 bits.
DigestRight ==
  phase = "hashed" /\ ~TooLong /\ (fed \in Strings => fed < UIntMod)
    => digest = Standard(fed)

\* "number of bits, modulo 2^64 (lsb first)" (hl_md5.h:90): the two words of count
\* that MD5Final() appends.
CountIsLength ==
  kind = "md5" /\ phase = "hashing" => LengthField = HighLow(fed, UIntMod)
===============================================================================
