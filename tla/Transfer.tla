------------------------------- MODULE Transfer -------------------------------
(***************************************************************************)
(* execute_transfer (src/main.cpp): the other driver of a FileCopy.  It    *)
(* reads one chunk ahead, hashes each chunk while it lies in the ring      *)
(* (inline) or both files at the end, prints a progress bar, and compares  *)
(* sizes, byte counts and checksums.                                       *)
(*                                                                         *)
(* The repository has no caller of execute_transfer; the one modelled      *)
(* opens a source and a destination, calls it, and calls reset() before    *)
(* the next file, also after an exception.                                 *)
(*                                                                         *)
(* pc is the next step of the thread:                                      *)
(*   "source", "dest"                  open_source, open_dest              *)
(*   "prefetch"                        the first read_to_buffer            *)
(*   "test", "read", "hash", "write"   the transfer loop                   *)
(*   "finish"                          closing the files and the checks    *)
(*   "returned", "failed"              how execute_transfer ended          *)
(***************************************************************************)
EXTENDS FileCopy, ProgressBar, FiniteSets

CONSTANTS
  SourceSizes,   \* lengths of the files to copy
  Targets        \* what may be at the destination path beforehand

ASSUME TransferAssumption ==
  /\ SourceSizes \subseteq 0 .. SizeMod \div 2 - 1     \* a position in a file is signed
  /\ \A t \in Targets :
       /\ t \in [dir : BOOLEAN, exists : BOOLEAN, data : Seq(Int)]
       /\ Len(t.data) < SizeMod
       /\ t.exists => t.dir
       /\ ~t.exists => t.data = <<>>

VARIABLES
  pc,
  inline,      \* sourceHashInline
  stopped,     \* whether an exception stopped an earlier transfer of the object
  hashed,      \* what sourceHasher was fed: the first "hashed" bytes of the
               \* source, or Foreign if it is not a prefix of the source
  bar, text    \* the progress bar and the characters printed (status)

call == <<inline, stopped>>
progress == <<bar, text>>
vars == <<fileCopyVars, pc, call, hashed, progress>>

ProgramCounters == {"source", "dest", "prefetch", "test", "read", "hash", "write",
                    "finish", "returned", "failed"}

TypeOK ==
  /\ FileCopyTypeOK
  /\ pc \in ProgramCounters
  /\ inline \in BOOLEAN /\ stopped \in BOOLEAN
  /\ hashed \in Nat \cup {Foreign}
  /\ bar \in [maximum : Nat, state : 0 .. SizeMod - 1]
  /\ text \in [0 .. Width - 1 -> {"?", "-", "#"}]

Goto(from, to) == pc = from /\ pc' = to

-------------------------------------------------------------------------------
Init ==
  /\ srcLen \in SourceSizes
  /\ target \in Targets
  /\ ConstructInit
  /\ pc = "source"
  /\ inline \in BOOLEAN /\ stopped = FALSE
  /\ hashed = 0
  /\ bar = NewProgress /\ text = BlankText

\* The caller's reset() and its next file.  What reset() may still write to a file
\* that an exception left open is no longer looked at.
NextFile ==
  /\ pc \in {"returned", "failed"}
  /\ pc' = "source"
  /\ srcLen' \in SourceSizes
  /\ target' \in Targets
  /\ ResetCopier
  /\ inline' \in BOOLEAN
  /\ stopped' = (stopped \/ pc = "failed")
  /\ hashed' = 0
  /\ bar' = NewProgress /\ text' = BlankText

DoOpenSource ==
  /\ pc = "source"
  /\ OpenSource
  /\ pc' = IF thrown' = "none" THEN "dest" ELSE "failed"
  /\ UNCHANGED <<call, hashed, progress>>

DoOpenDest ==
  Goto("dest", "prefetch") /\ OpenDest /\ UNCHANGED <<call, hashed, progress>>

\* The bar, MD5Init() and one chunk ahead.
Prefetch ==
  /\ Goto("prefetch", "test")
  /\ bar' = SetMaximum(NewProgress, sourceSize)
  /\ ReadToBuffer
  /\ UNCHANGED <<call, hashed, text>>

LoopTest ==
  /\ pc = "test"
  /\ pc' = IF Complete(inStream, outStream) THEN "finish" ELSE "read"
  /\ UNCHANGED <<fileCopyVars, call, hashed, progress>>

LoopRead ==
  /\ Goto("read", IF inline THEN "hash" ELSE "write")
  /\ ReadToBuffer
  /\ UNCHANGED <<call, hashed, progress>>

\* Mutant: the hasher is given the buffer at the read cursor.
ReadCursorBytes(k) == [j \in 1 .. k |-> buff.ring[buff.readIndex][j - 1]]

ProcessingBytes(k) == [j \in 1 .. k |-> buff.ring[buff.processingIndex][j - 1]]

\* MD5Update, of which only what it was fed matters.
Fed(bytes) ==
  IF bytes = <<>> THEN hashed
  ELSE IF hashed # Foreign /\ \A j \in 1 .. Len(bytes) : bytes[j] = hashed + j
  THEN hashed + Len(bytes)
  ELSE Foreign

\* hash_data(): as many bytes as are buffered, up to a buffer.
LoopHash ==
  /\ Goto("hash", "write")
  /\ hashed' = Fed(ProcessingBytes(WriteLength(buff.buffered)))
  /\ buff' = RotatePartialProcessing(buff, WriteLength(buff.buffered))
  /\ UNCHANGED <<environment, inStream, outStream, started, firstWritten, counters,
                 thrown, call, progress>>

\* Mutant: the bar counts what was read.
PrintBarOfReads ==
  /\ bar' = SetProgress(bar, bytesRead)
  /\ text' \in GetBar(bar', text, IntHalf - 1)

\* The bar of the bytes that the write just counted.
PrintBar ==
  /\ bar' = IncrementProgress(bar, AsSize(bytesWritten' - bytesWritten), SizeMod)
  /\ text' \in GetBar(bar', text, IntHalf - 1)

LoopWrite ==
  /\ pc = "write"
  /\ IF inline THEN WriteProcessedFromBuffer ELSE WriteFromBuffer
  /\ IF thrown' = "none" THEN pc' = "test" /\ PrintBar
                         ELSE pc' = "failed" /\ UNCHANGED progress
  /\ UNCHANGED <<call, hashed>>

\* getHashFromFile() of a file with these bytes: the bytes it hashes.  It takes a
\* read that comes up short for the end of the file.
HashedFromFile(data) ==
  {SubSeq(data, 1, m) :
     m \in (IF "read" \in Faults THEN 0 .. Len(data) ELSE {Len(data)})}

FirstBytes(n) == [k \in 1 .. n |-> k]

\* The source checksum, as the bytes it stands for.
SourceHashes ==
  IF ~inline THEN HashedFromFile(FirstBytes(srcLen))
  ELSE IF hashed = Foreign THEN {<<Foreign>>}
  ELSE {FirstBytes(hashed)}

\* What comparing the checksums may end with, of a destination with these bytes; a
\* file that cannot be opened is an exception of the hash library.
ChecksumVerdicts(data) ==
  {IF source = dest THEN "none" ELSE "CHECKSUM_MISMATCH" :
     source \in SourceHashes, dest \in HashedFromFile(data)}
  \cup (IF "open" \in Faults THEN {"hlException"} ELSE {})

\* Mutant: the sizes are not compared.
VerdictsWithoutSize(data) ==
  IF ~target.exists THEN {"filesystem_error"}
  ELSE IF bytesRead # bytesWritten THEN {"READ_WRITE_MISMATCH"}
  ELSE ChecksumVerdicts(data)

\* What the checks at the end of execute_transfer() throw, in their order.
Verdicts(data) ==
  IF ~target.exists THEN {"filesystem_error"}
  ELSE IF sourceSize # Len(data) THEN {"FILESIZE_MISMATCH"}
  ELSE IF bytesRead # bytesWritten THEN {"READ_WRITE_MISMATCH"}
  ELSE ChecksumVerdicts(data)

Finish ==
  /\ pc = "finish"
  /\ CloseStreams
  /\ destSize' = IF target.exists THEN Len(target'.data) ELSE destSize
  /\ thrown' \in Verdicts(target'.data)
  /\ pc' = IF thrown' = "none" THEN "returned" ELSE "failed"
  /\ UNCHANGED <<srcLen, started, firstWritten, sourceSize,
                 bytesRead, bytesWritten, buff, call, hashed, progress>>

Transferring ==
  \/ DoOpenSource \/ DoOpenDest \/ Prefetch
  \/ LoopTest \/ LoopRead \/ LoopHash \/ LoopWrite
  \/ Finish

Next == Transferring \/ NextFile

Spec == Init /\ [][Next]_vars

\* The thread keeps running; the caller need not have another file.
FairSpec == Spec /\ WF_vars(Transferring)

-------------------------------------------------------------------------------
(* Properties. *)

IsSource(data) == data = FirstBytes(srcLen)

\* Inline hashing and writing go through the ring with cursors and counters of
\* their own.  As long as the destination takes what is written, every byte of the
\* source is hashed exactly once, in order, and written only after that: hash_data
\* asks buffered() how much to hash, which also counts what is hashed already, so
\* this rests on the loop writing a chunk after each chunk it hashes.  An exception
\* between the two leaves samplesProcessed as it is, reset() or not.
HashedThenWritten ==
  inline /\ ~stopped /\ outStream.open /\ ~outStream.fail =>
    /\ hashed # Foreign
    /\ hashed = bytesWritten + buff.samplesProcessed
    /\ hashed <= bytesRead

\* When execute_transfer() returns from a copy, the destination is the source file,
\* byte for byte, whatever was read short or written badly on the way.  A destination
\* it did not write is the source file too, unless reading failed: the hash library
\* takes a read error for the end of the file.
VerifiedWhole ==
  pc = "returned" /\ (firstWritten \/ "read" \notin Faults) => IsSource(target.data)

\* The checks blame a copy only for what happened to it: the counters of the object
\* never disagree at the end; the sizes of a file that was written do only if the
\* source came up short or close() could not write the tail that was counted, the
\* checksums only if a file could not be read through.
AlarmsAreReal ==
  /\ thrown # "READ_WRITE_MISMATCH"
  /\ thrown = "FILESIZE_MISMATCH" /\ firstWritten => bytesRead < srcLen \/ LostOnClose
  /\ thrown = "CHECKSUM_MISMATCH" /\ firstWritten => "read" \in Faults

Ended == pc \in {"returned", "failed"}

\* A destination that open_dest() left unopened is never written, and the loop
\* waits for it to be.
Stuck == inStream.open /\ ~outStream.open /\ srcLen > 0

\* After an exception between hashing and writing, the count of processed samples is
\* too high for the rest of the object's life: an inline transfer writes more than
\* it read, and then its byte counts never agree.
Stale == inline /\ stopped

\* Every other transfer ends.
TransferEnds == pc = "prefetch" /\ ~Stuck /\ ~Stale ~> Ended

\* And these never do.
StuckForever == [](pc = "prefetch" /\ Stuck => []~Ended)

\* The bar never shows more than was written, and it is full when all is; a character
\* that was never set is printed only when the first chunk already was a part of the
\* bar, and then never in a full one.
BarShowsProgress ==
  pc \in {"test", "finish", "returned"} /\ ~outStream.fail /\ bar.maximum > 0 =>
    LET shown == Cardinality({i \in DOMAIN text : text[i] = "#"})
    IN  /\ bar.state = bytesWritten /\ bytesWritten <= sourceSize
        /\ shown = Elapsed(bar) \/ (bytesWritten = 0 /\ text = BlankText)
        /\ \A i \in DOMAIN text : text[i] = "#" <=> i < shown
        /\ bytesWritten = 0 => text = BlankText \/ \A i \in DOMAIN text : text[i] = "-"

-------------------------------------------------------------------------------
CopyStatus ==
  IF pc = "returned" THEN "done"
  ELSE IF pc = "failed" THEN "failed"
  ELSE IF outStream.open \/ firstWritten THEN "copying"
  ELSE "waiting"

Copy == INSTANCE CopySpec WITH
          Lengths <- SourceSizes, Files <- Targets, Chunk <- BufferLength, Loss <- 0,
          length <- srcLen, file <- target, status <- CopyStatus

\* execute_transfer() makes the same promise of the destination as
\* FileCopy::execute(), by other steps.
ImplementsCopy == Copy!Spec

-------------------------------------------------------------------------------
(* The inductive invariant behind them. *)

Running == pc \in {"prefetch", "test", "read", "hash", "write", "finish"}

\* open_dest has created the destination of this file.
Created == outStream.open \/ firstWritten

\* A write has failed.
Lost == firstWritten /\ outStream.fail

\* No exception can have left samples counted as processed.
NeverThrown == ~Debug \/ "write" \notin Faults
Clean == ~stopped \/ NeverThrown

\* What an inline transfer that is not clean may come to: more is written than was
\* read, and it never ends.
Overrun == bytesWritten > bytesRead

\* The samples that are hashed and not written.
Ahead == IF inline /\ pc = "write" THEN WriteLength(buff.buffered) ELSE 0

\* reset(), open_source() and open_dest() leave an empty ring and a source at its
\* first byte.
FreshTransfer ==
  /\ pc \in {"source", "dest", "prefetch"} =>
       /\ bytesRead = 0 /\ bytesWritten = 0 /\ ~started /\ ~firstWritten
       /\ buff.buffered = 0
       /\ buff.readIndex = 0 /\ buff.writeIndex = 1 /\ buff.processingIndex = 0
       /\ hashed = 0
       /\ inStream.open => inStream.pos = 0
  /\ pc \in {"source", "dest"} => ~outStream.open
  /\ pc = "source" => sourceSize = 0
  /\ pc = "dest" \/ Running => sourceSize = srcLen
  /\ Running /\ pc # "prefetch" => started

\* The number of bytes written is the length of the destination with what its stream
\* holds, or size_t(-1) once a write has failed; once it is closed, the file may be
\* short of it.
DestCounted ==
  /\ target.exists => target.dir
  /\ Running /\ Created =>
       /\ target.exists
       /\ Lost => bytesWritten = SizeMod - 1
       /\ Lost /\ Clean => outStream.held = <<>>
       /\ ~Lost /\ outStream.open =>
            bytesWritten = Len(target.data) + Len(outStream.held)
       /\ ~Lost /\ ~outStream.open =>
            bytesWritten - Len(target.data) \in 0 .. MaxLoss
       /\ ~Lost /\ ~Overrun =>
            IsSourcePrefix(target.data) /\ HeldFollows /\ HeldIsTail
  /\ Running /\ ~Created /\ target.exists => ~Overwrite
  /\ ~firstWritten => bytesWritten = 0
  /\ outStream.open /\ outStream.fail => firstWritten
  /\ Lost => "write" \in Faults

RingOrdered ==
  Running =>
    /\ bytesRead <= srcLen /\ (inStream.open => inStream.pos = bytesRead)
    /\ ~Lost /\ ~Overrun =>
         /\ CountersAgree /\ RingFilledInOrder
         /\ pc \in {"hash", "write"} /\ inStream.open => buff.buffered # 0
         /\ firstWritten /\ ~outStream.open => buff.buffered = 0 /\ ~inStream.open
    /\ ~Lost /\ Overrun =>
         /\ inline /\ ~Clean /\ firstWritten /\ buff.buffered = 0
         /\ inStream.open => inStream.fail
         /\ bytesWritten + buff.samplesProcessed <= srcLen + TotalWritableLength

\* Hashing is ahead of writing by the chunk in between, and at the read cursor.  A
\* destination that was not opened is hashed for again and again.
HashedAhead ==
  /\ ~Lost \/ ~Running => buff.samplesProcessed \in 0 .. TotalWritableLength
  /\ Running /\ ~Lost /\ ~Overrun /\ (Created \/ bytesRead = 0) =>
       /\ Clean => buff.samplesProcessed = Ahead
       /\ buff.samplesProcessed >= Ahead
       /\ inline => hashed = bytesWritten + Ahead
       /\ inline /\ started /\ (inStream.open \/ buff.buffered > 0) =>
            buff.processingIndex = IF pc = "write" THEN NextIndex(ReadCursor) ELSE ReadCursor
  /\ pc \in {"source", "dest", "returned"} /\ Clean => buff.samplesProcessed = 0
  /\ pc = "failed" /\ NeverThrown => buff.samplesProcessed = 0

\* How control reaches the ends.
ControlInOrder ==
  /\ pc # "failed" => thrown = "none"
  /\ pc = "hash" => inline
  /\ pc = "finish" => Complete(inStream, outStream)
  /\ pc = "returned" => ~outStream.open
  /\ pc = "failed" => ~outStream.open \/ outStream.fail

TransferInv ==
  /\ TypeOK /\ srcLen \in SourceSizes
  /\ FreshTransfer /\ DestCounted /\ RingOrdered /\ HashedAhead /\ ControlInOrder
  /\ VerifiedWhole /\ AlarmsAreReal

-------------------------------------------------------------------------------
(* The invariant behind StuckForever. *)

UnreadAtStart == pc \in {"dest", "prefetch"} /\ inStream.open => ~inStream.fail

\* Something was read, and no stream takes it.
WaitsForDest ==
  /\ pc \in {"test", "read", "hash", "write"}
  /\ ~outStream.open /\ bytesWritten = 0 /\ bytesRead # 0

Hanging == (pc = "prefetch" /\ Stuck) \/ WaitsForDest

-------------------------------------------------------------------------------
(* The invariant behind BarShowsProgress. *)

\* The text is what get_bar() makes of the counters, or is as yet unset.
TextShowsBar ==
  \/ bytesWritten = 0 /\ text = BlankText
  \/ /\ \A i \in 0 .. Width - 1 : text[i] = "#" <=> i < Elapsed(bar)
     /\ bytesWritten = 0 => \A i \in 0 .. Width - 1 : text[i] = "-"

BarInv ==
  /\ pc \in {"source", "dest", "prefetch"} => bar = NewProgress /\ text = BlankText
  /\ pc \in {"test", "read", "hash", "write", "finish", "returned"} =>
       /\ bar.maximum = sourceSize
       /\ ~outStream.fail => bar.state = bytesWritten /\ bytesWritten <= sourceSize
       /\ ~outStream.fail /\ bar.maximum > 0 => TextShowsBar
===============================================================================
