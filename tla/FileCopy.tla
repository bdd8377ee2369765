------------------------------- MODULE FileCopy -------------------------------
(***************************************************************************)
(* class FileCopy (lib/filecopy): copies one file through a ring of four   *)
(* buffers.  This module has the object's state and one action per member  *)
(* function; the callers (CopyJob: TreeSlinger::_run_copier with           *)
(* FileCopy::execute; Transfer: execute_transfer) give them an order.      *)
(*                                                                         *)
(* Data.  Byte k of the source file is the number k.  Bytes of a file that *)
(* was in the destination before, and bytes left in the ring by an earlier *)
(* file, are Foreign.                                                      *)
(*                                                                         *)
(* A chunk shorter than the ofstream's own buffer may stay in it ("held")  *)
(* until the stream is closed.                                             *)
(***************************************************************************)
EXTENDS RingBuffer, Sequences

CONSTANTS
  SizeMod,     \* a size_t ranges over 0 .. SizeMod-1
  Overwrite,   \* the public field _overwrite, FALSE unless a caller sets it
  Faults       \* the environment faults that may happen: "open", "read", "write"

ASSUME FileCopyAssumption ==
  /\ RingLength = 4                         \* _buff(RING_BUFFER_CHUNKSIZE, 4)
  /\ SizeMod \in Nat
  /\ SizeMod > 2 * IntHalf /\ SizeMod % (2 * IntHalf) = 0
  /\ Overwrite \in BOOLEAN
  /\ Faults \subseteq {"open", "read", "write"}

VARIABLES
  srcLen,        \* the source file: its length
  target,        \* the destination path: parent directory, file, content
  inStream,      \* _inStream : open, position, failbit
  outStream,     \* _outStream: open, failbit, what its buffer still holds
  started, firstWritten,        \* flags of the object
  sourceSize, destSize,         \* _sourceSizeInBytes, _destSizeInBytes
  bytesRead, bytesWritten,      \* _numBytesReadToBuffer, _numBytesWrittenFromBuffer
  buff,          \* _buff
  thrown         \* the exception that leaves a member function, or "none"

environment == <<srcLen, target>>
counters    == <<sourceSize, destSize, bytesRead, bytesWritten>>
copier      == <<inStream, outStream, started, firstWritten, counters, buff, thrown>>
fileCopyVars == <<environment, copier>>

Foreign == -1

Exceptions == {"READ_WRITE_MISMATCH", "FILESIZE_MISMATCH", "CHECKSUM_MISMATCH",
               "out_of_range", "filesystem_error", "hlException"}

FileCopyTypeOK ==
  /\ srcLen \in Nat
  /\ target \in [dir : BOOLEAN, exists : BOOLEAN, data : Seq(Int)]
  /\ inStream \in [open : BOOLEAN, pos : Nat, fail : BOOLEAN]
  /\ outStream \in [open : BOOLEAN, fail : BOOLEAN, held : Seq(Int)]
  /\ Len(outStream.held) < BufferLength
  /\ ~outStream.open => outStream.held = <<>>
  /\ started \in BOOLEAN
  /\ firstWritten \in BOOLEAN
  /\ sourceSize \in Nat
  /\ destSize \in Nat
  /\ bytesRead \in Nat
  /\ bytesWritten \in Nat
  /\ buff \in RingRecord
  /\ thrown \in Exceptions \cup {"none"}

AsSize(x) == IF x \in 0 .. SizeMod - 1 THEN x ELSE x % SizeMod

Lesser(a, b) == IF a <= b THEN a ELSE b

ClosedIn  == [open |-> FALSE, pos |-> 0, fail |-> FALSE]
ClosedOut == [open |-> FALSE, fail |-> FALSE, held |-> <<>>]

OpenedOut(ok) == [open |-> ok, fail |-> ~ok, held |-> <<>>]

\* close() leaves failbit as it is (the next open clears it); the position of a
\* closed stream is of no use.
CloseIn == [inStream EXCEPT !.open = FALSE, !.pos = 0]

\* close() of the destination writes what the stream still holds; when that fails,
\* the stream is closed all the same, and nobody asks for the failbit it then has.
CloseDest ==
  /\ outStream' = [outStream EXCEPT !.open = FALSE, !.held = <<>>]
  /\ LET held == outStream.held
     IN  \E m \in (IF "write" \in Faults THEN 0 ELSE Len(held)) .. Len(held) :
           target' = [target EXCEPT !.data = @ \o SubSeq(held, 1, m)]

-------------------------------------------------------------------------------
(* FileCopy() and reset(). *)

ConstructInit ==
  /\ inStream = ClosedIn /\ outStream = ClosedOut
  /\ started = FALSE /\ firstWritten = FALSE
  /\ sourceSize = 0 /\ destSize = 0
  /\ bytesRead = 0 /\ bytesWritten = 0
  /\ thrown = "none"
  /\ buff = NewRing

\* Mutant: reset() forgets _sourceSizeInBytes.
ClearAllButSourceSize ==
  /\ inStream' = ClosedIn /\ outStream' = ClosedOut
  /\ started' = FALSE /\ firstWritten' = FALSE
  /\ destSize' = 0
  /\ bytesRead' = 0 /\ bytesWritten' = 0
  /\ thrown' = "none"
  /\ UNCHANGED sourceSize

\* Every member but the ring, which reset() and a new object treat differently.
ClearMembers ==
  /\ inStream' = ClosedIn /\ outStream' = ClosedOut
  /\ started' = FALSE /\ firstWritten' = FALSE
  /\ sourceSize' = 0 /\ destSize' = 0
  /\ bytesRead' = 0 /\ bytesWritten' = 0
  /\ thrown' = "none"

Construct == ClearMembers /\ buff' = NewRing

\* What was a byte of the previous source file is foreign to the next one.
ForgetSource(rb) ==
  [rb EXCEPT !.ring = [i \in SlotIndex |-> [j \in SampleIndex |->
     IF rb.ring[i][j] = Zero THEN Zero ELSE Foreign]]]

ResetCopier == ClearMembers /\ buff' = ForgetSource(ResetRing(buff))

-------------------------------------------------------------------------------
(* ready(), bytes_remaining(), complete(), get_dest_size(). *)

Ready(in, out) == in.open /\ out.open

BytesRemaining == AsSize(bytesRead - bytesWritten)

\* Mutant: complete() does not look at what is still buffered.
CompleteWhenClosed(in, out) == started /\ ~Ready(in, out)

Complete(in, out) ==
  /\ started
  /\ ~Ready(in, out)
  /\ BytesRemaining = 0
  /\ buff.buffered = 0

\* get_dest_size(): it asks for the file's size when it knows none, but a debug
\* build refuses while a copy is in progress; _destSizeInBytes after the call, of a
\* file with these bytes.
AsksFileSize(in, out) ==
  destSize = 0 /\ ~(Debug /\ started /\ ~Complete(in, out))

DestSizeAfter(in, out, data) ==
  IF AsksFileSize(in, out) THEN Len(data) ELSE destSize

-------------------------------------------------------------------------------
(* open_source(), open_dest(), close(). *)

\* The source is gone: file_size() throws.
SourceMissing ==
  /\ "open" \in Faults /\ sourceSize = 0
  /\ thrown' = "filesystem_error"
  /\ UNCHANGED <<inStream, sourceSize>>

OpenSourceStream ==
  /\ sourceSize' = IF sourceSize = 0 THEN srcLen ELSE sourceSize
  /\ \E ok \in (IF "open" \in Faults THEN BOOLEAN ELSE {TRUE}) :
       inStream' = [open |-> ok, pos |-> 0, fail |-> ~ok]
  /\ UNCHANGED thrown

OpenSource ==
  /\ SourceMissing \/ OpenSourceStream
  /\ UNCHANGED <<environment, outStream, started, firstWritten, destSize,
                 bytesRead, bytesWritten, buff>>

\* A file that exists is left unopened, its size remembered.
KeepDest ==
  /\ ~Overwrite /\ target.exists
  /\ destSize' = DestSizeAfter(inStream, outStream, target.data)
  /\ UNCHANGED <<target, outStream>>

\* Mutant: open_dest() opens a file that exists.
CreateDestAlways ==
  /\ outStream' = OpenedOut(target.dir)
  /\ target' = IF target.dir
               THEN [target EXCEPT !.exists = TRUE, !.data = <<>>]
               ELSE target
  /\ UNCHANGED destSize

\* Mutant: std::ios::app instead of truncation.
AppendDest ==
  /\ Overwrite \/ ~target.exists
  /\ outStream' = OpenedOut(target.dir)
  /\ target' = IF target.dir THEN [target EXCEPT !.exists = TRUE] ELSE target
  /\ UNCHANGED destSize

\* ofstream::open creates or truncates the file; it fails silently when the
\* parent directory is missing.
CreateDest ==
  /\ Overwrite \/ ~target.exists
  /\ outStream' = OpenedOut(target.dir)
  /\ target' = IF target.dir
               THEN [target EXCEPT !.exists = TRUE, !.data = <<>>]
               ELSE target
  /\ UNCHANGED destSize

OpenDest ==
  /\ KeepDest \/ CreateDest
  /\ UNCHANGED <<srcLen, inStream, started, firstWritten, sourceSize,
                 bytesRead, bytesWritten, buff, thrown>>

\* close()
CloseStreams == inStream' = CloseIn /\ CloseDest

-------------------------------------------------------------------------------
(* read_to_buffer(). *)

\* The number of bytes istream::read delivers.  A stream that once came up
\* short has failbit set and delivers nothing more; a "read" fault is an I/O
\* error or a source that is truncated while it is copied.
ReadCounts ==
  LET most == Lesser(BufferLength, IF inStream.pos < srcLen
                                   THEN srcLen - inStream.pos ELSE 0)
  IN  IF inStream.fail THEN {0}
      ELSE IF "read" \in Faults THEN 0 .. most ELSE {most}

\* istream::read of n bytes into the buffer at the write cursor; the rest of
\* that buffer keeps its old samples.
FillWriteBuffer(rb, n) ==
  [rb EXCEPT !.ring[rb.writeIndex] =
     [j \in SampleIndex |-> IF j < n THEN inStream.pos + j + 1 ELSE @[j]]]

\* No buffer is writable, or the source is closed.
ReadNothing(rb) ==
  /\ ~inStream.open \/ BuffersAvailable(rb) = 0
  /\ buff' = rb
  /\ UNCHANGED <<inStream, bytesRead>>

ReadChunk(rb) ==
  /\ inStream.open /\ BuffersAvailable(rb) # 0
  /\ \E n \in ReadCounts \ {0} :
       /\ inStream' = [inStream EXCEPT !.pos = @ + n, !.fail = n < BufferLength]
       /\ buff' = RotatePartialWrite(FillWriteBuffer(rb, n), n)
       /\ bytesRead' = AsSize(bytesRead + n)

\* Mutant: the end of the source does not close it.
ReadEndLeftOpen(rb) ==
  /\ inStream.open /\ BuffersAvailable(rb) # 0
  /\ 0 \in ReadCounts
  /\ buff' = rb
  /\ UNCHANGED <<inStream, bytesRead>>

\* Nothing was read: the source is closed.
ReadEnd(rb) ==
  /\ inStream.open /\ BuffersAvailable(rb) # 0
  /\ 0 \in ReadCounts
  /\ inStream' = CloseIn
  /\ buff' = rb
  /\ UNCHANGED bytesRead

\* Mutant: the processing cursor is not moved.
ReadToBufferUnmoved ==
  /\ ReadNothing(buff) \/ ReadChunk(buff) \/ ReadEnd(buff)
  /\ started' = TRUE
  /\ UNCHANGED <<environment, outStream, firstWritten, sourceSize, destSize,
                 bytesWritten, thrown>>

\* The first call of a copy that did not come through execute() moves the
\* processing cursor past the buffer that is never written.
ReadToBuffer ==
  /\ LET rb == IF started THEN buff ELSE RotateProcessingIndex(buff)
     IN  ReadNothing(rb) \/ ReadChunk(rb) \/ ReadEnd(rb)
  /\ started' = TRUE
  /\ UNCHANGED <<environment, outStream, firstWritten, sourceSize, destSize,
                 bytesWritten, thrown>>

-------------------------------------------------------------------------------
(* write_from_buffer() and write_processed_from_buffer() differ only in     *)
(* the counter that says how many samples may be written: "pending".        *)

\* tellp(): -1 once the stream has failed.  It counts what the stream holds, and
\* does not write it to the file.
TellP(out, data) == IF out.fail THEN SizeMod - 1 ELSE Len(data) + Len(out.held)

\* Mutant: the first write does not move the read cursor.
ReadCursorUnmoved == buff

\* The first write skips the buffer at index 0, which is never filled first.
ReadCursorReady ==
  IF firstWritten THEN buff ELSE RotateReadIndex(buff)

\* Mutant: always a whole buffer.
WriteWholeBuffer(pending) == BufferLength

WriteLength(pending) == Lesser(AsUInt(pending), BufferLength)

ReadBufferBytes(rb, k) == [j \in 1 .. k |-> rb.ring[rb.readIndex][j - 1]]

\* What the stream holds goes to the file with the chunk, and nothing is held.
WriteThrough(chunk) ==
  /\ ~outStream.fail
  /\ target' = [target EXCEPT !.data = @ \o outStream.held \o chunk]
  /\ outStream' = [outStream EXCEPT !.held = <<>>]

\* A chunk that leaves less than a buffer to hold may stay in the stream.
HoldBack(chunk) ==
  /\ ~outStream.fail
  /\ Len(outStream.held) + Len(chunk) < BufferLength
  /\ outStream' = [outStream EXCEPT !.held = @ \o chunk]
  /\ UNCHANGED target

\* A part is written, and the stream has failed.
WriteBadly(chunk) ==
  /\ ~outStream.fail /\ "write" \in Faults
  /\ LET all == outStream.held \o chunk
     IN  \E m \in 0 .. Len(all) - 1 :
           target' = [target EXCEPT !.data = @ \o SubSeq(all, 1, m)]
  /\ outStream' = [outStream EXCEPT !.fail = TRUE]

\* ostream::write
StreamWrite(chunk) ==
  \/ WriteThrough(chunk) \/ HoldBack(chunk) \/ WriteBadly(chunk)
  \/ outStream.fail /\ UNCHANGED <<target, outStream>>

\* Counts what was written from the two stream positions.  A debug build
\* throws in rotate_partial_read when the difference exceeds the buffer.
CountWritten(rb) ==
  LET written == AsSize(TellP(outStream', target'.data)
                        - TellP(outStream, target.data))
  IN  IF LengthOutOfRange(AsUInt(written))
      THEN /\ thrown' = "out_of_range"
           /\ buff' = rb
           /\ UNCHANGED bytesWritten
      ELSE /\ buff' = RotatePartialRead(rb, AsUInt(written))
           /\ bytesWritten' = AsSize(bytesWritten + written)
           /\ UNCHANGED thrown

WriteChunk(pending) ==
  /\ outStream.open /\ pending > 0
  /\ StreamWrite(ReadBufferBytes(ReadCursorReady, WriteLength(pending)))
  /\ CountWritten(ReadCursorReady)
  /\ firstWritten' = TRUE

\* Nothing pending: the destination is closed, unless nothing was written yet.
WriteEnd(pending) ==
  /\ outStream.open /\ pending <= 0
  /\ IF TellP(outStream, target.data) > 0
     THEN CloseDest
     ELSE UNCHANGED <<target, outStream>>
  /\ UNCHANGED <<buff, bytesWritten, firstWritten, thrown>>

WriteNothing ==
  /\ ~outStream.open
  /\ UNCHANGED <<target, outStream, buff, bytesWritten, firstWritten, thrown>>

WriteOut(pending) ==
  /\ WriteChunk(pending) \/ WriteEnd(pending) \/ WriteNothing
  /\ started' = TRUE
  /\ UNCHANGED <<srcLen, inStream, sourceSize, destSize, bytesRead>>

WriteFromBuffer == WriteOut(buff.buffered)

WriteProcessedFromBuffer == WriteOut(buff.samplesProcessed)

-------------------------------------------------------------------------------
(* What holds of the ring and the counters between read_to_buffer() and the  *)
(* writing functions: parts of the callers' invariants.                      *)

\* The first bytes of the source file, as many as there are in data.
IsSourcePrefix(data) ==
  /\ Len(data) <= srcLen
  /\ \A k \in 1 .. Len(data) : data[k] = k

\* What the destination's stream holds are the next bytes of the source.
HeldFollows ==
  /\ Len(target.data) + Len(outStream.held) <= srcLen
  /\ \A k \in 1 .. Len(outStream.held) : outStream.held[k] = Len(target.data) + k

\* Only the end of a source may be held: nothing is written after it.
HeldIsTail ==
  outStream.held # <<>> =>
    ~outStream.fail /\ buff.buffered = 0 /\ (inStream.open => inStream.fail)

\* The most that close() may lose of what was counted as written.
MaxLoss == IF "write" \in Faults THEN BufferLength - 1 ELSE 0

\* The file is short of what was counted, by less than a buffer: close() could not
\* write what the stream held.
LostOnClose ==
  "write" \in Faults
  /\ Len(target.data) \in bytesWritten - BufferLength + 1 .. bytesWritten - 1

\* The slot the next write_from_buffer writes from.
ReadCursor == ReadCursorReady.readIndex

AheadOf(index, n) ==
  IF index + n >= RingLength THEN index + n - RingLength ELSE index + n

\* The number of buffers from the read cursor to the write cursor.
ChunksInRing ==
  IF buff.writeIndex >= ReadCursor
  THEN buff.writeIndex - ReadCursor
  ELSE buff.writeIndex - ReadCursor + RingLength

\* The samples of a slot are bytes of the source, n of them from byte "first" on.
SlotHolds(slot, first, n) ==
  \A i \in SampleIndex : i < n => buff.ring[slot][i] = first + i

\* All buffers but the last are full, and the last one is unless the source has
\* come up short: only so may one _buffered count and whole-buffer cursors
\* describe the same bytes.
RingFilledInOrder ==
  /\ ChunksInRing \in 0 .. 3
  /\ buff.buffered \in (ChunksInRing - 1) * BufferLength + 1
                        .. ChunksInRing * BufferLength
  /\ inStream.open /\ ~inStream.fail =>
       buff.buffered = ChunksInRing * BufferLength
  /\ SlotHolds(ReadCursor, bytesWritten + 1, buff.buffered)
  /\ SlotHolds(AheadOf(ReadCursor, 1), bytesWritten + BufferLength + 1,
               buff.buffered - BufferLength)
  /\ SlotHolds(AheadOf(ReadCursor, 2), bytesWritten + BufferLength + BufferLength + 1,
               buff.buffered - BufferLength - BufferLength)

CountersAgree ==
  /\ bytesRead - bytesWritten = buff.buffered
  /\ buff.buffered \in 0 .. TotalWritableLength
  /\ bytesRead <= srcLen
  /\ inStream.open => inStream.pos = bytesRead
===============================================================================
