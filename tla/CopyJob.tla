-------------------------------- MODULE CopyJob --------------------------------
(***************************************************************************)
(* One copier at work: the body of TreeSlinger::_run_copier (reset,        *)
(* open_source, open_dest, execute) for one file after another, with the   *)
(* steps of FileCopy::execute, and the process dying between any two       *)
(* steps and being run again on the same file.                             *)
(*                                                                         *)
(* pc is the next step of the copier's thread:                             *)
(*   "idle"                     between two files                          *)
(*   "source", "dest"           open_source, open_dest                     *)
(*   "execute"                  entry of execute()                         *)
(*   "prebuffer"                the loop of pre_buffer_source()            *)
(*   "test", "write", "read"    the copy loop of execute()                 *)
(*   "check", "finish"          the end of execute()                       *)
(*   "returned"                 execute() has returned                     *)
(*   "dead"                     an exception nobody catches, or a crash    *)
(***************************************************************************)
EXTENDS FileCopy

CONSTANTS
  SourceSizes,   \* lengths of the files to copy
  Targets,       \* what may be at the destination path beforehand
  MayCrash       \* whether the process may die

ASSUME CopyJobAssumption ==
  /\ SourceSizes \subseteq 0 .. SizeMod - 2     \* no file is size_t(-1) long
  /\ \A t \in Targets :
       /\ t \in [dir : BOOLEAN, exists : BOOLEAN, data : Seq(Int)]
       /\ Len(t.data) < SizeMod
       /\ t.exists => t.dir
       /\ ~t.exists => t.data = <<>>
  /\ MayCrash \in BOOLEAN

VARIABLES
  pc,
  found        \* the destination as this file's first open_dest finds it

vars == <<fileCopyVars, pc, found>>

ProgramCounters == {"idle", "source", "dest", "execute", "prebuffer", "test",
                    "write", "read", "check", "finish", "returned", "dead"}

TypeOK ==
  /\ FileCopyTypeOK
  /\ pc \in ProgramCounters
  /\ found \in [dir : BOOLEAN, exists : BOOLEAN, data : Seq(Int)]

Goto(from, to) == pc = from /\ pc' = to

-------------------------------------------------------------------------------
Init ==
  /\ srcLen \in SourceSizes
  /\ target \in Targets
  /\ found = target
  /\ ConstructInit
  /\ pc = "idle"

\* The next index of the queue is another source file and another destination.
NextFile ==
  /\ pc = "returned" /\ pc' = "idle"
  /\ srcLen' \in SourceSizes
  /\ target' \in Targets
  /\ found' = target'
  /\ UNCHANGED copier

Reset ==
  /\ Goto("idle", "source")
  /\ ResetCopier
  /\ UNCHANGED <<environment, found>>

DoOpenSource ==
  /\ pc = "source"
  /\ OpenSource
  /\ pc' = IF thrown' = "none" THEN "dest" ELSE "dead"
  /\ UNCHANGED found

DoOpenDest == Goto("dest", "execute") /\ OpenDest /\ UNCHANGED found

\* "If destination file exists, skip it": by the size open_dest remembered.
SkipExisting == destSize # 0 /\ ~Overwrite

ExecuteSkip ==
  /\ Goto("execute", "finish")
  /\ SkipExisting
  /\ UNCHANGED <<fileCopyVars, found>>

ExecuteStart ==
  /\ Goto("execute", "prebuffer")
  /\ ~SkipExisting
  /\ started' = TRUE
  /\ UNCHANGED <<environment, inStream, outStream, firstWritten, counters, buff,
                 thrown, found>>

\* Mutant: pre-buffering ends when no whole buffer is free.
PreBufferWhileBuffers == BuffersAvailable(buff) # 0 /\ inStream.open

\* while (available() && is_open()) read_to_buffer()
PreBufferMore == Available(buff) # 0 /\ inStream.open

PreBuffer ==
  /\ pc = "prebuffer" /\ PreBufferMore
  /\ ReadToBuffer
  /\ UNCHANGED <<pc, found>>

PreBufferEnd ==
  /\ Goto("prebuffer", "test")
  /\ ~PreBufferMore
  /\ UNCHANGED <<fileCopyVars, found>>

LoopTest ==
  /\ pc = "test"
  /\ pc' = IF Complete(inStream, outStream) THEN "check" ELSE "write"
  /\ UNCHANGED <<fileCopyVars, found>>

\* Mutant: the copy loop writes without reading on.
LoopWriteOnly ==
  /\ pc = "write"
  /\ WriteFromBuffer
  /\ pc' = IF thrown' = "none" THEN "test" ELSE "dead"
  /\ UNCHANGED found

LoopWrite ==
  /\ pc = "write"
  /\ WriteFromBuffer
  /\ pc' = IF thrown' = "none" THEN "read" ELSE "dead"
  /\ UNCHANGED found

LoopRead == Goto("read", "test") /\ ReadToBuffer /\ UNCHANGED found

\* _check_buffer_match(), in a debug build.
CheckBuffer ==
  /\ pc = "check"
  /\ IF Debug /\ bytesRead # bytesWritten
     THEN pc' = "dead" /\ thrown' = "READ_WRITE_MISMATCH"
     ELSE pc' = "finish" /\ UNCHANGED thrown
  /\ UNCHANGED <<environment, inStream, outStream, started, firstWritten,
                 counters, buff, found>>

\* Mutant: the file sizes are not compared.
FinishUnchecked ==
  /\ pc = "finish"
  /\ CloseStreams
  /\ destSize' = DestSizeAfter(ClosedIn, ClosedOut, target'.data)
  /\ thrown' = IF AsksFileSize(ClosedIn, ClosedOut) /\ ~target.exists
               THEN "filesystem_error"
               ELSE "none"
  /\ pc' = IF thrown' = "none" THEN "returned" ELSE "dead"
  /\ UNCHANGED <<srcLen, started, firstWritten, sourceSize,
                 bytesRead, bytesWritten, buff, found>>

\* copyComplete: close(), get_dest_size(), and in a debug build
\* _check_file_size_match().  file_size() throws when there is no file.
Finish ==
  /\ pc = "finish"
  /\ CloseStreams
  /\ destSize' = DestSizeAfter(ClosedIn, ClosedOut, target'.data)
  /\ thrown' = IF AsksFileSize(ClosedIn, ClosedOut) /\ ~target.exists
               THEN "filesystem_error"
               ELSE IF Debug /\ sourceSize # destSize'
               THEN "FILESIZE_MISMATCH"
               ELSE "none"
  /\ pc' = IF thrown' = "none" THEN "returned" ELSE "dead"
  /\ UNCHANGED <<srcLen, started, firstWritten, sourceSize,
                 bytesRead, bytesWritten, buff, found>>

\* The process dies, and the object with it; a file that is being written
\* keeps a prefix of its data.
Crash ==
  /\ MayCrash /\ pc # "dead"
  /\ pc' = "dead"
  /\ \E n \in (IF outStream.open THEN 0 ELSE Len(target.data)) .. Len(target.data) :
       target' = [target EXCEPT !.data = SubSeq(@, 1, n)]
  /\ Construct
  /\ UNCHANGED <<srcLen, found>>

\* The program is run again and comes to the same file.
Rerun ==
  /\ Goto("dead", "idle")
  /\ Construct
  /\ UNCHANGED <<environment, found>>

Copying ==
  \/ DoOpenSource \/ DoOpenDest \/ ExecuteSkip \/ ExecuteStart
  \/ PreBuffer \/ PreBufferEnd
  \/ LoopTest \/ LoopWrite \/ LoopRead
  \/ CheckBuffer \/ Finish

Next == Copying \/ NextFile \/ Reset \/ Crash \/ Rerun

Spec == Init /\ [][Next]_vars

\* The thread keeps running; nothing makes the process die or the program be
\* run again.
FairSpec == Spec /\ WF_vars(Copying) /\ WF_vars(Reset)

-------------------------------------------------------------------------------
(* Properties. *)

IsSource(data) == IsSourcePrefix(data) /\ Len(data) = srcLen

\* Whatever happens (a fault, an exception, a crash, another run), what is at
\* the destination path is what was there at first or a prefix of the source
\* file: read_to_buffer and write_from_buffer never lose, repeat or reorder a
\* byte between them, and no byte of an earlier file, still in the ring after
\* reset(), is ever written.
TargetIsPrefix == target = found \/ IsSourcePrefix(target.data)

ChunksBuffered == (buff.buffered + BufferLength - 1) \div BufferLength

\* Where the ring, its cursors, _buffered and the two byte counters of FileCopy
\* meet: the bytes read and not yet written are in the ring, in order, from the
\* read cursor on, and the write cursor is right behind them.  rotate_partial_*
\* and FileCopy count the same bytes independently.  Once the destination has
\* failed (only a build without _DEBUG goes on then) this is lost.
RingHoldsUnwritten ==
  pc \notin {"idle", "returned"} /\ ~outStream.fail =>
    /\ bytesRead - bytesWritten = buff.buffered
    /\ buff.writeIndex = (ReadCursor + ChunksBuffered) % RingLength
    /\ \A k \in 0 .. buff.buffered - 1 :
         buff.ring[(ReadCursor + k \div BufferLength) % RingLength][k % BufferLength]
           = bytesWritten + k + 1

\* write_from_buffer closes the destination when it finds the ring empty, which
\* is only right if the source has come to its end: the read that follows every
\* write in execute() keeps the ring from running empty before that.  Once the
\* destination has failed the ring's count means nothing.
NoEarlyClose ==
  firstWritten /\ ~outStream.open /\ ~outStream.fail
  /\ pc \in {"test", "read", "write", "check", "finish"} =>
    bytesWritten = bytesRead /\ ~inStream.open

\* execute() returns to _run_copier only if the destination is a copy of the
\* source file, or a file that was there before the program ran at all and, in a
\* debug build, has the source's size: a file that a crash cut short is reported.
\* Without _DEBUG nothing compares the sizes after close(), so what close() could
\* not write may be missing, which is less than a buffer.
ReturnsOnlyWholeCopies ==
  pc = "returned" =>
    \/ IsSource(target.data)
    \/ /\ ~Overwrite /\ found.exists /\ target = found
       /\ Debug => Len(target.data) = srcLen
    \/ ~Debug /\ IsSourcePrefix(target.data) /\ srcLen - Len(target.data) <= MaxLoss

\* A file at the destination that this run of the program did not create is never
\* changed ("If destination file exists, skip it"), also when it is what a crash
\* left behind.
ExistingFileKept ==
  [][target.exists /\ ~outStream.open /\ ~Overwrite /\ pc # "returned"
       => target' = target]_vars

\* The consistency checks of a debug build blame the right party: execute() never
\* reads and writes different numbers of bytes; the sizes differ only if an old
\* file was kept, the source was not read to its end or close() could not write
\* the tail that write_from_buffer had counted; and the ring refuses a length only
\* when the destination could not be written.
ChecksNeverMisfire ==
  /\ thrown # "READ_WRITE_MISMATCH"
  /\ thrown = "FILESIZE_MISMATCH" /\ started => bytesRead < srcLen \/ LostOnClose
  /\ thrown = "out_of_range" => outStream.fail

-------------------------------------------------------------------------------
(* The inductive invariant behind TargetIsPrefix and RingHoldsUnwritten. *)

\* reset() and open_source() leave an empty ring and a source at its first byte.
FreshAtOpen ==
  pc \in {"source", "dest"} =>
    /\ bytesRead = 0 /\ bytesWritten = 0 /\ ~firstWritten
    /\ buff.buffered = 0 /\ buff.readIndex = 0 /\ buff.writeIndex = 1
    /\ pc = "dest" => inStream.pos = 0

CopyInv ==
  /\ TypeOK
  /\ srcLen < SizeMod
  /\ TargetIsPrefix
  /\ pc \in {"idle", "source", "dest", "returned"} => ~outStream.open
  /\ outStream.open => IsSourcePrefix(target.data) /\ HeldFollows /\ HeldIsTail
  /\ outStream.open /\ ~outStream.fail =>
       Len(target.data) + Len(outStream.held) = bytesWritten
  /\ FreshAtOpen
  /\ pc \notin {"idle", "returned"} /\ ~outStream.fail =>
       CountersAgree /\ RingFilledInOrder

-------------------------------------------------------------------------------
(* The invariant behind what execute() returns with. *)

Executing == pc \in {"execute", "prebuffer", "test", "write", "read", "check", "finish"}

\* open_dest has created the destination of this file.
Created == outStream.open \/ firstWritten

\* Each flag and size that execute() decides by, at the steps at which it does.
SizesKnown ==
  /\ pc = "source" => sourceSize = 0
  /\ pc = "dest" \/ Executing => sourceSize = srcLen
  /\ pc \in {"source", "dest"} => destSize = 0
  /\ pc \in {"source", "dest", "execute"} => ~started
  /\ Executing /\ started => destSize = 0
  /\ pc \in {"prebuffer", "test", "write", "read", "check"} => started
  /\ Executing /\ destSize # 0 =>
       ~Created /\ ~Overwrite /\ target.exists /\ destSize = Len(target.data)
  /\ pc = "finish" /\ ~started => destSize # 0

\* The number of bytes written is the length of the destination with what its stream
\* holds, or size_t(-1) for ever once it has failed; once it is closed, the file may
\* be short of it.
DestCounted ==
  /\ target.exists => target.dir
  /\ Executing /\ Created =>
       /\ target.exists /\ IsSourcePrefix(target.data)
       /\ outStream.fail => bytesWritten = SizeMod - 1
       /\ ~outStream.open /\ ~outStream.fail =>
            bytesWritten - Len(target.data) \in 0 .. MaxLoss
  /\ Executing /\ ~Created /\ target.exists =>
       ~Overwrite /\ destSize = Len(target.data)
  /\ Executing /\ ~firstWritten => bytesWritten = 0
  /\ pc \in {"execute", "prebuffer"} => ~firstWritten

SourceCounted ==
  /\ srcLen < SizeMod - 1
  /\ pc \notin {"idle", "returned"} =>
       bytesRead <= srcLen /\ (inStream.open => inStream.pos = bytesRead)

\* A source that no fault keeps from being read is closed at its end only.
SourceReadOut ==
  Faults \subseteq {"write"} /\ (pc = "dest" \/ Executing) =>
    (~inStream.open \/ inStream.fail => bytesRead = srcLen)

\* The loop never finds the ring empty while the source has more.
LoopFed ==
  pc \in {"test", "write"} /\ inStream.open /\ ~outStream.fail => buff.buffered # 0

\* complete() was true when the copy loop ended.
Completed ==
  pc = "check" \/ (pc = "finish" /\ started) =>
    /\ bytesRead = bytesWritten /\ buff.buffered = 0
    /\ ~Ready(inStream, outStream)

\* The builds and environments in which a file that is cut short is not taken for
\* a copy: the checks of a debug build, or no faults but failing writes and no crash
\* that leaves part of a file behind to be skipped.
Checked ==
  Debug \/ (Faults \subseteq {"write"} /\ (Overwrite \/ ~MayCrash))

\* In the second case nothing but open_dest touches the destination before a copy.
FoundUntouched ==
  Checked /\ ~Debug /\ ~Overwrite =>
    (pc \in {"idle", "source", "dest", "dead"} \/ (Executing /\ ~Created)
       => target = found)

ReturnInv ==
  /\ CopyInv
  /\ SizesKnown /\ DestCounted /\ SourceCounted /\ SourceReadOut
  /\ LoopFed /\ NoEarlyClose /\ Completed /\ FoundUntouched
  /\ pc # "dead" => thrown = "none"
  /\ ChecksNeverMisfire
  /\ Checked => ReturnsOnlyWholeCopies

-------------------------------------------------------------------------------
(* The abstract copy this implements. *)

CopyStatus ==
  IF pc = "returned" THEN "done"
  ELSE IF pc = "dead" THEN "failed"
  ELSE IF pc # "idle" /\ (outStream.open \/ firstWritten) THEN "copying"
  ELSE "waiting"

Copy == INSTANCE CopySpec WITH
          Lengths <- SourceSizes, Files <- Targets, Chunk <- BufferLength,
          Loss <- IF Debug THEN 0 ELSE MaxLoss,
          length <- srcLen, file <- target, status <- CopyStatus

\* One copier with its ring, its streams and its failures is an implementation of
\* CopySpec: each of its steps is a step of the abstract copy or none.  Only without
\* _DEBUG may it take a copy for done that lacks what close() could not write.
ImplementsCopy == Copy!Spec

-------------------------------------------------------------------------------
(* Does execute() end? *)

\* The jobs whose execute() does not end.  Nothing can be written: the destination
\* is an empty file that exists, or could not be created.  Or pre_buffer_source
\* waits for the ring to be full to the last byte or the source to be closed, and
\* the file is one that leaves less than a buffer free without filling the ring.
Stuck ==
  /\ ~SkipExisting /\ inStream.open /\ srcLen > 0
  /\ ~outStream.open \/ srcLen \in TotalWritableLength - BufferLength + 1
                                    .. TotalWritableLength - 1

Ended == pc \in {"returned", "dead"}

\* Every other job ends.
EndsUnlessStuck == pc = "execute" /\ ~Stuck ~> Ended

\* And these never do.
StuckForever == [](pc = "execute" /\ Stuck => []~Ended)

\* "Executes copy and blocks until transfer is complete" (filecopy.cpp:338): the
\* call ends, with the copy or with an exception.
ExecuteEnds == pc = "execute" ~> Ended

\* "If destination file exists, skip it" (filecopy.cpp:317): execute() does not
\* start a copy to a file that was there when open_dest looked.
ExistingIsSkipped ==
  ~Overwrite /\ target.exists /\ ~outStream.open => pc # "prebuffer"

-------------------------------------------------------------------------------
(* The invariant behind StuckForever. *)

\* A copy starts with an empty ring and a source that has not come up short.
UnreadAtStart ==
  pc \in {"dest", "execute"} =>
    bytesRead = 0 /\ buff.buffered = 0 /\ (inStream.open => ~inStream.fail)

\* Something was read, or is about to be, and no stream takes it.
WaitsForDest ==
  /\ pc \in {"prebuffer", "test", "write", "read"}
  /\ srcLen > 0 /\ ~outStream.open /\ bytesWritten = 0
  /\ bytesRead = 0 =>
       pc = "prebuffer" /\ buff.buffered = 0 /\ inStream.open /\ ~inStream.fail

\* pre_buffer_source holds all of a source that leaves less than a buffer free, or will.
WaitsForRing ==
  /\ pc = "prebuffer" /\ inStream.open
  /\ srcLen \in TotalWritableLength - BufferLength + 1 .. TotalWritableLength - 1
  /\ buff.buffered = bytesRead /\ (inStream.fail => bytesRead = srcLen)

Hanging == (pc = "execute" /\ Stuck) \/ WaitsForDest \/ WaitsForRing
===============================================================================
