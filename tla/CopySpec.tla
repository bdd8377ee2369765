------------------------------- MODULE CopySpec -------------------------------
(***************************************************************************)
(* What FileCopy and TreeSlinger::_run_copier promise of one destination   *)
(* file after another, with no ring, no streams and no counters:           *)
(*                                                                         *)
(*   - a file that was there is left as it is, and kept in place of a copy *)
(*     only where the copier accepts it;                                   *)
(*   - a file that is created holds a prefix of its source at any time, it *)
(*     only grows while the copier works on it, and no more than Chunk     *)
(*     bytes at once;                                                      *)
(*   - a copy is done only when the file equals its source, or has all of  *)
(*     it but at most Loss bytes of its end;                               *)
(*   - a copy may fail at any time, and is then given up or tried again    *)
(*     on what the failed one left behind.                                 *)
(*                                                                         *)
(* Byte k of the source is the number k, as in FileCopy.                   *)
(***************************************************************************)
EXTENDS Integers, Sequences

CONSTANTS
  Lengths,      \* lengths a source file may have
  Files,        \* what may be at a destination path beforehand
  Chunk,        \* the most that is written at once
  Loss,         \* the most that may be missing unnoticed
  Overwrite     \* whether an existing file is replaced

VARIABLES
  length,       \* of the source file
  file,         \* at the destination path: [dir, exists, data]
  status        \* "waiting", "copying", "done" or "failed"

vars == <<length, file, status>>

IsPrefix(data) ==
  /\ Len(data) <= length
  /\ \A k \in 1 .. Len(data) : data[k] = k

Init ==
  /\ length \in Lengths
  /\ file \in Files
  /\ status = "waiting"

Keep ==
  /\ status = "waiting" /\ file.exists /\ ~Overwrite
  /\ status' = "done"
  /\ UNCHANGED <<length, file>>

Create ==
  /\ status = "waiting" /\ file.dir
  /\ Overwrite \/ ~file.exists
  /\ status' = "copying"
  /\ file' = [file EXCEPT !.exists = TRUE, !.data = <<>>]
  /\ UNCHANGED length

\* The file grows from one prefix of the source to another.
Grown ==
  \E n \in 0 .. Chunk :
    LET grown == file.data \o [j \in 1 .. n |-> Len(file.data) + j]
    IN  IsPrefix(grown) /\ file' = [file EXCEPT !.data = grown]

Grow ==
  /\ status = "copying"
  /\ Grown
  /\ UNCHANGED <<length, status>>

\* What is left may still be written in the step that ends the copy.
Complete ==
  /\ status = "copying" /\ status' = "done"
  /\ Grown
  /\ length - Len(file'.data) <= Loss
  /\ UNCHANGED length

\* What was written before the failure may be lost from the end.
Fail ==
  /\ status \in {"waiting", "copying", "done"}
  /\ status' = "failed"
  /\ \E n \in (IF status = "copying" THEN 0 ELSE Len(file.data)) .. Len(file.data) :
       file' = [file EXCEPT !.data = SubSeq(@, 1, n)]
  /\ UNCHANGED length

\* A write that puts part of a chunk into the file and fails.
FailGrowing ==
  /\ status = "copying" /\ status' = "failed"
  /\ Grown
  /\ UNCHANGED length

Retry ==
  /\ status = "failed" /\ status' = "waiting"
  /\ UNCHANGED <<length, file>>

NextFile ==
  /\ status \in {"done", "failed"} /\ status' = "waiting"
  /\ length' \in Lengths
  /\ file' \in Files

Next ==
  Keep \/ Create \/ Grow \/ Complete \/ Fail \/ FailGrowing \/ Retry \/ NextFile

Spec == Init /\ [][Next]_vars
===============================================================================
