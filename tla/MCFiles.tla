------------------------------- MODULE MCFiles -------------------------------
(***************************************************************************)
(* Values for the constants of the copy models.  Buffers have two bytes,   *)
(* so that files of zero to a few bytes meet every case of the ring        *)
(* (empty, part of a buffer, full, between two and three buffers, wrapped  *)
(* around).                                                                *)
(***************************************************************************)
EXTENDS FileCopy

NoFile    == [dir |-> TRUE, exists |-> FALSE, data |-> <<>>]
NoParent  == [dir |-> FALSE, exists |-> FALSE, data |-> <<>>]
OldFile(n) == [dir |-> TRUE, exists |-> TRUE, data |-> [k \in 1 .. n |-> Foreign]]

AbsentOnly   == {NoFile}
AnyTarget    == {NoParent, NoFile, OldFile(0), OldFile(3)}
EmptyFile    == {OldFile(0)}

NoFaults    == {}
AllFaults   == {"open", "read", "write"}
WriteFaults == {"write"}
OpenWriteFaults == {"open", "write"}
Sizes       == 0 .. 9
SmallSizes  == 0 .. 3
===============================================================================
