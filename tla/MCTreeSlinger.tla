---------------------------- MODULE MCTreeSlinger ----------------------------
\* Small trees: an empty file among others, and old files of two sizes.
EXTENDS TreeSlinger

Old(n) == [content |-> "old", size |-> n]

ThreeFiles == [k \in 0 .. 2 |-> k]
AbsentOrOld == {Absent, Old(1), Old(2)}
===============================================================================
