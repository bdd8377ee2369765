----------------------------- MODULE MCHashWrapper -----------------------------
(* Lengths around the boundaries of a block of four bytes; strings too long for  *)
(* an unsigned int.                                                              *)
EXTENDS HashWrapper

MCFiles == 0 .. 9
MCChunks == {0, 1, 2, 4, 7, 9, 15}
MCStrings == (0 .. 6) \cup {15, 16, 18}
===============================================================================
