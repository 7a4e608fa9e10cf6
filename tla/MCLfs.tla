------------------------------- MODULE MCLfs -------------------------------
(* Three open files on one counter (two counters have nothing in common),  *)
(* set to a value below zero and to one followed by a number of one more   *)
(* character and then, in an int that ends at 10, by the least one; reads  *)
(* of one character and of a whole number.                                 *)
EXTENDS Lfs, TLC

MCWriteValues == {-1, 9}
MCSizes == {1, 4}
Interchangeable == Permutations(Procs)
=============================================================================
