--------------------------- MODULE MCMemFsAlloc ---------------------------
(* A small instance of MemFsAlloc: processes, and directories, differ in   *)
(* nothing, and no property here is about liveness.                        *)
EXTENDS MemFsAlloc, TLC

Interchangeable == Permutations(Procs) \cup Permutations(Dirs)
============================================================================
