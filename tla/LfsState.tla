------------------------------ MODULE LfsState ------------------------------
(***************************************************************************)
(* The state of lfs, the text of a number, and what readers of the         *)
(* counters are promised.  Lfs says how the state changes.                 *)
(***************************************************************************)
EXTENDS Integers, Sequences

CONSTANTS
  NCounters,   \* the number of counters
  Procs,       \* the open files
  IntMax,      \* the largest int: 2147483647
  WriteValues, \* what simple_strtol makes of the texts written
  Sizes,       \* the counts read asks for
  ReadsMax     \* bound: the values read from a counter before it is set again

ASSUME LfsAssumption ==
  /\ NCounters \in Nat \ {0} /\ ReadsMax \in Nat
  /\ IntMax \in Nat /\ IntMax <= 2147483647
  /\ WriteValues \subseteq (-IntMax - 1)..IntMax /\ Sizes \subseteq Nat

VARIABLES
  counters,
  private_data, \* each file's counter, 0 while it is not open
  offset,
  pc,           \* each file: "idle", or "inc": between atomic_read and atomic_inc
  v, count,     \* the locals of its read
  got,          \* history: the characters read since the offset was last 0,
                \* of a file not in mixed
  first,        \* history: the value that read from offset 0 was given
  mixed,        \* history: files whose counter another has changed since
  overlapped,   \* history: reads from 0 that overlap another of the counter
  outdated,     \* history: reads from 0 whose counter has begun anew since:
                \* has been set, or has wrapped around
  given         \* history: for each counter the values read since it began

(* "%d\n": 10 stands for the minus sign, 11 for the newline.  An int has   *)
(* ten digits at the most.                                                 *)
Width(a) == CHOOSE n \in 1..10 : (n = 1 \/ a >= 10^(n - 1)) /\ (n = 10 \/ a < 10^n)
Digits(a) == [i \in 1..Width(a) |-> (a \div 10^(Width(a) - i)) % 10]
Text(x) == (IF x < 0 THEN <<10>> \o Digits(-x) ELSE Digits(x)) \o <<11>>

----------------------------------------------------------------------------
(* "The value returned when offset was zero": a number read in pieces is   *)
(* that number, and the offset never runs past its end, unless somebody    *)
(* else reads or sets the counter in between.                              *)
ReadsOneNumber ==
  \A p \in Procs : (private_data[p] # 0 /\ offset[p] > 0 /\ p \notin mixed) =>
    /\ offset[p] <= Len(Text(first[p]))
    /\ got[p] = SubSeq(Text(first[p]), 1, offset[p])

(* atomic_read and atomic_inc are two steps.  No value is read twice       *)
(* from offset 0 of a counter unless the counter was set or wrapped around *)
(* in between, or the second of the reads overlapped another.              *)
ReadTwiceOnlyIfOverlapped ==
  [][\A p \in Procs : (pc[p] = "inc" /\ pc'[p] = "idle" /\ p \notin overlapped \cup outdated) =>
       v[p] \notin given[private_data[p]]]_pc
=============================================================================
