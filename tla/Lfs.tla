-------------------------------- MODULE Lfs --------------------------------
(***************************************************************************)
(* lfs, the counter file system of part1/lfs/lfs-demo.c: a file for each   *)
(* counter; a read from offset 0 takes the counter's value and increments  *)
(* it, a read further on returns the rest of the number; a write sets it.  *)
(*                                                                         *)
(* A process is an open file: the VFS runs one read or write of it at a    *)
(* time, and keeps its offset.  A pread is the read of a file of its own.  *)
(* A number is the sequence of its characters, as snprintf prints it.  An  *)
(* int wraps around: atomic_inc and "v -= 1" do.                           *)
(***************************************************************************)
EXTENDS LfsState, FiniteSets

fileVars == <<private_data, offset, pc, v, count, got, first>>
histVars == <<mixed, overlapped, outdated, given>>
vars == <<counters, fileVars, histVars>>

Counters == 1..NCounters

Ints == (-IntMax - 1)..IntMax
Inc(x) == IF x = IntMax THEN -IntMax - 1 ELSE x + 1
Dec(x) == IF x = -IntMax - 1 THEN IntMax ELSE x - 1

TypeOK ==
  /\ counters \in [Counters -> Ints]
  /\ private_data \in [Procs -> 0..NCounters]
  /\ offset \in [Procs -> Nat]
  /\ pc \in [Procs -> {"idle", "inc"}]
  /\ v \in [Procs -> Ints] /\ count \in [Procs -> Nat]
  /\ got \in [Procs -> Seq(0..11)] /\ first \in [Procs -> Ints]
  /\ mixed \subseteq Procs /\ overlapped \subseteq Procs /\ outdated \subseteq Procs
  /\ given \in [Counters -> SUBSET Ints]

Init ==
  /\ counters = [k \in Counters |-> 0]
  /\ private_data = [p \in Procs |-> 0]
  /\ offset = [p \in Procs |-> 0]
  /\ pc = [p \in Procs |-> "idle"]
  /\ v = [p \in Procs |-> 0] /\ count = [p \in Procs |-> 0]
  /\ got = [p \in Procs |-> <<>>] /\ first = [p \in Procs |-> 0]
  /\ mixed = {} /\ overlapped = {} /\ outdated = {}
  /\ given = [k \in Counters |-> {}]

Of(k) == {p \in Procs : private_data[p] = k}
Reading(k) == {p \in Of(k) : pc[p] = "inc"}
Amid(k) == {p \in Of(k) : pc[p] = "inc" \/ offset[p] > 0}

(* open, and release.                                                      *)
Open(p, k) ==
  /\ private_data[p] = 0
  /\ private_data' = [private_data EXCEPT ![p] = k]
  /\ offset' = [offset EXCEPT ![p] = 0]
  /\ UNCHANGED <<counters, pc, v, count, got, first, histVars>>

Close(p) ==
  /\ private_data[p] # 0 /\ pc[p] = "idle"
  /\ private_data' = [private_data EXCEPT ![p] = 0]
  /\ offset' = [offset EXCEPT ![p] = 0]
  /\ got' = [got EXCEPT ![p] = <<>>] /\ first' = [first EXCEPT ![p] = 0]
  /\ mixed' = mixed \ {p}
  /\ UNCHANGED <<counters, pc, v, count, overlapped, outdated, given>>

(* What the read hands out of the text of x.  copy_to_user may fail: then  *)
(* the offset stays, whatever has been counted.                            *)
Copy(p, x, n) ==
  LET t == Text(x)
      len == IF n > Len(t) - offset[p] THEN Len(t) - offset[p] ELSE n
  IN
  \/ offset[p] > Len(t) /\ UNCHANGED <<offset, got>>
  \/ /\ offset[p] <= Len(t)
     /\ offset' = [offset EXCEPT ![p] = @ + len]
     /\ got' = [got EXCEPT ![p] =
          IF p \in mixed THEN <<>>
          ELSE (IF offset[p] = 0 THEN <<>> ELSE @) \o SubSeq(t, offset[p] + 1, offset[p] + len)]
  \/ offset[p] <= Len(t) /\ UNCHANGED <<offset, got>>

(* lfs_read_file up to the test of the offset.                             *)
ReadStart(p, n) ==
  LET k == private_data[p] IN
  /\ k # 0 /\ pc[p] = "idle" /\ offset[p] = 0
  /\ Cardinality(given[k]) < ReadsMax
  /\ v' = [v EXCEPT ![p] = counters[k]]
  /\ count' = [count EXCEPT ![p] = n]
  /\ pc' = [pc EXCEPT ![p] = "inc"]
  /\ mixed' = mixed \ {p}
  /\ overlapped' = IF Reading(k) = {} THEN overlapped ELSE overlapped \cup Reading(k) \cup {p}
  /\ UNCHANGED <<counters, private_data, offset, got, first, outdated, given>>

(* The rest of the read, after atomic_inc; the locals are forgotten.       *)
ReadRest(p, k) ==
  /\ pc' = [pc EXCEPT ![p] = "idle"]
  /\ v' = [v EXCEPT ![p] = 0] /\ count' = [count EXCEPT ![p] = 0]
  /\ Copy(p, v[p], count[p])
  /\ first' = [first EXCEPT ![p] = IF offset'[p] = 0 THEN 0 ELSE v[p]]
  /\ mixed' = mixed \cup (Amid(k) \ {p})
  /\ overlapped' = overlapped \ {p}
  /\ IF counters[k] = IntMax
     THEN given' = [given EXCEPT ![k] = {}] /\ outdated' = (outdated \cup Reading(k)) \ {p}
     ELSE /\ given' = IF p \in outdated THEN given ELSE [given EXCEPT ![k] = @ \cup {v[p]}]
          /\ outdated' = outdated \ {p}
  /\ UNCHANGED private_data

(* Mutation: the counter is set to the value read plus one.                *)
ReadIncSets(p) ==
  LET k == private_data[p] IN
  /\ pc[p] = "inc"
  /\ counters' = [counters EXCEPT ![k] = Inc(v[p])]
  /\ ReadRest(p, k)

ReadInc(p) ==
  LET k == private_data[p] IN
  /\ pc[p] = "inc"
  /\ counters' = [counters EXCEPT ![k] = Inc(@)]
  /\ ReadRest(p, k)

(* Mutation: "v -= 1" is forgotten.                                        *)
ReadOnPlain(p, n) ==
  LET k == private_data[p] IN
  /\ k # 0 /\ pc[p] = "idle" /\ offset[p] > 0
  /\ Copy(p, counters[k], n)
  /\ UNCHANGED <<counters, private_data, pc, v, count, first, histVars>>

(* A read further on: the counter was incremented when the offset was 0.   *)
ReadOn(p, n) ==
  LET k == private_data[p] IN
  /\ k # 0 /\ pc[p] = "idle" /\ offset[p] > 0
  /\ Copy(p, Dec(counters[k]), n)
  /\ UNCHANGED <<counters, private_data, pc, v, count, first, histVars>>

(* lfs_write_file, only from offset 0; the offset stays.                   *)
Write(p, x) ==
  LET k == private_data[p] IN
  /\ k # 0 /\ pc[p] = "idle" /\ offset[p] = 0
  /\ counters' = [counters EXCEPT ![k] = x]
  /\ mixed' = mixed \cup (Amid(k) \ {p})
  /\ outdated' = outdated \cup Reading(k)
  /\ given' = [given EXCEPT ![k] = {}]
  /\ UNCHANGED <<fileVars, overlapped>>

Next ==
  \E p \in Procs :
    \/ \E k \in Counters : Open(p, k)
    \/ Close(p) \/ ReadInc(p)
    \/ \E n \in Sizes : ReadStart(p, n) \/ ReadOn(p, n)
    \/ \E x \in WriteValues : Write(p, x)

Spec == Init /\ [][Next]_vars

=============================================================================
