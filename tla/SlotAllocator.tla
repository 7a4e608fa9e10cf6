--------------------------- MODULE SlotAllocator ---------------------------
(***************************************************************************)
(* What get_idle_index and put_used_index of memfs.c promise: a slot has   *)
(* at most one owner at a time.  It is given to whoever asks only while    *)
(* nobody owns it, its owner may hand it on (create, to the directory),    *)
(* and it comes back only from its owner.                                  *)
(***************************************************************************)
CONSTANTS Slots, Owners

VARIABLE held  \* the slots each owner holds

Init == held = [o \in Owners |-> {}]

Alloc(o, i) ==
  /\ \A e \in Owners : i \notin held[e]
  /\ held' = [held EXCEPT ![o] = @ \cup {i}]

HandOn(o, e, i) ==
  /\ i \in held[o]
  /\ i \notin held[e]
  /\ held' = [held EXCEPT ![o] = @ \ {i}, ![e] = @ \cup {i}]

Free(o, i) ==
  /\ i \in held[o]
  /\ held' = [held EXCEPT ![o] = @ \ {i}]

Next == \E o \in Owners, i \in Slots :
  Alloc(o, i) \/ Free(o, i) \/ \E e \in Owners : HandOn(o, e, i)

Spec == Init /\ [][Next]_held
============================================================================
