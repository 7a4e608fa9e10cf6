------------------------------ MODULE DirTree ------------------------------
(***************************************************************************)
(* What memfs.c promises of its directories: a table of nodes, where a     *)
(* directory has a set of named entries, in no order.  A node is taken     *)
(* only while it is free, belongs to the one directory it was made in, and *)
(* is given back only once it has no entries of its own.                   *)
(***************************************************************************)
CONSTANTS Nodes, Names, Root

VARIABLES
  kind,     \* each node: "free", "dir" or "file"
  contents  \* the entries of each node: [name, ino]; a file has none

Init ==
  /\ kind = [i \in Nodes |-> "free"]
  /\ contents = [i \in Nodes |-> {}]

(* mkdir and create: a free node becomes an entry of one directory.  A     *)
(* new directory is empty.                                                 *)
Make(i) ==
  /\ kind[i] = "free" /\ contents[i] = {}
  /\ \E k \in {"dir", "file"} : kind' = [kind EXCEPT ![i] = k]
  /\ \E dir \in Nodes, name \in Names :
       /\ kind[dir] = "dir"
       /\ contents' = [contents EXCEPT ![dir] = @ \cup {[name |-> name, ino |-> i]}]

(* A create that finds no block takes a node and lists it nowhere.         *)
Lose(i) ==
  /\ kind[i] = "free" /\ contents[i] = {}
  /\ kind' = [kind EXCEPT ![i] = "file"]
  /\ UNCHANGED contents

(* rmdir and unlink: a node without entries leaves the directory it is in. *)
Remove(i) ==
  /\ kind[i] # "free" /\ contents[i] = {}
  /\ kind' = [kind EXCEPT ![i] = "free"]
  /\ \E dir \in Nodes : \E e \in contents[dir] :
       /\ e.ino = i
       /\ contents' = [contents EXCEPT ![dir] = @ \ {e}]

(* A mount begins with an empty root; what was in it is nowhere now.       *)
Mount ==
  /\ kind[Root] # "file"
  /\ kind' = [kind EXCEPT ![Root] = "dir"]
  /\ contents' = [contents EXCEPT ![Root] = {}]

Next == Mount \/ \E i \in Nodes : Make(i) \/ Lose(i) \/ Remove(i)

Spec == Init /\ [][Next]_<<kind, contents>>
============================================================================
