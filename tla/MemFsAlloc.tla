---------------------------- MODULE MemFsAlloc ----------------------------
(***************************************************************************)
(* The bitmap allocation of part1/memfs/memfs.c, instruction by            *)
(* instruction, when several processes create and remove files.  The VFS   *)
(* holds the i_rwsem of the directory during memfs_do_create,              *)
(* memfs_inode_rmdir and memfs_inode_unlink; nothing else orders their     *)
(* accesses to g_inode_bitmap, whose bytes set_bitmap and reset_bitmap     *)
(* load, change and store back: two creates in two directories may find    *)
(* the same slot.  raced notes that this may have happened.                *)
(*                                                                         *)
(* A process is "idle", or holds the lock of its directory and is about to *)
(* read the bitmap ("scan"), load the byte again ("load"), store it with   *)
(* its bit set ("store") and list the slot, if it is a directory's or the  *)
(* file gets a block ("link"), or to load the byte ("drop"), store it with *)
(* its bit clear ("clear") and unlist the slot ("unlist").                 *)
(***************************************************************************)
EXTENDS Naturals

CONSTANTS Procs,     \* the processes
          Dirs,      \* the directories they work in
          IndexMax,  \* slots; a bitmap byte holds eight, so they share one
          Nobody     \* no process

Slots == 0..(IndexMax - 1)

ASSUME MemFsAllocAssumption == /\ IndexMax \in 1..8
                               /\ Nobody \notin Procs \cup Dirs
                               /\ Procs \cap Dirs = {}

VARIABLES
  bitmap,   \* the byte of g_inode_bitmap: the slots whose bit is set
  i_rwsem,  \* the holder of each directory's lock
  listed,   \* the slots in each directory's list
  pc, dir,  \* where each process is, and in which directory
  index,    \* idx_inode of a create, index of an rmdir or unlink
  byte,     \* what each process last loaded from the bitmap
  orphans,  \* history, while not raced: slots taken for files that got no block
  raced     \* history: a store crossed an operation in another directory

vars == <<bitmap, i_rwsem, listed, pc, dir, index, byte, orphans, raced>>

TypeOK ==
  /\ bitmap \in SUBSET Slots
  /\ i_rwsem \in [Dirs -> Procs \cup {Nobody}]
  /\ listed \in [Dirs -> SUBSET Slots]
  /\ pc \in [Procs -> {"idle", "scan", "load", "store", "link", "drop", "clear", "unlist"}]
  /\ dir \in [Procs -> Dirs]
  /\ index \in [Procs -> Slots]
  /\ byte \in [Procs -> SUBSET Slots]
  /\ orphans \in SUBSET Slots
  /\ raced \in BOOLEAN

Init ==
  /\ bitmap = {}
  /\ i_rwsem = [d \in Dirs |-> Nobody]
  /\ listed = [d \in Dirs |-> {}]
  /\ pc = [p \in Procs |-> "idle"]
  /\ dir \in [Procs -> Dirs]
  /\ index = [p \in Procs |-> 0]
  /\ byte = [p \in Procs |-> {}]
  /\ orphans = {}
  /\ raced = FALSE

Goto(p, l) == pc' = [pc EXCEPT ![p] = l]

(* Mutation: the operation runs without the directory's lock.              *)
LockNothing(p, d) ==
  /\ pc[p] = "idle"
  /\ i_rwsem' = [i_rwsem EXCEPT ![d] = p]
  /\ dir' = [dir EXCEPT ![p] = d]

(* The VFS takes the directory's lock before it calls memfs...             *)
Lock(p, d) ==
  /\ pc[p] = "idle"
  /\ i_rwsem[d] = Nobody
  /\ i_rwsem' = [i_rwsem EXCEPT ![d] = p]
  /\ dir' = [dir EXCEPT ![p] = d]

(* ...and gives it back when memfs returns.                                *)
Return(p) ==
  /\ Goto(p, "idle")
  /\ i_rwsem' = [i_rwsem EXCEPT ![dir[p]] = Nobody]
  /\ index' = [index EXCEPT ![p] = 0]
  /\ byte' = [byte EXCEPT ![p] = {}]

(* p stores the byte while somebody in another directory is between his    *)
(* own load and store, so that one of the two stores is lost, or has       *)
(* scanned the same slot, or has cleared its bit and still lists it.       *)
Stores(p) ==
  /\ raced' = (raced \/ \E q \in Procs \ {p} :
                  /\ dir[q] # dir[p]
                  /\ \/ pc[q] \in {"store", "clear"}
                     \/ pc[q] \in {"load", "unlist"} /\ index[q] = index[p])
  /\ orphans' = IF raced' THEN {} ELSE orphans

Create(p, d) ==
  /\ Lock(p, d)
  /\ Goto(p, "scan")
  /\ UNCHANGED <<bitmap, listed, index, byte, orphans, raced>>

(* get_idle_index looks for the lowest clear bit in a copy of the byte.    *)
Scan(p) ==
  /\ pc[p] = "scan"
  /\ \E i \in Slots \ bitmap :
       /\ \A j \in Slots \ bitmap : i <= j
       /\ index' = [index EXCEPT ![p] = i]
  /\ Goto(p, "load")
  /\ UNCHANGED <<bitmap, i_rwsem, listed, dir, byte, orphans, raced>>

(* No clear bit: memfs_do_create returns -ENOSPC.                          *)
NoSpace(p) ==
  /\ pc[p] = "scan"
  /\ bitmap = Slots
  /\ Return(p)
  /\ UNCHANGED <<bitmap, listed, dir, orphans, raced>>

(* set_bitmap: *(bitmap + (index>>3)) |= bit.                              *)
LoadToSet(p) ==
  /\ pc[p] = "load"
  /\ byte' = [byte EXCEPT ![p] = bitmap]
  /\ Goto(p, "store")
  /\ UNCHANGED <<bitmap, i_rwsem, listed, dir, index, orphans, raced>>

(* Mutation: get_idle_index finds a clear bit and does not set it.         *)
StoreNothing(p) ==
  /\ pc[p] = "store"
  /\ Goto(p, "link")
  /\ UNCHANGED <<bitmap, i_rwsem, listed, dir, index, byte, orphans, raced>>

StoreSet(p) ==
  /\ pc[p] = "store"
  /\ bitmap' = byte[p] \cup {index[p]}
  /\ Stores(p)
  /\ Goto(p, "link")
  /\ UNCHANGED <<i_rwsem, listed, dir, index, byte>>

(* The new slot joins the directory's list, and create returns.            *)
Link(p) ==
  /\ pc[p] = "link"
  /\ listed' = [listed EXCEPT ![dir[p]] = @ \cup {index[p]}]
  /\ Return(p)
  /\ UNCHANGED <<bitmap, dir, orphans, raced>>

(* memfs_do_create wants a block as well for a file.  When none is free it *)
(* returns -ENOSPC: the bit of the inode stays set, the slot is on no list *)
(* and nothing will ever give it back.                                     *)
NoBlock(p) ==
  /\ pc[p] = "link"
  /\ orphans' = IF raced THEN {} ELSE orphans \cup {index[p]}
  /\ Return(p)
  /\ UNCHANGED <<bitmap, listed, dir, raced>>

Remove(p, d) ==
  /\ Lock(p, d)
  /\ Goto(p, "drop")
  /\ \E i \in listed[d] : index' = [index EXCEPT ![p] = i]
  /\ UNCHANGED <<bitmap, listed, byte, orphans, raced>>

(* put_used_index: *(bitmap + (index>>3)) &= ~bit.                         *)
LoadToClear(p) ==
  /\ pc[p] = "drop"
  /\ byte' = [byte EXCEPT ![p] = bitmap]
  /\ Goto(p, "clear")
  /\ UNCHANGED <<bitmap, i_rwsem, listed, dir, index, orphans, raced>>

(* Mutation: rmdir does not give the slot back.                            *)
StoreUncleared(p) ==
  /\ pc[p] = "clear"
  /\ bitmap' = byte[p]
  /\ Stores(p)
  /\ Goto(p, "unlist")
  /\ UNCHANGED <<i_rwsem, listed, dir, index, byte>>

StoreClear(p) ==
  /\ pc[p] = "clear"
  /\ bitmap' = byte[p] \ {index[p]}
  /\ Stores(p)
  /\ Goto(p, "unlist")
  /\ UNCHANGED <<i_rwsem, listed, dir, index, byte>>

(* Only now does the slot leave the list.                                  *)
Unlist(p) ==
  /\ pc[p] = "unlist"
  /\ listed' = [listed EXCEPT ![dir[p]] = @ \ {index[p]}]
  /\ Return(p)
  /\ UNCHANGED <<bitmap, dir, orphans, raced>>

Step(p) ==
  \/ Scan(p) \/ NoSpace(p) \/ LoadToSet(p) \/ StoreSet(p) \/ Link(p) \/ NoBlock(p)
  \/ LoadToClear(p) \/ StoreClear(p) \/ Unlist(p)

Next == \E p \in Procs : Step(p) \/ \E d \in Dirs : Create(p, d) \/ Remove(p, d)

Spec == Init /\ [][Next]_vars

----------------------------------------------------------------------------
(* Who owns a slot.  A process that creates owns the one it found from the *)
(* store that sets its bit until it is listed, a directory what it lists   *)
(* up to the store that clears the bit, and nobody what a create lost.     *)
OwnedByProc(p) == IF pc[p] = "link" THEN {index[p]} ELSE {}

OwnedByDir(d) ==
  {i \in listed[d] : ~\E p \in Procs : pc[p] = "unlist" /\ dir[p] = d /\ index[p] = i}

Owners == Procs \cup Dirs \cup {Nobody}

Owned == [o \in Owners |-> IF o \in Procs THEN OwnedByProc(o)
                          ELSE IF o \in Dirs THEN OwnedByDir(o) ELSE orphans]

Allocator == INSTANCE SlotAllocator WITH held <- Owned

(* As long as no store has crossed an operation in another directory, the  *)
(* bitmap is the allocator it should be: the directory's lock orders the   *)
(* rest, no slot ever has two owners, and a slot a create lost for want of *)
(* a block is never given out again.                                       *)
IsAllocator == Allocator!Init /\ [][Allocator!Next \/ raced']_Owned

(* What the comment on the call of get_idle_index says, "obtain a free     *)
(* inode": unless a store crossed, the inode is listed in no directory,    *)
(* nor on its way into one.                                                *)
SlotsAreFreeWhenTaken ==
  ~raced => \A p \in Procs : pc[p] = "link" =>
    /\ \A d \in Dirs : index[p] \notin listed[d]
    /\ \A q \in Procs \ {p} : pc[q] = "link" => index[q] # index[p]

(* Outside the operations a listed slot has its bit set, and a set bit     *)
(* means a listed slot or one that a create of a file took and lost when   *)
(* it found no block: without a crossing store no slot leaks in any other  *)
(* way, none is listed but free, and no lost one comes back into a list.   *)
BitmapMatchesLists ==
  (~raced /\ \A p \in Procs : pc[p] = "idle") =>
    /\ bitmap = orphans \cup UNION {listed[d] : d \in Dirs}
    /\ \A d \in Dirs : orphans \cap listed[d] = {}
============================================================================
