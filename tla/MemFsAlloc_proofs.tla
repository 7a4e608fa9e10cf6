------------------------- MODULE MemFsAlloc_proofs -------------------------
(***************************************************************************)
(* The unlocked bitmap code of memfs.c implements SlotAllocator until a    *)
(* store crosses an operation in another directory, for any number of      *)
(* processes, directories and slots in the byte: in one directory the      *)
(* i_rwsem the VFS takes is lock enough, and in several no other order of  *)
(* their steps does harm.                                                  *)
(***************************************************************************)
EXTENDS MemFsAlloc, TLAPS

(* The types hold at first.                                                *)
LEMMA TypeCorrectInit == Init => TypeOK
<1> SUFFICES ASSUME Init PROVE TypeOK
  OBVIOUS
<1>1. 0 \in Slots
  BY MemFsAllocAssumption DEF Slots
<1>2. index \in [Procs -> Slots] /\ byte \in [Procs -> SUBSET Slots]
  BY <1>1 DEF Init
<1>3. raced \in BOOLEAN
  BY DEF Init
<1> QED
  BY <1>2, <1>3 DEF Init, TypeOK

(* The variables keep to their types.                                      *)
THEOREM TypeCorrect == Spec => []TypeOK
<1>1. Init => TypeOK
  BY TypeCorrectInit
<1>2. TypeOK /\ [Next]_vars => TypeOK'
  <2> SUFFICES ASSUME TypeOK, [Next]_vars PROVE TypeOK'
    OBVIOUS
  <2> USE MemFsAllocAssumption DEF TypeOK, Goto, Return, Slots, Stores
  <2>1. ASSUME NEW p \in Procs, NEW d \in Dirs, Create(p, d) PROVE TypeOK'
    BY <2>1 DEF Create, Lock
  <2>2. ASSUME NEW p \in Procs, NEW d \in Dirs, Remove(p, d) PROVE TypeOK'
    BY <2>2 DEF Remove, Lock
  <2>3. ASSUME NEW p \in Procs, Scan(p) PROVE TypeOK'
    BY <2>3 DEF Scan
  <2>4. ASSUME NEW p \in Procs, NoSpace(p) PROVE TypeOK'
    BY <2>4 DEF NoSpace
  <2>5. ASSUME NEW p \in Procs, LoadToSet(p) PROVE TypeOK'
    BY <2>5 DEF LoadToSet
  <2>6. ASSUME NEW p \in Procs, StoreSet(p) PROVE TypeOK'
    BY <2>6 DEF StoreSet
  <2>7. ASSUME NEW p \in Procs, Link(p) PROVE TypeOK'
    BY <2>7 DEF Link
  <2>8. ASSUME NEW p \in Procs, LoadToClear(p) PROVE TypeOK'
    BY <2>8 DEF LoadToClear
  <2>9. ASSUME NEW p \in Procs, StoreClear(p) PROVE TypeOK'
    BY <2>9 DEF StoreClear
  <2>10. ASSUME NEW p \in Procs, Unlist(p) PROVE TypeOK'
    BY <2>10 DEF Unlist
  <2>11. ASSUME NEW p \in Procs, NoBlock(p) PROVE TypeOK'
    <3>1. orphans' \in SUBSET Slots
      BY <2>11 DEF NoBlock
    <3>2. pc' \in [Procs -> {"idle", "scan", "load", "store", "link", "drop", "clear", "unlist"}]
      BY <2>11 DEF NoBlock
    <3> QED
      BY <2>11, <3>1, <3>2 DEF NoBlock
  <2>12. CASE UNCHANGED vars
    BY <2>12 DEF vars
  <2> QED
    BY <2>1, <2>2, <2>3, <2>4, <2>5, <2>6, <2>7, <2>8, <2>9, <2>10, <2>11, <2>12
    DEF Next, Step
<1> QED
  BY <1>1, <1>2, PTL DEF Spec

----------------------------------------------------------------------------
(* The lock excludes: whoever is inside memfs holds its directory's lock.  *)
LockInv == \A p \in Procs : pc[p] # "idle" => i_rwsem[dir[p]] = p

(* What holds as long as no store has crossed.                             *)
BitsAreOwned ==
  \A i \in Slots : i \in bitmap <=>
    \/ \E d \in Dirs : i \in OwnedByDir(d)
    \/ \E p \in Procs : pc[p] = "link" /\ index[p] = i
    \/ i \in orphans

OneListEach == \A d, e \in Dirs : d # e => listed[d] \cap listed[e] = {}

LinkedIsFree ==
  \A p \in Procs : pc[p] = "link" =>
    /\ \A d \in Dirs : index[p] \notin listed[d]
    /\ \A q \in Procs \ {p} : pc[q] = "link" => index[q] # index[p]

OrphansAreApart ==
  /\ \A d \in Dirs : orphans \cap listed[d] = {}
  /\ \A p \in Procs : pc[p] = "link" => index[p] \notin orphans

(* What a process knows at each of its statements.                         *)
ProcKnows ==
  \A p \in Procs :
    /\ pc[p] \in {"drop", "clear", "unlist"} => index[p] \in listed[dir[p]]
    /\ pc[p] \in {"store", "clear"} => byte[p] = bitmap
    /\ pc[p] \in {"load", "store"} => index[p] \notin bitmap

OwnInv == BitsAreOwned /\ OneListEach /\ LinkedIsFree /\ OrphansAreApart /\ ProcKnows

IInv == TypeOK /\ LockInv /\ (~raced => OwnInv)

(* Every step keeps that a process inside memfs has its directory's lock.  *)
LEMMA LockInvStep == TypeOK /\ LockInv /\ [Next]_vars => LockInv'
<1> SUFFICES ASSUME TypeOK, LockInv, [Next]_vars PROVE LockInv'
  OBVIOUS
<1> USE MemFsAllocAssumption DEF TypeOK, LockInv, Goto, Return
<1>1. ASSUME NEW p \in Procs, NEW d \in Dirs, Create(p, d) PROVE LockInv'
  BY <1>1 DEF Create, Lock
<1>2. ASSUME NEW p \in Procs, NEW d \in Dirs, Remove(p, d) PROVE LockInv'
  BY <1>2 DEF Remove, Lock
<1>3. ASSUME NEW p \in Procs, Step(p) PROVE LockInv'
  BY <1>3 DEF Step, Scan, NoSpace, LoadToSet, StoreSet, Link, NoBlock, LoadToClear, StoreClear,
     Unlist
<1>4. CASE UNCHANGED vars
  BY <1>4 DEF vars
<1> QED
  BY <1>1, <1>2, <1>3, <1>4 DEF Next

(* At most one process is inside memfs in each directory.                  *)
LEMMA AloneInDir ==
  ASSUME TypeOK, LockInv, NEW p \in Procs, pc[p] # "idle",
         NEW q \in Procs, pc[q] # "idle", dir[p] = dir[q]
  PROVE  p = q
  BY DEF TypeOK, LockInv

(* A process that lists or unlists nothing moves no slot.                  *)
LEMMA OwnersStay ==
  ASSUME TypeOK, listed' = listed, NEW p \in Procs,
         pc[p] \notin {"link", "unlist"}, pc'[p] \notin {"link", "unlist"},
         \A q \in Procs \ {p} : pc'[q] = pc[q] /\ dir'[q] = dir[q] /\ index'[q] = index[q]
  PROVE  /\ \A q \in Procs : OwnedByProc(q)' = OwnedByProc(q)
         /\ \A d \in Dirs : OwnedByDir(d)' = OwnedByDir(d)
<1>1. \A q \in Procs : OwnedByProc(q)' = OwnedByProc(q)
  BY DEF OwnedByProc
<1>2. ASSUME NEW d \in Dirs PROVE OwnedByDir(d)' = OwnedByDir(d)
  <2>1. ASSUME NEW q \in Procs, NEW i
        PROVE (pc[q] = "unlist" /\ dir[q] = d /\ index[q] = i)'
                <=> (pc[q] = "unlist" /\ dir[q] = d /\ index[q] = i)
    BY DEF TypeOK
  <2> QED
    BY <2>1 DEF OwnedByDir
<1> QED
  BY <1>1, <1>2

(* The store that sets a bit gives the slot to p...                        *)
LEMMA StoreSetOwns ==
  ASSUME IInv, ~raced', NEW p \in Procs, StoreSet(p)
  PROVE  /\ \A d \in Dirs : OwnedByDir(d)' = OwnedByDir(d)
         /\ \A d \in Dirs : index[p] \notin listed[d]
         /\ \A q \in Procs : pc[q] = "link" => index[q] # index[p]
         /\ index[p] \notin orphans /\ orphans' = orphans
<1> USE DEF IInv, TypeOK
<1>1. ~raced /\ OwnInv
  BY DEF StoreSet, Stores
<1>2. pc[p] = "store" /\ index[p] \in Slots /\ index[p] \notin bitmap
  BY <1>1 DEF StoreSet, OwnInv, ProcKnows
<1>3. ASSUME NEW d \in Dirs PROVE index[p] \notin listed[d]
  <2> SUFFICES ASSUME index[p] \in listed[d] PROVE FALSE
    OBVIOUS
  <2>1. index[p] \notin OwnedByDir(d)
    BY <1>1, <1>2 DEF OwnInv, BitsAreOwned
  <2>2. PICK q \in Procs : pc[q] = "unlist" /\ dir[q] = d /\ index[q] = index[p]
    BY <2>1 DEF OwnedByDir
  <2>3. q # p /\ dir[q] # dir[p]
    BY <1>2, <2>2, AloneInDir
  <2> QED
    BY <2>2, <2>3 DEF StoreSet, Stores
<1>4. \A q \in Procs : pc[q] = "link" => index[q] # index[p]
  BY <1>1, <1>2 DEF OwnInv, BitsAreOwned
<1>5. ASSUME NEW d \in Dirs PROVE OwnedByDir(d)' = OwnedByDir(d)
  <2>1. ASSUME NEW q \in Procs, NEW i
        PROVE (pc[q] = "unlist" /\ dir[q] = d /\ index[q] = i)'
                <=> (pc[q] = "unlist" /\ dir[q] = d /\ index[q] = i)
    BY <1>2 DEF StoreSet, Goto
  <2> QED
    BY <2>1 DEF OwnedByDir, StoreSet
<1>6. index[p] \notin orphans /\ orphans' = orphans
  BY <1>1, <1>2 DEF OwnInv, BitsAreOwned, StoreSet, Stores
<1> QED
  BY <1>3, <1>4, <1>5, <1>6

(* ...listing hands it on to the directory...                              *)
LEMMA LinkHandsOn ==
  ASSUME IInv, ~raced, NEW p \in Procs, Link(p)
  PROVE  /\ OwnedByDir(dir[p])' = OwnedByDir(dir[p]) \cup {index[p]}
         /\ \A d \in Dirs \ {dir[p]} : OwnedByDir(d)' = OwnedByDir(d)
         /\ \A d \in Dirs : index[p] \notin listed[d]
         /\ \A q \in Procs \ {p} : pc[q] = "link" => index[q] # index[p]
<1> USE DEF IInv, TypeOK
<1>1. pc[p] = "link" /\ LinkedIsFree
  BY DEF Link, OwnInv
<1>2. \A q \in Procs : pc'[q] = "unlist" <=> pc[q] = "unlist"
  BY <1>1 DEF Link, Return, Goto
<1>3. \A q \in Procs : pc[q] = "unlist" => dir[q] # dir[p] /\ index'[q] = index[q]
  BY <1>1, AloneInDir DEF Link, Return, Goto
<1>4. OwnedByDir(dir[p])' = OwnedByDir(dir[p]) \cup {index[p]}
  BY <1>2, <1>3 DEF OwnedByDir, Link
<1>5. ASSUME NEW d \in Dirs \ {dir[p]} PROVE OwnedByDir(d)' = OwnedByDir(d)
  BY <1>2, <1>3 DEF OwnedByDir, Link
<1> QED
  BY <1>1, <1>4, <1>5 DEF LinkedIsFree

(* ...or, when there is no block, no directory gains or loses a slot...    *)
LEMMA NoBlockKeeps ==
  ASSUME IInv, NEW p \in Procs, NoBlock(p)
  PROVE  \A d \in Dirs : OwnedByDir(d)' = OwnedByDir(d)
<1> USE DEF IInv, TypeOK
<1>1. \A q \in Procs : pc'[q] = "unlist" <=> pc[q] = "unlist"
  BY DEF NoBlock, Return, Goto
<1>2. \A q \in Procs : pc[q] = "unlist" => index'[q] = index[q]
  BY DEF NoBlock, Return
<1> QED
  BY <1>1, <1>2 DEF OwnedByDir, NoBlock

(* ...the store that clears the bit takes it from the directory...         *)
LEMMA StoreClearFrees ==
  ASSUME IInv, ~raced, NEW p \in Procs, StoreClear(p)
  PROVE  /\ index[p] \in OwnedByDir(dir[p])
         /\ OwnedByDir(dir[p])' = OwnedByDir(dir[p]) \ {index[p]}
         /\ \A d \in Dirs \ {dir[p]} : OwnedByDir(d)' = OwnedByDir(d)
<1> USE DEF IInv, TypeOK
<1>1. pc[p] = "clear" /\ index[p] \in listed[dir[p]]
  BY DEF StoreClear, OwnInv, ProcKnows
<1>2. \A q \in Procs : pc'[q] = "unlist" <=> (q = p \/ pc[q] = "unlist")
  BY <1>1 DEF StoreClear, Goto
<1>3. \A q \in Procs : pc[q] = "unlist" => dir[q] # dir[p]
  BY <1>1, AloneInDir
<1>4. index[p] \in OwnedByDir(dir[p])
  BY <1>1, <1>3 DEF OwnedByDir
<1>5. OwnedByDir(dir[p])' = OwnedByDir(dir[p]) \ {index[p]}
  BY <1>2, <1>3 DEF OwnedByDir, StoreClear
<1>6. ASSUME NEW d \in Dirs \ {dir[p]} PROVE OwnedByDir(d)' = OwnedByDir(d)
  BY <1>2 DEF OwnedByDir, StoreClear
<1> QED
  BY <1>4, <1>5, <1>6

(* ...and unlisting it then changes nothing.                               *)
LEMMA UnlistKeeps ==
  ASSUME IInv, NEW p \in Procs, Unlist(p)
  PROVE  \A d \in Dirs : OwnedByDir(d)' = OwnedByDir(d)
<1> USE DEF IInv, TypeOK
<1>1. pc[p] = "unlist"
  BY DEF Unlist
<1>2. \A q \in Procs : pc'[q] = "unlist" <=> (q # p /\ pc[q] = "unlist")
  BY <1>1 DEF Unlist, Return, Goto
<1>3. \A q \in Procs : q # p => index'[q] = index[q]
  BY DEF Unlist, Return
<1>4. \A q \in Procs : (pc[q] = "unlist" /\ q # p) => dir[q] # dir[p]
  BY <1>1, AloneInDir
<1> SUFFICES ASSUME NEW d \in Dirs PROVE OwnedByDir(d)' = OwnedByDir(d)
  OBVIOUS
<1>5. CASE d = dir[p]
  BY <1>1, <1>2, <1>3, <1>4, <1>5 DEF OwnedByDir, Unlist
<1>6. CASE d # dir[p]
  BY <1>1, <1>2, <1>3, <1>6 DEF OwnedByDir, Unlist
<1> QED
  BY <1>5, <1>6

(* At first no bit is set and nothing is listed.                           *)
LEMMA OwnInvInit == Init => LockInv /\ OwnInv
  BY DEF Init, LockInv, OwnInv, BitsAreOwned, OneListEach, LinkedIsFree, OrphansAreApart, ProcKnows, OwnedByDir

(* The steps that move no slot and store no byte.                          *)
LEMMA ReadStep ==
  ASSUME IInv, ~raced', NEW p \in Procs,
         \/ Scan(p) \/ NoSpace(p) \/ LoadToSet(p) \/ LoadToClear(p)
         \/ \E d \in Dirs : Create(p, d) \/ Remove(p, d)
  PROVE  OwnInv'
<1> USE DEF IInv, TypeOK, Goto, Return
<1>1. /\ ~raced /\ bitmap' = bitmap /\ listed' = listed /\ orphans' = orphans
      /\ pc[p] \notin {"link", "unlist"} /\ pc'[p] \notin {"link", "unlist"}
      /\ \A q \in Procs \ {p} : /\ pc'[q] = pc[q] /\ dir'[q] = dir[q]
                               /\ index'[q] = index[q] /\ byte'[q] = byte[q]
  BY DEF Scan, NoSpace, LoadToSet, LoadToClear, Create, Remove, Lock
<1>2. BitsAreOwned /\ OneListEach /\ LinkedIsFree /\ OrphansAreApart /\ ProcKnows
  BY <1>1 DEF OwnInv
<1>3. BitsAreOwned'
  <2>1. \A d \in Dirs : OwnedByDir(d)' = OwnedByDir(d)
    BY <1>1, OwnersStay
  <2>2. \A q \in Procs : (pc[q] = "link")' <=> pc[q] = "link"
    BY <1>1
  <2> QED
    BY <1>1, <1>2, <2>1, <2>2 DEF BitsAreOwned
<1>4. OneListEach'
  BY <1>1, <1>2 DEF OneListEach
<1>5. LinkedIsFree'
  BY <1>1, <1>2 DEF LinkedIsFree
<1>0. OrphansAreApart'
  BY <1>1, <1>2 DEF OrphansAreApart
<1>6. ProcKnows'
  <2>1. ASSUME NEW q \in Procs, q # p
        PROVE /\ pc'[q] \in {"drop", "clear", "unlist"} => index'[q] \in listed'[dir'[q]]
              /\ pc'[q] \in {"store", "clear"} => byte'[q] = bitmap'
              /\ pc'[q] \in {"load", "store"} => index'[q] \notin bitmap'
    BY <1>1, <1>2, <2>1 DEF ProcKnows
  <2>2. pc'[p] \in {"drop", "clear", "unlist"} => index'[p] \in listed'[dir'[p]]
    BY <1>1, <1>2 DEF ProcKnows, Scan, NoSpace, LoadToSet, LoadToClear, Create, Remove, Lock
  <2>3. pc'[p] \in {"store", "clear"} => byte'[p] = bitmap'
    BY <1>1 DEF Scan, NoSpace, LoadToSet, LoadToClear, Create, Remove, Lock
  <2>4. pc'[p] \in {"load", "store"} => index'[p] \notin bitmap'
    BY <1>1, <1>2 DEF ProcKnows, Scan, NoSpace, LoadToSet, LoadToClear, Create, Remove, Lock
  <2> QED
    BY <2>1, <2>2, <2>3, <2>4 DEF ProcKnows
<1> QED
  BY <1>0, <1>3, <1>4, <1>5, <1>6 DEF OwnInv

(* The steps that do: the store that sets a bit,...                        *)
LEMMA StoreSetStep ==
  ASSUME IInv, ~raced', NEW p \in Procs, StoreSet(p)
  PROVE  OwnInv'
<1> USE DEF IInv, TypeOK, Goto
<1>1. /\ ~raced /\ pc[p] = "store" /\ pc' = [pc EXCEPT ![p] = "link"]
      /\ bitmap' = byte[p] \cup {index[p]}
      /\ UNCHANGED <<i_rwsem, listed, dir, index, byte, orphans>>
  BY DEF StoreSet, Stores
<1>2. BitsAreOwned /\ OneListEach /\ LinkedIsFree /\ OrphansAreApart /\ ProcKnows
  BY <1>1 DEF OwnInv
<1>3. bitmap' = bitmap \cup {index[p]} /\ index[p] \notin bitmap
  BY <1>1, <1>2 DEF ProcKnows
<1>4. BitsAreOwned'
  <2>1. \A d \in Dirs : OwnedByDir(d)' = OwnedByDir(d)
    BY StoreSetOwns
  <2>2. ASSUME NEW i \in Slots
        PROVE (\E q \in Procs : pc'[q] = "link" /\ index'[q] = i)
                <=> (i = index[p] \/ \E q \in Procs : pc[q] = "link" /\ index[q] = i)
    BY <1>1
  <2> QED
    BY <1>1, <1>2, <1>3, <2>1, <2>2 DEF BitsAreOwned
<1>5. OneListEach'
  BY <1>1, <1>2 DEF OneListEach
<1>6. LinkedIsFree'
  BY <1>1, <1>2, StoreSetOwns DEF LinkedIsFree
<1>0. OrphansAreApart'
  BY <1>1, <1>2, StoreSetOwns DEF OrphansAreApart
<1>7. ProcKnows'
  <2>1. ASSUME NEW q \in Procs, q # p, pc[q] # "idle" PROVE dir[q] # dir[p]
    BY <1>1, <2>1, AloneInDir
  <2>2. \A q \in Procs \ {p} : pc[q] \notin {"store", "clear"}
    BY <2>1 DEF StoreSet, Stores
  <2>3. \A q \in Procs \ {p} : pc[q] = "load" => index[q] # index[p]
    BY <2>1 DEF StoreSet, Stores
  <2> QED
    BY <1>1, <1>2, <1>3, <2>2, <2>3 DEF ProcKnows
<1> QED
  BY <1>0, <1>4, <1>5, <1>6, <1>7 DEF OwnInv

(* ...the one that lists its slot,...                                      *)
LEMMA LinkStep ==
  ASSUME IInv, ~raced', NEW p \in Procs, Link(p)
  PROVE  OwnInv'
<1> USE DEF IInv, TypeOK, Goto, Return
<1>1. /\ ~raced /\ pc[p] = "link" /\ pc' = [pc EXCEPT ![p] = "idle"]
      /\ listed' = [listed EXCEPT ![dir[p]] = @ \cup {index[p]}]
      /\ \A q \in Procs \ {p} : index'[q] = index[q] /\ byte'[q] = byte[q]
      /\ bitmap' = bitmap /\ dir' = dir /\ orphans' = orphans
  BY DEF Link
<1>2. BitsAreOwned /\ OneListEach /\ LinkedIsFree /\ OrphansAreApart /\ ProcKnows
  BY <1>1 DEF OwnInv
<1>3. BitsAreOwned'
  <2> SUFFICES ASSUME NEW i \in Slots
               PROVE  i \in bitmap <=>
                        \/ \E d \in Dirs : i \in OwnedByDir(d)'
                        \/ \E q \in Procs : pc'[q] = "link" /\ index'[q] = i
                        \/ i \in orphans
    BY <1>1 DEF BitsAreOwned
  <2>1. (\E d \in Dirs : i \in OwnedByDir(d)')
          <=> (i = index[p] \/ \E d \in Dirs : i \in OwnedByDir(d))
    BY <1>1, LinkHandsOn
  <2>2. (i = index[p] \/ \E q \in Procs : pc'[q] = "link" /\ index'[q] = i)
          <=> \E q \in Procs : pc[q] = "link" /\ index[q] = i
    BY <1>1
  <2> QED
    BY <1>2, <2>1, <2>2, <1>1 DEF BitsAreOwned
<1>4. OneListEach'
  BY <1>1, <1>2 DEF OneListEach, LinkedIsFree
<1>5. LinkedIsFree'
  BY <1>1, <1>2 DEF LinkedIsFree
<1>0. OrphansAreApart'
  BY <1>1, <1>2 DEF OrphansAreApart
<1>6. ProcKnows'
  BY <1>1, <1>2 DEF ProcKnows
<1> QED
  BY <1>0, <1>3, <1>4, <1>5, <1>6 DEF OwnInv

(* ...the one that loses it,...                                            *)
LEMMA NoBlockStep ==
  ASSUME IInv, ~raced', NEW p \in Procs, NoBlock(p)
  PROVE  OwnInv'
<1> USE DEF IInv, TypeOK, Goto, Return
<1>1. /\ ~raced /\ pc[p] = "link" /\ pc' = [pc EXCEPT ![p] = "idle"]
      /\ orphans' = orphans \cup {index[p]}
      /\ \A q \in Procs \ {p} : index'[q] = index[q] /\ byte'[q] = byte[q]
      /\ bitmap' = bitmap /\ dir' = dir /\ listed' = listed
  BY DEF NoBlock
<1>2. BitsAreOwned /\ OneListEach /\ LinkedIsFree /\ OrphansAreApart /\ ProcKnows
  BY <1>1 DEF OwnInv
<1>3. BitsAreOwned'
  <2> SUFFICES ASSUME NEW i \in Slots
               PROVE  i \in bitmap <=>
                        \/ \E d \in Dirs : i \in OwnedByDir(d)'
                        \/ \E q \in Procs : pc'[q] = "link" /\ index'[q] = i
                        \/ i \in orphans'
    BY <1>1 DEF BitsAreOwned
  <2>1. \A d \in Dirs : OwnedByDir(d)' = OwnedByDir(d)
    BY <1>1, NoBlockKeeps
  <2>2. (i = index[p] \/ \E q \in Procs : pc'[q] = "link" /\ index'[q] = i)
          <=> \E q \in Procs : pc[q] = "link" /\ index[q] = i
    BY <1>1
  <2> QED
    BY <1>1, <1>2, <2>1, <2>2 DEF BitsAreOwned
<1>4. OneListEach'
  BY <1>1, <1>2 DEF OneListEach
<1>5. LinkedIsFree' /\ OrphansAreApart'
  BY <1>1, <1>2 DEF LinkedIsFree, OrphansAreApart
<1>6. ProcKnows'
  BY <1>1, <1>2 DEF ProcKnows
<1> QED
  BY <1>3, <1>4, <1>5, <1>6 DEF OwnInv

(* ...the store that clears it...                                          *)
LEMMA StoreClearStep ==
  ASSUME IInv, ~raced', NEW p \in Procs, StoreClear(p)
  PROVE  OwnInv'
<1> USE DEF IInv, TypeOK, Goto
<1>1. /\ ~raced /\ pc[p] = "clear" /\ pc' = [pc EXCEPT ![p] = "unlist"]
      /\ bitmap' = byte[p] \ {index[p]}
      /\ UNCHANGED <<i_rwsem, listed, dir, index, byte, orphans>>
  BY DEF StoreClear, Stores
<1>2. BitsAreOwned /\ OneListEach /\ LinkedIsFree /\ OrphansAreApart /\ ProcKnows
  BY <1>1 DEF OwnInv
<1>3. bitmap' = bitmap \ {index[p]} /\ index[p] \in listed[dir[p]] /\ dir[p] \in Dirs
  BY <1>1, <1>2 DEF ProcKnows
<1>4. BitsAreOwned'
  <2> SUFFICES ASSUME NEW i \in Slots
               PROVE  i \in bitmap' <=>
                        \/ \E d \in Dirs : i \in OwnedByDir(d)'
                        \/ \E q \in Procs : pc'[q] = "link" /\ index'[q] = i
                        \/ i \in orphans
    BY <1>1 DEF BitsAreOwned
  <2>1. ASSUME NEW d \in Dirs PROVE i \in OwnedByDir(d)' <=> (i \in OwnedByDir(d) /\ i # index[p])
    <3>1. CASE d = dir[p]
      BY <1>1, <3>1, StoreClearFrees
    <3>2. CASE d # dir[p]
      <4>1. index[p] \notin listed[d]
        BY <1>2, <1>3, <3>2 DEF OneListEach
      <4> QED
        BY <1>1, <3>2, <4>1, StoreClearFrees DEF OwnedByDir
    <3> QED
      BY <3>1, <3>2
  <2>2. ASSUME NEW q \in Procs
        PROVE (pc'[q] = "link" /\ index'[q] = i) <=> (pc[q] = "link" /\ index[q] = i /\ i # index[p])
    BY <1>1, <1>2, <1>3 DEF LinkedIsFree
  <2>3. index[p] \notin orphans
    BY <1>2, <1>3 DEF OrphansAreApart
  <2> QED
    BY <1>2, <1>3, <2>1, <2>2, <2>3 DEF BitsAreOwned
<1>5. OneListEach'
  BY <1>1, <1>2 DEF OneListEach
<1>6. LinkedIsFree'
  BY <1>1, <1>2 DEF LinkedIsFree
<1>0. OrphansAreApart'
  BY <1>1, <1>2 DEF OrphansAreApart
<1>7. ProcKnows'
  <2>1. ASSUME NEW q \in Procs, q # p, pc[q] # "idle" PROVE dir[q] # dir[p]
    BY <1>1, <2>1, AloneInDir
  <2>2. \A q \in Procs \ {p} : pc[q] \notin {"store", "clear"}
    BY <2>1 DEF StoreClear, Stores
  <2> QED
    BY <1>1, <1>2, <1>3, <2>2 DEF ProcKnows
<1> QED
  BY <1>0, <1>4, <1>5, <1>6, <1>7 DEF OwnInv

(* ...and the one that unlists it.                                         *)
LEMMA UnlistStep ==
  ASSUME IInv, ~raced', NEW p \in Procs, Unlist(p)
  PROVE  OwnInv'
<1> USE DEF IInv, TypeOK, Goto, Return
<1>1. /\ ~raced /\ pc[p] = "unlist" /\ pc' = [pc EXCEPT ![p] = "idle"]
      /\ listed' = [listed EXCEPT ![dir[p]] = @ \ {index[p]}]
      /\ \A q \in Procs \ {p} : index'[q] = index[q] /\ byte'[q] = byte[q]
      /\ bitmap' = bitmap /\ dir' = dir /\ orphans' = orphans
  BY DEF Unlist
<1>2. BitsAreOwned /\ OneListEach /\ LinkedIsFree /\ OrphansAreApart /\ ProcKnows
  BY <1>1 DEF OwnInv
<1>3. BitsAreOwned'
  <2>1. \A d \in Dirs : OwnedByDir(d)' = OwnedByDir(d)
    BY UnlistKeeps
  <2>2. \A q \in Procs : (pc'[q] = "link" <=> pc[q] = "link")
                       /\ (pc[q] = "link" => index'[q] = index[q])
    BY <1>1
  <2> QED
    BY <1>1, <1>2, <2>1, <2>2 DEF BitsAreOwned
<1>4. OneListEach'
  BY <1>1, <1>2 DEF OneListEach
<1>5. LinkedIsFree'
  BY <1>1, <1>2 DEF LinkedIsFree
<1>0. OrphansAreApart'
  BY <1>1, <1>2 DEF OrphansAreApart
<1>6. ProcKnows'
  <2>1. ASSUME NEW q \in Procs, q # p, pc[q] # "idle" PROVE dir[q] # dir[p]
    BY <1>1, <2>1, AloneInDir
  <2> QED
    BY <1>1, <1>2, <2>1 DEF ProcKnows
<1> QED
  BY <1>0, <1>3, <1>4, <1>5, <1>6 DEF OwnInv

(* Until a store crosses, every step keeps the owners.                     *)
LEMMA OwnInvStep == IInv /\ [Next]_vars => (~raced => OwnInv)'
<1> SUFFICES ASSUME IInv, [Next]_vars, ~raced' PROVE OwnInv'
  OBVIOUS
<1>1. ASSUME NEW p \in Procs, NEW d \in Dirs, Create(p, d) \/ Remove(p, d) PROVE OwnInv'
  BY <1>1, ReadStep
<1>2. ASSUME NEW p \in Procs, Step(p) PROVE OwnInv'
  BY <1>2, ReadStep, StoreSetStep, LinkStep, NoBlockStep, StoreClearStep, UnlistStep DEF Step
<1>3. CASE UNCHANGED vars
  BY <1>3 DEF vars, IInv, OwnInv, BitsAreOwned, OneListEach, LinkedIsFree, OrphansAreApart, ProcKnows, OwnedByDir
<1> QED
  BY <1>1, <1>2, <1>3 DEF Next

(* Locks are held as in the code, and until a store crosses each set bit   *)
(* has one owner.                                                          *)
THEOREM Invariance == Spec => []IInv
<1>1. Init => IInv
  BY OwnInvInit, TypeCorrectInit DEF IInv
<1> QED
  BY <1>1, OwnInvInit, OwnInvStep, LockInvStep, TypeCorrect, PTL DEF Spec, IInv

(* Unless a store crossed, a new file or directory gets a slot that no     *)
(* directory and no other create has.                                      *)
THEOREM SlotsAreFree == Spec => []SlotsAreFreeWhenTaken
<1>1. IInv => SlotsAreFreeWhenTaken
  BY DEF IInv, OwnInv, LinkedIsFree, SlotsAreFreeWhenTaken
<1> QED
  BY <1>1, Invariance, PTL

(* Unless a store crossed, no bit is lost, and none is leaked except by a  *)
(* create of a file that found no block.                                   *)
THEOREM LeaksOnlyForWantOfBlock == Spec => []BitmapMatchesLists
<1>1. IInv => BitmapMatchesLists
  <2> SUFFICES ASSUME IInv, ~raced, \A p \in Procs : pc[p] = "idle"
               PROVE  /\ bitmap = orphans \cup UNION {listed[d] : d \in Dirs}
                      /\ \A d \in Dirs : orphans \cap listed[d] = {}
    BY DEF BitmapMatchesLists
  <2>1. \A d \in Dirs : OwnedByDir(d) = listed[d]
    BY DEF OwnedByDir, IInv, TypeOK
  <2>2. \A i \in Slots : i \in bitmap <=> (i \in orphans \/ \E d \in Dirs : i \in listed[d])
    BY <2>1 DEF IInv, OwnInv, BitsAreOwned
  <2>3. bitmap \subseteq Slots /\ orphans \subseteq Slots /\ \A d \in Dirs : listed[d] \subseteq Slots
    BY DEF IInv, TypeOK
  <2>4. bitmap = orphans \cup UNION {listed[d] : d \in Dirs}
    BY <2>2, <2>3
  <2> QED
    BY <2>4 DEF IInv, OwnInv, OrphansAreApart
<1> QED
  BY <1>1, Invariance, PTL

----------------------------------------------------------------------------
(* The refinement.  StoreSet is Alloc, Link is HandOn to the directory,    *)
(* NoBlock is HandOn to Nobody, who frees nothing, StoreClear is Free;     *)
(* every other step leaves the owners as they were.                        *)

(* The abstract owners stay if no process, no directory and not Nobody     *)
(* gains or loses a slot.                                                  *)
LEMMA OwnedSame ==
  ASSUME \A p \in Procs : OwnedByProc(p)' = OwnedByProc(p),
         \A d \in Dirs : OwnedByDir(d)' = OwnedByDir(d),
         orphans' = orphans
  PROVE  Owned' = Owned
  BY DEF Owned

(* What the abstract allocator says a directory owns.                      *)
LEMMA OwnedOfDir ==
  ASSUME NEW d \in Dirs
  PROVE  Owned[d] = OwnedByDir(d) /\ Owned'[d] = OwnedByDir(d)'
<1>1. d \notin Procs /\ d \in Owners
  BY MemFsAllocAssumption DEF Owners
<1>2. Owned[d] = OwnedByDir(d)
  BY <1>1 DEF Owned
<1>3. Owned'[d] = OwnedByDir(d)'
  BY <1>1 DEF Owned
<1> QED
  BY <1>2, <1>3

(* What it says Nobody owns.                                               *)
LEMMA OwnedOfNobody == Nobody \in Owners /\ Owned[Nobody] = orphans /\ Owned'[Nobody] = orphans'
<1>1. Nobody \notin Procs /\ Nobody \notin Dirs /\ Nobody \in Owners
  BY MemFsAllocAssumption DEF Owners
<1> QED
  BY <1>1 DEF Owned

(* What it says a process owns.                                            *)
LEMMA OwnedOfProc ==
  ASSUME NEW p \in Procs
  PROVE  p \in Owners /\ Owned[p] = OwnedByProc(p) /\ Owned'[p] = OwnedByProc(p)'
  BY DEF Owned, Owners

(* Until a store crosses, the bitmap code implements the allocator it      *)
(* stands for: create takes a free slot for the directory, rmdir and       *)
(* unlink give one of the directory's back, at the store to the bitmap.    *)
THEOREM ImplementsAllocator == Spec => IsAllocator
<1>1. Init => Allocator!Init
  BY DEF Init, Allocator!Init, Owned, OwnedByProc, OwnedByDir
<1>2. IInv /\ [Next]_vars => [Allocator!Next \/ raced']_Owned
  <2> SUFFICES ASSUME IInv, [Next]_vars, ~raced' PROVE Allocator!Next \/ Owned' = Owned
    OBVIOUS
  <2> USE DEF IInv, TypeOK, Goto, Return
  <2>0. /\ Owned = [o \in Owners |-> Owned[o]]
        /\ Owned' = [o \in Owners |-> Owned'[o]]
    BY DEF Owned
  <2>1. ASSUME NEW p \in Procs,
               \/ Scan(p) \/ NoSpace(p) \/ LoadToSet(p) \/ LoadToClear(p)
               \/ \E d \in Dirs : Create(p, d) \/ Remove(p, d)
        PROVE  Owned' = Owned
    <3>1. /\ listed' = listed /\ orphans' = orphans
          /\ pc[p] \notin {"link", "unlist"} /\ pc'[p] \notin {"link", "unlist"}
          /\ \A q \in Procs \ {p} : pc'[q] = pc[q] /\ dir'[q] = dir[q] /\ index'[q] = index[q]
      BY <2>1 DEF Scan, NoSpace, LoadToSet, LoadToClear, Create, Remove, Lock
    <3> QED
      BY <3>1, OwnersStay, OwnedSame
  <2>2. ASSUME NEW p \in Procs, StoreSet(p) PROVE Allocator!Next
    <3>1. /\ \A q \in Procs \ {p} : OwnedByProc(q)' = OwnedByProc(q)
          /\ OwnedByProc(p) = {} /\ OwnedByProc(p)' = {index[p]}
      BY <2>2 DEF StoreSet, OwnedByProc
    <3>2. /\ \A d \in Dirs : OwnedByDir(d)' = OwnedByDir(d) /\ index[p] \notin OwnedByDir(d)
          /\ \A q \in Procs : index[p] \notin OwnedByProc(q)
          /\ index[p] \notin orphans /\ orphans' = orphans
      BY <2>2, StoreSetOwns DEF OwnedByDir, OwnedByProc
    <3>3. \A o \in Owners : index[p] \notin Owned[o]
      BY <3>2 DEF Owned, Owners
    <3>4. ASSUME NEW o \in Owners
          PROVE  Owned'[o] = IF o = p THEN Owned[p] \cup {index[p]} ELSE Owned[o]
      <4>1. CASE o \in Procs
        <5>1. Owned[o] = OwnedByProc(o) /\ Owned'[o] = OwnedByProc(o)'
          BY <4>1, OwnedOfProc
        <5>2. CASE o = p
          BY <3>1, <5>1, <5>2, OwnedOfProc
        <5>3. CASE o # p
          BY <3>1, <4>1, <5>1, <5>3
        <5> QED
          BY <5>2, <5>3
      <4>2. CASE o \in Dirs
        <5>1. o # p /\ Owned[o] = OwnedByDir(o) /\ Owned'[o] = OwnedByDir(o)'
          BY <4>2, OwnedOfDir, MemFsAllocAssumption
        <5> QED
          BY <3>2, <4>2, <5>1
      <4>3. CASE o = Nobody
        BY <3>2, <4>3, OwnedOfNobody, MemFsAllocAssumption
      <4> QED
        BY <4>1, <4>2, <4>3 DEF Owners
    <3>5. Owned' = [Owned EXCEPT ![p] = @ \cup {index[p]}]
      BY <2>0, <3>4
    <3> QED
      BY <3>3, <3>5, OwnedOfProc DEF Allocator!Next, Allocator!Alloc
  <2>3. ASSUME NEW p \in Procs, Link(p) \/ NoBlock(p) PROVE Allocator!Next
    <3> DEFINE e == IF Link(p) THEN dir[p] ELSE Nobody
    <3>1. /\ ~raced /\ dir[p] \in Dirs /\ e \in Dirs \cup {Nobody} /\ pc[p] = "link"
          /\ dir' = dir
      BY <2>3 DEF Link, NoBlock
    <3>2. /\ \A q \in Procs \ {p} : OwnedByProc(q)' = OwnedByProc(q)
          /\ OwnedByProc(p) = {index[p]} /\ OwnedByProc(p)' = {}
      BY <2>3 DEF Link, NoBlock, OwnedByProc
    <3>3. /\ Owned'[e] = Owned[e] \cup {index[p]}
          /\ index[p] \notin Owned[e]
          /\ \A d \in Dirs \ {e} : OwnedByDir(d)' = OwnedByDir(d)
          /\ e # Nobody => orphans' = orphans
      <4>1. CASE Link(p)
        <5>1. e = dir[p]
          BY <4>1
        <5> QED
          <6>1. /\ OwnedByDir(dir[p])' = OwnedByDir(dir[p]) \cup {index[p]}
                /\ \A d \in Dirs \ {dir[p]} : OwnedByDir(d)' = OwnedByDir(d)
                /\ index[p] \notin OwnedByDir(dir[p])
            BY <3>1, <4>1, LinkHandsOn DEF OwnedByDir
          <6>2. Owned[dir[p]] = OwnedByDir(dir[p]) /\ Owned'[dir[p]] = OwnedByDir(dir[p])'
            BY <3>1, OwnedOfDir
          <6>3. orphans' = orphans
            BY <4>1 DEF Link
          <6> QED
            BY <5>1, <6>1, <6>2, <6>3
      <4>2. CASE ~Link(p)
        <5>1. e = Nobody /\ NoBlock(p)
          BY <2>3, <4>2
        <5>2. orphans' = orphans \cup {index[p]} /\ index[p] \notin orphans
          BY <3>1, <5>1 DEF NoBlock, OwnInv, OrphansAreApart
        <5> QED
          BY <5>1, <5>2, NoBlockKeeps, OwnedOfNobody
      <4> QED
        BY <4>1, <4>2
    <3>4. p # e /\ p \in Owners /\ e \in Owners /\ index[p] \in Owned[p] /\ index[p] \in Slots
      BY <3>1, <3>2, OwnedOfProc, OwnedOfNobody, MemFsAllocAssumption DEF Owners
    <3>5. ASSUME NEW o \in Owners
          PROVE Owned'[o] = IF o = p THEN Owned[p] \ {index[p]}
                            ELSE IF o = e THEN Owned[e] \cup {index[p]} ELSE Owned[o]
      <4>1. CASE o \in Procs
        <5>1. o # e /\ Owned[o] = OwnedByProc(o) /\ Owned'[o] = OwnedByProc(o)'
          BY <3>1, <4>1, OwnedOfProc, MemFsAllocAssumption
        <5> QED
          BY <3>2, <4>1, <5>1
      <4>2. CASE o = e
        BY <3>3, <3>4, <4>2
      <4>3. CASE o \in Dirs /\ o # e
        BY <3>3, <4>3, OwnedOfDir, MemFsAllocAssumption
      <4>4. CASE o = Nobody /\ o # e
        BY <3>3, <3>1, <4>4, OwnedOfNobody, MemFsAllocAssumption
      <4> QED
        BY <4>1, <4>2, <4>3, <4>4 DEF Owners
    <3>6. Owned' = [Owned EXCEPT ![p] = @ \ {index[p]}, ![e] = @ \cup {index[p]}]
      BY <2>0, <3>4, <3>5
    <3> QED
      BY <3>3, <3>4, <3>6 DEF Allocator!Next, Allocator!HandOn
  <2>4. ASSUME NEW p \in Procs, StoreClear(p) PROVE Allocator!Next
    <3>0. ~raced /\ dir[p] \in Dirs /\ dir[p] \in Owners /\ dir' = dir /\ orphans' = orphans
      BY <2>4 DEF StoreClear, Stores, Owners
    <3>1. \A q \in Procs : OwnedByProc(q)' = OwnedByProc(q)
      BY <2>4 DEF StoreClear, OwnedByProc
    <3>2. /\ index[p] \in OwnedByDir(dir[p])
          /\ OwnedByDir(dir[p])' = OwnedByDir(dir[p]) \ {index[p]}
          /\ \A d \in Dirs \ {dir[p]} : OwnedByDir(d)' = OwnedByDir(d)
      BY <2>4, <3>0, StoreClearFrees
    <3>3. ASSUME NEW o \in Owners
          PROVE Owned'[o] = IF o = dir[p] THEN Owned[dir[p]] \ {index[p]} ELSE Owned[o]
      <4>1. CASE o \in Procs
        BY <3>0, <3>1, <4>1, OwnedOfProc, MemFsAllocAssumption
      <4>2. CASE o \in Dirs
        <5>1. Owned[o] = OwnedByDir(o) /\ Owned'[o] = OwnedByDir(o)'
          BY <4>2, OwnedOfDir
        <5>2. CASE o = dir[p]
          BY <3>0, <3>2, OwnedOfDir, <5>1, <5>2
        <5>3. CASE o # dir[p]
          BY <3>2, <4>2, <5>1, <5>3
        <5> QED
          BY <5>2, <5>3
      <4>3. CASE o = Nobody
        BY <3>0, <4>3, OwnedOfNobody, MemFsAllocAssumption
      <4> QED
        BY <4>1, <4>2, <4>3 DEF Owners
    <3>4. Owned' = [Owned EXCEPT ![dir[p]] = @ \ {index[p]}]
      BY <2>0, <3>0, <3>3
    <3> QED
      BY <3>0, <3>2, <3>4, OwnedOfDir DEF Allocator!Next, Allocator!Free
  <2>5. ASSUME NEW p \in Procs, Unlist(p) PROVE Owned' = Owned
    <3>1. orphans' = orphans /\ \A q \in Procs : OwnedByProc(q)' = OwnedByProc(q)
      BY <2>5 DEF Unlist, OwnedByProc
    <3> QED
      BY <2>5, <3>1, UnlistKeeps, OwnedSame
  <2>6. CASE UNCHANGED vars
    BY <2>6 DEF vars, Owned, OwnedByProc, OwnedByDir
  <2> QED
    BY <2>1, <2>2, <2>3, <2>4, <2>5, <2>6 DEF Next, Step
<1> QED
  BY <1>1, <1>2, Invariance, PTL DEF Spec, IsAllocator
============================================================================
