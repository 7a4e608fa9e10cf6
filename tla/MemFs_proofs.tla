---------------------------- MODULE MemFs_proofs ----------------------------
(***************************************************************************)
(* The example file systems: the lists, slots and blocks of memfs, for any *)
(* number of slots, blocks, names, mounts and open files, and, in the last *)
(* part, the counters of lfs, for any number of counters and open files.   *)
(***************************************************************************)
EXTENDS MemFs, LfsState, TLAPS

(* The types hold at first...                                              *)
LEMMA TypeCorrectInit == Init => TypeOK
<1> SUFFICES ASSUME Init PROVE TypeOK
  OBVIOUS
<1>1. 0 \in Idx /\ 0 \in Blk /\ 0 \in 0..FileSizeMax
  BY MemFsAssumption DEF Idx, Blk
<1> QED
  BY <1>1 DEF Init, TypeOK, Closed

(* ...and every operation keeps them.                                      *)
LEMMA TypeCorrectStep == TypeOK /\ [Next]_vars => TypeOK'
<1> SUFFICES ASSUME TypeOK, [Next]_vars PROVE TypeOK'
  OBVIOUS
<1> USE DEF TypeOK, slots
<1>1. ASSUME NEW mnt \in Mounts, NEW dir \in Idx, NEW n \in Names, NEW m \in {"dir", "file"},
             Create(mnt, dir, n, m)
      PROVE  TypeOK'
  <2>1. PICK i \in Idx :
          /\ ibitmap' = ibitmap \cup {i}
          /\ idx' = [idx EXCEPT ![i] = i]
          /\ mode' = [mode EXCEPT ![i] = m]
          /\ \/ data' = [data EXCEPT ![i] = Invalid] /\ UNCHANGED bbitmap
             \/ \E b \in Blk : /\ bbitmap' = bbitmap \cup {b}
                               /\ data' = [data EXCEPT ![i] = b]
          /\ file_size' = IF m = "file" THEN [file_size EXCEPT ![i] = 0] ELSE file_size
          /\ LinkLast(dir, i, m)
          /\ file_name' = [file_name EXCEPT ![i] = n]
          /\ dentries' = dentries \cup {[mnt |-> mnt, dir |-> dir, name |-> n, ino |-> i]}
    BY <1>1 DEF Create
  <2>2. UNCHANGED <<mounted, filp, stuck, latest, orphans>>
    BY <1>1 DEF Create
  <2>3. child' \in [Idx -> Idx \cup {Invalid}] /\ brother' \in [Idx -> Idx \cup {Invalid}]
    BY <2>1 DEF LinkLast
  <2>4. file_size' \in [Idx -> 0..FileSizeMax]
    BY <2>1, MemFsAssumption
  <2>5. bbitmap' \in SUBSET Blk /\ data' \in [Idx -> Blk \cup {Invalid}]
    BY <2>1
  <2>6. dentries' \subseteq Dentry
    BY <2>1 DEF Dentry
  <2> QED
    BY <2>1, <2>2, <2>3, <2>4, <2>5, <2>6
<1>2. ASSUME NEW mnt \in Mounts, NEW dir \in Idx, NEW n \in Names, CreateNoBlock(mnt, dir, n)
      PROVE  TypeOK'
  BY <1>2, MemFsAssumption DEF CreateNoBlock
<1>3. ASSUME NEW mnt \in Mounts, Mount(mnt) PROVE TypeOK'
  <2>1. 0 \in Idx /\ Entries(0) \subseteq Idx
    BY MemFsAssumption DEF Idx, Entries, Visited
  <2> QED
    BY <1>3, <2>1 DEF Mount
<1>4. ASSUME NEW mnt \in Mounts, Umount(mnt) PROVE TypeOK'
  BY <1>4 DEF Umount
<1>5. ASSUME NEW d \in dentries, Rmdir(d) \/ Unlink(d) \/ UnlinkLost(d) \/ Evict(d)
      PROVE  TypeOK'
  <2>1. d.dir \in Idx /\ d.ino \in Idx /\ \A dir \in Idx : Entries(dir) \subseteq Idx
    BY DEF Dentry, Entries, Visited
  <2>2. CASE Rmdir(d)
    BY <2>1, <2>2 DEF Rmdir, UnlinkSlot
  <2>3. CASE Unlink(d)
    <3>1. filp' \in [Files -> {Closed} \cup
            [mnt : Mounts, ino : Idx, pos : 0..FileSizeMax, state : {"open", "unlinked"}]]
      BY <2>3 DEF Unlink, OpenOn, Closed
    <3> QED
      BY <2>1, <2>3, <3>1 DEF Unlink, UnlinkSlot
  <2>4. CASE UnlinkLost(d)
    BY <2>4 DEF UnlinkLost
  <2>5. CASE Evict(d)
    BY <2>5 DEF Evict
  <2> QED
    BY <1>5, <2>2, <2>3, <2>4, <2>5
<1>6. ASSUME NEW f \in Files, NEW d \in dentries, Open(f, d) PROVE TypeOK'
  BY <1>6, MemFsAssumption DEF Open, Dentry
<1>7. ASSUME NEW f \in Files, Close(f) PROVE TypeOK'
  BY <1>7 DEF Close
<1>8. ASSUME NEW f \in Files, NEW len \in 1..FileSizeMax, ReadFile(f, len) PROVE TypeOK'
  BY <1>8, MemFsAssumption DEF ReadFile, Closed
<1>9. ASSUME NEW f \in Files, NEW pos \in 0..FileSizeMax, NEW len \in 0..FileSizeMax,
             WriteFile(f, pos, len)
      PROVE  TypeOK'
  BY <1>9, MemFsAssumption DEF WriteFile, Closed
<1>10. CASE UNCHANGED vars
  BY <1>10 DEF vars
<1> QED
  BY <1>1, <1>2, <1>3, <1>4, <1>5, <1>6, <1>7, <1>8, <1>9, <1>10 DEF Next

(* Every reachable state is well typed, also after an operation that loops.*)
THEOREM TypeCorrect == Spec => []TypeOK
  BY TypeCorrectInit, TypeCorrectStep, PTL DEF Spec

----------------------------------------------------------------------------
(* Lists as functions.  Entries is stated of the variables child and       *)
(* brother; the lemmas below are about any two functions c and b, so that  *)
(* they speak of the lists before a step and of those after it.            *)
Pointers == [Idx -> Idx \cup {Invalid}]

Reach(b, i) ==
  {j \in Idx : \A S \in SUBSET (Idx \ {j}) :
     i \in S => \E k \in S : b[k] # Invalid /\ b[k] \notin S}

List(c, b, dir) == IF c[dir] = Invalid THEN {} ELSE Reach(b, c[dir])

(* The entries of a directory are the list that begins at its child.       *)
LEMMA EntriesAreLists ==
  /\ \A dir : Entries(dir) = List(child, brother, dir)
  /\ \A dir : Entries(dir)' = List(child', brother', dir)
  BY DEF Entries, Visited, List, Reach

(* The value that ends a list is no slot.                                  *)
LEMMA InvalidIsNoIndex == Invalid \notin Idx
  BY MemFsAssumption DEF Idx

(* A list holds its head and, with each entry, the next one...             *)
LEMMA ListIsClosed ==
  ASSUME NEW c \in Pointers, NEW b \in Pointers, NEW dir \in Idx
  PROVE  /\ List(c, b, dir) \subseteq Idx
         /\ c[dir] \in List(c, b, dir) \cup {Invalid}
         /\ \A k \in List(c, b, dir) : b[k] \in List(c, b, dir) \cup {Invalid}
<1>1. CASE c[dir] = Invalid
  BY <1>1 DEF List
<1>2. CASE c[dir] # Invalid
  <2>1. c[dir] \in Idx
    BY <1>2 DEF Pointers
  <2>2. ASSUME NEW k \in Reach(b, c[dir]), b[k] # Invalid PROVE b[k] \in Reach(b, c[dir])
    <3>1. k \in Idx /\ b[k] \in Idx
      BY <2>2 DEF Reach, Pointers
    <3>2. ASSUME NEW S \in SUBSET (Idx \ {b[k]}), c[dir] \in S, \A j \in S : b[j] = Invalid \/ b[j] \in S
          PROVE  FALSE
      <4>1. k \notin S
        BY <3>2, <2>2
      <4>2. S \in SUBSET (Idx \ {k})
        BY <3>2, <4>1
      <4> QED
        BY <3>2, <4>2 DEF Reach
    <3> QED
      BY <3>1, <3>2 DEF Reach
  <2>3. c[dir] \in Reach(b, c[dir])
    BY <2>1 DEF Reach
  <2> QED
    BY <1>2, <2>2, <2>3 DEF List, Reach
<1> QED
  BY <1>1, <1>2

(* ...and nothing else: whatever holds these holds the list.               *)
LEMMA ListIsLeast ==
  ASSUME NEW c \in Pointers, NEW b \in Pointers, NEW dir \in Idx, NEW S \in SUBSET Idx,
         c[dir] \in S \cup {Invalid}, \A k \in S : b[k] \in S \cup {Invalid}
  PROVE  List(c, b, dir) \subseteq S
<1> SUFFICES ASSUME c[dir] # Invalid, NEW j \in Reach(b, c[dir]), j \notin S PROVE FALSE
  BY DEF List
<1>1. S \in SUBSET (Idx \ {j}) /\ c[dir] \in S
  OBVIOUS
<1> QED
  BY <1>1 DEF Reach

(* Each entry but the head follows another one.                            *)
LEMMA EntryFollows ==
  ASSUME NEW c \in Pointers, NEW b \in Pointers, NEW dir \in Idx,
         NEW i \in List(c, b, dir), i # c[dir]
  PROVE  \E j \in List(c, b, dir) \ {i} : b[j] = i
<1> DEFINE S == List(c, b, dir) \ {i}
<1> SUFFICES ASSUME \A j \in S : b[j] # i PROVE FALSE
  OBVIOUS
<1>1. S \in SUBSET Idx /\ c[dir] \in S \cup {Invalid}
  BY ListIsClosed
<1>2. \A k \in S : b[k] \in S \cup {Invalid}
  BY ListIsClosed
<1>3. List(c, b, dir) \subseteq S
  <2> HIDE DEF S
  <2> QED
    BY <1>1, <1>2, ListIsLeast
<1> QED
  BY <1>3

(* A list none of whose pointers changes stays.                            *)
LEMMA ListStays ==
  ASSUME NEW c \in Pointers, NEW b \in Pointers, NEW dir \in Idx,
         NEW c2 \in Pointers, NEW b2 \in Pointers,
         c2[dir] = c[dir], \A k \in List(c, b, dir) : b2[k] = b[k]
  PROVE  List(c2, b2, dir) = List(c, b, dir)
<1> DEFINE S == List(c, b, dir)
           T == List(c2, b2, dir)
<1>1. S \in SUBSET Idx /\ c2[dir] \in S \cup {Invalid}
  BY ListIsClosed
<1>2. \A k \in S : b2[k] \in S \cup {Invalid}
  BY ListIsClosed
<1>3. T \subseteq S
  BY <1>1, <1>2, ListIsLeast
<1>4. T \in SUBSET Idx /\ c[dir] \in T \cup {Invalid}
  BY ListIsClosed
<1>5. \A k \in T : b[k] \in T \cup {Invalid}
  <2>1. \A k \in T : b2[k] \in T \cup {Invalid}
    BY ListIsClosed
  <2> QED
    BY <1>3, <2>1
<1>6. S \subseteq T
  BY <1>4, <1>5, ListIsLeast
<1> QED
  BY <1>3, <1>6

(* A head whose brother is clear is all of its list.                       *)
LEMMA ListFirst ==
  ASSUME NEW c \in Pointers, NEW b \in Pointers, NEW dir \in Idx, NEW i \in Idx,
         c[dir] = i, b[i] = Invalid
  PROVE  List(c, b, dir) = {i}
<1>1. List(c, b, dir) \subseteq {i}
  <2> DEFINE S == {i}
  <2>1. S \in SUBSET Idx /\ c[dir] \in S \cup {Invalid} /\ \A k \in S : b[k] \in S \cup {Invalid}
    OBVIOUS
  <2>2. List(c, b, dir) \subseteq S
    <3> HIDE DEF S
    <3> QED
      BY <2>1, ListIsLeast
  <2> QED
    BY <2>2
<1>2. i \in List(c, b, dir)
  BY ListIsClosed, InvalidIsNoIndex
<1> QED
  BY <1>1, <1>2

(* A list with a new slot behind its last one has one entry more.          *)
LEMMA ListAppends ==
  ASSUME NEW c \in Pointers, NEW b \in Pointers, NEW dir \in Idx, NEW i \in Idx,
         NEW last \in List(c, b, dir), b[last] = Invalid, b[i] = Invalid, i # last
  PROVE  \A c2, b2 \in Pointers :
           (c2[dir] = c[dir] /\ \A k \in Idx : b2[k] = IF k = last THEN i ELSE b[k])
             => List(c2, b2, dir) = List(c, b, dir) \cup {i}
<1> SUFFICES ASSUME NEW c2 \in Pointers, c2[dir] = c[dir], NEW b2 \in Pointers,
                    \A k \in Idx : b2[k] = IF k = last THEN i ELSE b[k]
             PROVE  List(c2, b2, dir) = List(c, b, dir) \cup {i}
  OBVIOUS
<1> DEFINE S == List(c, b, dir)
           T == List(c2, b2, dir)
<1>0. S \in SUBSET Idx /\ last \in Idx
  BY ListIsClosed
<1>1. \A k \in Idx : b2[k] = IF k = last THEN i ELSE b[k]
  OBVIOUS
<1>2. T \subseteq S \cup {i}
  <2>1. c2[dir] \in S \cup {i} \cup {Invalid} /\ S \cup {i} \in SUBSET Idx
    BY ListIsClosed
  <2>2. \A k \in S \cup {i} : b2[k] \in (S \cup {i}) \cup {Invalid}
    BY ListIsClosed, <1>0, <1>1
  <2> HIDE DEF S
  <2> QED
    BY <1>0, <2>1, <2>2, ListIsLeast
<1>3. /\ T \in SUBSET Idx /\ c[dir] \in T \cup {Invalid}
      /\ \A k \in T : b2[k] \in T \cup {Invalid}
  BY ListIsClosed, <1>0
<1> HIDE DEF T
<1>4. S \subseteq T
  <2>1. \A k \in T : b[k] \in T \cup {Invalid}
    BY <1>0, <1>1, <1>3
  <2> QED
    BY <1>3, <2>1, ListIsLeast
<1>5. i \in T
  BY <1>0, <1>1, <1>3, <1>4, InvalidIsNoIndex
<1> QED
  BY <1>2, <1>4, <1>5 DEF S, T

(* Without its head, a list begins with the next entry.                    *)
LEMMA ListDropsHead ==
  ASSUME NEW c \in Pointers, NEW b \in Pointers, NEW dir \in Idx,
         NEW i \in List(c, b, dir), c[dir] = i, \A k \in Idx : b[k] # i
  PROVE  \A c2, b2 \in Pointers :
           (c2[dir] = b[i] /\ \A k \in Idx : b2[k] = IF k = i THEN Invalid ELSE b[k])
             => List(c2, b2, dir) = List(c, b, dir) \ {i}
<1> SUFFICES ASSUME NEW c2 \in Pointers, c2[dir] = b[i], NEW b2 \in Pointers,
                    \A k \in Idx : b2[k] = IF k = i THEN Invalid ELSE b[k]
             PROVE  List(c2, b2, dir) = List(c, b, dir) \ {i}
  OBVIOUS
<1> DEFINE S == List(c, b, dir)
           T == List(c2, b2, dir)
<1>0. S \in SUBSET Idx /\ i \in S
  BY ListIsClosed, InvalidIsNoIndex
<1>1. \A k \in Idx : b2[k] = IF k = i THEN Invalid ELSE b[k]
  OBVIOUS
<1>2. \A k \in S : b[k] \in (S \ {i}) \cup {Invalid}
  BY ListIsClosed, <1>0
<1>3. T \subseteq S \ {i}
  <2> HIDE DEF S
  <2>1. c2[dir] \in (S \ {i}) \cup {Invalid}
    BY <1>0, <1>2
  <2>2. \A k \in S \ {i} : b2[k] \in (S \ {i}) \cup {Invalid}
    BY <1>0, <1>1, <1>2
  <2> QED
    BY <1>0, <2>1, <2>2, ListIsLeast
<1>4. /\ T \in SUBSET Idx /\ c2[dir] \in T \cup {Invalid}
      /\ \A k \in T : b2[k] \in T \cup {Invalid}
  BY ListIsClosed, <1>0
<1>5. S \subseteq T \cup {i}
  <2> HIDE DEF T
  <2>1. \A k \in T \cup {i} : b[k] \in (T \cup {i}) \cup {Invalid}
    BY <1>1, <1>4
  <2>2. T \cup {i} \in SUBSET Idx /\ c[dir] \in (T \cup {i}) \cup {Invalid}
    BY <1>0, <1>4
  <2> QED
    BY <2>1, <2>2, ListIsLeast
<1> HIDE DEF S, T
<1> QED
  BY <1>3, <1>5 DEF S, T

(* An entry that one other points to is skipped when that one points past  *)
(* it.                                                                     *)
LEMMA ListDropsMiddle ==
  ASSUME NEW c \in Pointers, NEW b \in Pointers, NEW dir \in Idx,
         NEW i \in List(c, b, dir), c[dir] # i, NEW prev \in List(c, b, dir), b[prev] = i,
         \A k \in Idx \ {prev} : b[k] # i
  PROVE  prev # i /\ \A c2, b2 \in Pointers :
           (/\ c2[dir] = c[dir]
            /\ \A k \in Idx : b2[k] = IF k = i THEN Invalid ELSE IF k = prev THEN b[i] ELSE b[k])
             => List(c2, b2, dir) = List(c, b, dir) \ {i}
<1>0. List(c, b, dir) \subseteq Idx
  BY ListIsClosed
<1>9. prev # i
  BY <1>0, EntryFollows
<1> SUFFICES ASSUME NEW c2 \in Pointers, c2[dir] = c[dir], NEW b2 \in Pointers,
                    \A k \in Idx : b2[k] =
                      IF k = i THEN Invalid ELSE IF k = prev THEN b[i] ELSE b[k]
             PROVE  List(c2, b2, dir) = List(c, b, dir) \ {i}
  BY <1>9
<1> DEFINE S == List(c, b, dir)
           T == List(c2, b2, dir)
<1>7. S \in SUBSET Idx /\ prev \in Idx /\ i \in S /\ i \in Idx
  BY <1>0, ListIsClosed
<1>1. \A k \in Idx : b2[k] = IF k = i THEN Invalid ELSE IF k = prev THEN b[i] ELSE b[k]
  OBVIOUS
<1>2. b[i] # i
  BY <1>9, <1>7
<1>3. T \subseteq S \ {i}
  <2>1. /\ c2[dir] \in (S \ {i}) \cup {Invalid}
        /\ \A k \in S : b[k] \in S \cup {Invalid}
    BY ListIsClosed
  <2> HIDE DEF S
  <2>2. \A k \in S \ {i} : b2[k] \in (S \ {i}) \cup {Invalid}
    BY <1>7, <1>1, <1>2, <2>1
  <2> QED
    BY <1>7, <2>1, <2>2, ListIsLeast
<1>4. /\ T \in SUBSET Idx /\ c[dir] \in T \cup {Invalid}
      /\ \A k \in T : b2[k] \in T \cup {Invalid}
  BY ListIsClosed
<1>5. S \subseteq T \cup {i}
  <2> HIDE DEF T
  <2>1. prev \in T
    <3> SUFFICES ASSUME prev \notin T PROVE FALSE
      OBVIOUS
    <3>1. \A k \in T : b[k] \in T \cup {Invalid}
      BY <1>1, <1>3, <1>4
    <3>2. S \subseteq T
      BY <1>4, <3>1, ListIsLeast
    <3> QED
      BY <3>2
  <2>2. \A k \in T \cup {i} : b[k] \in (T \cup {i}) \cup {Invalid}
    BY <1>7, <1>1, <1>4, <1>9, <2>1
  <2>3. T \cup {i} \in SUBSET Idx /\ c[dir] \in (T \cup {i}) \cup {Invalid}
    BY <1>4, <1>7
  <2> QED
    BY <2>2, <2>3, ListIsLeast
<1> HIDE DEF S, T
<1> QED
  BY <1>3, <1>5 DEF S, T

----------------------------------------------------------------------------
(* The inductive invariant, which holds until an operation loops.          *)

(* Free slots have no links, and only directories have a child.            *)
Clean ==
  /\ \A i \in Idx \ ibitmap : child[i] = Invalid /\ brother[i] = Invalid
  /\ \A i \in ibitmap : mode[i] # "dir" => child[i] = Invalid

(* No link leads to a free slot, and at most one leads to each slot.       *)
PointersInUse ==
  \A i \in Idx : child[i] \in ibitmap \cup {Invalid} /\ brother[i] \in ibitmap \cup {Invalid}

OnePointerEach ==
  \A i, j \in Idx :
    /\ i # j /\ child[i] # Invalid => child[i] # child[j]
    /\ i # j /\ brother[i] # Invalid => brother[i] # brother[j]
    /\ child[i] # Invalid => child[i] # brother[j]

(* The lists share out the slots in use, the root and the orphans apart.   *)
Lists ==
  /\ \A dir \in Dirs : Entries(dir) \subseteq ibitmap \ (orphans \cup {0})
  /\ \A i \in ibitmap \ (orphans \cup {0}) : \E dir \in Dirs : i \in Entries(dir)
  /\ \A dir, other \in Dirs : dir # other => Entries(dir) \cap Entries(other) = {}

Root ==
  /\ 0 \in ibitmap => mode[0] = "dir"
  /\ mounted # {} => 0 \in ibitmap
  /\ orphans \subseteq ibitmap \ {0}

(* Each slot has at most one dentry, which its directory lists.            *)
Cached ==
  /\ \A d \in dentries :
       /\ d.mnt \in mounted /\ d.dir \in Dirs /\ file_name[d.ino] = d.name
       /\ d.ino \in Entries(d.dir) \/ (d.dir = 0 /\ d.mnt # latest /\ d.ino \in orphans)
  /\ \A d, e \in dentries : d.ino = e.ino => d = e

(* Blocks and files.  A file that found no block has no dentry.            *)
Blocks ==
  /\ \A b \in bbitmap : \E i \in ibitmap : mode[i] = "file" /\ data[i] = b
  /\ \A i \in ibitmap : mode[i] = "file" => data[i] \in bbitmap \cup {Invalid}
  /\ \A i, j \in ibitmap :
       (mode[i] = "file" /\ mode[j] = "file" /\ data[i] = data[j] /\ data[i] # Invalid) => i = j
  /\ \A d \in dentries : mode[d.ino] = "file" => data[d.ino] \in bbitmap

(* Nothing but unlink parts an open file from its dentry.                  *)
OpenFiles ==
  \A f \in Files : filp[f].state = "open" =>
    \E d \in dentries : OpenOn(f, d) /\ mode[d.ino] = "file"

Links == Clean /\ PointersInUse /\ OnePointerEach /\ Lists
Sound == Links /\ Root /\ Cached /\ Blocks /\ OpenFiles
IInv == TypeOK /\ (stuck \/ Sound)

(* The invariant holds at first.                                           *)
LEMMA IInvInit == Init => IInv
<1> SUFFICES ASSUME Init PROVE IInv
  OBVIOUS
<1>1. TypeOK
  BY TypeCorrectInit
<1>2. Clean /\ PointersInUse /\ OnePointerEach
  BY DEF Init, Clean, PointersInUse, OnePointerEach
<1>3. Lists /\ Root /\ Cached /\ Blocks /\ OpenFiles
  BY DEF Init, Lists, Dirs, Root, Cached, Blocks, OpenFiles, Closed
<1> QED
  BY <1>1, <1>2, <1>3 DEF IInv, Sound, Links

(* What LinkLast and UnlinkSlot do to the lists: one entry more in one     *)
(* list, or one entry less, and the others as they were.                   *)
LEMMA LinkLastLists ==
  ASSUME TypeOK, TypeOK', Links, NEW dir \in Dirs, NEW i \in Idx \ ibitmap,
         NEW m \in {"dir", "file"}, LinkLast(dir, i, m)
  PROVE  /\ Entries(dir)' = Entries(dir) \cup {i}
         /\ Entries(i)' = {}
         /\ \A e \in Dirs \ {dir} : Entries(e)' = Entries(e)
<1>1. /\ child \in Pointers /\ brother \in Pointers
      /\ child' \in Pointers /\ brother' \in Pointers
  BY DEF TypeOK, Pointers
<1>2. dir \in Idx /\ dir # i /\ Dirs \subseteq Idx /\ child[i] = Invalid /\ brother[i] = Invalid
  BY DEF Dirs, TypeOK, Links, Clean
<1>3. \A e \in Idx \ {dir} : child'[e] = child[e]
  BY <1>1, <1>2 DEF LinkLast, Pointers
<1>4. Entries(i)' = {}
  BY <1>2, <1>3, EntriesAreLists DEF List
<1>5. CASE child[dir] = Invalid
  <2>1. child'[dir] = i /\ brother' = brother
    BY <1>1, <1>2, <1>5 DEF LinkLast, Pointers
  <2>2. List(child', brother', dir) = {i}
    BY <1>1, <1>2, <2>1, ListFirst
  <2>3. \A e \in Dirs \ {dir} : Entries(e)' = Entries(e)
    BY <1>1, <1>2, <1>3, <2>1, ListStays, EntriesAreLists
  <2> QED
    BY <1>4, <1>5, <2>2, <2>3, EntriesAreLists DEF List
<1>6. CASE child[dir] # Invalid
  <2>1. PICK last \in Entries(dir) : brother[last] = Invalid /\ brother' = [brother EXCEPT ![last] = i]
    BY <1>6 DEF LinkLast
  <2>2. child'[dir] = child[dir]
    BY <1>1, <1>2, <1>6 DEF LinkLast, Pointers
  <2>3. last \in List(child, brother, dir) /\ i # last
    BY <2>1, EntriesAreLists DEF Links, Lists
  <2>a. \A k \in Idx : brother'[k] = IF k = last THEN i ELSE brother[k]
    BY <1>1, <2>1 DEF Pointers
  <2>4. List(child', brother', dir) = List(child, brother, dir) \cup {i}
    <3>1. \A c2, b2 \in Pointers :
            (c2[dir] = child[dir] /\ \A k \in Idx : b2[k] = IF k = last THEN i ELSE brother[k])
              => List(c2, b2, dir) = List(child, brother, dir) \cup {i}
      BY <1>1, <1>2, <2>1, <2>3, ListAppends
    <3> QED
      BY <1>1, <2>2, <2>a, <3>1
  <2>5. ASSUME NEW e \in Dirs \ {dir} PROVE Entries(e)' = Entries(e)
    <3>1. last \notin List(child, brother, e)
      BY <2>1, <2>5, EntriesAreLists DEF Links, Lists
    <3>2. \A k \in List(child, brother, e) : brother'[k] = brother[k]
      BY <1>1, <1>2, <2>1, <3>1, ListIsClosed DEF Pointers
    <3>3. child'[e] = child[e] /\ e \in Idx
      BY <1>2, <1>3
    <3> QED
      BY <1>1, <3>2, <3>3, ListStays, EntriesAreLists
  <2> QED
    BY <1>4, <2>4, <2>5, EntriesAreLists
<1> QED
  BY <1>5, <1>6

(* Taking an entry off its list leaves the other lists and the rest of     *)
(* this one.                                                               *)
LEMMA UnlinkSlotLists ==
  ASSUME TypeOK, TypeOK', Links, NEW dir \in Dirs, NEW i \in Entries(dir), UnlinkSlot(dir, i)
  PROVE  \A e \in Dirs : Entries(e)' = Entries(e) \ {i}
<1>1. /\ child \in Pointers /\ brother \in Pointers
      /\ child' \in Pointers /\ brother' \in Pointers
  BY DEF TypeOK, Pointers
<1>2. dir \in Idx /\ Dirs \subseteq Idx
  BY DEF Dirs, TypeOK
<1>3. i \in Idx /\ i \in List(child, brother, dir)
  BY <1>1, <1>2, ListIsClosed, EntriesAreLists
<1>4. \A e \in Dirs \ {dir} : i \notin List(child, brother, e)
  BY EntriesAreLists DEF Links, Lists
<1>5. CASE child[dir] = i
  <2>1. child'[dir] = brother[i] /\ brother' = [brother EXCEPT ![i] = Invalid]
    BY <1>1, <1>2, <1>5 DEF UnlinkSlot, Pointers
  <2>2. \A k \in Idx : brother[k] # i
    BY <1>2, <1>3, <1>5, InvalidIsNoIndex DEF Links, OnePointerEach
  <2>a. \A k \in Idx : brother'[k] = IF k = i THEN Invalid ELSE brother[k]
    BY <1>1, <2>1 DEF Pointers
  <2>3. List(child', brother', dir) = List(child, brother, dir) \ {i}
    <3>1. \A c2, b2 \in Pointers :
            (c2[dir] = brother[i] /\ \A k \in Idx : b2[k] = IF k = i THEN Invalid ELSE brother[k])
              => List(c2, b2, dir) = List(child, brother, dir) \ {i}
      BY <1>1, <1>2, <1>3, <1>5, <2>2, ListDropsHead
    <3> QED
      BY <1>1, <2>1, <2>a, <3>1
  <2>4. ASSUME NEW e \in Dirs \ {dir} PROVE Entries(e)' = Entries(e) \ {i}
    <3>1. child'[e] = child[e] /\ e \in Idx
      BY <1>1, <1>2, <1>5, <2>4 DEF UnlinkSlot, Pointers
    <3>2. \A k \in List(child, brother, e) : brother'[k] = brother[k]
      BY <1>1, <1>4, <2>1, <3>1, ListIsClosed DEF Pointers
    <3> QED
      BY <1>1, <1>4, <3>1, <3>2, ListStays, EntriesAreLists
  <2> QED
    BY <2>3, <2>4, EntriesAreLists
<1>6. CASE child[dir] # i
  <2>1. PICK prev \in Entries(dir) :
          brother[prev] = i /\ brother' = [brother EXCEPT ![prev] = brother[i], ![i] = Invalid]
    BY <1>6 DEF UnlinkSlot
  <2>2. child' = child
    BY <1>6 DEF UnlinkSlot
  <2>3. prev \in List(child, brother, dir) /\ prev \in Idx
    BY <1>1, <1>2, <2>1, ListIsClosed, EntriesAreLists
  <2>4. \A k \in Idx \ {prev} : brother[k] # i
    BY <1>3, <2>1, <2>3, InvalidIsNoIndex DEF Links, OnePointerEach
  <2>a. \A k \in Idx : brother'[k] =
          IF k = i THEN Invalid ELSE IF k = prev THEN brother[i] ELSE brother[k]
    BY <1>1, <2>1, <2>3 DEF Pointers
  <2>5. List(child', brother', dir) = List(child, brother, dir) \ {i} /\ prev # i
    <3>1. prev # i /\ \A c2, b2 \in Pointers :
            (/\ c2[dir] = child[dir]
             /\ \A k \in Idx : b2[k] =
                  IF k = i THEN Invalid ELSE IF k = prev THEN brother[i] ELSE brother[k])
              => List(c2, b2, dir) = List(child, brother, dir) \ {i}
      BY <1>1, <1>2, <1>3, <1>6, <2>1, <2>3, <2>4, ListDropsMiddle
    <3> QED
      BY <1>1, <2>2, <2>a, <3>1
  <2>6. ASSUME NEW e \in Dirs \ {dir} PROVE Entries(e)' = Entries(e) \ {i}
    <3>1. prev \notin List(child, brother, e) /\ e \in Idx
      BY <1>2, <2>1, <2>6, EntriesAreLists DEF Links, Lists
    <3>2. \A k \in List(child, brother, e) : brother'[k] = brother[k]
      BY <1>1, <1>3, <1>4, <2>1, <2>3, <3>1, ListIsClosed DEF Pointers
    <3> QED
      BY <1>1, <1>4, <2>2, <3>1, <3>2, ListStays, EntriesAreLists
  <2> QED
    BY <2>5, <2>6, EntriesAreLists
<1> QED
  BY <1>5, <1>6

----------------------------------------------------------------------------
(* The invariant under each operation.  What is cached, a directory or     *)
(* mounted is in use and within its bounds.                                *)
LEMMA DentriesInUse ==
  ASSUME TypeOK, Sound
  PROVE  /\ \A d \in dentries : /\ d.ino \in ibitmap \ {0} /\ d.ino \in Idx /\ d.dir \in Dirs
                               /\ d.mnt \in mounted /\ d.mnt \in Mounts
         /\ Dirs \subseteq Idx /\ ibitmap \subseteq Idx /\ bbitmap \subseteq Blk
         /\ Invalid \notin Idx /\ Invalid \notin Blk
<1>1. Invalid \notin Idx /\ Invalid \notin Blk
  BY MemFsAssumption DEF Idx, Blk
<1>2. ibitmap \subseteq Idx /\ bbitmap \subseteq Blk /\ Dirs \subseteq Idx /\ dentries \subseteq Dentry
  BY DEF TypeOK, Dirs
<1>3. ASSUME NEW d \in dentries PROVE d.ino \in ibitmap \ {0} /\ d.dir \in Dirs /\ d.mnt \in mounted
  BY DEF Sound, Links, Cached, Lists, Root
<1> QED
  BY <1>1, <1>2, <1>3 DEF Dentry

(* The directory of a cached name is in use.                               *)
LEMMA CachedDirInUse ==
  ASSUME TypeOK, Sound, NEW mnt, NEW dir \in Idx, CachedDir(mnt, dir)
  PROVE  dir \in Dirs /\ 0 \in ibitmap /\ mnt \in mounted
<1>1. 0 \in Dirs /\ 0 \in ibitmap
  BY DEF CachedDir, Sound, Root, Dirs
<1>2. CASE dir = 0
  BY <1>1, <1>2 DEF CachedDir
<1>3. CASE dir # 0
  BY <1>1, <1>3, DentriesInUse DEF CachedDir, Dirs
<1> QED
  BY <1>2, <1>3

(* mkdir and create: the new slot joins one list.                          *)
LEMMA CreateSound ==
  ASSUME TypeOK, TypeOK', Sound, NEW mnt \in Mounts, NEW dir \in Idx, NEW n \in Names,
         NEW m \in {"dir", "file"}, Create(mnt, dir, n, m)
  PROVE  Sound'
<1>1. PICK i \in Idx \ ibitmap :
        /\ ibitmap' = ibitmap \cup {i}
        /\ mode' = [mode EXCEPT ![i] = m]
        /\ \/ m = "dir" /\ data' = [data EXCEPT ![i] = Invalid] /\ UNCHANGED bbitmap
           \/ /\ m = "file"
              /\ \E b \in Blk \ bbitmap : /\ bbitmap' = bbitmap \cup {b}
                                          /\ data' = [data EXCEPT ![i] = b]
        /\ LinkLast(dir, i, m)
        /\ file_name' = [file_name EXCEPT ![i] = n]
        /\ dentries' = dentries \cup {[mnt |-> mnt, dir |-> dir, name |-> n, ino |-> i]}
  BY DEF Create, IsIdleIndex
<1>2. UNCHANGED <<mounted, filp, stuck, latest, orphans>>
  BY DEF Create
<1>3. dir \in Dirs /\ 0 \in ibitmap /\ mnt \in mounted /\ i # 0
  BY <1>1, CachedDirInUse DEF Create
<1>4. /\ Entries(dir)' = Entries(dir) \cup {i}
      /\ Entries(i)' = {}
      /\ \A e \in Dirs \ {dir} : Entries(e)' = Entries(e)
  BY <1>1, <1>3, LinkLastLists DEF Sound
<1>5. Dirs' = IF m = "dir" THEN Dirs \cup {i} ELSE Dirs
  BY <1>1 DEF Dirs, TypeOK
<1>6. i \notin Dirs /\ dir # i
  BY <1>1, <1>3 DEF Dirs
<1>7. child[i] = Invalid /\ brother[i] = Invalid
  BY <1>1 DEF Sound, Links, Clean
<1>8. (Clean /\ PointersInUse)'
  <2> USE DEF Sound, Links, Clean, PointersInUse, TypeOK
  <2>1. CASE child[dir] = Invalid
    BY <1>1, <1>3, <1>6, <1>7, <2>1 DEF LinkLast, Dirs
  <2>2. CASE child[dir] # Invalid
    <3>1. PICK last \in Entries(dir) : brother[last] = Invalid /\ brother' = [brother EXCEPT ![last] = i]
      BY <2>2, <1>1 DEF LinkLast
    <3>2. last \in ibitmap /\ last \in Idx /\ last # i
      BY <1>1, <1>3 DEF Lists
    <3>3. child' = child \/ child' = [child EXCEPT ![i] = Invalid]
      BY <1>1, <2>2 DEF LinkLast
    <3>4. m = "file" => child'[i] = Invalid
      BY <1>1, <1>7, <3>3
    <3> QED
      BY <1>1, <1>7, <3>1, <3>2, <3>3
  <2> QED
    BY <2>1, <2>2
<1>9. OnePointerEach'
  <2> USE DEF Sound, Links, PointersInUse, OnePointerEach, TypeOK
  <2>1. CASE child[dir] = Invalid
    BY <1>1, <1>3, <1>6, <1>7, <2>1 DEF LinkLast, Dirs
  <2>2. CASE child[dir] # Invalid
    <3>1. PICK last \in Entries(dir) : brother[last] = Invalid /\ brother' = [brother EXCEPT ![last] = i]
      BY <2>2 , <1>1 DEF LinkLast
    <3>2. last \in Idx /\ last # i
      BY <1>1, <1>3 DEF Lists
    <3>3. child' = child \/ child' = [child EXCEPT ![i] = Invalid]
      BY <1>1, <2>2 DEF LinkLast
    <3> QED
      BY <1>1, <1>7, <3>1, <3>2, <3>3
  <2> QED
    BY <2>1, <2>2
<1>10. Lists'
  <2>1. \A e \in Dirs' : Entries(e)' \subseteq ibitmap' \ (orphans' \cup {0})
    BY <1>1, <1>2, <1>3, <1>4, <1>5 DEF Sound, Links, Lists, Root
  <2>2. \A j \in ibitmap' \ (orphans' \cup {0}) : \E e \in Dirs' : j \in Entries(e)'
    BY <1>1, <1>2, <1>3, <1>4, <1>5 DEF Sound, Links, Lists
  <2>3. \A e, o \in Dirs' : e # o => Entries(e)' \cap Entries(o)' = {}
    BY <1>1, <1>3, <1>4, <1>5, <1>6 DEF Sound, Links, Lists
  <2> QED
    BY <2>1, <2>2, <2>3 DEF Lists
<1>11. Root'
  BY <1>1, <1>2, <1>3 DEF Sound, Root, TypeOK
<1>12. Cached'
  <2>1. ASSUME NEW d \in dentries
        PROVE  /\ d.mnt \in mounted' /\ d.dir \in Dirs' /\ file_name'[d.ino] = d.name
               /\ d.ino \in Entries(d.dir)' \/ (d.dir = 0 /\ d.mnt # latest' /\ d.ino \in orphans')
               /\ d.ino # i
    <3>1. d.ino # i /\ d.dir \in Dirs
      BY <1>1, DentriesInUse
    <3>2. file_name'[d.ino] = d.name
      BY <1>1, <3>1, DentriesInUse DEF Sound, Cached, TypeOK
    <3> QED
      BY <1>2, <1>4, <1>5, <3>1, <3>2 DEF Sound, Cached
  <2>2. file_name'[i] = n
    BY <1>1 DEF TypeOK
  <2> DEFINE new == [mnt |-> mnt, dir |-> dir, name |-> n, ino |-> i]
  <2>3. /\ new.mnt \in mounted' /\ new.dir \in Dirs' /\ file_name'[new.ino] = new.name
        /\ new.ino \in Entries(new.dir)'
    BY <1>2, <1>3, <1>4, <1>5, <2>2
  <2>4. new.ino = i
    OBVIOUS
  <2>5. dentries' = dentries \cup {new}
    BY <1>1
  <2> HIDE DEF new
  <2> QED
    BY <2>1, <2>3, <2>4, <2>5 DEF Sound, Cached
<1>13. Blocks'
  <2>1. \A d \in dentries : d.ino \in ibitmap
    BY DentriesInUse
  <2>2. \A d \in dentries' : d \in dentries \/ d.ino = i
    BY <1>1
  <2>3. CASE m = "dir"
    BY <1>1, <2>1, <2>2, <2>3, DentriesInUse DEF Sound, Blocks, TypeOK
  <2>4. CASE m = "file"
    <3>1. PICK b \in Blk \ bbitmap : bbitmap' = bbitmap \cup {b} /\ data' = [data EXCEPT ![i] = b]
      BY <1>1, <2>4
    <3> QED
      BY <1>1, <2>1, <2>2, <2>4, <3>1, DentriesInUse DEF Sound, Blocks, TypeOK
  <2> QED
    BY <2>3, <2>4
<1>14. OpenFiles'
  <2> SUFFICES ASSUME NEW f \in Files, filp'[f].state = "open"
               PROVE  \E d \in dentries' : OpenOn(f, d)' /\ mode'[d.ino] = "file"
    BY DEF OpenFiles
  <2>1. PICK d \in dentries : OpenOn(f, d) /\ mode[d.ino] = "file"
    BY <1>2 DEF Sound, OpenFiles
  <2>2. mode'[d.ino] = "file"
    BY <1>1, <2>1, DentriesInUse DEF TypeOK
  <2> QED
    BY <1>1, <1>2, <2>1, <2>2 DEF OpenOn
<1> QED
  BY <1>8, <1>9, <1>10, <1>11, <1>12, <1>13, <1>14 DEF Sound, Links

(* A create that finds no block: the slot joins the orphans.               *)
LEMMA CreateNoBlockSound ==
  ASSUME TypeOK, TypeOK', Sound, NEW mnt \in Mounts, NEW dir \in Idx, NEW n \in Names,
         CreateNoBlock(mnt, dir, n)
  PROVE  Sound'
<1>1. PICK i \in Idx \ ibitmap :
        /\ ibitmap' = ibitmap \cup {i}
        /\ mode' = [mode EXCEPT ![i] = "file"]
        /\ child' = [child EXCEPT ![i] = Invalid]
        /\ data' = [data EXCEPT ![i] = Invalid]
        /\ orphans' = orphans \cup {i}
  BY DEF CreateNoBlock, IsIdleIndex
<1>2. UNCHANGED <<bbitmap, brother, file_name, mounted, dentries, filp, stuck, latest>>
  BY DEF CreateNoBlock
<1>3. child[i] = Invalid /\ i # 0 /\ child' = child
  BY <1>1, CachedDirInUse DEF CreateNoBlock, Sound, Links, Clean, TypeOK
<1>4. Dirs' = Dirs /\ \A e : Entries(e)' = Entries(e)
  <2>1. Dirs' = Dirs
    BY <1>1 DEF Dirs, TypeOK
  <2>2. \A e : Entries(e)' = Entries(e)
    BY <1>2, <1>3, EntriesAreLists
  <2> QED
    BY <2>1, <2>2
<1>5. \A d \in dentries : d.ino # i /\ d.ino \in ibitmap /\ mode'[d.ino] = mode[d.ino]
                          /\ data'[d.ino] = data[d.ino]
  BY <1>1, DentriesInUse DEF TypeOK
<1>6. (Clean /\ PointersInUse /\ OnePointerEach)'
  BY <1>1, <1>2, <1>3 DEF Sound, Links, Clean, PointersInUse, OnePointerEach, TypeOK
<1>7. Lists'
  BY <1>1, <1>3, <1>4 DEF Sound, Links, Lists
<1>8. Root'
  BY <1>1, <1>2, <1>3 DEF Sound, Root, TypeOK
<1>9. Cached'
  BY <1>1, <1>2, <1>4 DEF Sound, Cached
<1>10. Blocks'
  BY <1>1, <1>2, <1>5, DentriesInUse DEF Sound, Blocks, TypeOK
<1>11. OpenFiles'
  BY <1>2, <1>5 DEF Sound, OpenFiles, OpenOn
<1> QED
  BY <1>6, <1>7, <1>8, <1>9, <1>10, <1>11 DEF Sound, Links

(* rmdir and unlink that end have found the entry in its directory.        *)
LEMMA UnlinkSlotFinds ==
  ASSUME TypeOK, Sound, NEW d \in dentries, UnlinkSlot(d.dir, d.ino)
  PROVE  d.ino \in Entries(d.dir)
<1> SUFFICES ASSUME d.ino \notin Entries(d.dir) PROVE FALSE
  OBVIOUS
<1>1. d.dir = 0 /\ d.ino \in orphans /\ d.dir \in Dirs /\ d.dir \in Idx /\ d.ino \in Idx
  BY DentriesInUse DEF Sound, Cached
<1>2. child \in Pointers /\ brother \in Pointers /\ Invalid \notin Idx
  BY InvalidIsNoIndex DEF TypeOK, Pointers
<1>3. child[0] # d.ino /\ \A prev \in Entries(0) : brother[prev] # d.ino
  BY <1>1, <1>2, ListIsClosed, EntriesAreLists
<1> QED
  BY <1>1, <1>3 DEF UnlinkSlot

(* What rmdir and unlink share: a slot leaves the list that holds it, and  *)
(* with it the bitmap, its dentry and the one pointer to it.               *)
LEMMA UnlinkSlotSound ==
  ASSUME TypeOK, TypeOK', Sound, NEW d \in dentries, child[d.ino] = Invalid,
         UnlinkSlot(d.dir, d.ino), dentries' = dentries \ {d},
         UNCHANGED <<mode, file_name, mounted, latest, orphans>>
  PROVE  Links' /\ Root' /\ Cached'
<1> DEFINE i == d.ino
           dir == d.dir
<1>1. /\ i \in ibitmap \ {0} /\ i \in Idx /\ dir \in Dirs /\ dir \in Idx
      /\ ibitmap \subseteq Idx /\ Dirs \subseteq Idx /\ Invalid \notin Idx
  BY DentriesInUse
<1>2. /\ child \in Pointers /\ brother \in Pointers
      /\ child' \in Pointers /\ brother' \in Pointers
  BY DEF TypeOK, Pointers
<1>3. ibitmap' = ibitmap \ {i}
  BY DEF UnlinkSlot
<1>4. i \in Entries(dir)
  BY UnlinkSlotFinds
<1>5. \A e \in Dirs : Entries(e)' = Entries(e) \ {i}
  BY <1>1, <1>4, UnlinkSlotLists DEF Sound
<1>6. Dirs' = Dirs \ {i}
  BY <1>3 DEF Dirs
<1>7. Entries(i) = {}
  BY EntriesAreLists DEF List
<1>8. i \notin orphans /\ \A e \in dentries' : e.ino # i
  BY <1>1, <1>4 DEF Sound, Links, Lists, Cached
<1> HIDE DEF i, dir
<1>9. (Clean /\ PointersInUse /\ OnePointerEach)'
  <2> USE <1>1, <1>2, <1>3 DEF Sound, Links, Clean, PointersInUse, OnePointerEach, Pointers
  <2>1. brother[i] # i
    BY <1>4, EntryFollows, EntriesAreLists, ListIsClosed DEF Dirs
  <2>2. CASE child[dir] = i
    <3>1. child' = [child EXCEPT ![dir] = brother[i]] /\ brother' = [brother EXCEPT ![i] = Invalid]
      BY <2>2 DEF UnlinkSlot, i, dir
    <3> QED
      BY <2>1, <2>2, <3>1 DEF i, Dirs
  <2>3. CASE child[dir] # i
    <3>1. PICK prev \in Entries(dir) :
            brother[prev] = i /\ brother' = [brother EXCEPT ![prev] = brother[i], ![i] = Invalid]
      BY <2>3 DEF UnlinkSlot, i, dir
    <3>2. child' = child /\ prev \in ibitmap /\ prev # i
      BY <2>1, <2>3, <3>1 DEF UnlinkSlot, i, dir, Lists
    <3> QED
      BY <2>1, <3>1, <3>2 DEF i
  <2> QED
    BY <2>2, <2>3
<1>10. Lists'
  BY <1>1, <1>3, <1>5, <1>6, <1>7 DEF Sound, Links, Lists
<1>11. Root'
  BY <1>1, <1>3, <1>8 DEF Sound, Root
<1>12. Cached'
  <2>1. \A e \in dentries' : e.dir \in Dirs' /\ e.ino # i
    BY <1>1, <1>6, <1>7, <1>8 DEF Sound, Cached
  <2> QED
    BY <1>5, <1>6, <2>1 DEF Sound, Cached
<1> QED
  BY <1>9, <1>10, <1>11, <1>12 DEF Links

(* rmdir of a directory that lists nothing.                                *)
LEMMA RmdirSound ==
  ASSUME TypeOK, TypeOK', Sound, NEW d \in dentries, Rmdir(d)
  PROVE  Sound'
<1>1. UNCHANGED <<bbitmap, mode, data, file_name, mounted, filp, latest, orphans>>
  BY DEF Rmdir
<1>2. Links' /\ Root' /\ Cached'
  BY UnlinkSlotSound DEF Rmdir
<1>3. ibitmap' = ibitmap \ {d.ino} /\ dentries' = dentries \ {d} /\ mode[d.ino] = "dir"
  BY DEF Rmdir, UnlinkSlot
<1>4. Blocks'
  BY <1>1, <1>3 DEF Sound, Blocks
<1>5. OpenFiles'
  <2> SUFFICES ASSUME NEW f \in Files, filp[f].state = "open"
               PROVE  \E e \in dentries' : OpenOn(f, e) /\ mode[e.ino] = "file"
    BY <1>1 DEF OpenFiles, OpenOn
  <2>1. PICK e \in dentries : OpenOn(f, e) /\ mode[e.ino] = "file"
    BY DEF Sound, OpenFiles
  <2>2. e # d
    BY <1>3, <2>1
  <2> QED
    BY <1>3, <2>1, <2>2
<1> QED
  BY <1>2, <1>4, <1>5 DEF Sound

(* unlink gives the file's block back as well.                             *)
LEMMA UnlinkSound ==
  ASSUME TypeOK, TypeOK', Sound, NEW d \in dentries, Unlink(d)
  PROVE  Sound'
<1>1. UNCHANGED <<mode, data, file_name, mounted, latest, orphans>>
  BY DEF Unlink
<1>2. /\ ibitmap' = ibitmap \ {d.ino} /\ dentries' = dentries \ {d} /\ mode[d.ino] = "file"
      /\ bbitmap' = bbitmap \ {data[d.ino]}
  BY DEF Unlink, UnlinkSlot
<1>3. d.ino \in ibitmap /\ \A e \in dentries : e.ino \in ibitmap
  BY DentriesInUse
<1>4. child[d.ino] = Invalid
  BY <1>2, <1>3 DEF Sound, Links, Clean
<1>5. Links' /\ Root' /\ Cached'
  BY <1>1, <1>2, <1>4, UnlinkSlotSound DEF Unlink
<1>6. \A e \in dentries' : e.ino # d.ino
  BY <1>2 DEF Sound, Cached
<1>7. data[d.ino] \in bbitmap /\ data[d.ino] # Invalid
  BY <1>2, DentriesInUse DEF Sound, Blocks
<1>8. Blocks'
  <2>1. \A b \in bbitmap' : \E j \in ibitmap' : mode'[j] = "file" /\ data'[j] = b
    BY <1>1, <1>2 DEF Sound, Blocks
  <2>2. \A j \in ibitmap' : mode'[j] = "file" => data'[j] \in bbitmap' \cup {Invalid}
    BY <1>1, <1>2, <1>3, <1>7 DEF Sound, Blocks
  <2>3. \A e \in dentries' : mode'[e.ino] = "file" => data'[e.ino] \in bbitmap'
    BY <1>1, <1>2, <1>3, <1>6, <1>7 DEF Sound, Blocks
  <2>4. \A j, k \in ibitmap' :
          (mode'[j] = "file" /\ mode'[k] = "file" /\ data'[j] = data'[k] /\ data'[j] # Invalid)
            => j = k
    BY <1>1, <1>2 DEF Sound, Blocks
  <2> QED
    BY <2>1, <2>2, <2>3, <2>4 DEF Blocks
<1>9. OpenFiles'
  <2> SUFFICES ASSUME NEW f \in Files, filp'[f].state = "open"
               PROVE  \E e \in dentries' : OpenOn(f, e)' /\ mode'[e.ino] = "file"
    BY DEF OpenFiles
  <2>1. filp'[f] = IF OpenOn(f, d) THEN [filp[f] EXCEPT !.state = "unlinked"] ELSE filp[f]
    BY DEF Unlink
  <2>2. ~OpenOn(f, d) /\ filp'[f] = filp[f]
    BY <2>1 DEF OpenOn, TypeOK, Closed
  <2>3. PICK e \in dentries : OpenOn(f, e) /\ mode[e.ino] = "file"
    BY <2>2 DEF Sound, OpenFiles
  <2>4. e # d
    BY <2>2, <2>3
  <2> QED
    BY <1>1, <1>2, <2>2, <2>3, <2>4 DEF OpenOn
<1> QED
  BY <1>5, <1>8, <1>9 DEF Sound

(* Operations that touch no list.                                          *)
LEMMA LinksUnchanged ==
  ASSUME Sound, UNCHANGED <<ibitmap, bbitmap, mode, child, brother, data, file_name, orphans>>
  PROVE  Links' /\ Dirs' = Dirs /\ \A dir : Entries(dir)' = Entries(dir)
<1>1. Dirs' = Dirs /\ \A dir : Entries(dir)' = Entries(dir)
  BY EntriesAreLists DEF Dirs
<1> QED
  BY <1>1 DEF Sound, Links, Clean, PointersInUse, OnePointerEach, Lists

(* Open, close, read and write touch no list and no bitmap.                *)
LEMMA IoSound ==
  ASSUME TypeOK, TypeOK', Sound, NEW f \in Files,
         \/ \E d \in dentries : Open(f, d)
         \/ Close(f)
         \/ \E len \in 1..FileSizeMax : ReadFile(f, len)
         \/ \E pos, len \in 0..FileSizeMax : WriteFile(f, pos, len)
  PROVE  Sound'
<1>1. UNCHANGED <<ibitmap, bbitmap, mode, child, brother, data, file_name, mounted, dentries,
                  stuck, latest, orphans>>
  BY DEF Open, Close, ReadFile, WriteFile, slots
<1>2. Links' /\ Root' /\ Cached' /\ Blocks'
  BY <1>1, LinksUnchanged DEF Sound, Root, Cached, Blocks
<1>3. \A g \in Files \ {f} : filp'[g] = filp[g]
  BY DEF Open, Close, ReadFile, WriteFile, TypeOK
<1>4. filp'[f].state = "open" => \E d \in dentries : OpenOn(f, d)' /\ mode[d.ino] = "file"
  <2>1. CASE \E d \in dentries : Open(f, d)
    BY <2>1 DEF Open, TypeOK, OpenOn
  <2>2. CASE Close(f)
    BY <2>2 DEF Close, TypeOK, Closed
  <2>3. CASE \/ \E len \in 1..FileSizeMax : ReadFile(f, len)
             \/ \E pos, len \in 0..FileSizeMax : WriteFile(f, pos, len)
    <3>1. filp[f].state = "open"
      BY <2>3 DEF ReadFile, WriteFile
    <3>2. filp[f] \in [mnt : Mounts, ino : Idx, pos : 0..FileSizeMax, state : {"open", "unlinked"}]
      BY <3>1 DEF TypeOK, Closed
    <3>3. filp' = filp \/ \E p : filp' = [filp EXCEPT ![f].pos = p]
      BY <2>3 DEF ReadFile, WriteFile
    <3>4. filp'[f].state = "open" /\ filp'[f].mnt = filp[f].mnt /\ filp'[f].ino = filp[f].ino
      BY <3>1, <3>2, <3>3 DEF TypeOK
    <3> QED
      BY <3>1, <3>4 DEF Sound, OpenFiles, OpenOn
  <2> QED
    BY <2>1, <2>2, <2>3
<1>5. OpenFiles'
  BY <1>1, <1>3, <1>4 DEF Sound, OpenFiles, OpenOn
<1> QED
  BY <1>2, <1>5 DEF Sound

(* Eviction forgets a name that no open file was reached by.               *)
LEMMA EvictSound ==
  ASSUME TypeOK, TypeOK', Sound, NEW d \in dentries, Evict(d)
  PROVE  Sound'
<1>1. /\ UNCHANGED <<ibitmap, bbitmap, mode, child, brother, data, file_name, mounted, filp,
                     latest, orphans>>
      /\ dentries' = dentries \ {d}
  BY DEF Evict, slots
<1>2. Links' /\ Root' /\ Cached' /\ Blocks'
  BY <1>1, LinksUnchanged DEF Sound, Root, Cached, Blocks
<1>3. OpenFiles'
  BY <1>1 DEF Sound, OpenFiles, OpenOn, Evict
<1> QED
  BY <1>2, <1>3 DEF Sound

(* A mount empties the root's list and no other.                           *)
LEMMA MountLists ==
  ASSUME TypeOK, TypeOK', Sound, NEW mnt \in Mounts, Mount(mnt)
  PROVE  Entries(0)' = {} /\ \A dir \in Dirs \ {0} : Entries(dir)' = Entries(dir)
<1>1. /\ child' = [child EXCEPT ![0] = Invalid]
      /\ brother' = [brother EXCEPT ![0] = Invalid]
  BY DEF Mount
<1>2. /\ child \in Pointers /\ brother \in Pointers
      /\ child' \in Pointers /\ brother' \in Pointers
  BY DEF TypeOK, Pointers
<1>3. 0 \in Idx /\ Dirs \subseteq Idx
  <2>1. 0 \in Idx
    BY MemFsAssumption DEF Idx
  <2> QED
    BY <2>1 DEF Dirs, TypeOK
<1>4. Entries(0)' = {}
  BY <1>1, <1>2, <1>3, EntriesAreLists DEF List, Pointers
<1>5. ASSUME NEW dir \in Dirs \ {0} PROVE Entries(dir)' = Entries(dir)
  <2>1. 0 \notin List(child, brother, dir)
    BY EntriesAreLists DEF Sound, Links, Lists
  <2>2. \A k \in List(child, brother, dir) : brother'[k] = brother[k]
    BY <1>1, <1>2, <1>3, <2>1, ListIsClosed DEF Pointers
  <2>3. child'[dir] = child[dir]
    BY <1>1, <1>2, <1>3 DEF Pointers
  <2> QED
    BY <1>2, <1>3, <2>2, <2>3, ListStays, EntriesAreLists
<1> QED
  BY <1>4, <1>5

(* A mount empties the root's list: its entries become orphans.            *)
LEMMA MountSound ==
  ASSUME TypeOK, TypeOK', Sound, NEW mnt \in Mounts, Mount(mnt)
  PROVE  Sound'
<1>1. /\ mounted' = mounted \cup {mnt} /\ mnt \notin mounted
      /\ mode' = [mode EXCEPT ![0] = "dir"]
      /\ child' = [child EXCEPT ![0] = Invalid]
      /\ brother' = [brother EXCEPT ![0] = Invalid]
      /\ ibitmap' = ibitmap \cup {0}
      /\ latest' = mnt
      /\ orphans' = orphans \cup Entries(0)
      /\ UNCHANGED <<bbitmap, data, file_name, dentries, filp>>
  BY DEF Mount
<1>2. /\ child \in Pointers /\ brother \in Pointers
      /\ child' \in Pointers /\ brother' \in Pointers
  BY DEF TypeOK, Pointers
<1>3. 0 \in Idx
  BY MemFsAssumption DEF Idx
<1>4. Dirs' = Dirs \cup {0} /\ Dirs \subseteq Idx
  BY <1>1, <1>3 DEF Dirs, TypeOK
<1>5. 0 \notin Dirs => 0 \notin ibitmap /\ Entries(0) = {}
  BY <1>3, EntriesAreLists DEF Sound, Root, Dirs, Links, Clean, List
<1>6. Entries(0)' = {}
  BY MountLists
<1>7. \A dir \in Dirs \ {0} : Entries(dir)' = Entries(dir)
  BY MountLists
<1>8. Entries(0) \subseteq ibitmap \ (orphans \cup {0})
  BY <1>5 DEF Sound, Links, Lists
<1>9. \A d \in dentries : d.ino # 0 /\ d.ino \in Idx /\ mode'[d.ino] = mode[d.ino]
  BY <1>1, DentriesInUse DEF TypeOK
<1>10. (Clean /\ PointersInUse /\ OnePointerEach)'
  BY <1>1, <1>2, <1>3
  DEF Sound, Links, Clean, PointersInUse, OnePointerEach, Pointers, TypeOK
<1>11. Lists'
  <2>1. \A dir \in Dirs' : Entries(dir)' \subseteq ibitmap' \ (orphans' \cup {0})
    <3> SUFFICES ASSUME NEW dir \in Dirs \ {0}
                 PROVE  Entries(dir) \subseteq ibitmap' \ (orphans' \cup {0})
      BY <1>4, <1>6, <1>7
    <3>1. Entries(dir) \cap Entries(0) = {}
      BY <1>5 DEF Sound, Links, Lists
    <3> QED
      BY <1>1, <3>1 DEF Sound, Links, Lists
  <2>2. \A i \in ibitmap' \ (orphans' \cup {0}) : \E dir \in Dirs' : i \in Entries(dir)'
    BY <1>1, <1>4, <1>7 DEF Sound, Links, Lists
  <2>3. \A dir, other \in Dirs' : dir # other => Entries(dir)' \cap Entries(other)' = {}
    BY <1>4, <1>6, <1>7 DEF Sound, Links, Lists
  <2> QED
    BY <2>1, <2>2, <2>3 DEF Lists
<1>12. Root'
  BY <1>1, <1>3, <1>8 DEF Sound, Root, TypeOK
<1>13. Cached'
  <2> SUFFICES ASSUME NEW d \in dentries
               PROVE  /\ d.mnt \in mounted' /\ d.dir \in Dirs' /\ file_name'[d.ino] = d.name
                      /\ \/ d.ino \in Entries(d.dir)'
                         \/ d.dir = 0 /\ d.mnt # latest' /\ d.ino \in orphans'
    BY <1>1 DEF Sound, Cached
  <2>1. d.mnt # latest'
    BY <1>1, DentriesInUse
  <2> QED
    BY <1>1, <1>4, <1>7, <2>1 DEF Sound, Cached
<1>14. Blocks'
  BY <1>1, <1>3, <1>9 DEF Sound, Blocks, Root, TypeOK
<1>15. OpenFiles'
  BY <1>1, <1>9 DEF Sound, OpenFiles, OpenOn
<1> QED
  BY <1>10, <1>11, <1>12, <1>13, <1>14, <1>15 DEF Sound, Links

(* An unmount takes the names of its mount along, none of an open file.    *)
LEMMA UmountSound ==
  ASSUME TypeOK, TypeOK', Sound, NEW mnt \in Mounts, Umount(mnt)
  PROVE  Sound'
<1>1. /\ UNCHANGED <<ibitmap, bbitmap, mode, child, brother, data, file_name, filp, latest,
                     orphans>>
      /\ mounted' = mounted \ {mnt} /\ dentries' = {d \in dentries : d.mnt # mnt}
  BY DEF Umount, slots
<1>2. Links' /\ Root' /\ Cached' /\ Blocks'
  BY <1>1, LinksUnchanged DEF Sound, Root, Cached, Blocks
<1>3. OpenFiles'
  <2> SUFFICES ASSUME NEW f \in Files, filp[f].state = "open"
               PROVE  \E d \in dentries' : OpenOn(f, d) /\ mode[d.ino] = "file"
    BY <1>1 DEF OpenFiles, OpenOn
  <2>1. PICK d \in dentries : OpenOn(f, d) /\ mode[d.ino] = "file"
    BY DEF Sound, OpenFiles
  <2>2. filp[f].mnt # mnt
    BY DEF Umount, Closed, TypeOK
  <2> QED
    BY <1>1, <2>1, <2>2 DEF OpenOn
<1> QED
  BY <1>2, <1>3 DEF Sound

(* Every operation keeps the invariant.                                    *)
LEMMA IInvStep == IInv /\ [Next]_vars => IInv'
<1> SUFFICES ASSUME IInv, [Next]_vars PROVE IInv'
  OBVIOUS
<1>1. TypeOK /\ TypeOK'
  BY TypeCorrectStep DEF IInv
<1>2. stuck => stuck'
  BY DEF Next, vars, Create, CreateNoBlock, Mount, Umount, Rmdir, Unlink, UnlinkLost, Evict,
         Open, Close, ReadFile, WriteFile
<1> SUFFICES ASSUME Sound PROVE stuck' \/ Sound'
  BY <1>1, <1>2 DEF IInv
<1>3. ASSUME NEW mnt \in Mounts, NEW dir \in Idx, NEW n \in Names,
             (\E m \in {"dir", "file"} : Create(mnt, dir, n, m)) \/ CreateNoBlock(mnt, dir, n)
      PROVE  Sound'
  BY <1>1, <1>3, CreateSound, CreateNoBlockSound
<1>4. ASSUME NEW mnt \in Mounts, Mount(mnt) \/ Umount(mnt) PROVE Sound'
  BY <1>1, <1>4, MountSound, UmountSound
<1>5. ASSUME NEW d \in dentries, Rmdir(d) \/ Unlink(d) \/ Evict(d) PROVE Sound'
  BY <1>1, <1>5, RmdirSound, UnlinkSound, EvictSound
<1>6. ASSUME NEW d \in dentries, UnlinkLost(d) PROVE stuck'
  BY <1>6 DEF UnlinkLost
<1>7. ASSUME NEW f \in Files,
             \/ \E d \in dentries : Open(f, d)
             \/ Close(f)
             \/ \E len \in 1..FileSizeMax : ReadFile(f, len)
             \/ \E pos, len \in 0..FileSizeMax : WriteFile(f, pos, len)
      PROVE  Sound'
  BY <1>1, <1>7, IoSound
<1>8. CASE UNCHANGED vars
  <2>1. UNCHANGED <<ibitmap, bbitmap, mode, child, brother, data, file_name, mounted, dentries,
                    filp, latest, orphans>>
    BY <1>8 DEF vars, slots
  <2> QED
    BY <2>1, LinksUnchanged DEF Sound, Root, Cached, Blocks, OpenFiles, OpenOn
<1> QED
  BY <1>3, <1>4, <1>5, <1>6, <1>7, <1>8 DEF Next

(* Until an operation loops, the lists share out the slots in use, cached  *)
(* names are listed, and each block has one file.                          *)
THEOREM InvariantHolds == Spec => []IInv
  BY IInvInit, IInvStep, PTL DEF Spec

----------------------------------------------------------------------------
(* What the invariant implies.                                             *)

(* A slot is given back with its links clear, as create relies on, however *)
(* many mounts have come and gone.                                         *)
THEOREM SlotsAreGivenBackClean == Spec => []FreeSlotsAreClean
<1>1. IInv => FreeSlotsAreClean
  BY DEF IInv, Sound, Links, Clean, FreeSlotsAreClean
<1> QED
  BY <1>1, InvariantHolds, PTL

(* The lists are a forest over the slots in use.  The head of a list is    *)
(* the one entry no other entry leads to: one pointer leads to each slot,  *)
(* and an entry that is not the head follows another.                      *)
THEOREM ListsFormATree == Spec => []Tree
<1>1. ASSUME TypeOK, Sound, NEW dir \in Dirs, NEW i \in Entries(dir)
      PROVE  i = child[dir] <=> \A j \in Entries(dir) : brother[j] # i
  <2>1. child \in Pointers /\ brother \in Pointers /\ dir \in Idx
    BY <1>1 DEF TypeOK, Pointers, Dirs
  <2>2. i \in Idx /\ i # Invalid /\ Entries(dir) \subseteq Idx /\ i \in List(child, brother, dir)
    BY <2>1, ListIsClosed, InvalidIsNoIndex, EntriesAreLists
  <2>3. i = child[dir] => \A j \in Entries(dir) : brother[j] # i
    BY <1>1, <2>1, <2>2 DEF Sound, Links, OnePointerEach
  <2>4. i # child[dir] => \E j \in Entries(dir) : brother[j] = i
    BY <2>1, <2>2, EntryFollows, EntriesAreLists
  <2> QED
    BY <2>3, <2>4
<1>2. IInv => Tree
  BY <1>1 DEF IInv, Sound, Links, Clean, Lists, Tree, FreeSlotsAreClean
<1> QED
  BY <1>2, InvariantHolds, PTL

(* No two files share a block, and an open file that was not unlinked      *)
(* still owns the one it reads and writes.                                 *)
THEOREM EachBlockHasOneFile == Spec => []BlocksHaveOneOwner
<1>1. ASSUME TypeOK, Sound, NEW b \in Blk
      PROVE  b \in bbitmap <=>
               \E i \in ibitmap : /\ mode[i] = "file" /\ data[i] = b
                                  /\ \A j \in ibitmap \ {i} : ~(mode[j] = "file" /\ data[j] = b)
  BY <1>1, DentriesInUse DEF Sound, Blocks
<1>2. ASSUME TypeOK, Sound, NEW f \in Files, filp[f].state = "open"
      PROVE  /\ filp[f].ino \in ibitmap /\ mode[filp[f].ino] = "file"
             /\ data[filp[f].ino] \in bbitmap /\ file_size[filp[f].ino] <= FileSizeMax
  <2>1. PICK d \in dentries : OpenOn(f, d) /\ mode[d.ino] = "file"
    BY <1>2 DEF Sound, OpenFiles
  <2>2. d.ino \in ibitmap /\ d.ino \in Idx /\ data[d.ino] \in bbitmap
    BY <1>2, <2>1, DentriesInUse DEF Sound, Blocks
  <2>3. file_size[d.ino] \in 0..FileSizeMax
    BY <1>2, <2>2 DEF TypeOK
  <2> QED
    BY <2>1, <2>2, <2>3, MemFsAssumption DEF OpenOn
<1>3. IInv => BlocksHaveOneOwner
  BY <1>1, <1>2 DEF IInv, BlocksHaveOneOwner
<1> QED
  BY <1>3, InvariantHolds, PTL

(* Every name lookup finds leads to the entry its directory lists, except  *)
(* in the root of a mount that another mount followed: nothing else makes  *)
(* rmdir or unlink loop.                                                   *)
THEOREM NamesLeadToEntries == Spec => []DentriesAreListed
<1>1. IInv => DentriesAreListed
  BY DEF IInv, Sound, Cached, DentriesAreListed
<1> QED
  BY <1>1, InvariantHolds, PTL

----------------------------------------------------------------------------
(* The operations implement DirTree.  Entries with their names:            *)
Named(names, S) == {[name |-> names[i], ino |-> i] : i \in S}

LEMMA ContentsAreNamed ==
  /\ Contents = [dir \in Idx |-> Named(file_name, Entries(dir))]
  /\ Contents' = [dir \in Idx |-> Named(file_name', Entries(dir)')]
  BY DEF Contents, Named

(* A step that renames no entry of a list...                               *)
LEMMA NamesStay ==
  ASSUME NEW a, NEW b, NEW S, \A i \in S : b[i] = a[i]
  PROVE  Named(b, S) = Named(a, S)
  BY DEF Named

(* ...or takes one away.                                                   *)
LEMMA NamedDrops ==
  ASSUME NEW a, NEW S, NEW i \in S
  PROVE  Named(a, S \ {i}) = Named(a, S) \ {[name |-> a[i], ino |-> i]}
<1> DEFINE e(j) == [name |-> a[j], ino |-> j]
<1>1. \A j : e(j).ino = j
  OBVIOUS
<1>2. \A j \in S : e(j) = e(i) <=> j = i
  BY <1>1
<1> HIDE DEF e
<1>3. {e(j) : j \in S \ {i}} = {e(j) : j \in S} \ {e(i)}
  BY <1>2
<1> QED
  BY <1>3 DEF Named, e

(* Only directories list anything, before a step and after it.             *)
LEMMA OnlyDirsList ==
  /\ Sound => \A e \in Idx \ Dirs : Entries(e) = {}
  /\ Sound' => \A e \in Idx \ Dirs' : Entries(e)' = {}
  BY DEF Sound, Links, Clean, Entries, Dirs

(* mkdir and create add the new slot to one directory.                     *)
LEMMA CreateMakes ==
  ASSUME TypeOK, TypeOK', Sound, NEW mnt \in Mounts, NEW dir \in Idx, NEW n \in Names,
         NEW m \in {"dir", "file"}, Create(mnt, dir, n, m)
  PROVE  Dir!Next
<1>1. PICK i \in Idx \ ibitmap :
        /\ ibitmap' = ibitmap \cup {i}
        /\ mode' = [mode EXCEPT ![i] = m]
        /\ LinkLast(dir, i, m)
        /\ file_name' = [file_name EXCEPT ![i] = n]
  BY DEF Create, IsIdleIndex
<1>2. dir \in Dirs
  BY CachedDirInUse DEF Create
<1>3. /\ Entries(dir)' = Entries(dir) \cup {i}
      /\ Entries(i)' = {} /\ Entries(i) = {}
      /\ \A e \in Dirs \ {dir} : Entries(e)' = Entries(e)
  BY <1>1, <1>2, LinkLastLists, OnlyDirsList DEF Sound, Dirs
<1>4. \A e \in Idx \ {dir} : Entries(e)' = Entries(e)
  <2>1. Sound' /\ Dirs' \subseteq Dirs \cup {i}
    BY <1>1, CreateSound DEF Dirs, TypeOK
  <2>2. \A e \in Idx \ Dirs' : Entries(e)' = {}
    BY <2>1, OnlyDirsList
  <2>3. \A e \in Idx \ Dirs : Entries(e) = {}
    BY OnlyDirsList
  <2> QED
    BY <1>3, <2>1, <2>2, <2>3
<1>5. \A e \in Idx : \A j \in Entries(e) : file_name'[j] = file_name[j]
  <2>1. \A e \in Idx : Entries(e) \subseteq ibitmap
    BY OnlyDirsList DEF Sound, Links, Lists
  <2> QED
    BY <1>1, <2>1 DEF TypeOK
<1>6. Kind[i] = "free" /\ Kind' = [Kind EXCEPT ![i] = m] /\ Kind[dir] = "dir" /\ dir \in Idx
  BY <1>1, <1>2 DEF Kind, TypeOK, Dirs
<1>7. Contents[i] = {}
  BY <1>3, ContentsAreNamed DEF Named
<1>8. Contents' = [Contents EXCEPT ![dir] = @ \cup {[name |-> n, ino |-> i]}]
  <2>1. \A e \in Idx \ {dir} : Named(file_name', Entries(e)') = Named(file_name, Entries(e))
    BY <1>4, <1>5, NamesStay
  <2>2. Named(file_name', Entries(dir)') = Named(file_name, Entries(dir)) \cup {[name |-> n, ino |-> i]}
    <3>1. Named(file_name', Entries(dir)) = Named(file_name, Entries(dir))
      BY <1>5, NamesStay
    <3>2. file_name'[i] = n
      BY <1>1 DEF TypeOK
    <3>3. Named(file_name', Entries(dir)') = Named(file_name', Entries(dir)) \cup {[name |-> n, ino |-> i]}
      BY <1>3, <3>2 DEF Named
    <3> QED
      BY <3>1, <3>3
  <2> QED
    BY <1>6, <2>1, <2>2, ContentsAreNamed
<1> QED
  BY <1>6, <1>7, <1>8 DEF Dir!Next, Dir!Make

(* A create that finds no block lists nothing.                             *)
LEMMA CreateNoBlockLoses ==
  ASSUME TypeOK, TypeOK', Sound, NEW mnt \in Mounts, NEW dir \in Idx, NEW n \in Names,
         CreateNoBlock(mnt, dir, n)
  PROVE  Dir!Next
<1>1. PICK i \in Idx \ ibitmap :
        /\ ibitmap' = ibitmap \cup {i}
        /\ mode' = [mode EXCEPT ![i] = "file"]
        /\ child' = [child EXCEPT ![i] = Invalid]
        /\ UNCHANGED <<brother, file_name>>
  BY DEF CreateNoBlock, IsIdleIndex
<1>2. child' = child /\ Entries(i) = {}
  BY <1>1, OnlyDirsList DEF Sound, Links, Clean, TypeOK, Dirs
<1>3. Contents' = Contents /\ Contents[i] = {}
  BY <1>1, <1>2, EntriesAreLists, ContentsAreNamed DEF Named
<1>4. Kind[i] = "free" /\ Kind' = [Kind EXCEPT ![i] = "file"]
  BY <1>1 DEF Kind, TypeOK
<1> QED
  BY <1>3, <1>4 DEF Dir!Next, Dir!Lose

(* rmdir and unlink take away one entry, which has none of its own.        *)
LEMMA UnlinkSlotRemoves ==
  ASSUME TypeOK, TypeOK', Sound, Sound', NEW d \in dentries, child[d.ino] = Invalid,
         UnlinkSlot(d.dir, d.ino), UNCHANGED <<mode, file_name>>
  PROVE  Dir!Next
<1> DEFINE i == d.ino
           dir == d.dir
<1>1. /\ i \in ibitmap /\ i \in Idx /\ dir \in Dirs /\ dir \in Idx
      /\ i \in Entries(dir) /\ ibitmap' = ibitmap \ {i}
  BY DentriesInUse, UnlinkSlotFinds DEF UnlinkSlot
<1>2. \A e \in Dirs : Entries(e)' = Entries(e) \ {i}
  BY <1>1, UnlinkSlotLists DEF Sound
<1>3. \A e \in Idx \ {dir} : Entries(e)' = Entries(e)
  <2>1. \A e \in Dirs \ {dir} : i \notin Entries(e)
    BY <1>1 DEF Sound, Links, Lists
  <2>2. Dirs' \subseteq Dirs
    BY <1>1 DEF Dirs
  <2>3. \A e \in Idx \ Dirs : Entries(e) = {}
    BY OnlyDirsList
  <2>4. \A e \in Idx \ Dirs' : Entries(e)' = {}
    BY OnlyDirsList
  <2> QED
    BY <1>2, <2>1, <2>2, <2>3, <2>4
<1> DEFINE entry == [name |-> file_name[i], ino |-> i]
<1>4. Kind[i] # "free" /\ Kind' = [Kind EXCEPT ![i] = "free"]
  <2>1. mode[i] # "free"
    BY <1>1 DEF TypeOK
  <2> QED
    BY <1>1, <2>1 DEF Kind
<1>5. Contents[i] = {}
  <2>1. Entries(i) = {}
    BY DEF Entries
  <2> QED
    BY <1>1, <2>1, ContentsAreNamed DEF Named
<1>6. entry \in Contents[dir] /\ entry.ino = i
  BY <1>1, ContentsAreNamed DEF Named
<1>7. Contents' = [Contents EXCEPT ![dir] = @ \ {entry}]
  <2>1. Named(file_name, Entries(dir)') = Named(file_name, Entries(dir)) \ {entry}
    BY <1>1, <1>2, NamedDrops
  <2> HIDE DEF i, dir, entry
  <2> QED
    BY <1>1, <1>3, <2>1, ContentsAreNamed
<1> HIDE DEF i, dir, entry
<1> QED
  BY <1>1, <1>4, <1>5, <1>6, <1>7 DEF Dir!Next, Dir!Remove

(* A mount begins with an empty root.                                      *)
LEMMA MountEmpties ==
  ASSUME TypeOK, TypeOK', Sound, NEW mnt \in Mounts, Mount(mnt)
  PROVE  Dir!Next
<1>1. /\ mode' = [mode EXCEPT ![0] = "dir"] /\ ibitmap' = ibitmap \cup {0}
      /\ file_name' = file_name /\ 0 \in Idx
  BY MemFsAssumption DEF Mount, Idx
<1>2. \A e \in Idx \ {0} : Entries(e)' = Entries(e)
  <2>1. Sound' /\ Dirs' \subseteq Dirs \cup {0}
    BY <1>1, MountSound DEF Dirs, TypeOK
  <2>2. \A e \in Idx \ Dirs' : Entries(e)' = {}
    BY <2>1, OnlyDirsList
  <2>3. \A e \in Idx \ Dirs : Entries(e) = {}
    BY OnlyDirsList
  <2> QED
    BY <2>1, <2>2, <2>3, MountLists
<1>3. Contents' = [Contents EXCEPT ![0] = {}]
  <2>1. Named(file_name, Entries(0)') = {}
    BY MountLists DEF Named
  <2> QED
    BY <1>1, <1>2, <2>1, ContentsAreNamed
<1>4. Kind[0] # "file" /\ Kind' = [Kind EXCEPT ![0] = "dir"]
  BY <1>1 DEF Kind, TypeOK, Sound, Root
<1> QED
  BY <1>3, <1>4 DEF Dir!Next, Dir!Mount

(* Until an operation loops, each one is a step of DirTree or leaves the   *)
(* tree as it is, for any number of slots, blocks, names and mounts.       *)
THEOREM ImplementsDirTree == Spec => IsDirTree
<1>1. Init => Dir!Init
  <2> SUFFICES ASSUME Init PROVE Dir!Init
    OBVIOUS
  <2>1. Kind = [i \in Idx |-> "free"]
    BY DEF Init, Kind
  <2>2. Contents = [i \in Idx |-> {}]
    BY ContentsAreNamed DEF Init, Entries, Named
  <2> QED
    BY <2>1, <2>2 DEF Dir!Init
<1>2. IInv /\ [Next]_vars => [Dir!Next \/ stuck']_<<Kind, Contents>>
  <2> SUFFICES ASSUME IInv, [Next]_vars
               PROVE  Dir!Next \/ stuck' \/ UNCHANGED <<Kind, Contents>>
    OBVIOUS
  <2>1. TypeOK /\ TypeOK' /\ IInv'
    BY TypeCorrectStep, IInvStep DEF IInv
  <2> SUFFICES ASSUME ~stuck' PROVE Dir!Next \/ UNCHANGED <<Kind, Contents>>
    OBVIOUS
  <2>2. Sound /\ Sound'
    <3>1. stuck => stuck'
      BY DEF Next, vars, Create, CreateNoBlock, Mount, Umount, Rmdir, Unlink, UnlinkLost, Evict,
             Open, Close, ReadFile, WriteFile
    <3> QED
      BY <2>1, <3>1 DEF IInv
  <2>3. ASSUME UNCHANGED <<ibitmap, mode, child, brother, file_name>>
        PROVE  UNCHANGED <<Kind, Contents>>
    BY <2>3, EntriesAreLists, ContentsAreNamed DEF Kind
  <2>4. ASSUME NEW mnt \in Mounts, NEW dir \in Idx, NEW n \in Names,
               (\E m \in {"dir", "file"} : Create(mnt, dir, n, m)) \/ CreateNoBlock(mnt, dir, n)
        PROVE  Dir!Next
    BY <2>1, <2>2, <2>4, CreateMakes, CreateNoBlockLoses
  <2>5. ASSUME NEW mnt \in Mounts, Mount(mnt) PROVE Dir!Next
    BY <2>1, <2>2, <2>5, MountEmpties
  <2>6. ASSUME NEW d \in dentries, Rmdir(d) \/ Unlink(d) PROVE Dir!Next
    <3>1. child[d.ino] = Invalid /\ UnlinkSlot(d.dir, d.ino) /\ UNCHANGED <<mode, file_name>>
      <4>1. d.ino \in ibitmap
        BY <2>1, <2>2, DentriesInUse
      <4> QED
        BY <2>2, <2>6, <4>1 DEF Rmdir, Unlink, Sound, Links, Clean
    <3> QED
      BY <2>1, <2>2, <3>1, UnlinkSlotRemoves
  <2>7. ASSUME NEW d \in dentries, UnlinkLost(d) PROVE FALSE
    BY <2>7 DEF UnlinkLost
  <2>8. ASSUME \/ \E mnt \in Mounts : Umount(mnt)
               \/ \E d \in dentries : Evict(d) \/ \E f \in Files : Open(f, d)
               \/ \E f \in Files :
                    \/ Close(f)
                    \/ \E len \in 1..FileSizeMax : ReadFile(f, len)
                    \/ \E pos, len \in 0..FileSizeMax : WriteFile(f, pos, len)
               \/ UNCHANGED vars
        PROVE  UNCHANGED <<Kind, Contents>>
    BY <2>3, <2>8 DEF Umount, Evict, Open, Close, ReadFile, WriteFile, vars, slots
  <2> QED
    BY <2>4, <2>5, <2>6, <2>7, <2>8 DEF Next
<1> QED
  BY <1>1, <1>2, InvariantHolds, PTL DEF Spec, IsDirTree

-----------------------------------------------------------------------------
(* lfs.                                                                    *)

Lfs == INSTANCE Lfs

(* The powers of ten that an int is divided by.                            *)
LEMMA TenTo == \A k \in 0..9 : 10^k \in Nat \ {0}
<1>1. /\ 10^0 = 1 /\ 10^1 = 10 /\ 10^2 = 100 /\ 10^3 = 1000 /\ 10^4 = 10000
      /\ 10^5 = 100000 /\ 10^6 = 1000000 /\ 10^7 = 10000000 /\ 10^8 = 100000000
      /\ 10^9 = 1000000000
  OBVIOUS
<1> DEFINE P(k) == 10^k \in Nat \ {0}
<1>2. P(0) /\ P(1) /\ P(2) /\ P(3) /\ P(4) /\ P(5) /\ P(6) /\ P(7) /\ P(8) /\ P(9)
  BY <1>1
<1>3. \A k \in 0..9 : P(k)
  <2> HIDE DEF P
  <2> QED
    BY <1>2
<1> QED
  BY <1>3

(* A number has from one to ten digits.                                    *)
LEMMA WidthIs == ASSUME NEW a \in Int PROVE Lfs!Width(a) \in 1..10
<1>1. /\ 10^0 = 1 /\ 10^1 = 10 /\ 10^2 = 100 /\ 10^3 = 1000 /\ 10^4 = 10000
      /\ 10^5 = 100000 /\ 10^6 = 1000000 /\ 10^7 = 10000000 /\ 10^8 = 100000000
      /\ 10^9 = 1000000000
  OBVIOUS
<1> DEFINE W(n) == (n = 1 \/ a >= 10^(n - 1)) /\ (n = 10 \/ a < 10^n)
<1>2. \/ W(1) \/ W(2) \/ W(3) \/ W(4) \/ W(5) \/ W(6) \/ W(7) \/ W(8) \/ W(9) \/ W(10)
  BY <1>1
<1>3. \E n \in 1..10 : W(n)
  <2> HIDE DEF W
  <2> QED
    BY <1>2
<1> QED
  BY <1>3 DEF Lfs!Width

(* The digits of a number...                                               *)
LEMMA DigitsAre == ASSUME NEW a \in Nat PROVE Lfs!Digits(a) \in Seq(0..9)
<1>1. Lfs!Width(a) \in 1..10
  BY WidthIs
<1>2. ASSUME NEW i \in 1..Lfs!Width(a) PROVE (a \div 10^(Lfs!Width(a) - i)) % 10 \in 0..9
  <2>1. Lfs!Width(a) - i \in 0..9
    BY <1>1
  <2>2. 10^(Lfs!Width(a) - i) \in Nat \ {0}
    BY <2>1, TenTo
  <2> DEFINE d == 10^(Lfs!Width(a) - i)
  <2>3. d \in Nat \ {0}
    BY <2>2
  <2> HIDE DEF d
  <2>4. a \div d \in Nat
    BY <2>3
  <2>5. (a \div d) % 10 \in 0..9
    BY <2>4
  <2> QED
    BY <2>5 DEF d
<1> DEFINE D(i) == (a \div 10^(Lfs!Width(a) - i)) % 10
<1>3. \A i \in 1..Lfs!Width(a) : D(i) \in 0..9
  BY <1>2
<1>4. Lfs!Digits(a) = [i \in 1..Lfs!Width(a) |-> D(i)]
  BY DEF Lfs!Digits
<1> HIDE DEF D
<1> QED
  BY <1>1, <1>3, <1>4

(* ...and the characters snprintf prints.                                  *)
LEMMA TextIs == ASSUME NEW x \in Int PROVE Lfs!Text(x) \in Seq(0..11)
<1>1. CASE x < 0
  <2>1. -x \in Nat
    BY <1>1
  <2>2. Lfs!Digits(-x) \in Seq(0..9)
    BY <2>1, DigitsAre
  <2>3. Lfs!Digits(-x) \in Seq(0..11) /\ <<10>> \in Seq(0..11) /\ <<11>> \in Seq(0..11)
    BY <2>2
  <2> DEFINE d == Lfs!Digits(-x)
  <2> HIDE DEF d
  <2>4. (<<10>> \o d) \o <<11>> \in Seq(0..11)
    BY <2>3 DEF d
  <2> QED
    BY <1>1, <2>4 DEF Lfs!Text, d
<1>2. CASE ~(x < 0)
  <2>1. x \in Nat
    BY <1>2
  <2>2. Lfs!Digits(x) \in Seq(0..9)
    BY <2>1, DigitsAre
  <2>3. Lfs!Digits(x) \in Seq(0..11) /\ <<11>> \in Seq(0..11)
    BY <2>2
  <2> DEFINE d == Lfs!Digits(x)
  <2> HIDE DEF d
  <2>4. d \o <<11>> \in Seq(0..11)
    BY <2>3 DEF d
  <2> QED
    BY <1>2, <2>4 DEF Lfs!Text, d
<1> QED
  BY <1>1, <1>2

(* The first characters of a text, and those after them, are the first     *)
(* characters of the text.                                                 *)
LEMMA Piece ==
  ASSUME NEW S, NEW t \in Seq(S), NEW o \in Nat, NEW l \in Nat, o + l <= Len(t)
  PROVE  /\ SubSeq(t, o + 1, o + l) \in Seq(S)
         /\ SubSeq(t, 1, o) \o SubSeq(t, o + 1, o + l) = SubSeq(t, 1, o + l)
         /\ <<>> \o SubSeq(t, 1, l) = SubSeq(t, 1, l)
<1>1. SubSeq(t, o + 1, o + l) \in Seq(S)
  OBVIOUS
<1>2. SubSeq(t, 1, o) \o SubSeq(t, o + 1, o + l) = SubSeq(t, 1, o + l)
  OBVIOUS
<1>3. SubSeq(t, 1, l) \in Seq(S)
  OBVIOUS
<1>4. <<>> \o SubSeq(t, 1, l) = SubSeq(t, 1, l)
  BY <1>3
<1> QED
  BY <1>1, <1>2, <1>4

(* atomic_inc and "v -= 1" undo each other, also where an int wraps        *)
(* around.                                                                 *)
LEMMA Wraps ==
  ASSUME Lfs!LfsAssumption, NEW x \in Lfs!Ints
  PROVE  /\ Lfs!Inc(x) \in Lfs!Ints /\ Lfs!Dec(x) \in Lfs!Ints /\ Lfs!Dec(Lfs!Inc(x)) = x
         /\ x # IntMax => x < Lfs!Inc(x)
  BY DEF Lfs!LfsAssumption, Lfs!Ints, Lfs!Inc, Lfs!Dec

(* TypeOK, but for what is shown of the readings below.                    *)
LfsTyped ==
  /\ counters \in [Lfs!Counters -> Lfs!Ints]
  /\ private_data \in [Procs -> 0..NCounters]
  /\ offset \in [Procs -> Nat]
  /\ pc \in [Procs -> {"idle", "inc"}]
  /\ v \in [Procs -> Lfs!Ints] /\ count \in [Procs -> Nat]
  /\ got \in [Procs -> Seq(0..11)] /\ first \in [Procs -> Lfs!Ints]

HistoryTyped ==
  /\ mixed \subseteq Procs /\ overlapped \subseteq Procs /\ outdated \subseteq Procs
  /\ given \in [Lfs!Counters -> SUBSET Lfs!Ints]

(* A file that is between atomic_read and atomic_inc is open, and has read *)
(* nothing yet.  What it has read is what the counter holds, unless        *)
(* another file has changed it.                                            *)
ReadInv ==
  \A p \in Procs : pc[p] = "inc" =>
    /\ private_data[p] # 0 /\ offset[p] = 0
    /\ p \notin mixed => v[p] = counters[private_data[p]]

(* A file further on has the first characters of the number before the     *)
(* counter's.                                                              *)
PieceInv ==
  \A p \in Procs : (private_data[p] # 0 /\ offset[p] > 0 /\ p \notin mixed) =>
    /\ first[p] = Lfs!Dec(counters[private_data[p]])
    /\ offset[p] <= Len(Lfs!Text(first[p]))
    /\ got[p] = SubSeq(Lfs!Text(first[p]), 1, offset[p])

(* A read that does not overlap another is the only one of its counter.    *)
(* The values given out are below the counter's, and one about to be is    *)
(* not above it, if the counter has not begun anew.                        *)
GivenInv ==
  /\ \A p, q \in Procs :
       /\ pc[p] = "inc" /\ pc[q] = "inc" /\ p \notin overlapped
       /\ private_data[p] = private_data[q]
       => p = q
  /\ \A k \in Lfs!Counters : \A x \in given[k] : x < counters[k]
  /\ \A p \in Procs : (pc[p] = "inc" /\ p \notin outdated) =>
       /\ v[p] <= counters[private_data[p]]
       /\ p \notin overlapped => v[p] = counters[private_data[p]]

LfsInv == LfsTyped /\ HistoryTyped /\ ReadInv /\ PieceInv /\ GivenInv

(* The invariant holds when the file system is mounted.                    *)
LEMMA LfsInvInit == Lfs!LfsAssumption /\ Lfs!Init => LfsInv
<1> SUFFICES ASSUME Lfs!LfsAssumption, Lfs!Init PROVE LfsInv
  OBVIOUS
<1>1. 0 \in Lfs!Ints
  BY DEF Lfs!LfsAssumption, Lfs!Ints
<1>2. LfsTyped /\ HistoryTyped
  BY <1>1 DEF Lfs!LfsAssumption, Lfs!Init, LfsTyped, HistoryTyped, Lfs!Counters
<1>3. ReadInv /\ PieceInv /\ GivenInv
  BY DEF Lfs!Init, ReadInv, PieceInv, GivenInv
<1> QED
  BY <1>2, <1>3 DEF LfsInv

(* open: the file is at its start.                                         *)
LEMMA LfsOpenKeeps ==
  ASSUME Lfs!LfsAssumption, LfsInv, NEW p \in Procs, NEW k \in Lfs!Counters, Lfs!Open(p, k)
  PROVE  LfsInv'
<1> USE DEF LfsInv, Lfs!histVars
<1>1. /\ private_data[p] = 0
      /\ private_data' = [private_data EXCEPT ![p] = k] /\ offset' = [offset EXCEPT ![p] = 0]
      /\ UNCHANGED <<counters, pc, v, count, got, first, Lfs!histVars>>
  BY DEF Lfs!Open
<1>2. LfsTyped' /\ HistoryTyped'
  BY <1>1 DEF LfsTyped, HistoryTyped, Lfs!Counters, Lfs!LfsAssumption
<1>3. pc[p] # "inc"
  BY <1>1 DEF ReadInv
<1>4. ReadInv'
  BY <1>1, <1>3 DEF ReadInv, LfsTyped
<1>5. PieceInv'
  BY <1>1 DEF PieceInv, LfsTyped
<1>6. GivenInv'
  BY <1>1, <1>3 DEF GivenInv, LfsTyped
<1> QED
  BY <1>2, <1>4, <1>5, <1>6

(* release: nothing is kept of the file.                                   *)
LEMMA LfsCloseKeeps ==
  ASSUME Lfs!LfsAssumption, LfsInv, NEW p \in Procs, Lfs!Close(p)
  PROVE  LfsInv'
<1> USE DEF LfsInv, Lfs!histVars
<1>1. /\ pc[p] = "idle"
      /\ private_data' = [private_data EXCEPT ![p] = 0] /\ offset' = [offset EXCEPT ![p] = 0]
      /\ got' = [got EXCEPT ![p] = <<>>] /\ first' = [first EXCEPT ![p] = 0]
      /\ mixed' = mixed \ {p}
      /\ UNCHANGED <<counters, pc, v, count, overlapped, outdated, given>>
  BY DEF Lfs!Close
<1>2. 0 \in Lfs!Ints /\ <<>> \in Seq(0..11)
  BY DEF Lfs!LfsAssumption, Lfs!Ints
<1>3. LfsTyped' /\ HistoryTyped'
  BY <1>1, <1>2 DEF LfsTyped, HistoryTyped, Lfs!LfsAssumption
<1>4. ReadInv'
  BY <1>1 DEF ReadInv, LfsTyped
<1>5. PieceInv'
  BY <1>1 DEF PieceInv, LfsTyped
<1>6. GivenInv'
  BY <1>1 DEF GivenInv, LfsTyped
<1> QED
  BY <1>3, <1>4, <1>5, <1>6

(* atomic_read: the value is the counter's, and the read overlaps those    *)
(* that are between their two steps.                                       *)
LEMMA ReadStartKeeps ==
  ASSUME Lfs!LfsAssumption, LfsInv, NEW p \in Procs, NEW n \in Sizes, Lfs!ReadStart(p, n)
  PROVE  LfsInv'
<1> USE DEF LfsInv
<1> DEFINE k == private_data[p]
<1>1. /\ k # 0 /\ pc[p] = "idle" /\ offset[p] = 0
      /\ v' = [v EXCEPT ![p] = counters[k]] /\ count' = [count EXCEPT ![p] = n]
      /\ pc' = [pc EXCEPT ![p] = "inc"] /\ mixed' = mixed \ {p}
      /\ overlapped' = IF Lfs!Reading(k) = {} THEN overlapped
                       ELSE overlapped \cup Lfs!Reading(k) \cup {p}
      /\ UNCHANGED <<counters, private_data, offset, got, first, outdated, given>>
  BY DEF Lfs!ReadStart
<1>2. k \in Lfs!Counters /\ counters[k] \in Lfs!Ints /\ n \in Nat
  BY <1>1 DEF LfsTyped, Lfs!Counters, Lfs!LfsAssumption
<1>3. LfsTyped'
  BY <1>1, <1>2 DEF LfsTyped
<1>4. HistoryTyped'
  BY <1>1 DEF HistoryTyped, Lfs!Reading, Lfs!Of
<1>5. ReadInv'
  BY <1>1 DEF ReadInv, LfsTyped
<1>6. PieceInv'
  BY <1>1 DEF PieceInv, LfsTyped
<1>7. GivenInv'
  <2>1. ASSUME NEW q \in Procs, NEW r \in Procs, pc'[q] = "inc", pc'[r] = "inc",
               private_data[q] = private_data[r], q \notin overlapped'
        PROVE  q = r
    <3>1. CASE q = p \/ r = p
      BY <1>1, <2>1, <3>1 DEF Lfs!Reading, Lfs!Of, LfsTyped
    <3>2. CASE q # p /\ r # p
      BY <1>1, <2>1, <3>2 DEF GivenInv, LfsTyped
    <3> QED
      BY <3>1, <3>2
  <2>2. ASSUME NEW q \in Procs, pc'[q] = "inc", q \notin outdated'
        PROVE  /\ v'[q] <= counters'[private_data'[q]]
               /\ q \notin overlapped' => v'[q] = counters'[private_data'[q]]
    <3>1. CASE q = p
      BY <1>1, <1>2, <3>1 DEF LfsTyped, Lfs!Ints, Lfs!LfsAssumption
    <3>2. CASE q # p
      BY <1>1, <2>2, <3>2 DEF GivenInv, LfsTyped
    <3> QED
      BY <3>1, <3>2
  <2> QED
    BY <1>1, <2>1, <2>2 DEF GivenInv
<1> QED
  BY <1>3, <1>4, <1>5, <1>6, <1>7

(* What a read that has the first characters of a text goes on with is the *)
(* first characters of the text.                                           *)
LEMMA CopyGives ==
  ASSUME LfsTyped, NEW p \in Procs, NEW x \in Int, NEW n \in Nat, Lfs!Copy(p, x, n)
  PROVE  \E o \in Nat, g \in Seq(0..11) :
           /\ offset' = [offset EXCEPT ![p] = o] /\ got' = [got EXCEPT ![p] = g]
           /\ (/\ p \notin mixed /\ o > 0
               /\ offset[p] > 0 => /\ offset[p] <= Len(Lfs!Text(x))
                                   /\ got[p] = SubSeq(Lfs!Text(x), 1, offset[p])) =>
                o <= Len(Lfs!Text(x)) /\ g = SubSeq(Lfs!Text(x), 1, o)
<1> DEFINE t == Lfs!Text(x)
<1> DEFINE o1 == offset[p]
<1> DEFINE len == IF n > Len(t) - o1 THEN Len(t) - o1 ELSE n
<1> DEFINE g1 == IF p \in mixed THEN <<>>
                 ELSE (IF o1 = 0 THEN <<>> ELSE got[p]) \o SubSeq(t, o1 + 1, o1 + len)
<1>1. t \in Seq(0..11) /\ o1 \in Nat /\ got[p] \in Seq(0..11)
  BY TextIs DEF LfsTyped
<1>2. CASE UNCHANGED <<offset, got>>
  <2>1. offset' = [offset EXCEPT ![p] = o1] /\ got' = [got EXCEPT ![p] = got[p]]
    BY <1>2 DEF LfsTyped
  <2> HIDE DEF o1
  <2> QED
    BY <1>1, <2>1 DEF o1
<1>3. CASE /\ o1 <= Len(t)
           /\ offset' = [offset EXCEPT ![p] = o1 + len]
           /\ got' = [got EXCEPT ![p] = g1]
  <2>1. len \in Nat /\ o1 + len <= Len(t) /\ o1 + len \in Nat
    BY <1>1, <1>3
  <2> HIDE DEF len, t, o1
  <2>2. SubSeq(t, o1 + 1, o1 + len) \in Seq(0..11)
    BY <1>1, <2>1, Piece
  <2>3. g1 \in Seq(0..11)
    <3>1. <<>> \in Seq(0..11)
      OBVIOUS
    <3>2. (IF o1 = 0 THEN <<>> ELSE got[p]) \in Seq(0..11)
      BY <1>1, <3>1
    <3> DEFINE a == IF o1 = 0 THEN <<>> ELSE got[p]
    <3> DEFINE b == SubSeq(t, o1 + 1, o1 + len)
    <3>3. a \in Seq(0..11) /\ b \in Seq(0..11)
      BY <2>2, <3>2
    <3> HIDE DEF a, b
    <3>4. a \o b \in Seq(0..11)
      BY <3>3
    <3> QED
      BY <3>1, <3>4 DEF a, b
  <2>4. ASSUME p \notin mixed, o1 > 0 => got[p] = SubSeq(t, 1, o1)
        PROVE  g1 = SubSeq(t, 1, o1 + len)
    <3>1. CASE o1 = 0
      <4>1. g1 = <<>> \o SubSeq(t, o1 + 1, o1 + len)
        BY <2>4, <3>1
      <4>2. SubSeq(t, o1 + 1, o1 + len) = SubSeq(t, 1, len)
        BY <2>1, <3>1
      <4>3. <<>> \o SubSeq(t, 1, len) = SubSeq(t, 1, len)
        BY <1>1, <2>1, <3>1, Piece
      <4>4. o1 + len = len
        BY <2>1, <3>1
      <4> QED
        BY <4>1, <4>2, <4>3, <4>4
    <3>2. CASE o1 # 0
      <4>1. got[p] = SubSeq(t, 1, o1)
        BY <1>1, <2>4, <3>2
      <4>2. g1 = SubSeq(t, 1, o1) \o SubSeq(t, o1 + 1, o1 + len)
        BY <2>4, <3>2, <4>1
      <4> QED
        BY <1>1, <2>1, <4>2, Piece
    <3> QED
      BY <3>1, <3>2
  <2> HIDE DEF g1
  <2> QED
    BY <1>3, <2>1, <2>3, <2>4 DEF t, o1
<1> QED
  BY <1>2, <1>3 DEF Lfs!Copy

(* A read further on: the number before the counter's is the one the file  *)
(* began to read, if nobody has changed the counter.                       *)
LEMMA ReadOnKeeps ==
  ASSUME Lfs!LfsAssumption, LfsInv, NEW p \in Procs, NEW n \in Sizes, Lfs!ReadOn(p, n)
  PROVE  LfsInv'
<1> USE DEF LfsInv, Lfs!histVars
<1> DEFINE k == private_data[p]
<1>1. /\ k # 0 /\ pc[p] = "idle" /\ offset[p] > 0 /\ Lfs!Copy(p, Lfs!Dec(counters[k]), n)
      /\ UNCHANGED <<counters, private_data, pc, v, count, first, Lfs!histVars>>
  BY DEF Lfs!ReadOn
<1>2. k \in Lfs!Counters /\ counters[k] \in Lfs!Ints /\ n \in Nat
  BY <1>1 DEF LfsTyped, Lfs!Counters, Lfs!LfsAssumption
<1>3. Lfs!Dec(counters[k]) \in Int
  BY <1>2, Wraps DEF Lfs!Ints
<1>4. PICK o \in Nat, g \in Seq(0..11) :
           /\ offset' = [offset EXCEPT ![p] = o] /\ got' = [got EXCEPT ![p] = g]
           /\ (/\ p \notin mixed /\ o > 0
               /\ offset[p] > 0 => /\ offset[p] <= Len(Lfs!Text(Lfs!Dec(counters[k])))
                                   /\ got[p] = SubSeq(Lfs!Text(Lfs!Dec(counters[k])), 1, offset[p])) =>
                o <= Len(Lfs!Text(Lfs!Dec(counters[k]))) /\ g = SubSeq(Lfs!Text(Lfs!Dec(counters[k])), 1, o)
  BY <1>1, <1>2, <1>3, CopyGives
<1>5. LfsTyped' /\ HistoryTyped'
  BY <1>1, <1>4 DEF LfsTyped, HistoryTyped
<1>6. ReadInv'
  BY <1>1, <1>4 DEF ReadInv, LfsTyped
<1>7. PieceInv'
  <2>1. ASSUME NEW q \in Procs, private_data[q] # 0, offset'[q] > 0, q \notin mixed
        PROVE  /\ first[q] = Lfs!Dec(counters[private_data[q]])
               /\ offset'[q] <= Len(Lfs!Text(first[q]))
               /\ got'[q] = SubSeq(Lfs!Text(first[q]), 1, offset'[q])
    <3>1. CASE q = p
      <4>1. first[p] = Lfs!Dec(counters[k]) /\ offset[p] <= Len(Lfs!Text(first[p]))
            /\ got[p] = SubSeq(Lfs!Text(first[p]), 1, offset[p])
        BY <1>1, <2>1, <3>1 DEF PieceInv
      <4>2. offset'[p] = o /\ got'[p] = g
        BY <1>4 DEF LfsTyped
      <4> QED
        BY <1>4, <2>1, <3>1, <4>1, <4>2
    <3>2. CASE q # p
      BY <1>4, <2>1, <3>2 DEF PieceInv, LfsTyped
    <3> QED
      BY <3>1, <3>2
  <2> QED
    BY <1>1, <2>1 DEF PieceInv
<1>8. GivenInv'
  BY <1>1 DEF GivenInv
<1> QED
  BY <1>5, <1>6, <1>7, <1>8

(* A write: all files amid the counter's number are mixed, and its values  *)
(* begin anew.                                                             *)
LEMMA LfsWriteKeeps ==
  ASSUME Lfs!LfsAssumption, LfsInv, NEW p \in Procs, NEW x \in WriteValues, Lfs!Write(p, x)
  PROVE  LfsInv'
<1> USE DEF LfsInv, Lfs!fileVars, Lfs!histVars
<1> DEFINE k == private_data[p]
<1>1. /\ k # 0 /\ pc[p] = "idle" /\ offset[p] = 0
      /\ counters' = [counters EXCEPT ![k] = x]
      /\ mixed' = mixed \cup (Lfs!Amid(k) \ {p})
      /\ outdated' = outdated \cup Lfs!Reading(k)
      /\ given' = [given EXCEPT ![k] = {}]
      /\ UNCHANGED <<Lfs!fileVars, overlapped>>
  BY DEF Lfs!Write
<1>2. k \in Lfs!Counters /\ x \in Lfs!Ints
  BY <1>1 DEF LfsTyped, Lfs!Counters, Lfs!LfsAssumption, Lfs!Ints
<1>3. LfsTyped' /\ HistoryTyped'
  <2>1. LfsTyped'
    BY <1>1, <1>2 DEF LfsTyped
  <2>2. HistoryTyped'
    BY <1>1, <1>2 DEF HistoryTyped, Lfs!Amid, Lfs!Reading, Lfs!Of
  <2> QED
    BY <2>1, <2>2
<1>4. ReadInv'
  BY <1>1, <1>2 DEF ReadInv, LfsTyped, Lfs!Amid, Lfs!Of
<1>5. PieceInv'
  BY <1>1, <1>2 DEF PieceInv, LfsTyped, Lfs!Amid, Lfs!Of
<1>6. GivenInv'
  BY <1>1, <1>2 DEF GivenInv, LfsTyped, HistoryTyped, Lfs!Reading, Lfs!Of
<1> QED
  BY <1>3, <1>4, <1>5, <1>6

(* atomic_inc and the rest of the read: the file's number is now the one   *)
(* before the counter's; the others' no more.                              *)
LEMMA ReadIncKeeps ==
  ASSUME Lfs!LfsAssumption, LfsInv, NEW p \in Procs, Lfs!ReadInc(p)
  PROVE  LfsInv'
<1> USE DEF LfsInv
<1> DEFINE k == private_data[p]
<1>1. /\ pc[p] = "inc" /\ counters' = [counters EXCEPT ![k] = Lfs!Inc(@)]
      /\ pc' = [pc EXCEPT ![p] = "idle"]
      /\ v' = [v EXCEPT ![p] = 0] /\ count' = [count EXCEPT ![p] = 0]
      /\ Lfs!Copy(p, v[p], count[p])
      /\ first' = [first EXCEPT ![p] = IF offset'[p] = 0 THEN 0 ELSE v[p]]
      /\ mixed' = mixed \cup (Lfs!Amid(k) \ {p})
      /\ overlapped' = overlapped \ {p}
      /\ UNCHANGED private_data
  BY DEF Lfs!ReadInc, Lfs!ReadRest
<1>2. IF counters[k] = IntMax
      THEN given' = [given EXCEPT ![k] = {}] /\ outdated' = (outdated \cup Lfs!Reading(k)) \ {p}
      ELSE /\ given' = IF p \in outdated THEN given ELSE [given EXCEPT ![k] = @ \cup {v[p]}]
           /\ outdated' = outdated \ {p}
  BY DEF Lfs!ReadInc, Lfs!ReadRest
<1>3. k # 0 /\ offset[p] = 0
  BY <1>1 DEF ReadInv
<1>4. /\ k \in Lfs!Counters /\ counters[k] \in Lfs!Ints /\ v[p] \in Lfs!Ints /\ v[p] \in Int
      /\ count[p] \in Nat /\ 0 \in Lfs!Ints
  BY <1>3 DEF LfsTyped, Lfs!Counters, Lfs!LfsAssumption, Lfs!Ints
<1>5. /\ Lfs!Inc(counters[k]) \in Lfs!Ints /\ Lfs!Dec(Lfs!Inc(counters[k])) = counters[k]
      /\ counters[k] # IntMax => counters[k] < Lfs!Inc(counters[k])
  BY <1>4, Wraps
<1>6. PICK o \in Nat, g \in Seq(0..11) :
           /\ offset' = [offset EXCEPT ![p] = o] /\ got' = [got EXCEPT ![p] = g]
           /\ (/\ p \notin mixed /\ o > 0
               /\ offset[p] > 0 => /\ offset[p] <= Len(Lfs!Text(v[p]))
                                   /\ got[p] = SubSeq(Lfs!Text(v[p]), 1, offset[p])) =>
                o <= Len(Lfs!Text(v[p])) /\ g = SubSeq(Lfs!Text(v[p]), 1, o)
  BY <1>1, <1>4, CopyGives
<1>7. /\ counters'[k] = Lfs!Inc(counters[k]) /\ pc'[p] = "idle" /\ offset'[p] = o /\ got'[p] = g
      /\ first'[p] = IF o = 0 THEN 0 ELSE v[p]
      /\ \A j \in Lfs!Counters \ {k} : counters'[j] = counters[j]
      /\ \A q \in Procs \ {p} : /\ pc'[q] = pc[q] /\ v'[q] = v[q] /\ offset'[q] = offset[q]
                                /\ got'[q] = got[q] /\ first'[q] = first[q]
  BY <1>1, <1>4, <1>6 DEF LfsTyped
<1>8. LfsTyped' /\ HistoryTyped'
  <2>1. LfsTyped'
    BY <1>1, <1>4, <1>5, <1>6 DEF LfsTyped
  <2>2. HistoryTyped'
    BY <1>1, <1>2, <1>4 DEF HistoryTyped, Lfs!Amid, Lfs!Reading, Lfs!Of
  <2> QED
    BY <2>1, <2>2
<1>9. \A q \in Procs : private_data[q] # 0 => private_data[q] \in Lfs!Counters
  BY DEF LfsTyped, Lfs!Counters, Lfs!LfsAssumption
<1>10. ReadInv'
  BY <1>1, <1>7, <1>9 DEF ReadInv, Lfs!Amid, Lfs!Of
<1>11. PieceInv'
  <2>1. ASSUME NEW q \in Procs, private_data[q] # 0, offset'[q] > 0, q \notin mixed'
        PROVE  /\ first'[q] = Lfs!Dec(counters'[private_data[q]])
               /\ offset'[q] <= Len(Lfs!Text(first'[q]))
               /\ got'[q] = SubSeq(Lfs!Text(first'[q]), 1, offset'[q])
    <3>1. CASE q = p
      <4>1. p \notin mixed /\ v[p] = counters[k]
        BY <1>1, <2>1, <3>1 DEF ReadInv
      <4>2. first'[p] = v[p]
        BY <1>7, <2>1, <3>1
      <4> QED
        BY <1>3, <1>5, <1>6, <1>7, <2>1, <3>1, <4>1, <4>2
    <3>2. CASE q # p
      <4>1. q \notin mixed /\ private_data[q] # k
        BY <1>1, <1>7, <2>1, <3>2 DEF Lfs!Amid, Lfs!Of
      <4>2. counters'[private_data[q]] = counters[private_data[q]]
        BY <1>7, <1>9, <2>1, <4>1
      <4> QED
        BY <1>7, <2>1, <3>2, <4>1, <4>2 DEF PieceInv
    <3> QED
      BY <3>1, <3>2
  <2> QED
    BY <1>1, <2>1 DEF PieceInv
<1>12. GivenInv'
  <2>1. ASSUME NEW q \in Procs, NEW r \in Procs, pc'[q] = "inc", pc'[r] = "inc",
               private_data[q] = private_data[r], q \notin overlapped'
        PROVE  q = r
    BY <1>1, <1>7, <2>1 DEF GivenInv
  <2>2. ASSUME NEW j \in Lfs!Counters, NEW x \in given'[j] PROVE x < counters'[j]
    <3>1. CASE j # k
      BY <1>2, <1>4, <1>7, <2>2, <3>1 DEF GivenInv, HistoryTyped
    <3>2. CASE j = k
      <4>1. counters[k] # IntMax
        BY <1>2, <1>4, <2>2, <3>2 DEF HistoryTyped
      <4>2. x \in given[k] \/ (x = v[p] /\ p \notin outdated)
        BY <1>2, <1>4, <2>2, <3>2, <4>1 DEF HistoryTyped
      <4>3. x <= counters[k] /\ x \in Int
        <5>1. CASE x \in given[k]
          <6>1. x < counters[k] /\ x \in Lfs!Ints
            BY <1>4, <5>1 DEF GivenInv, HistoryTyped
          <6> QED
            BY <1>4, <6>1 DEF Lfs!Ints
        <5>2. CASE x = v[p] /\ p \notin outdated
          BY <1>1, <1>4, <5>2 DEF GivenInv
        <5> QED
          BY <4>2, <5>1, <5>2
      <4> QED
        BY <1>4, <1>5, <1>7, <3>2, <4>1, <4>3 DEF Lfs!Ints
    <3> QED
      BY <3>1, <3>2
  <2>3. ASSUME NEW q \in Procs, pc'[q] = "inc", q \notin outdated'
        PROVE  /\ v'[q] <= counters'[private_data[q]]
               /\ q \notin overlapped' => v'[q] = counters'[private_data[q]]
    <3>1. q # p /\ pc[q] = "inc" /\ v'[q] = v[q] /\ private_data[q] \in Lfs!Counters
      BY <1>7, <1>9, <2>3 DEF ReadInv
    <3>2. q \notin outdated
      BY <1>2, <2>3, <3>1
    <3>3. v[q] <= counters[private_data[q]]
          /\ (q \notin overlapped => v[q] = counters[private_data[q]])
      BY <3>1, <3>2 DEF GivenInv
    <3>4. CASE private_data[q] # k
      BY <1>1, <1>7, <3>1, <3>3, <3>4
    <3>5. CASE private_data[q] = k
      <4>1. q \in overlapped /\ q \in overlapped'
        BY <1>1, <3>1, <3>5 DEF GivenInv
      <4>2. counters[k] # IntMax
        BY <1>2, <2>3, <3>1, <3>5 DEF Lfs!Reading, Lfs!Of
      <4>3. v[q] \in Lfs!Ints
        BY DEF LfsTyped
      <4> QED
        BY <1>4, <1>5, <1>7, <3>1, <3>3, <3>5, <4>1, <4>2, <4>3 DEF Lfs!Ints
    <3> QED
      BY <3>4, <3>5
  <2> QED
    BY <1>1, <2>1, <2>2, <2>3 DEF GivenInv
<1> QED
  BY <1>8, <1>10, <1>11, <1>12

(* Every operation keeps the invariant.                                    *)
LEMMA LfsInvStep ==
  ASSUME Lfs!LfsAssumption, LfsInv, [Lfs!Next]_Lfs!vars
  PROVE  LfsInv'
<1>1. CASE Lfs!Next
  BY <1>1, LfsOpenKeeps, LfsCloseKeeps, ReadStartKeeps, ReadOnKeeps, ReadIncKeeps,
     LfsWriteKeeps DEF Lfs!Next
<1>2. CASE UNCHANGED Lfs!vars
  BY <1>2 DEF LfsInv, Lfs!vars, Lfs!fileVars, Lfs!histVars, LfsTyped, HistoryTyped, ReadInv,
     PieceInv, GivenInv
<1> QED
  BY <1>1, <1>2

(* What is assumed of the constants is assumed of the instance.            *)
LEMMA AssumedOfLfs == Lfs!LfsAssumption
  BY LfsAssumption DEF Lfs!LfsAssumption

(* The invariant, for any numbers of counters and open files and any       *)
(* values and lengths.                                                     *)
THEOREM LfsInvariantHolds == Lfs!Spec => []LfsInv
<1>1. Lfs!Init => LfsInv
  BY LfsInvInit, AssumedOfLfs
<1>2. LfsInv /\ [Lfs!Next]_Lfs!vars => LfsInv'
  BY LfsInvStep, AssumedOfLfs
<1> QED
  BY <1>1, <1>2, PTL DEF Lfs!Spec

(* Type correctness of lfs.                                                *)
THEOREM LfsTypeCorrect == Lfs!Spec => []Lfs!TypeOK
<1>1. LfsInv => Lfs!TypeOK
  BY DEF LfsInv, LfsTyped, HistoryTyped, Lfs!TypeOK
<1> QED
  BY <1>1, LfsInvariantHolds, PTL

(* A number read in pieces is one number, unless another file changes the  *)
(* counter, for any number of files and also where the counter wraps       *)
(* around.                                                                 *)
THEOREM NumbersAreReadWhole == Lfs!Spec => []ReadsOneNumber
<1>1. LfsInv => Lfs!ReadsOneNumber
  BY DEF LfsInv, PieceInv, Lfs!ReadsOneNumber
<1>2. Lfs!ReadsOneNumber => ReadsOneNumber
  BY DEF Lfs!ReadsOneNumber, Lfs!Text, Lfs!Digits, Lfs!Width,
     ReadsOneNumber, Text, Digits, Width
<1> QED
  BY <1>1, <1>2, LfsInvariantHolds, PTL

(* A read that overlaps no other of its counter gives a value that has not *)
(* been given since the counter was last set or wrapped around, for any    *)
(* number of files.                                                        *)
THEOREM ValuesAreGivenOnce == Lfs!Spec => ReadTwiceOnlyIfOverlapped
<1> DEFINE A == \A p \in Procs :
      (pc[p] = "inc" /\ pc'[p] = "idle" /\ p \notin overlapped \cup outdated) =>
        v[p] \notin given[private_data[p]]
<1>1. LfsInv => A
  <2> SUFFICES ASSUME LfsInv, NEW p \in Procs, pc[p] = "inc", p \notin overlapped \cup outdated,
                      v[p] \in given[private_data[p]]
               PROVE  FALSE
    OBVIOUS
  <2>1. private_data[p] \in Lfs!Counters
    BY AssumedOfLfs DEF LfsInv, LfsTyped, ReadInv, Lfs!Counters, Lfs!LfsAssumption
  <2>2. v[p] < counters[private_data[p]] /\ v[p] = counters[private_data[p]]
    BY <2>1 DEF LfsInv, GivenInv
  <2>3. v[p] \in Lfs!Ints
    BY DEF LfsInv, LfsTyped
  <2> QED
    BY <2>2, <2>3 DEF Lfs!Ints
<1>2. LfsInv /\ [Lfs!Next]_Lfs!vars => [A]_pc
  BY <1>1
<1> HIDE DEF A
<1>3. Lfs!Spec => [][A]_pc
  BY <1>2, LfsInvariantHolds, PTL DEF Lfs!Spec
<1> QED
  BY <1>3 DEF ReadTwiceOnlyIfOverlapped, A
=============================================================================
