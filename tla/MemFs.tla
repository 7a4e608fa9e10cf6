------------------------------- MODULE MemFs -------------------------------
(***************************************************************************)
(* The in-memory file system of part1/memfs/memfs.c under the calls the    *)
(* VFS makes into it.  A directory is a singly linked list: child names    *)
(* its first entry, and brother chains the entries.  Inode and block slots *)
(* come from two bitmaps.                                                  *)
(*                                                                         *)
(* Each operation is one step here: the VFS holds the directory's i_rwsem, *)
(* so operations of one directory do not overlap.  Those of different      *)
(* directories may, over the unlocked bitmaps: that is MemFsAlloc.         *)
(*                                                                         *)
(* The names the VFS can find are the dentries in its cache: lookup never  *)
(* reads the lists, and nothing pins a dentry, so the cache may drop it.   *)
(*                                                                         *)
(* mount_nodev makes a superblock of its own at every mount, with its own  *)
(* dentries and its own locks, over the one g_mf_inode[].                  *)
(***************************************************************************)
EXTENDS Naturals

CONSTANTS InodeMax,     \* MEMFS_INODE_MAX
          BlkMax,       \* MEMFS_BLK_MAX
          FileSizeMax,  \* MEMFS_FILE_SIZE_MAX
          Names,        \* the names files and directories are given
          Files,        \* the open file descriptions there can be at once
          Mounts,       \* the superblocks there can be at once
          Invalid       \* MEMFS_INVALID

Idx == 0..(InodeMax - 1)
Blk == 0..(BlkMax - 1)

(* Slot 0 is the root directory; MEMFS_INVALID is no index.                *)
ASSUME MemFsAssumption == /\ InodeMax \in Nat \ {0}
                          /\ BlkMax \in Nat \ {0}
                          /\ FileSizeMax \in Nat
                          /\ Invalid \notin Nat

VARIABLES
  ibitmap,  \* g_inode_bitmap, as the set of indices whose bit is set
  bbitmap,  \* g_block_bitmap
  mode, idx, child, brother, file_size, data, file_name,  \* the fields of g_mf_inode[]
  mounted,  \* the superblocks that are mounted
  dentries, \* the positive dentries in the cache: [mnt, dir, name, ino]
  filp,     \* open files: [dentry, pos, state], or Closed
  stuck,    \* the directories whose lock an operation holds for ever
  latest,   \* history: the last superblock that was mounted
  orphans   \* history: slots in use that a mount took off the root's list

slots == <<mode, idx, child, brother, file_size, data, file_name>>
vars == <<ibitmap, bbitmap, slots, mounted, dentries, filp, stuck, latest, orphans>>

Dentry == [mnt : Mounts, dir : Idx, name : Names, ino : Idx]
Closed == [state |-> "closed"]

TypeOK ==
  /\ ibitmap \in SUBSET Idx
  /\ bbitmap \in SUBSET Blk
  /\ mode \in [Idx -> {"none", "dir", "file"}]
  /\ idx \in [Idx -> Idx \cup {Invalid}]
  /\ child \in [Idx -> Idx \cup {Invalid}]
  /\ brother \in [Idx -> Idx \cup {Invalid}]
  /\ file_size \in [Idx -> 0..FileSizeMax]
  /\ data \in [Idx -> Blk \cup {Invalid}]
  /\ file_name \in [Idx -> Names \cup {Invalid}]
  /\ mounted \in SUBSET Mounts
  /\ dentries \subseteq Dentry
  /\ filp \in [Files -> {Closed} \cup
               [mnt : Mounts, ino : Idx, pos : 0..FileSizeMax, state : {"open", "unlinked"}]]
  /\ stuck \in BOOLEAN
  /\ latest \in Mounts \cup {Invalid}
  /\ orphans \in SUBSET Idx

(* memfs_alloc_mem, before any mount; slot 0 is the root from then on.     *)
(* rmmod is refused while memfs is mounted, and insmod starts here again.  *)
Init ==
  /\ ibitmap = {}
  /\ bbitmap = {}
  /\ mode = [i \in Idx |-> "none"]
  /\ idx = [i \in Idx |-> 0]
  /\ child = [i \in Idx |-> Invalid]
  /\ brother = [i \in Idx |-> Invalid]
  /\ file_size = [i \in Idx |-> 0]
  /\ data = [i \in Idx |-> 0]
  /\ file_name = [i \in Idx |-> Invalid]
  /\ mounted = {}
  /\ dentries = {}
  /\ filp = [f \in Files |-> Closed]
  /\ stuck = FALSE
  /\ latest = Invalid
  /\ orphans = {}

----------------------------------------------------------------------------
(* get_idle_index: the lowest clear bit, which it sets.                    *)
IsIdleIndex(i, all, bitmap) == i \in all \ bitmap /\ \A j \in all \ bitmap : i <= j

(* What the while loops over brother visit, starting at slot i: the least  *)
(* set with i in it and closed under brother.  No such set lacks them.     *)
Visited(i) ==
  {j \in Idx : \A S \in SUBSET (Idx \ {j}) :
     i \in S => \E k \in S : brother[k] # Invalid /\ brother[k] \notin S}

(* The entries of a directory, as readdir and the loops of create, rmdir   *)
(* and unlink reach them.                                                  *)
Entries(dir) == IF child[dir] = Invalid THEN {} ELSE Visited(child[dir])

(* A directory the VFS can hand to an operation: the root, or one whose    *)
(* dentry is cached.                                                       *)
CachedDir(mnt, dir) ==
  /\ mnt \in mounted
  /\ dir = 0 \/ \E d \in dentries : d.mnt = mnt /\ d.ino = dir /\ mode[dir] = "dir"

----------------------------------------------------------------------------
(* memfs_do_create, for mkdir (m = "dir") and create (m = "file").         *)

(* Mutation: the new slot takes the place of the whole list.               *)
LinkAlone(dir, i, m) ==
  /\ child' = [child EXCEPT ![dir] = i]
  /\ UNCHANGED brother

(* A file's child is reset, a directory's is not; the new slot then goes   *)
(* to the end of the parent's list.                                        *)
LinkLast(dir, i, m) ==
  LET reset == IF m = "file" THEN [child EXCEPT ![i] = Invalid] ELSE child
  IN \/ /\ child[dir] = Invalid
        /\ child' = [reset EXCEPT ![dir] = i]
        /\ UNCHANGED brother
     \/ /\ child[dir] # Invalid
        /\ child' = reset
        /\ \E last \in Entries(dir) :
             /\ brother[last] = Invalid
             /\ brother' = [brother EXCEPT ![last] = i]

Create(mnt, dir, n, m) ==
  /\ CachedDir(mnt, dir)
  /\ \A d \in dentries : ~(d.mnt = mnt /\ d.dir = dir /\ d.name = n)
  /\ \E i \in Idx :
       /\ IsIdleIndex(i, Idx, ibitmap)
       /\ ibitmap' = ibitmap \cup {i}
       /\ idx' = [idx EXCEPT ![i] = i]
       /\ mode' = [mode EXCEPT ![i] = m]
       /\ \/ m = "dir" /\ data' = [data EXCEPT ![i] = Invalid] /\ UNCHANGED bbitmap
          \/ /\ m = "file"
             /\ \E b \in Blk : /\ IsIdleIndex(b, Blk, bbitmap)
                               /\ bbitmap' = bbitmap \cup {b}
                               /\ data' = [data EXCEPT ![i] = b]
       /\ file_size' = IF m = "file" THEN [file_size EXCEPT ![i] = 0] ELSE file_size
       /\ LinkLast(dir, i, m)
       /\ file_name' = [file_name EXCEPT ![i] = n]
       /\ dentries' = dentries \cup {[mnt |-> mnt, dir |-> dir, name |-> n, ino |-> i]}
  /\ UNCHANGED <<mounted, filp, stuck, latest, orphans>>

(* No block for a new file: -ENOSPC, and the inode slot stays taken.       *)
CreateNoBlock(mnt, dir, n) ==
  /\ CachedDir(mnt, dir)
  /\ \A d \in dentries : ~(d.mnt = mnt /\ d.dir = dir /\ d.name = n)
  /\ bbitmap = Blk
  /\ \E i \in Idx :
       /\ IsIdleIndex(i, Idx, ibitmap)
       /\ ibitmap' = ibitmap \cup {i}
       /\ idx' = [idx EXCEPT ![i] = i]
       /\ mode' = [mode EXCEPT ![i] = "file"]
       /\ child' = [child EXCEPT ![i] = Invalid]
       /\ file_size' = [file_size EXCEPT ![i] = 0]
       /\ data' = [data EXCEPT ![i] = Invalid]
       /\ orphans' = orphans \cup {i}
  /\ UNCHANGED <<bbitmap, brother, file_name, mounted, dentries, filp, stuck, latest>>

(* The open file f was opened through the dentry d.                        *)
OpenOn(f, d) == filp[f].state = "open" /\ filp[f].mnt = d.mnt /\ filp[f].ino = d.ino

(* Mutation: the slot is given back with its brother still set.            *)
UnlinkSlotDirty(dir, i) ==
  /\ \/ /\ child[dir] = i
        /\ child' = [child EXCEPT ![dir] = brother[i]]
        /\ UNCHANGED brother
     \/ /\ child[dir] # i
        /\ \E prev \in Entries(dir) :
             /\ brother[prev] = i
             /\ brother' = [brother EXCEPT ![prev] = brother[i]]
        /\ UNCHANGED child
  /\ ibitmap' = ibitmap \ {i}
  /\ idx' = [idx EXCEPT ![i] = Invalid]

(* memfs_inode_rmdir and memfs_inode_unlink take slot i out of the list of *)
(* its directory in the same way.                                          *)
UnlinkSlot(dir, i) ==
  /\ \/ /\ child[dir] = i
        /\ child' = [child EXCEPT ![dir] = brother[i]]
        /\ brother' = [brother EXCEPT ![i] = Invalid]
     \/ /\ child[dir] # i
        /\ \E prev \in Entries(dir) :
             /\ brother[prev] = i
             /\ brother' = [brother EXCEPT ![prev] = brother[i], ![i] = Invalid]
        /\ UNCHANGED child
  /\ ibitmap' = ibitmap \ {i}
  /\ idx' = [idx EXCEPT ![i] = Invalid]

(* Mutation: rmdir takes a directory that still has entries.               *)
RmdirNonEmpty(d) ==
  /\ mode[d.ino] = "dir"
  /\ UnlinkSlot(d.dir, d.ino)
  /\ dentries' = dentries \ {d}
  /\ UNCHANGED <<bbitmap, mode, file_size, data, file_name, mounted, filp, stuck, latest,
                 orphans>>

Rmdir(d) ==
  /\ mode[d.ino] = "dir"
  /\ child[d.ino] = Invalid
  /\ UnlinkSlot(d.dir, d.ino)
  /\ dentries' = dentries \ {d}
  /\ UNCHANGED <<bbitmap, mode, file_size, data, file_name, mounted, filp, stuck, latest,
                 orphans>>

(* Mutation: unlink keeps the file's block.                                *)
UnlinkKeepsBlock(d) ==
  /\ mode[d.ino] = "file"
  /\ UnlinkSlot(d.dir, d.ino)
  /\ dentries' = dentries \ {d}
  /\ filp' = [f \in Files |-> IF OpenOn(f, d) THEN [filp[f] EXCEPT !.state = "unlinked"]
                                            ELSE filp[f]]
  /\ UNCHANGED <<bbitmap, mode, file_size, data, file_name, mounted, stuck, latest, orphans>>

(* simple_unlink drops a dentry reference that memfs never took, so a file *)
(* still open loses its dentry: "unlinked".                                *)
Unlink(d) ==
  /\ mode[d.ino] = "file"
  /\ UnlinkSlot(d.dir, d.ino)
  /\ bbitmap' = bbitmap \ {data[d.ino]}
  /\ dentries' = dentries \ {d}
  /\ filp' = [f \in Files |-> IF OpenOn(f, d) THEN [filp[f] EXCEPT !.state = "unlinked"]
                                            ELSE filp[f]]
  /\ UNCHANGED <<mode, file_size, data, file_name, mounted, stuck, latest, orphans>>

(* rmdir or unlink of an entry its directory does not list: the bits are   *)
(* cleared, then the loop never ends (or starts outside g_mf_inode[], when *)
(* the list is empty) and the directory's lock is never released.          *)
UnlinkLost(d) ==
  /\ d.ino \notin Entries(d.dir)
  /\ ibitmap' = ibitmap \ {d.ino}
  /\ \/ mode[d.ino] = "dir" /\ child[d.ino] = Invalid /\ UNCHANGED bbitmap
     \/ mode[d.ino] = "file" /\ bbitmap' = bbitmap \ {data[d.ino]}
  /\ stuck' = TRUE
  /\ UNCHANGED <<slots, mounted, dentries, filp, latest, orphans>>

----------------------------------------------------------------------------
(* Open files.  I/O through an "unlinked" one dereferences a dentry that   *)
(* is negative or freed: what happens then is outside this model.          *)

Open(f, d) ==
  /\ filp[f] = Closed
  /\ mode[d.ino] = "file"
  /\ filp' = [filp EXCEPT ![f] = [mnt |-> d.mnt, ino |-> d.ino, pos |-> 0, state |-> "open"]]
  /\ UNCHANGED <<ibitmap, bbitmap, slots, mounted, dentries, stuck, latest, orphans>>

Close(f) ==
  /\ filp[f] # Closed
  /\ filp' = [filp EXCEPT ![f] = Closed]
  /\ UNCHANGED <<ibitmap, bbitmap, slots, mounted, dentries, stuck, latest, orphans>>

(* memfs_read_file; a short file gives what is left of it.                 *)
ReadFile(f, len) ==
  LET left == file_size[filp[f].ino] - filp[f].pos
  IN /\ filp[f].state = "open"
     /\ left > 0
     /\ filp' = [filp EXCEPT ![f].pos = @ + (IF len <= left THEN len ELSE left)]
     /\ UNCHANGED <<ibitmap, bbitmap, slots, mounted, dentries, stuck, latest, orphans>>

(* memfs_write_file at pos: write() passes the file's own position and     *)
(* moves it, pwrite() any.  The file then ends where the write did, also   *)
(* one of no bytes.                                                        *)
WriteFile(f, pos, len) ==
  /\ filp[f].state = "open"
  /\ pos + len <= FileSizeMax
  /\ file_size' = [file_size EXCEPT ![filp[f].ino] = pos + len]
  /\ \/ UNCHANGED filp
     \/ pos = filp[f].pos /\ filp' = [filp EXCEPT ![f].pos = pos + len]
  /\ UNCHANGED <<ibitmap, bbitmap, mode, idx, child, brother, data, file_name, mounted,
                 dentries, stuck, latest, orphans>>

----------------------------------------------------------------------------
(* The VFS drops an unused leaf of the dentry cache: its name is gone for  *)
(* lookup, while the slot and its place in the list remain.                *)
Evict(d) ==
  /\ \A e \in dentries : ~(e.mnt = d.mnt /\ e.dir = d.ino)
  /\ \A f \in Files : ~OpenOn(f, d)
  /\ dentries' = dentries \ {d}
  /\ UNCHANGED <<ibitmap, bbitmap, slots, mounted, filp, stuck, latest, orphans>>

(* memfs_demo_fill_super starts slot 0 afresh, whether or not another      *)
(* mount is in use, and keeps both bitmaps.                                *)
Mount(mnt) ==
  /\ mnt \notin mounted
  /\ mounted' = mounted \cup {mnt}
  /\ mode' = [mode EXCEPT ![0] = "dir"]
  /\ idx' = [idx EXCEPT ![0] = 0]
  /\ child' = [child EXCEPT ![0] = Invalid]
  /\ brother' = [brother EXCEPT ![0] = Invalid]
  /\ ibitmap' = ibitmap \cup {0}
  /\ latest' = mnt
  /\ orphans' = orphans \cup Entries(0)
  /\ UNCHANGED <<bbitmap, file_size, data, file_name, dentries, filp, stuck>>

(* kill_anon_super empties the superblock's cache; nothing is freed.       *)
Umount(mnt) ==
  /\ mnt \in mounted
  /\ \A f \in Files : filp[f] # Closed => filp[f].mnt # mnt
  /\ mounted' = mounted \ {mnt}
  /\ dentries' = {d \in dentries : d.mnt # mnt}
  /\ UNCHANGED <<ibitmap, bbitmap, slots, filp, stuck, latest, orphans>>

Next ==
  \/ \E mnt \in Mounts :
       \/ \E dir \in Idx, n \in Names :
            \/ \E m \in {"dir", "file"} : Create(mnt, dir, n, m)
            \/ CreateNoBlock(mnt, dir, n)
       \/ Mount(mnt)
       \/ Umount(mnt)
  \/ \E d \in dentries : Rmdir(d) \/ Unlink(d) \/ UnlinkLost(d) \/ Evict(d)
  \/ \E f \in Files :
       \/ \E d \in dentries : Open(f, d)
       \/ Close(f)
       \/ \E len \in 1..FileSizeMax : ReadFile(f, len)
       \/ \E pos, len \in 0..FileSizeMax : WriteFile(f, pos, len)

Spec == Init /\ [][Next]_vars

----------------------------------------------------------------------------
(* A looping rmdir or unlink leaves a slot free and in use at once, and    *)
(* nothing below holds any longer; DentriesAreListed says when it can.     *)
Dirs == {i \in ibitmap : mode[i] = "dir"}

(* create relies on it: it sets neither brother nor, for a directory,      *)
(* child of the slot it takes, so a slot must be given back with both      *)
(* clear, whatever file or directory lived in it before.                   *)
FreeSlotsAreClean ==
  stuck \/ \A i \in Idx \ ibitmap : child[i] = Invalid /\ brother[i] = Invalid

(* The lists form a forest: each slot in use, the root and the orphans     *)
(* apart, is listed by exactly one directory, in exactly one place, and no *)
(* list reaches a free or an orphaned slot, nor leaves one.  This holds    *)
(* for any number of mounts: they share one list and none corrupts it.     *)
Tree ==
  /\ FreeSlotsAreClean
  /\ \/ stuck
     \/ /\ \A dir \in Dirs : Entries(dir) \subseteq ibitmap \ (orphans \cup {0})
        /\ \A i \in ibitmap \ (orphans \cup {0}) : \E dir \in Dirs :
             /\ i \in Entries(dir)
             /\ \A other \in Dirs \ {dir} : i \notin Entries(other)
        /\ \A dir \in Dirs : \A i \in Entries(dir) :
             i = child[dir] <=> \A j \in Entries(dir) : brother[j] # i

(* Two files never share a block, a block's bit is set exactly while a     *)
(* file has it, and I/O through a file that has not been unlinked goes to  *)
(* a block of that file's own and not past its end.                        *)
BlocksHaveOneOwner ==
  stuck \/
  /\ \A b \in Blk : b \in bbitmap <=>
       \E i \in ibitmap : /\ mode[i] = "file" /\ data[i] = b
                          /\ \A j \in ibitmap \ {i} : ~(mode[j] = "file" /\ data[j] = b)
  /\ \A f \in Files : filp[f].state = "open" =>
       /\ filp[f].ino \in ibitmap /\ mode[filp[f].ino] = "file"
       /\ data[filp[f].ino] \in bbitmap
       /\ file_size[filp[f].ino] <= FileSizeMax

(* Every name lookup can find leads to the entry its directory lists under *)
(* that name, so rmdir and unlink find what they search for and end -      *)
(* unless the name is in the root of a mount that another mount followed.  *)
DentriesAreListed ==
  stuck \/
  \A d \in dentries :
    /\ d.mnt \in mounted /\ d.dir \in Dirs /\ file_name[d.ino] = d.name
    /\ d.ino \in Entries(d.dir) \/ (d.dir = 0 /\ d.mnt # latest /\ d.ino \in orphans)

(* The tree that the table stands for: who is in use, and what each        *)
(* directory lists, under which name, in whatever order.                   *)
Kind == [i \in Idx |-> IF i \in ibitmap THEN mode[i] ELSE "free"]
Contents == [dir \in Idx |-> {[name |-> file_name[i], ino |-> i] : i \in Entries(dir)}]

Dir == INSTANCE DirTree WITH Nodes <- Idx, Root <- 0, kind <- Kind, contents <- Contents

(* Through all their surgery on the lists the operations implement that    *)
(* tree: each adds or takes away one entry of one directory and leaves     *)
(* every other list and name alone - until one of them loops.              *)
IsDirTree == Dir!Init /\ [][Dir!Next \/ stuck']_<<Kind, Contents>>
============================================================================
