------------------------------ MODULE MCMemFs ------------------------------
(* A small instance of MemFs, with names and mounts that are               *)
(* interchangeable.  An operation that loops ends the run there.           *)
EXTENDS MemFs, TLC

NameSymmetry == Permutations(Names) \cup Permutations(Mounts)

NotStuck == ~stuck

(* What a free slot still holds, its links apart, is written before it is  *)
(* read again: states that differ only there are the same.                 *)
InUse(field) == [i \in ibitmap |-> field[i]]
FileData == [i \in {j \in ibitmap : mode[j] = "file"} |-> <<file_size[i], data[i]>>]
Live == <<ibitmap, bbitmap, InUse(mode), InUse(idx), child, brother, FileData,
          InUse(file_name), mounted, dentries, filp, stuck, latest, orphans>>
============================================================================
