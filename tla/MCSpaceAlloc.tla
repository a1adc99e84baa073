---------------------------- MODULE MCSpaceAlloc ----------------------------
(* Instances of SpaceAlloc for TLC. *)
EXTENDS SpaceAllocInv, TLC

CONSTANTS Size,       \* free blocks of every disk ...
          SizeOfDisk0 \* ... but disk 0

MCFreeSize == [d \in 0 .. N - 1 |-> IF d = 0 THEN SizeOfDisk0 ELSE Size]
Symmetry == Permutations(Names) \cup Permutations(Inodes)
              \cup Permutations(Threads)
=============================================================================
