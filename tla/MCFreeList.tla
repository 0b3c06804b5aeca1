------------------------------ MODULE MCFreeList ------------------------------
(* Small instances of FreeList. *)
EXTENDS FreeList, TLC

\* Two regions of a small address space, the first not aligned to pages of
\* size 2, as far from the top as the last PDPT keeps the arena of a UserMap.
TwoRegions == <<Region(1, 4), Region(6, 3)>>

Symmetric == Permutations(Owners)
=============================================================================
