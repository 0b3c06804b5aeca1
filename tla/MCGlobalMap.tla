----------------------------- MODULE MCGlobalMap -----------------------------
(***************************************************************************)
(* Small instances of GlobalMap: tables of three entries, a small page of  *)
(* two units and a large one of three small ones.                          *)
(***************************************************************************)
EXTENDS GlobalMap, TLC

\* A table at the end of a page, and a larger one that crosses into the next page
\* because it starts there.
Firmware == [rsdt |-> [start |-> 3, size |-> 1], madt |-> [start |-> 5, size |-> 2]]

\* What follows on a blind FreeFinder is not explored.
Seeing == ~blind
Symmetric == Permutations(Cpus) \union Permutations(Owners)
=============================================================================
