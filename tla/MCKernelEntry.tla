---------------------------- MODULE MCKernelEntry ----------------------------
(* Two CPUs that share two States.                                         *)
EXTENDS KernelEntry, TLC

Symmetric == Permutations(Cpus) \union Permutations(States)
=============================================================================
