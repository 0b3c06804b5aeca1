-------------------------------- MODULE MCHeap --------------------------------
(***************************************************************************)
(* Small memories: pages of two units, large pages of two pages, and page  *)
(* directories of two entries.                                             *)
(***************************************************************************)
EXTENDS Heap

Usable(base, len) == [base |-> base, len |-> len, type |-> 1]
Device(base, len) == [base |-> base, len |-> len, type |-> 2]

\* Memory above and below LowerEnd; a region across it that is listed first; too
\* little memory; and more regions than a list holds.
Maps ==
    {<<Usable(0, 2), Usable(4, 20), Device(24, 8), Usable(32, 6)>>,
     <<Usable(28, 8), Device(20, 8), Usable(4, 16)>>,
     <<Usable(4, 14)>>,
     <<Usable(2, 10), Usable(12, 2), Usable(16, 2)>>}

KernelAddresses == {16, 18, 20, 22}

Symmetric == Permutations(Cpus)
=============================================================================
