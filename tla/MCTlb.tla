-------------------------------- MODULE MCTlb --------------------------------
(***************************************************************************)
(* Small instances of Tlb.  A page stands for 4 KB and FlushLimit for the  *)
(* 2 MB of Tlb::Invlpgs.                                                   *)
(***************************************************************************)
EXTENDS Tlb

\* Two kernel pages that are mapped together, above the limit of one page, an
\* unused one behind them, so that the range does not end where the kernel half
\* ends, and a user page.
Ranges == {[start |-> 0, size |-> 2], [start |-> 3, size |-> 1]}
=============================================================================
