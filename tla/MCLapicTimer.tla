----------------------------- MODULE MCLapicTimer -----------------------------
(* Small instances of LapicTimer. *)
EXTENDS LapicTimer
=============================================================================
