------------------------------ MODULE MCCounters ------------------------------
(***************************************************************************)
(* One channel; a second is two units of time and the save                 *)
(* interval three, so that folds leave remainders.                         *)
(***************************************************************************)
EXTENDS Counters

OneChannel  == {1}
=============================================================================
