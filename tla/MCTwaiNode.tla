------------------------------ MODULE MCTwaiNode ------------------------------
(***************************************************************************)
(* Slots and queue in the proportion of the firmware (32 and 32), so few   *)
(* that as many bus-offs as there are slots can lose them all; queues so   *)
(* short that both overflow.                                               *)
(***************************************************************************)
EXTENDS CanReceive
=============================================================================
