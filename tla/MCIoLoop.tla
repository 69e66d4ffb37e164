------------------------------- MODULE MCIoLoop -------------------------------
(***************************************************************************)
(* Two relays; a save pairs them, or leaves the first naming itself.       *)
(***************************************************************************)
EXTENDS IoLoop

Paired    == <<2, 1>>
NamesSelf == <<1, 0>>

TwoEdits == {Paired, NamesSelf}
=============================================================================
