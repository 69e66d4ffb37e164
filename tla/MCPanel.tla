------------------------------- MODULE MCPanel -------------------------------
(***************************************************************************)
(* One input and the health alarm, a library of one tone or none, one tone *)
(* that a browser sends again and again, and settings that allow all of it *)
(* or nothing; the shortest debounce and holds that have a middle.         *)
(***************************************************************************)
EXTENDS Panel

Loud == [events |-> TRUE, buzzer |-> TRUE, buzzing |-> Inputs, tones |-> 1]
Mute == [events |-> FALSE, buzzer |-> FALSE, buzzing |-> {}, tones |-> 0]

TwoSettings == {Loud, Mute}
=============================================================================
