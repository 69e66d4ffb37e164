----------------------------- MODULE MCInputSense -----------------------------
(***************************************************************************)
(* Two inputs; relay 1 follows input 1, relay 2 is toggled by input 2.  A  *)
(* settings save turns both inputs over, lengthens the debounce time and   *)
(* makes relay 2 follow input 1; another one takes all that back.          *)
(***************************************************************************)
EXTENDS InputSense

Straight == [debounce |-> 1, invert |-> {}, source |-> <<1, 2>>, toggle |-> {2}]
Edited   == [debounce |-> 2, invert |-> {1, 2}, source |-> <<1, 1>>, toggle |-> {}]

TwoInputs == {1, 2}
TwoRelays == {1, 2}

Edits == {Straight, Edited}
=============================================================================
