------------------------------ MODULE MCSkBridge ------------------------------
(***************************************************************************)
(* One input and one default-safe relay, grace periods of one and two      *)
(* units, and two unhandled events: enough for a connection to come and    *)
(* go before the bridge hears of it.                                       *)
(***************************************************************************)
EXTENDS SkBridge

OneInput  == {1}
OneRelay  == {1}
TwoGraces == {1, 2}
=============================================================================
