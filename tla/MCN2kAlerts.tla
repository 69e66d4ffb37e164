------------------------------ MODULE MCN2kAlerts ------------------------------
(***************************************************************************)
(* Two channels, either of which may be an alarm and one of them a         *)
(* warning too, so that a level can change while the other is waiting.     *)
(***************************************************************************)
EXTENDS N2kAlerts

TwoChannels == {1, 2}
FirstOnly   == {1}
SecondOnly  == {2}
TwoLevels   == {"warn", "alarm"}
Same        == {[i \in TwoChannels |-> "alarm"]}
=============================================================================
