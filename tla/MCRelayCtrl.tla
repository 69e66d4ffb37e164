----------------------------- MODULE MCRelayCtrl -----------------------------
(***************************************************************************)
(* Instances of the controller and its callers for TLC: three relays, of   *)
(* which a and b may be interlocked; a may be momentary, b may have a      *)
(* maximum on-time, and all may be wired to their normally closed          *)
(* terminals.                                                              *)
(***************************************************************************)
EXTENDS Requests, TLC

CONSTANTS a, b, c

ThreeRelays == {a, b, c}

Unpaired(R) == [i \in R |-> {}]
Paired(R, S) == [i \in R |-> IF i \in S THEN S \ {i} ELSE {}]

Plain(R) == [momentary |-> {}, holds |-> {}, wiredNc |-> {},
             partner |-> Unpaired(R), pulseMs |-> [i \in R |-> 1],
             maxOn |-> [i \in R |-> 0], deadMs |-> 1]

\* a and b interlocked; a momentary, b limited, b and c holding.
Windlass ==
    [Plain(ThreeRelays) EXCEPT !.partner = Paired(ThreeRelays, {a, b}),
                               !.momentary = {a}, !.holds = {b, c},
                               !.maxOn = [i \in ThreeRelays |-> IF i = b THEN 2 ELSE 0]]

\* The same pair, a made latching with a limit, b momentary, all wired to NC.
Jog ==
    [Windlass EXCEPT !.momentary = {b}, !.holds = {a, b}, !.wiredNc = {a, b, c},
                     !.maxOn = [i \in ThreeRelays |-> IF i = a THEN 1 ELSE 0],
                     !.deadMs = 0]

\* b paired with c instead; nothing momentary, a and c holding.
Reversing ==
    [Plain(ThreeRelays) EXCEPT !.partner = Paired(ThreeRelays, {b, c}),
                               !.holds = {a, c}]

\* The first pair once more, both latching and holding, b wired to NC.
Holding ==
    [Plain(ThreeRelays) EXCEPT !.partner = Paired(ThreeRelays, {a, b}),
                               !.holds = {a, b}, !.wiredNc = {b}]

Numbered == a :> 1 @@ b :> 2 @@ c :> 3

\* Messages for both relays of the pair at once, and for one of them and c.
BothOn  == a :> 1 @@ b :> 1 @@ c :> 3
OneEach == a :> 0 @@ b :> 2 @@ c :> 1

NoMessages  == {}
TwoMessages == {BothOn, OneEach}

SamePairs  == {Windlass, Jog, Holding}
EditedPairs == {Windlass, Jog, Holding, Reversing}
=============================================================================
