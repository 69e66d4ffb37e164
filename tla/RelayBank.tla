------------------------------ MODULE RelayBank ------------------------------
(***************************************************************************)
(* What the relay controller promises its callers, without clocks, pulses, *)
(* an expander or a flash: a bank of relays of which some exclude each     *)
(* other (SPEC.md section 2, docs/plans/15-interlocks.md).                 *)
(*                                                                         *)
(* A relay comes on for one of three reasons only: a command for it while  *)
(* its partner is off, a debt owed to an earlier command that had to drop  *)
(* the partner first, or the restoring of held relays at boot.  A debt is  *)
(* paid once, or cancelled.                                                *)
(***************************************************************************)
CONSTANTS Relays, Pairings

VARIABLES
    live,     \* the bank is in operation
    on,       \* the relays that are on
    owed,     \* accepted commands "on" that wait for the dead time
    pairing   \* pairing[i] = the relays that exclude relay i

bankVars == <<live, on, owed, pairing>>

Exclusive(p, S) == \A i \in S : p[i] \cap S = {}

BankInit ==
    /\ live = FALSE
    /\ on = {}
    /\ owed = {}
    /\ pairing \in Pairings

\* A command "on" for relay i, whose partner is off.
Energize(i) ==
    /\ live
    /\ pairing[i] \cap on = {}
    /\ on' = on \cup {i}
    /\ owed' = owed \ pairing[i]
    /\ UNCHANGED <<live, pairing>>

\* A command "on" for relay i, whose partner is on: the partner goes off now.
Displace(i) ==
    /\ live
    /\ pairing[i] \cap on # {}
    /\ on' = on \ pairing[i]
    /\ owed' = (owed \ pairing[i]) \cup {i}
    /\ UNCHANGED <<live, pairing>>

\* Relays go off, on command or by themselves, and debts are paid or dropped;
\* a relay whose debt is paid no longer waits.
Settle ==
    /\ live
    /\ on' \ on \subseteq owed
    /\ owed' \subseteq owed \ (on' \ on)
    /\ Exclusive(pairing, on')
    /\ UNCHANGED <<live, pairing>>

\* New settings: nothing comes on, and no two partners stay on.
Repair ==
    /\ live
    /\ pairing' \in Pairings
    /\ on' \subseteq on
    /\ owed' \subseteq owed
    /\ Exclusive(pairing', on')
    /\ UNCHANGED live

Fail ==
    /\ live' = FALSE
    /\ on' = {}
    /\ owed' = {}
    /\ UNCHANGED pairing

Restore ==
    /\ ~live
    /\ live' = TRUE
    /\ pairing' \in Pairings
    /\ on' \subseteq Relays
    /\ Exclusive(pairing', on')
    /\ owed' = {}

BankNext ==
    \/ \E i \in Relays : Energize(i) \/ Displace(i)
    \/ Settle
    \/ Repair
    \/ Fail
    \/ Restore

BankSpec == BankInit /\ [][BankNext]_bankVars
=============================================================================
