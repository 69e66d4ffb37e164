---------------------------- MODULE RelayListeners ----------------------------
(***************************************************************************)
(* How a relay change reaches the rest of the firmware.  relay_ctrl calls  *)
(* its listeners after giving its mutex back, on whichever task made the   *)
(* change (relay_ctrl.c:207-229), so the reports of two tasks interleave   *)
(* and overtake each other.  main.c:216-235 (on_relay_change) tells, for   *)
(* one relay after the other: the counters, with the state it was given;   *)
(* the SignalK bridge, which reads the state again; and the NMEA 2000      *)
(* bridge, which only raises a flag for its own task.  At least one of     *)
(* the two SignalK trees is switched on: with neither there is no state to *)
(* show.                                                                   *)
(***************************************************************************)
EXTENDS Naturals

CONSTANTS
    Relays,        \* the relay channels, numbers
    Tasks,         \* the tasks that run listeners
    Switching,     \* those of them that switch relays
    IoTask, N2kTask,
    Wirings        \* the settings of "wired to NC" a save may install

ASSUME ListenerAssumption ==
    /\ Relays \subseteq Nat
    /\ Switching \subseteq Tasks
    /\ {IoTask, N2kTask} \subseteq Tasks
    /\ Wirings \subseteq SUBSET Relays

VARIABLES
    mask,       \* relay_ctrl's s.mask: the coils
    wiredNc,    \* relay_ctrl's cfg.relays[].wired_nc
    told,       \* per task: what notify() has still to report
    counted,    \* the counters' slot->on of every relay
    started,    \* sk_bridge_start() has run
    online,     \* s.connected_once && !s.down
    every,      \* s.cfg.sk_republish_s is not 0: states are published again
    shown,      \* the relays last published as on to SignalK
    changed,    \* n2k_bridge's s.changed
    sending,    \* n2k_task has taken the flag and is about to send
    bus         \* the relay bank last sent as PGN 127501

\* History: the relays whose wiring was edited since they were last published.
VARIABLES skDue, busDue

relayVars == <<mask, wiredNc, told>>
linkVars  == <<started, online, every>>
skVars    == <<linkVars, shown, skDue>>
n2kVars   == <<changed, sending, bus, busDue>>
vars      == <<relayVars, counted, skVars, n2kVars>>

Steps == {"counters", "sk", "n2k"}

\* The load's state of every relay, as get_mask() returns it.
Load(coils, nc) == {i \in Relays : (i \in coils) # (i \in nc)}

Reported == Load(mask, wiredNc)

Left(t) == told[t].on \cup told[t].off

Silent(t) == Left(t) = {}

First(S) == CHOOSE i \in S : \A j \in S : i <= j

\* notify(): the relays to report, each with the state passed along.
Notice(before, after) == [on   |-> after \ before,
                          off  |-> before \ after,
                          step |-> "counters"]

(***************************************************************************)
(* A critical section of relay_ctrl that changes coils, on task t.  The    *)
(* NMEA 2000 task switches relays only while parsing messages.             *)
(***************************************************************************)
Change(t, coils) ==
    /\ Silent(t)
    /\ t = N2kTask => ~sending
    /\ mask' = coils
    /\ told' = [told EXCEPT ![t] = Notice(Reported, Load(coils, wiredNc))]
    /\ UNCHANGED <<wiredNc, counted, skVars, n2kVars>>

\* relay_ctrl_update_config() translates both sides with the new wiring, so
\* an edit of the wiring is reported to nobody.  Coils that an interlock
\* conflict switches off are.
UpdateConfig(nc, coils) ==
    /\ Silent(IoTask)
    /\ wiredNc' = nc
    /\ mask' = coils
    /\ told' = [told EXCEPT ![IoTask] = Notice(Load(mask, nc), Load(coils, nc))]
    /\ skDue' = skDue \cup (wiredNc \ nc) \cup (nc \ wiredNc)
    /\ busDue' = busDue \cup (wiredNc \ nc) \cup (nc \ wiredNc)
    /\ UNCHANGED <<counted, linkVars, shown, changed, sending, bus>>

(***************************************************************************)
(* The listeners, for the first relay task t has still to report.          *)
(***************************************************************************)
Reports(t, step) == ~Silent(t) /\ told[t].step = step

\* Mutants: counts relays from 1; counts only the switching on.
CountersFromOne(t) ==
    LET i == First(Left(t)) IN
    /\ Reports(t, "counters")
    /\ counted' = IF i \in told[t].on THEN counted \cup {i + 1} ELSE counted \ {i + 1}
    /\ told' = [told EXCEPT ![t].step = "sk"]
    /\ UNCHANGED <<mask, wiredNc, skVars, n2kVars>>

CountersOnChange(t) ==
    LET i == First(Left(t)) IN
    /\ Reports(t, "counters")
    /\ counted' = IF i \in told[t].on THEN counted \cup {i} ELSE counted \ {i}
    /\ told' = [told EXCEPT ![t].step = "sk"]
    /\ UNCHANGED <<mask, wiredNc, skVars, n2kVars>>

Publish(S) ==
    /\ shown' = (shown \ S) \cup (Reported \cap S)
    /\ skDue' = skDue \ S

\* Mutant: publishes the state the listener was given.
SkBridgeGivenState(t) ==
    LET i == First(Left(t)) IN
    /\ Reports(t, "sk")
    /\ IF started
       THEN shown' = IF i \in told[t].on THEN shown \cup {i} ELSE shown \ {i}
       ELSE UNCHANGED shown
    /\ UNCHANGED skDue
    /\ told' = [told EXCEPT ![t].step = "n2k"]
    /\ UNCHANGED <<mask, wiredNc, counted, linkVars, n2kVars>>

SkBridgeRelayChanged(t) ==
    LET i == First(Left(t)) IN
    /\ Reports(t, "sk")
    /\ IF started THEN Publish({i}) ELSE UNCHANGED <<shown, skDue>>
    /\ told' = [told EXCEPT ![t].step = "n2k"]
    /\ UNCHANGED <<mask, wiredNc, counted, linkVars, n2kVars>>

N2kBridgeStateChanged(t) ==
    LET i == First(Left(t)) IN
    /\ Reports(t, "n2k")
    /\ changed' = TRUE
    /\ told' = [told EXCEPT ![t] = [on |-> @.on \ {i}, off |-> @.off \ {i}, step |-> "counters"]]
    /\ UNCHANGED <<mask, wiredNc, counted, skVars, sending, bus, busDue>>

(***************************************************************************)
(* The SignalK bridge publishes everything when it starts and on every     *)
(* connection (on the event bus's task), and the I/O task all states again *)
(* when the interval has passed, if there is one and the stream is up.     *)
(***************************************************************************)
SkBridgeStart ==
    /\ ~started
    /\ started' = TRUE
    /\ Publish(Relays)
    /\ UNCHANGED <<relayVars, counted, online, every, n2kVars>>

Connected ==
    /\ online' = TRUE
    /\ IF started THEN Publish(Relays) ELSE UNCHANGED <<shown, skDue>>
    /\ UNCHANGED <<relayVars, counted, started, every, n2kVars>>

Disconnected ==
    /\ online
    /\ online' = FALSE
    /\ UNCHANGED <<relayVars, counted, started, every, shown, skDue, n2kVars>>

\* sk_bridge_update_config(): the interval applies live.
UpdateInterval(e) ==
    /\ Silent(IoTask)
    /\ every' = e
    /\ UNCHANGED <<relayVars, counted, started, online, shown, skDue, n2kVars>>

\* Mutant: publishes the relays that are on only, as it does with alarms.
PublishOn ==
    /\ started /\ online /\ every
    /\ Silent(IoTask)
    /\ Publish(Reported)
    /\ UNCHANGED <<relayVars, counted, linkVars, n2kVars>>

PublishStates ==
    /\ started /\ online /\ every
    /\ Silent(IoTask)
    /\ Publish(Relays)
    /\ UNCHANGED <<relayVars, counted, linkVars, n2kVars>>

(***************************************************************************)
(* n2k_task: when the flag is up or 2 s have passed (time is left out: at  *)
(* any moment), send the bank's state.                                     *)
(***************************************************************************)
\* Mutant: lowers the flag even when the period has yet to pass.
TakeChangedLimited ==
    /\ Silent(N2kTask)
    /\ ~sending
    /\ changed' = FALSE
    /\ sending' \in BOOLEAN
    /\ UNCHANGED <<relayVars, counted, skVars, bus, busDue>>

TakeChanged ==
    /\ Silent(N2kTask)
    /\ ~sending
    /\ changed' = FALSE
    /\ sending' = TRUE
    /\ UNCHANGED <<relayVars, counted, skVars, bus, busDue>>

SendStatus ==
    /\ sending
    /\ bus' = Reported
    /\ busDue' = {}
    /\ sending' = FALSE
    /\ UNCHANGED <<relayVars, counted, skVars, changed>>

\* At boot the counters are seeded and s.changed starts raised.
Init ==
    /\ mask \in SUBSET Relays
    /\ wiredNc \in Wirings
    /\ told = [t \in Tasks |-> Notice({}, {})]
    /\ counted = Reported
    /\ started = FALSE
    /\ online = FALSE
    /\ every \in BOOLEAN
    /\ shown = {}
    /\ changed = TRUE
    /\ sending = FALSE
    /\ bus = {}
    /\ skDue = {}
    /\ busDue = {}

Tell(t) == CountersOnChange(t) \/ SkBridgeRelayChanged(t) \/ N2kBridgeStateChanged(t)

Switch == \E t \in Switching : \E coils \in SUBSET Relays \ {mask} : Change(t, coils)

Edit ==
    \/ \E nc \in Wirings \ {wiredNc} : \E coils \in SUBSET mask : UpdateConfig(nc, coils)
    \/ UpdateInterval(~every)

Next ==
    \/ Switch
    \/ Edit
    \/ \E t \in Tasks : Tell(t)
    \/ SkBridgeStart
    \/ Connected
    \/ Disconnected
    \/ PublishStates
    \/ TakeChanged
    \/ SendStatus

Spec == Init /\ [][Next]_vars

(***************************************************************************)
(* Every task gets to run, so its listeners return; the status period      *)
(* comes round, and so does the republish interval where it is set and the *)
(* stream is up.  Nothing is asked of the stream.                          *)
(***************************************************************************)
FairSpec ==
    /\ Spec
    /\ \A t \in Tasks : WF_vars(Tell(t))
    /\ WF_vars(SkBridgeStart)
    /\ WF_vars(PublishStates)
    /\ WF_vars(TakeChanged)
    /\ WF_vars(SendStatus)

-----------------------------------------------------------------------------
(***************************************************************************)
(* Properties.                                                             *)
(***************************************************************************)

Report == [on : SUBSET Relays, off : SUBSET Relays, step : Steps]

\* The types of all variables.
TypeOK ==
    /\ mask \in SUBSET Relays
    /\ wiredNc \in Wirings
    /\ told \in [Tasks -> Report]
    /\ counted \in SUBSET Relays
    /\ {started, online, every} \subseteq BOOLEAN
    /\ shown \in SUBSET Relays
    /\ changed \in BOOLEAN
    /\ sending \in BOOLEAN
    /\ bus \in SUBSET Relays
    /\ skDue \in SUBSET Relays
    /\ busDue \in SUBSET Relays

\* Task t has yet to come to listener `step` for relay i.
Owes(t, step, i) ==
    /\ i \in Left(t)
    /\ \/ i # First(Left(t))
       \/ step = "sk"  /\ told[t].step \in {"counters", "sk"}
       \/ step = "n2k"

\* SignalK shows a relay's true state as soon as no task owes it a report of
\* that relay, however the reports of racing tasks overtook each other
\* (sk_bridge.c:416-418) -- unless its wiring was edited since it was last
\* published (docs/plans/18 leaves that to the next republication).
SkShowsCurrent ==
    started => \A i \in Relays :
        \/ \E t \in Tasks : Owes(t, "sk", i)
        \/ i \in skDue
        \/ (i \in shown) = (i \in Reported)

\* The bus holds every relay's true state unless a status is still due: the
\* flag is raised, the task is about to send, or a report is still to come.
BusShowsCurrent ==
    \/ changed \/ sending
    \/ \A i \in Relays : \/ \E t \in Tasks : Owes(t, "n2k", i)
                         \/ i \in busDue
                         \/ (i \in bus) = (i \in Reported)

\* When the switching and the editing end, the bus ends up right for good,
\* and so does SignalK -- but for a relay whose wiring was edited: it is shown
\* as it is only from the next connection or republication on, and stays
\* wrong as long as skRepublishS is 0 or the stream is down
\* (sk_bridge.c:485-487, docs/plans/18).
EventuallyTold ==
    \/ []<><<Switch \/ Edit>>_vars
    \/ <>[](/\ bus = Reported
            /\ \A i \in Relays : \/ (i \in shown) = (i \in Reported)
                                 \/ i \in skDue /\ ~(online /\ every))
=============================================================================
