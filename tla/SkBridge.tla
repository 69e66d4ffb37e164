------------------------------- MODULE SkBridge -------------------------------
(***************************************************************************)
(* The SignalK bridge (components/switch_bank/src/sk_bridge.c): the        *)
(* fail-safe on a lost server, the republication that lets the server      *)
(* route PUTs, and the notifications of the inputs' alarms.  How a relay's *)
(* state is published is the subject of RelayListeners.                    *)
(*                                                                         *)
(* espOS posts the stream's ups and downs to its event bus, whose task     *)
(* calls sk_bridge_stream_changed(); the I/O task polls the inputs,        *)
(* reports their changes and calls sk_bridge_tick(), which decides under   *)
(* the bridge's mutex to fire the fail-safe and fires it after giving the  *)
(* mutex back.  What is published while the stream is down is lost.        *)
(***************************************************************************)
EXTENDS Naturals, Sequences

CONSTANTS
    Inputs, Relays,
    Safe,          \* the relays whose effective fail-safe policy is "off"
    Graces,        \* the settings of skLossGraceS, in units of time
    Every,         \* skRepublishS; 0 for never
    BusFaults,     \* may the expander refuse the fail-safe's write?
    MaxEvents      \* bound: events of the stream not yet handled

ASSUME SkBridgeAssumption ==
    /\ Safe \subseteq Relays
    /\ Graces \subseteq Nat
    /\ Every \in Nat
    /\ BusFaults \in BOOLEAN
    /\ MaxEvents \in Nat \ {0}

VARIABLES
    link,          \* the stream is up
    events,        \* its ups (TRUE) and downs the event bus has yet to deliver
    stage,         \* app_main(): "boot", "subscribed" or "started"
    connectedOnce, down, lostFired,
    downAge,       \* now - s.down_since, up to the longest grace period
    sentAge,       \* now - s.republished_at, up to Every
    alarm,         \* the inputs whose alarm is configured
    grace,         \* s.cfg.sk_loss_grace_s
    publishing,    \* s.cfg.publish_switches_tree || s.cfg.publish_controls_tree
    io,            \* where the I/O task is: "poll", "tick" or "lost"
    inputs, ready, \* input_sense_get_mask() and input_sense_ready()
    report,        \* the inputs whose change the I/O task has yet to report
    coils,         \* the relays that are on
    seen,          \* the server has seen the relays' paths on this connection
    raised         \* the inputs whose notification is raised on the server

\* History: the inputs whose alarm was switched off while the server was not
\* up to date and could not be told; has the fail-safe acted since the stream went down; how often
\* was it fired since the last CONNECTED.
VARIABLES muted, acted, fired

streamVars == <<link, events>>
lossVars   == <<connectedOnce, down, lostFired, downAge, fired>>
cfgVars    == <<alarm, grace, publishing>>
inputVars  == <<inputs, ready, report>>
serverVars == <<seen, raised, muted>>
vars       == <<streamVars, stage, lossVars, sentAge, cfgVars, io, inputVars, coils, serverVars, acted>>

Started == stage = "started"

Longest == CHOOSE g \in Graces : \A h \in Graces : h <= g

\* A connection the bridge has not heard of yet.
Pending == \E k \in DOMAIN events : events[k]

\* What the bridge publishes reaches the server.
Heard == link /\ publishing

\* The server is connected and was told everything.
Current == link /\ Started /\ ready /\ ~Pending

(***************************************************************************)
(* Publishing.  The notification of the inputs S, as the running           *)
(* configuration and the inputs have it.                                   *)
(***************************************************************************)
Notify(S, active) ==
    IF Heard
    THEN /\ raised' = (raised \ S) \cup (active \cap S)
         /\ muted' = muted \ S
    ELSE UNCHANGED <<raised, muted>>

\* Mutant: leaves the cleared alarms out, as the periodic republish does.
PublishAllRaised ==
    /\ IF ready THEN Notify(alarm \cap inputs, alarm) ELSE UNCHANGED <<raised, muted>>
    /\ seen' = (seen \/ Heard)
    /\ sentAge' = 0

PublishAll ==
    /\ IF ready THEN Notify(alarm, inputs) ELSE UNCHANGED <<raised, muted>>
    /\ seen' = (seen \/ Heard)
    /\ sentAge' = 0

\* Periodic: the alarms that are active only.
PublishStates ==
    /\ IF ready THEN Notify(alarm \cap inputs, alarm) ELSE UNCHANGED <<raised, muted>>
    /\ seen' = (seen \/ Heard)
    /\ sentAge' = 0

(***************************************************************************)
(* The server comes and goes; a new connection has seen no path.           *)
(***************************************************************************)
Post(up) == events' = IF stage = "boot" THEN events ELSE Append(events, up)

StreamUp ==
    /\ ~link
    /\ Len(events) < MaxEvents
    /\ link' = TRUE
    /\ seen' = FALSE
    /\ Post(TRUE)
    /\ UNCHANGED <<stage, lossVars, sentAge, cfgVars, io, inputVars, coils, raised, muted, acted>>

StreamDown ==
    /\ link
    /\ Len(events) < MaxEvents
    /\ link' = FALSE
    /\ acted' = FALSE
    /\ Post(FALSE)
    /\ UNCHANGED <<stage, lossVars, sentAge, cfgVars, io, inputVars, coils, serverVars>>

\* An attempt to reconnect that fails is reported as down once more.
StillDown ==
    /\ ~link
    /\ Len(events) < MaxEvents
    /\ Post(FALSE)
    /\ UNCHANGED <<link, stage, lossVars, sentAge, cfgVars, io, inputVars, coils, serverVars, acted>>

(***************************************************************************)
(* sk_bridge_stream_changed(), on the event bus's task.                    *)
(***************************************************************************)
Deliver(up) ==
    /\ events # <<>>
    /\ Head(events) = up
    /\ events' = Tail(events)

\* Mutant: publishes only after a loss.
ConnectedAgain ==
    /\ Deliver(TRUE)
    /\ connectedOnce' = TRUE
    /\ down' = FALSE
    /\ fired' = 0
    /\ IF Started /\ down THEN PublishAll ELSE UNCHANGED <<serverVars, sentAge>>
    /\ UNCHANGED <<link, stage, lostFired, downAge, cfgVars, io, inputVars, coils, acted>>

Connected ==
    /\ Deliver(TRUE)
    /\ connectedOnce' = TRUE
    /\ down' = FALSE
    /\ fired' = 0
    /\ IF Started THEN PublishAll ELSE UNCHANGED <<serverVars, sentAge>>
    /\ UNCHANGED <<link, stage, lostFired, downAge, cfgVars, io, inputVars, coils, acted>>

\* Mutants: every report of the same loss counts as a new one; the next loss
\* is taken as fired already.
DisconnectedAnew ==
    /\ Deliver(FALSE)
    /\ IF connectedOnce
       THEN down' = TRUE /\ lostFired' = FALSE /\ downAge' = 0
       ELSE UNCHANGED <<down, lostFired, downAge>>
    /\ UNCHANGED <<link, stage, connectedOnce, fired, sentAge, cfgVars, io, inputVars, coils,
                   serverVars, acted>>

DisconnectedOnce ==
    /\ Deliver(FALSE)
    /\ IF connectedOnce /\ ~down
       THEN down' = TRUE /\ downAge' = 0
       ELSE UNCHANGED <<down, downAge>>
    /\ UNCHANGED <<link, stage, connectedOnce, lostFired, fired, sentAge, cfgVars, io, inputVars,
                   coils, serverVars, acted>>

\* Before sk_bridge_start() the bridge has no clock and sk_bridge.c:467 would
\* call a null pointer: a connection made and lost within those few lines of
\* app_main() is left out.
Disconnected ==
    /\ connectedOnce => Started
    /\ Deliver(FALSE)
    /\ IF connectedOnce /\ ~down
       THEN down' = TRUE /\ lostFired' = FALSE /\ downAge' = 0
       ELSE UNCHANGED <<down, lostFired, downAge>>
    /\ UNCHANGED <<link, stage, connectedOnce, fired, sentAge, cfgVars, io, inputVars, coils,
                   serverVars, acted>>

(***************************************************************************)
(* app_main() subscribes to the events, then calls sk_bridge_start().      *)
(***************************************************************************)
Subscribe ==
    /\ stage = "boot"
    /\ stage' = "subscribed"
    /\ UNCHANGED <<streamVars, lossVars, sentAge, cfgVars, io, inputVars, coils, serverVars, acted>>

Start ==
    /\ stage = "subscribed"
    /\ stage' = "started"
    /\ PublishAll
    /\ UNCHANGED <<streamVars, lossVars, cfgVars, io, inputVars, coils, acted>>

(***************************************************************************)
(* The I/O task: settings, poll, reports, tick.                            *)
(***************************************************************************)
\* sk_bridge_update_config(): an alarm setting that changed while its input
\* is on raises or clears the notification at once.  The running trees stay
\* until the device restarts.
UpdateConfig(a, g) ==
    LET edited == (alarm \ a) \cup (a \ alarm) IN
    /\ io = "poll"
    /\ Started
    /\ alarm' = a
    /\ grace' = g
    /\ LET told == IF ready /\ Heard THEN edited \cap inputs ELSE {} IN
       /\ raised' = (raised \ told) \cup (a \cap told)
       /\ muted' = (muted \ told) \cup (IF Current THEN {} ELSE alarm \ (a \cup told))
    /\ UNCHANGED <<publishing, streamVars, stage, lossVars, sentAge, io, inputVars, coils, seen, acted>>

\* Mutant: numbers the channels from 0.
PollFromZero(now) ==
    /\ io = "poll"
    /\ io' = "tick"
    /\ inputs' = now
    /\ ready' = TRUE
    /\ report' = {i - 1 : i \in IF ready THEN (inputs \ now) \cup (now \ inputs) ELSE Inputs}
    /\ UNCHANGED <<streamVars, stage, lossVars, sentAge, cfgVars, coils, serverVars, acted>>

\* input_sense_poll(): the first reading reports every input.
Poll(now) ==
    /\ io = "poll"
    /\ io' = "tick"
    /\ inputs' = now
    /\ ready' = TRUE
    /\ report' = IF ready THEN (inputs \ now) \cup (now \ inputs) ELSE Inputs
    /\ UNCHANGED <<streamVars, stage, lossVars, sentAge, cfgVars, coils, serverVars, acted>>

PollNotReady ==
    /\ io = "poll"
    /\ ~ready
    /\ io' = "tick"
    /\ UNCHANGED <<streamVars, stage, lossVars, sentAge, cfgVars, inputVars, coils, serverVars, acted>>

\* sk_bridge_input_changed(), from on_input_change().
InputChanged(i) ==
    /\ i \in report
    /\ report' = report \ {i}
    /\ IF Started /\ i \in alarm THEN Notify({i}, inputs) ELSE UNCHANGED <<raised, muted>>
    /\ UNCHANGED <<streamVars, stage, lossVars, sentAge, cfgVars, io, inputs, ready, coils, seen, acted>>

\* sk_bridge_tick(): decide on the fail-safe, then republish.
Tick ==
    LET fire == Started /\ down /\ ~lostFired /\ publishing /\ downAge >= grace IN
    /\ io = "tick"
    /\ report = {}
    /\ lostFired' = (lostFired \/ fire)
    /\ fired' = IF fire THEN fired + 1 ELSE fired
    /\ io' = IF fire THEN "lost" ELSE "poll"
    /\ IF Started /\ connectedOnce /\ ~down /\ Every > 0 /\ sentAge >= Every
       THEN PublishStates
       ELSE UNCHANGED <<serverVars, sentAge>>
    /\ UNCHANGED <<streamVars, stage, connectedOnce, down, downAge, cfgVars, inputVars, coils, acted>>

\* relay_ctrl_sk_lost(), without the bridge's mutex.
SkLost ==
    /\ io = "lost"
    /\ io' = "poll"
    /\ \/ /\ coils' = coils \ Safe
          /\ acted' = TRUE
       \/ /\ BusFaults
          /\ coils \cap Safe # {}
          /\ UNCHANGED <<coils, acted>>
    /\ UNCHANGED <<streamVars, stage, lossVars, sentAge, cfgVars, inputVars, serverVars>>

(***************************************************************************)
(* Relays are switched by the server, the bus and the inputs.              *)
(***************************************************************************)
Switch(i) ==
    /\ coils' = (coils \ {i}) \cup ({i} \ coils)
    /\ UNCHANGED <<streamVars, stage, lossVars, sentAge, cfgVars, io, inputVars, serverVars, acted>>

Elapse ==
    /\ downAge' = IF down /\ downAge < Longest THEN downAge + 1 ELSE downAge
    /\ sentAge' = IF sentAge < Every THEN sentAge + 1 ELSE sentAge
    /\ UNCHANGED <<streamVars, stage, connectedOnce, down, lostFired, fired, cfgVars, io, inputVars,
                   coils, serverVars, acted>>

\* The server keeps what it was told before the restart.
Init ==
    /\ link = FALSE
    /\ events = <<>>
    /\ stage = "boot"
    /\ connectedOnce = FALSE /\ down = FALSE /\ lostFired = FALSE
    /\ downAge = 0
    /\ sentAge = 0
    /\ alarm \in SUBSET Inputs
    /\ grace \in Graces
    /\ publishing \in BOOLEAN
    /\ io = "poll"
    /\ inputs = {}
    /\ ready = FALSE
    /\ report = {}
    /\ coils \in SUBSET Relays
    /\ seen = FALSE
    /\ raised \in SUBSET Inputs
    /\ muted = Inputs \ alarm
    /\ acted = FALSE
    /\ fired = 0

Stream == StreamUp \/ StreamDown \/ StillDown

Next ==
    \/ Stream
    \/ Connected
    \/ Disconnected
    \/ Subscribe
    \/ Start
    \/ \E a \in SUBSET Inputs, g \in Graces : UpdateConfig(a, g)
    \/ \E now \in SUBSET Inputs : Poll(now)
    \/ PollNotReady
    \/ \E i \in Inputs : InputChanged(i)
    \/ Tick
    \/ SkLost
    \/ \E i \in Relays : Switch(i)
    \/ Elapse

Spec == Init /\ [][Next]_vars

(***************************************************************************)
(* The tasks get to run and time passes; nothing is asked of the server.   *)
(***************************************************************************)
IoTask ==
    \/ \E now \in SUBSET Inputs : Poll(now)
    \/ \E i \in Inputs : InputChanged(i)
    \/ Tick
    \/ SkLost

FairSpec ==
    /\ Spec
    /\ WF_vars(Connected \/ Disconnected)
    /\ WF_vars(Subscribe)
    /\ WF_vars(Start)
    /\ WF_vars(IoTask)
    /\ WF_vars(Elapse)

-----------------------------------------------------------------------------
(***************************************************************************)
(* Properties.                                                             *)
(***************************************************************************)

\* The types of all variables.
TypeOK ==
    /\ link \in BOOLEAN
    /\ events \in Seq(BOOLEAN)
    /\ stage \in {"boot", "subscribed", "started"}
    /\ {connectedOnce, down, lostFired, publishing, ready, seen, acted} \subseteq BOOLEAN
    /\ downAge \in 0 .. Longest
    /\ sentAge \in 0 .. Every
    /\ {alarm, inputs, report, raised, muted} \subseteq SUBSET Inputs
    /\ grace \in Graces
    /\ io \in {"poll", "tick", "lost"}
    /\ coils \in SUBSET Relays
    /\ fired \in Nat

\* The server can route PUTs -- it has seen the relays' paths on the current
\* connection -- unless the news of that connection is still to come, however
\* the connection, the subscription and the start of the bridge interleave.
\* Both trees may be switched off: then there are no paths to see.
SeenOrPending == Heard /\ Started => seen \/ Pending

\* A server that is published to shows the alarm of every input as it is, once
\* it is connected and all reports are through: also an alarm that cleared
\* while the stream was down or across a restart (sk_bridge.c:246-248).  An
\* alarm whose setting was switched off in that time is the exception.
AlarmShown ==
    Current /\ publishing =>
        \A i \in Inputs \ (muted \cup report) : i \in raised <=> i \in alarm \cap inputs

\* The fail-safe fires at most once per loss, however often espOS reports it.
FailSafeOnce == fired <= 1

\* A lost server ends in the fail-safe having acted on the relays, unless it
\* comes back (SPEC.md:133-135), for a device that publishes at least one of
\* the two trees: with both switched off sk_bridge.c:478 never fires it.
SafeAfterLoss == ~link /\ connectedOnce /\ publishing ~> link \/ acted
=============================================================================
