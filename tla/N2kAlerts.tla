------------------------------- MODULE N2kAlerts -------------------------------
(***************************************************************************)
(* Input alarms as NMEA 2000 alerts (components/switch_bank/src:           *)
(* n2k_alerts.c, run by n2k_bridge.cpp's task every 10 ms) and what a      *)
(* display on the bus makes of them when a frame is lost.                  *)
(*                                                                         *)
(* A pass of the task handles received messages, takes over changed        *)
(* settings and ticks with the inputs as they are then; a tick is the unit *)
(* of time.  The settings come from the I/O task through pending_cfg and a *)
(* flag.  An input whose alarm is off, or alerts that are off altogether,  *)
(* or inputs that are not ready, come to the same and are one setting      *)
(* here.  Alert texts (126985) take their turn, but what they say is left  *)
(* out.                                                                    *)
(***************************************************************************)
EXTENDS Naturals, FiniteSets

CONSTANTS
    Channels,      \* numbers; the lowest goes first
    Edited,        \* the channels whose setting is edited
    Choices,       \* the settings an edit stores
    Levels,        \* the severities
    BootLevels,    \* the settings n2k_alerts_init() may find
    StatusPeriod,  \* N2K_ALERTS_STATUS_PERIOD_MS, in ticks
    Repeats,       \* N2K_ALERTS_CLEAR_REPEATS
    MaxOccurrence, \* 255: occurrence numbers start over after it
    Acking,        \* the channels whose alerts the display acknowledges
    MaxEdits,      \* bound: edits of the settings
    MaxLost        \* bound: frames the bus loses

Off == "off"

ASSUME N2kAlertsAssumption ==
    /\ Channels \subseteq Nat
    /\ Edited \subseteq Channels /\ Acking \subseteq Channels
    /\ Off \notin Levels /\ Choices \subseteq Levels \cup {Off}
    /\ BootLevels \subseteq [Channels -> Levels \cup {Off}]
    /\ StatusPeriod \in Nat \ {0} /\ Repeats \in Nat /\ MaxOccurrence \in Nat \ {0}
    /\ {MaxEdits, MaxLost} \subseteq Nat

VARIABLES
    mask,        \* the inputs that were on at the last tick
    pending,     \* s.pending_cfg: the severity of every channel, or Off
    flagging,    \* n2k_bridge_update_config() has yet to raise the flag
    cfgChanged,  \* s.cfg_changed
    edits,       \* how often the settings were edited
    at,          \* where the task is: "parse", "config" or "tick"
    cfg,         \* s.alerts.cfg
    ch,          \* s.alerts.ch
    statusAge,   \* ticks since status_at
    shown,       \* per channel: the alerts the display has been told are active
    acks,        \* acknowledgements on their way
    lost         \* how many frames were lost

\* History: the channels whose alert the display meant to acknowledge, and per
\* channel the alerts the display shows and the bridge has forgotten: a later
\* clear took the repeats of their Normal (n2k_alerts.c:90-99).
VARIABLES meant, forgotten

busVars  == <<shown, lost, forgotten>>
ackVars  == <<acks, meant>>
taskVars == <<at, cfg, ch, statusAge>>
cfgVars  == <<pending, flagging, cfgChanged, edits>>

alertVars == <<mask, cfgVars, taskVars, busVars, ackVars>>

\* An alert's identity: its type follows from the severity.
Identity(level, occurrence) == [level |-> level, occurrence |-> occurrence]

None == Identity(Off, 0)

(***************************************************************************)
(* n2k_alerts_chan_t.                                                      *)
(***************************************************************************)
Fresh == [active |-> FALSE, id |-> None, acked |-> FALSE, textDue |-> FALSE, statusDue |-> FALSE,
          clearLeft |-> 0, clearId |-> None]

\* Mutant: clears once.
ClearedOnce(c) ==
    [c EXCEPT !.clearId = c.id, !.clearLeft = 1, !.active = FALSE, !.acked = FALSE,
              !.textDue = FALSE, !.statusDue = TRUE]

Cleared(c) ==
    [c EXCEPT !.clearId = c.id, !.clearLeft = Repeats, !.active = FALSE, !.acked = FALSE,
              !.textDue = FALSE, !.statusDue = TRUE]

\* Mutant: starts over at 0.
RaisedFromZero(c, level) ==
    LET next == IF c.id.occurrence = MaxOccurrence THEN 0 ELSE c.id.occurrence + 1 IN
    [c EXCEPT !.active = TRUE, !.id = Identity(level, next), !.acked = FALSE,
              !.textDue = TRUE, !.statusDue = TRUE]

Raised(c, level) ==
    LET next == IF c.id.occurrence = MaxOccurrence THEN 1 ELSE c.id.occurrence + 1 IN
    [c EXCEPT !.active = TRUE, !.id = Identity(level, next), !.acked = FALSE,
              !.textDue = TRUE, !.statusDue = TRUE]

Want(i, inputs) == cfg[i] # Off /\ i \in inputs

\* Clear an alert that is no longer wanted as it is, raise a wanted one.
Judged(i, inputs) ==
    LET c == IF ch[i].active /\ (~Want(i, inputs) \/ ch[i].id.level # cfg[i])
             THEN Cleared(ch[i]) ELSE ch[i]
    IN  IF ~c.active /\ Want(i, inputs) THEN Raised(c, cfg[i]) ELSE c

\* The periods: text's is a multiple of status's.
\* Mutant: repeats only what was cleared.
RepeatedClears(c, status, text) ==
    [c EXCEPT !.statusDue = @ \/ (status /\ c.clearLeft > 0),
              !.textDue = @ \/ (text /\ c.active)]

Repeated(c, status, text) ==
    [c EXCEPT !.statusDue = @ \/ (status /\ (c.active \/ c.clearLeft > 0)),
              !.textDue = @ \/ (text /\ c.active)]

HasDue(c) == c.textDue \/ c.statusDue

Sent(c) ==
    [c EXCEPT !.textDue = FALSE, !.statusDue = FALSE,
              !.clearLeft = IF c.statusDue /\ @ > 0 THEN @ - 1 ELSE @]

\* The 126983s channel record c sends: that of the cleared alert goes first.
Frames(c) == {f \in {"normal", "active"} :
                 c.statusDue /\ IF f = "normal" THEN c.clearLeft > 0 ELSE c.active}

\* What the display shows of a channel after the frames in `got`.
Heard(S, c, got) ==
    (S \ IF "normal" \in got THEN {c.clearId} ELSE {}) \cup IF "active" \in got THEN {c.id} ELSE {}

\* begin_clear() in this tick, though the display still shows the alert cleared
\* before.
Overwritten(i) == IF ch'[i].clearId # ch[i].clearId THEN shown[i] \cap {ch[i].clearId} ELSE {}

(***************************************************************************)
(* n2k_alerts_tick(): every channel is judged by the inputs it is given,   *)
(* the first one that has something due sends it.  Few occurrences stand   *)
(* for 255 of them: an acknowledgement is never late by more than one      *)
(* alert.                                                                  *)
(***************************************************************************)
Tick(inputs) ==
    LET period == statusAge = StatusPeriod - 1 IN
    \E text \in {FALSE, period} :
    LET judged == [i \in Channels |-> Repeated(Judged(i, inputs), period, text)]
        due    == {i \in Channels : HasDue(judged[i])}
        first  == CHOOSE i \in due : \A j \in due : i <= j
        c      == judged[first]
    IN
    /\ at = "tick" \/ (at = "parse" /\ ~cfgChanged)
    /\ at' = "parse"
    /\ mask' = inputs
    /\ statusAge' = IF period THEN 0 ELSE statusAge + 1
    /\ IF due = {}
       THEN ch' = judged /\ UNCHANGED <<shown, lost>>
       ELSE \E gone \in SUBSET Frames(c) :
            /\ lost + Cardinality(gone) <= MaxLost
            /\ lost' = lost + Cardinality(gone)
            /\ shown' = [shown EXCEPT ![first] = Heard(@, c, Frames(c) \ gone)]
            /\ ch' = [judged EXCEPT ![first] = Sent(c)]
    /\ forgotten' = [i \in Channels |->
                        ((forgotten[i] \cup Overwritten(i)) \ {ch'[i].id}) \cap shown'[i]]
    /\ meant' = {i \in meant : ch'[i].id = ch[i].id /\ ch'[i].active}
    /\ acks' = {r \in acks : r.id \in {ch'[r.channel].id, ch'[r.channel].clearId}}
    /\ UNCHANGED <<cfgVars, cfg>>

(***************************************************************************)
(* Settings: n2k_bridge_update_config() on the I/O task.                   *)
(***************************************************************************)
Store(i, level) ==
    /\ ~flagging
    /\ level # pending[i] /\ edits < MaxEdits
    /\ edits' = edits + 1
    /\ pending' = [pending EXCEPT ![i] = level]
    /\ flagging' = TRUE
    /\ UNCHANGED <<mask, cfgChanged, taskVars, busVars, ackVars>>

RaiseFlag ==
    /\ flagging
    /\ flagging' = FALSE
    /\ cfgChanged' = TRUE
    /\ UNCHANGED <<mask, pending, edits, taskVars, busVars, ackVars>>

\* ... and n2k_task(): the flag, then the settings under their lock.  With no
\* flag to take, the pass goes on to its tick at once.
TakeFlag ==
    /\ at = "parse" /\ cfgChanged
    /\ at' = "config"
    /\ cfgChanged' = FALSE
    /\ UNCHANGED <<mask, pending, flagging, edits, cfg, ch, statusAge, busVars, ackVars>>

\* n2k_alerts_set_config(): the message of an active alert may have changed.
SetConfig ==
    /\ at = "config"
    /\ at' = "tick"
    /\ cfg' = pending
    /\ \E S \in SUBSET {i \in Edited : ch[i].active} :
          ch' = [i \in Channels |-> [ch[i] EXCEPT !.textDue = @ \/ i \in S]]
    /\ UNCHANGED <<mask, cfgVars, statusAge, busVars, ackVars>>

(***************************************************************************)
(* The display acknowledges an alert it shows, the present one or the one  *)
(* before; n2k_alerts_on_response().                                       *)
(***************************************************************************)
Acknowledge(i, id) ==
    /\ acks = {}
    /\ id \in shown[i] \cap {ch[i].id, ch[i].clearId}
    /\ acks' = {[channel |-> i, id |-> id]}
    /\ meant' = IF ch[i].active /\ ch[i].id = id THEN meant \cup {i} ELSE meant
    /\ UNCHANGED <<mask, cfgVars, taskVars, busVars>>

\* Mutant: does not look at the occurrence.
OursByType(r, c) == c.active /\ c.id.level = r.id.level

Ours(r, c) == c.active /\ c.id = r.id

Response(r) ==
    LET c == ch[r.channel] IN
    /\ at = "parse"
    /\ acks' = acks \ {r}
    /\ ch' = IF Ours(r, c) /\ ~c.acked
             THEN [ch EXCEPT ![r.channel].acked = TRUE, ![r.channel].statusDue = TRUE]
             ELSE ch
    /\ UNCHANGED <<mask, cfgVars, at, cfg, statusAge, busVars, meant>>

AlertsInit ==
    /\ mask = {}
    /\ pending \in BootLevels
    /\ flagging = FALSE
    /\ cfgChanged = FALSE
    /\ edits = 0
    /\ at = "parse"
    /\ cfg = pending
    /\ ch = [i \in Channels |-> Fresh]
    /\ statusAge = 0
    /\ shown = [i \in Channels |-> {}]
    /\ acks = {}
    /\ lost = 0
    /\ meant = {}
    /\ forgotten = [i \in Channels |-> {}]

Task == TakeFlag \/ SetConfig \/ \E inputs \in SUBSET Channels : Tick(inputs)

AlertsNext ==
    \/ \E i \in Edited, level \in Choices : Store(i, level)
    \/ RaiseFlag
    \/ Task
    \/ \E i \in Acking : \E id \in shown[i] : Acknowledge(i, id)
    \/ \E r \in acks : Response(r)

AlertsSpec == AlertsInit /\ [][AlertsNext]_alertVars

\* Both tasks get to run; n2k_task() always has a next step.
AlertsFairSpec == AlertsSpec /\ WF_alertVars(RaiseFlag) /\ []<><<Task>>_alertVars

-----------------------------------------------------------------------------
(***************************************************************************)
(* Properties.                                                             *)
(***************************************************************************)

Ids == [level : Levels \cup {Off}, occurrence : 0 .. MaxOccurrence]

Alerts == [active : BOOLEAN, id : Ids, acked : BOOLEAN, textDue : BOOLEAN, statusDue : BOOLEAN,
           clearLeft : 0 .. Repeats, clearId : Ids]

\* The types of all variables: an alert that was ever raised has an
\* occurrence of its own (0 is for none).
AlertsTypeOK ==
    /\ mask \in SUBSET Channels
    /\ pending \in [Channels -> Levels \cup {Off}]
    /\ cfg \in [Channels -> Levels \cup {Off}]
    /\ {flagging, cfgChanged} \subseteq BOOLEAN
    /\ at \in {"parse", "config", "tick"}
    /\ ch \in [Channels -> Alerts]
    /\ \A i \in Channels : ch[i].active => ch[i].id.occurrence > 0
    /\ edits \in 0 .. MaxEdits
    /\ statusAge \in 0 .. StatusPeriod - 1
    /\ shown \in [Channels -> SUBSET Ids]
    /\ acks \subseteq [channel : Acking, id : Ids]
    /\ lost \in 0 .. MaxLost
    /\ meant \in SUBSET Channels
    /\ forgotten \in [Channels -> SUBSET Ids]

\* "A late acknowledge of an earlier trip doesn't acknowledge the new one"
\* (docs/plans/21:28-30): an alert is acknowledged only by a response that
\* was sent while it was the one raised.
AckMeant == \A i \in Channels : ch[i].acked => i \in meant

\* Whatever the display shows as active is active, or is still going to be
\* reported Normal, however many frames were lost, fewer than the repeats ("a
\* stale alert on an MFD is the failure that matters", docs/plans/21:33) --
\* unless the channel was cleared a second time before the display took the
\* first Normal: then the first alert's repeats are overwritten.
NoGhost ==
    \A i \in Channels : \A id \in shown[i] \ forgotten[i] :
        \/ ch[i].active /\ ch[i].id = id
        \/ ch[i].clearLeft > 0 /\ ch[i].clearId = id

Right(i) == shown[i] \ forgotten[i] = IF pending[i] # Off /\ i \in mask THEN {ch[i].id} ELSE {}

Change == <<mask, pending>>' # <<mask, pending>>

\* Once inputs and settings keep still, the display comes to show exactly the
\* alarms there are -- and the alerts forgotten, if any: no repeat of theirs
\* is left that could take them off it.
DisplayRight == []<><<Change>>_alertVars \/ <>[](\A i \in Channels : Right(i))
=============================================================================
