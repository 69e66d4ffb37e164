------------------------------- MODULE Schedules -------------------------------
(***************************************************************************)
(* Schedules: the settings as they are loaded                              *)
(* (components/device_config/src/device_config.c), their evaluation        *)
(* (components/schedule/src/schedule_eval.c) and what it does to the       *)
(* relays among everything else that switches them.                        *)
(*                                                                         *)
(* The I/O task evaluates once a second and schedules know minutes, so the *)
(* clock, the sun and the settings change at most once between two         *)
(* evaluations; relays may be switched at any time.  The position comes    *)
(* from the source the settings name (position_sk.c, position_n2k.c) or,   *)
(* when that is silent, from the settings; sunrise and sunset there are    *)
(* the environment's.                                                      *)
(***************************************************************************)
EXTENDS Integers

CONSTANTS
    Entries,    \* SCHEDULE_MAX_ENTRIES slots
    Relays,     \* BOARD_CHANNELS
    Week,       \* 7 days
    DayLength,  \* 1440 minutes
    Suns,       \* the sun's days where the boat is: kind, rise, set
    HomeSuns,   \* those at the position in the settings
    Settings    \* the stored entries a save may install

NoRelay == 0

Weekdays == 0 .. Week - 1

Minutes == 0 .. DayLength - 1

\* A time as it is parsed: a minute of the day, an offset of less than a day
\* from the sun, a number of minutes; "bad" is what does not parse.
Time == [kind : {"clock"}, at : Minutes]
        \cup [kind : {"sunrise", "sunset"}, at : 1 - DayLength .. DayLength - 1]
        \cup [kind : {"minutes"}, at : Minutes \ {0}]
        \cup [kind : {"bad"}, at : {0}]

\* schedule_cfg_t.  In repeat mode `on` and `off` are on_min and period_min.
Entry == [relay : Nat, mode : {"clock", "repeat"}, on : Time, off : Time, days : SUBSET Weekdays]

ASSUME SchedulesAssumption ==
    /\ NoRelay \notin Relays /\ Relays \subseteq Nat
    /\ Week \in Nat \ {0, 1} /\ DayLength \in Nat \ {0}
    /\ Suns \cup HomeSuns \subseteq [kind : {"transition", "up", "down"}, rise : Minutes, set : Minutes]
    /\ Settings \subseteq [Entries -> Entry]

VARIABLES
    day, minute,  \* local time
    sunHere,      \* today's sun at the position last received
    sunHome,      \* today's sun at fallback_lat, fallback_lon
    fix,          \* the position received: "none", "fresh", or "stale"
    synced,       \* espos_time_is_synced()
    cfg,          \* s_cfg.schedules
    entry,        \* s.entries
    relays        \* the relays that are on

\* History: has the last change been evaluated, and the relays that should
\* be on by the latest of commands and transitions.
VARIABLES ticked, due

placeVars == <<sunHere, sunHome, fix>>
envVars == <<day, minute, placeVars, synced>>
vars    == <<envVars, cfg, entry, relays, ticked, due>>

(***************************************************************************)
(* device_config_load(): an entry that does not parse, or that names a     *)
(* relay another one names, is disabled.                                   *)
(***************************************************************************)
Parses(e) ==
    IF e.mode = "repeat"
    THEN e.on.kind = "minutes" /\ e.off.kind = "minutes" /\ e.on.at < e.off.at
    ELSE {e.on.kind, e.off.kind} \subseteq {"clock", "sunrise", "sunset"}

\* Mutant: takes any number for a relay.
AnyRelayOf(e) == IF Parses(e) THEN e.relay ELSE NoRelay

RelayOf(e) == IF e.relay \in Relays /\ Parses(e) THEN e.relay ELSE NoRelay

Load(raw) ==
    [i \in Entries |->
        [raw[i] EXCEPT !.relay =
            IF \E j \in Entries \ {i} : RelayOf(raw[j]) = RelayOf(raw[i]) THEN NoRelay ELSE RelayOf(raw[i])]]

\* position_get(): a position no older than 10 minutes, or the settings' own.
Sun == IF fix = "fresh" THEN sunHere ELSE sunHome

(***************************************************************************)
(* resolve_minute(): a boundary that a polar day or night is past is 0,    *)
(* one that never comes is after the day's last minute.                    *)
(***************************************************************************)
ResolveMinute(t) ==
    CASE t.kind = "clock" -> t.at
      [] t.kind # "clock" /\ Sun.kind = "transition" ->
            ((IF t.kind = "sunrise" THEN Sun.rise ELSE Sun.set) + t.at) % DayLength
      [] OTHER -> IF <<Sun.kind, t.kind>> \in {<<"down", "sunset">>, <<"up", "sunrise">>}
                  THEN 0 ELSE DayLength

Yesterday == (day + Week - 1) % Week

\* Mutant: today's mask alone.
ClockActiveToday(e) ==
    LET on  == ResolveMinute(e.on)
        off == ResolveMinute(e.off)
    IN  /\ day \in e.days
        /\ IF on <= off THEN on <= minute /\ minute < off ELSE on <= minute \/ minute < off

\* Mutant: still on in the minute of the off time.
ClockActiveThrough(e) ==
    LET on  == ResolveMinute(e.on)
        off == ResolveMinute(e.off)
    IN  \/ /\ day \in e.days
           /\ IF on <= off THEN on <= minute /\ minute <= off ELSE on <= minute \/ minute <= off
        \/ on > off /\ Yesterday \in e.days /\ minute <= off

ClockActive(e) ==
    LET on  == ResolveMinute(e.on)
        off == ResolveMinute(e.off)
    IN  \/ /\ day \in e.days
           /\ IF on <= off THEN on <= minute /\ minute < off ELSE on <= minute \/ minute < off
        \/ on > off /\ Yesterday \in e.days /\ minute < off

RepeatActive(e) == day \in e.days /\ minute % e.off.at < e.on.at

Active(e) == IF e.mode = "repeat" THEN RepeatActive(e) ELSE ClockActive(e)

(***************************************************************************)
(* schedule_eval_tick().                                                   *)
(***************************************************************************)
Forgotten == [valid |-> FALSE, active |-> FALSE, relay |-> NoRelay]

\* Mutant: an entry moved to another relay waits for its next transition.
ActsOnEdge(i) ==
    /\ cfg[i].relay # NoRelay
    /\ ~entry[i].valid \/ Active(cfg[i]) # entry[i].active

Acts(i) ==
    /\ cfg[i].relay # NoRelay
    /\ ~entry[i].valid \/ Active(cfg[i]) # entry[i].active \/ entry[i].relay # cfg[i].relay

\* The relay may refuse: the expander does not answer.  Nor does a relay come
\* on yet whose interlock partner is on (relay_ctrl.c:377-390): the partner's
\* going off and the "on" after the dead time are Commands.
Tick(refused) ==
    LET acting == {i \in Entries : Acts(i)}
        set    == {cfg[i].relay : i \in acting} \ refused
        on     == {cfg[i].relay : i \in {j \in acting : Active(cfg[j])}}
    IN
    /\ synced
    /\ refused \subseteq {cfg[i].relay : i \in acting}
    /\ relays' = (relays \ set) \cup (on \cap set)
    /\ entry' = [i \in Entries |->
                    IF cfg[i].relay = NoRelay THEN [entry[i] EXCEPT !.valid = FALSE]
                    ELSE IF i \in acting
                    THEN [valid |-> TRUE, active |-> Active(cfg[i]), relay |-> cfg[i].relay]
                    ELSE entry[i]]
    /\ ticked' = TRUE
    /\ due' = (due \ refused) \cup (relays \cap refused)
    /\ UNCHANGED <<envVars, cfg>>

\* No valid time: forget, so that the relays are set once there is.
TickNoTime ==
    /\ ~synced
    /\ entry' = [i \in Entries |-> [entry[i] EXCEPT !.valid = FALSE]]
    /\ ticked' = TRUE
    /\ UNCHANGED <<envVars, cfg, relays, due>>

(***************************************************************************)
(* What should be on: a relay that gets an entry, by an edit or by the     *)
(* clock becoming valid, or whose entry passes its on or off time, goes by *)
(* the entry.                                                              *)
(***************************************************************************)
Serves(i, r) == synced /\ cfg[i].relay = r

Change ==
    /\ ticked' = FALSE
    /\ due' = {r \in Relays :
                 LET turning == {i \in Entries : /\ Serves(i, r)'
                                                 /\ ~Serves(i, r) \/ Active(cfg[i])' # Active(cfg[i])}
                 IN  IF turning = {} THEN r \in due ELSE \E i \in turning : Active(cfg[i])'}

Elapse ==
    /\ ticked
    /\ minute' = (minute + 1) % DayLength
    /\ day' = IF minute' = 0 THEN (day + 1) % Week ELSE day
    /\ UNCHANGED <<placeVars, synced, cfg, entry, relays>>
    /\ Change

\* SNTP, SignalK, a hand on the page, or daylight saving.
SetClock(d, m) ==
    /\ ticked
    /\ day' = d
    /\ minute' = m
    /\ synced' = TRUE
    /\ UNCHANGED <<placeVars, cfg, entry, relays>>
    /\ Change

\* Another day, at sea and at home.
SunMoves(here, home) ==
    /\ ticked
    /\ sunHere' = here
    /\ sunHome' = home
    /\ UNCHANGED <<day, minute, fix, synced, cfg, entry, relays>>
    /\ Change

\* position_sk_on_update(), position_n2k_on_msg(): a position that parses.
PositionReceived(here) ==
    /\ ticked
    /\ sunHere' = here
    /\ fix' = "fresh"
    /\ UNCHANGED <<day, minute, sunHome, synced, cfg, entry, relays>>
    /\ Change

\* Its age passes 10 minutes -- and is counted from 0 again 49.7 days after
\* it was received, when the 32-bit clock has wrapped (position.c:20).
PositionAges ==
    /\ ticked
    /\ \/ fix = "fresh" /\ fix' = "stale"
       \/ fix = "stale" /\ fix' = "fresh"
    /\ UNCHANGED <<day, minute, sunHere, sunHome, synced, cfg, entry, relays>>
    /\ Change

\* The settings are saved, and the I/O task reloads them.
Reload(raw) ==
    /\ ticked
    /\ cfg' = Load(raw)
    /\ UNCHANGED <<envVars, entry, relays>>
    /\ Change

\* Anything else that switches a relay.  Before a transition is evaluated
\* it still counts as before the transition.
Command(r) ==
    LET turning == {cfg[i].relay : i \in {j \in Entries : synced /\ Acts(j)}} IN
    /\ relays' = IF r \in relays THEN relays \ {r} ELSE relays \cup {r}
    /\ due' = IF r \in turning THEN due ELSE (due \ {r}) \cup (relays' \cap {r})
    /\ UNCHANGED <<envVars, cfg, entry, ticked>>

\* What a boot leaves: relays by their own rules, the time from the RTC.
DueAtBoot ==
    {r \in Relays : LET served == {i \in Entries : Serves(i, r)}
                    IN  IF served = {} THEN r \in relays ELSE \E i \in served : Active(cfg[i])}

Restart ==
    /\ relays' \in SUBSET Relays
    /\ synced' \in BOOLEAN
    /\ entry' = [i \in Entries |-> Forgotten]
    /\ ticked' = FALSE
    /\ fix' = "none"
    /\ UNCHANGED <<day, minute, sunHere, sunHome, cfg>>
    /\ due' = DueAtBoot'

Init ==
    /\ day = 0
    /\ minute = 0
    /\ sunHere \in Suns
    /\ sunHome \in HomeSuns
    /\ fix = "none"
    /\ synced \in BOOLEAN
    /\ cfg \in {Load(raw) : raw \in Settings}
    /\ entry = [i \in Entries |-> Forgotten]
    /\ relays \in SUBSET Relays
    /\ ticked = FALSE
    /\ due = DueAtBoot

Next ==
    \/ \E refused \in SUBSET Relays : Tick(refused)
    \/ TickNoTime
    \/ Elapse
    \/ \E d \in Weekdays, m \in Minutes : SetClock(d, m)
    \/ \E here \in Suns, home \in HomeSuns : SunMoves(here, home)
    \/ \E here \in Suns : PositionReceived(here)
    \/ PositionAges
    \/ \E raw \in Settings : Reload(raw)
    \/ \E r \in Relays : Command(r)
    \/ Restart

Spec == Init /\ [][Next]_vars

-----------------------------------------------------------------------------
(***************************************************************************)
(* Properties.                                                             *)
(***************************************************************************)

\* The types of all variables; a loaded entry names a relay there is.
TypeOK ==
    /\ day \in Weekdays
    /\ minute \in Minutes
    /\ sunHere \in Suns /\ sunHome \in HomeSuns
    /\ fix \in {"none", "fresh", "stale"}
    /\ {synced, ticked} \subseteq BOOLEAN
    /\ \A i \in Entries : cfg[i].relay \in Relays \cup {NoRelay}
    /\ entry \in [Entries -> [valid : BOOLEAN, active : BOOLEAN, relay : Relays \cup {NoRelay}]]
    /\ relays \in SUBSET Relays
    /\ due \in SUBSET Relays

\* The reference: a clock entry's window begins on a day of its mask and
\* lasts until the off time, of that day or of the next.
InWindow(e) ==
    LET on  == ResolveMinute(e.on)
        off == ResolveMinute(e.off)
        end == IF on <= off THEN off ELSE off + DayLength
        In(m) == on <= m /\ m < end
    IN  (day \in e.days /\ In(minute)) \/ (Yesterday \in e.days /\ In(minute + DayLength))

Evaluated(i) == ticked /\ synced /\ cfg[i].relay # NoRelay /\ cfg[i].mode = "clock"

\* "A midnight-spanning schedule isn't cut short by the days setting"
\* (USER_MANUAL.md:606): however clock, sun and settings got here, an entry
\* is active throughout every window that began on a day it names.
WindowServed == \A i \in Entries : Evaluated(i) /\ InWindow(cfg[i]) => entry[i].active

\* "An off time earlier than the on time means the schedule runs overnight"
\* (USER_MANUAL.md:314).
Overnight(e) == ResolveMinute(e.on) > ResolveMinute(e.off)

\* The other direction: an entry is active in no window that did not begin on
\* a day it names ("Which days of the week this entry runs",
\* USER_MANUAL.md:315), if it does not run overnight or names every day.  Of
\* overnight entries of some days only it is false: see FirstNight.
NeverOutside ==
    \A i \in Entries :
        /\ Evaluated(i) /\ entry[i].active
        /\ Overnight(cfg[i]) => cfg[i].days = Weekdays
        => InWindow(cfg[i])

\* The early hours of a day that an overnight entry names and whose eve it
\* does not: between the windows the manual describes, but schedule_eval.c:97-98
\* takes them for the end of one.
FirstNight(i) ==
    /\ Evaluated(i) /\ Overnight(cfg[i])
    /\ day \in cfg[i].days /\ Yesterday \notin cfg[i].days
    /\ minute < ResolveMinute(cfg[i].off)

\* After every evaluation a relay is as the latest of these left it: its
\* entry's on or off time, its entry being given to it, the clock becoming
\* valid, a command ("between two scheduled transitions, a manual command
\* ... stands", USER_MANUAL.md:323).  A refused switch is not made up for.
RelaysAsDue == ticked => relays = due
=============================================================================
