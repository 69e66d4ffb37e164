------------------------------ MODULE InputSense ------------------------------
(***************************************************************************)
(* The digital inputs (components/input_sense/src/input_sense.c): polled,  *)
(* debounced, optionally inverted, reported to listeners, and applied to   *)
(* the relays that name an input as their override.                        *)
(*                                                                         *)
(* input_sense_poll() and input_sense_update_config() run on the I/O task  *)
(* only, so each is one action.  A time stamp is the age it has reached,   *)
(* counted up to the longest time the code compares it with.  Sets of      *)
(* inputs are the code's bit masks.                                        *)
(***************************************************************************)
EXTENDS Integers

CONSTANTS
    Inputs, Relays,
    Configs,      \* the configurations a save may install
    Debounce,     \* the longest debounce_ms, in units of time
    Grace,        \* STARTUP_GRACE_MS, in units of time
    Restarts      \* may the device restart?

\* override_di = 0
NoInput == 0

(***************************************************************************)
(* device_config_t, as far as the inputs go: debounce_ms, and a relay's    *)
(* override input (override_di) and whether its link toggles it instead of *)
(* following.                                                              *)
(***************************************************************************)
Config == [ debounce : 1 .. Debounce,
            invert : SUBSET Inputs,
            source : [Relays -> Inputs \cup {NoInput}],
            toggle : SUBSET Relays ]

ASSUME InputAssumption ==
    /\ NoInput \notin Inputs
    /\ Configs \subseteq Config
    /\ Debounce \in Nat \ {0}
    /\ Grace \in Nat
    /\ Restarts \in BOOLEAN

VARIABLES
    pins,       \* the energised input pins
    cfg,        \* s.cfg
    candidate,  \* s.candidate
    steady,     \* now - s.candidate_since[]
    stable,     \* s.stable, and s.published once ready
    late,       \* s.late
    ready,      \* s.ready
    bootAge,    \* now - s.start_ms
    relays,     \* relay_ctrl: the loads that are on
    heard       \* the inputs that the listeners were last told are on

\* History: what the properties compare with.
VARIABLES
    pin,        \* the level each input last settled at, since the boot
    own,        \* relays commanded or re-linked since their last override,
                \* or which that override did not switch
    tardy       \* inputs whose boot reading came late, until the next reading

stateVars == <<cfg, candidate, steady, stable, late, ready, bootAge, heard>>
history   == <<pin, own, tardy>>
senseVars == <<pins, stateVars, relays, history>>

Levels == {"low", "high", "unknown"}

BootTime == Debounce + Grace

\* Exclusive or of two masks.
Differ(S, T) == (S \ T) \cup (T \ S)

ReadInput(c) == Differ(pins, c.invert)

LevelOf(i) == IF i \in pins THEN "high" ELSE "low"

Followers(c, S) == {r \in Relays \ c.toggle : c.source[r] \in S}

Toggled(c, S) == {r \in c.toggle : c.source[r] \in S}

(***************************************************************************)
(* apply_override() for the inputs S, of which `on` are on; for those of   *)
(* `boot` this is the boot reading.                                        *)
(***************************************************************************)
\* Mutants: counts the relays from 0; passes on the
\* switching on only.
OverriddenFromZero(S, on, boot) ==
    Differ((relays \ Followers(cfg, S \ on)) \cup {r - 1 : r \in Followers(cfg, S \cap on)},
           Toggled(cfg, (S \cap on) \ boot))

OverriddenOnOnly(S, on, boot) ==
    Differ(relays \cup Followers(cfg, S \cap on), Toggled(cfg, (S \cap on) \ boot))

Overridden(S, on, boot) ==
    Differ((relays \ Followers(cfg, S \ on)) \cup Followers(cfg, S \cap on),
           Toggled(cfg, (S \cap on) \ boot))

\* The result of s.override() is ignored (input_sense.c:63, :66): the
\* transfer fails, or the interlock's dead time puts an "on" off
\* (relay_ctrl.c:377-390).  These relays are left as they are and the override
\* is not repeated; a partner that goes off, and the "on" that comes later,
\* are Commands.
Override(S, on, boot) ==
    \E refused \in SUBSET Differ(relays, Overridden(S, on, boot)) :
        /\ relays' = (Overridden(S, on, boot) \ refused) \cup (relays \cap refused)
        /\ own' = (own \ Followers(cfg, S)) \cup (refused \cap Followers(cfg, S))

(***************************************************************************)
(* input_sense_poll().                                                     *)
(***************************************************************************)
\* How long start-up waits for the inputs.
StartupWait == cfg.debounce + Grace

AgeNow == [i \in Inputs |-> IF i \in Differ(ReadInput(cfg), candidate) THEN 0 ELSE steady[i]]

Settled == {i \in Inputs : AgeNow[i] >= cfg.debounce}

Sample ==
    /\ candidate' = ReadInput(cfg)
    /\ steady' = AgeNow
    /\ UNCHANGED <<pins, cfg, bootAge>>

\* Start-up still waits for the inputs to settle.
PollWaiting ==
    /\ ~ready
    /\ Settled # Inputs
    /\ bootAge < StartupWait
    /\ Sample
    /\ UNCHANGED <<stable, late, ready, heard, relays, history>>

\* Mutant: start-up waits for every input, however long it takes.
PollFirstAll ==
    LET on == Settled \cap ReadInput(cfg) IN
    /\ ~ready
    /\ Settled = Inputs
    /\ Sample
    /\ stable' = on
    /\ late' = {}
    /\ ready' = TRUE
    /\ heard' = on
    /\ Override(Inputs, on, Inputs)
    /\ pin' = [i \in Inputs |-> LevelOf(i)]
    /\ tardy' = {}

\* The first stable readings: report every input, then apply the overrides
\* of the settled ones.
PollFirst ==
    LET on == Settled \cap ReadInput(cfg) IN
    /\ ~ready
    /\ Settled = Inputs \/ bootAge >= StartupWait
    /\ Sample
    /\ stable' = on
    /\ late' = Inputs \ Settled
    /\ ready' = TRUE
    /\ heard' = on
    /\ Override(Settled, stable', Settled)
    /\ pin' = [i \in Inputs |-> IF i \in Settled THEN LevelOf(i) ELSE "unknown"]
    /\ tardy' = Inputs \ Settled

PollReady ==
    LET changed == Settled \cap Differ(ReadInput(cfg), stable)
        boot    == late \cap Settled
    IN
    /\ ready
    /\ Sample
    /\ stable' = Differ(stable, changed)
    /\ late' = late \ Settled
    /\ heard' = Differ(heard \ changed, stable' \cap changed)
    /\ Override(changed, stable', boot)
    /\ pin' = [i \in Inputs |-> IF i \in Settled THEN LevelOf(i) ELSE pin[i]]
    /\ tardy' = tardy \ changed
    /\ UNCHANGED ready

Poll == PollWaiting \/ PollFirst \/ PollReady

(***************************************************************************)
(* input_sense_update_config(): a changed invert turns the meaning of an   *)
(* unchanged pin over and is reported at once.                             *)
(***************************************************************************)
\* Mutants: leaves the settled state to the next poll; tells no listener.
FlipLazily(flipped) ==
    /\ candidate' = Differ(candidate, flipped)
    /\ UNCHANGED <<stable, heard>>

FlipSilently(flipped) ==
    /\ candidate' = Differ(candidate, flipped)
    /\ stable' = IF ready THEN Differ(stable, flipped) ELSE stable
    /\ UNCHANGED heard

Flip(flipped) ==
    /\ candidate' = Differ(candidate, flipped)
    /\ IF ready
       THEN /\ stable' = Differ(stable, flipped)
            /\ heard' = Differ(heard \ flipped, stable' \cap flipped)
       ELSE UNCHANGED <<stable, heard>>

UpdateConfig(c) ==
    LET flipped  == Differ(c.invert, cfg.invert)
        relinked == {r \in Relays : \/ c.source[r] # cfg.source[r]
                                    \/ (r \in c.toggle) # (r \in cfg.toggle)}
    IN
    /\ c # cfg
    /\ cfg' = c
    /\ Flip(flipped)
    /\ own' = own \cup relinked \cup Followers(c, flipped)
    /\ UNCHANGED <<pins, steady, late, ready, bootAge, relays, pin, tardy>>

(***************************************************************************)
(* Around it: pins, other sources of commands, time, restarts.             *)
(***************************************************************************)
PinChange ==
    /\ pins' \in SUBSET Inputs \ {pins}
    /\ UNCHANGED <<stateVars, relays, history>>

\* A command from SignalK, NMEA 2000, the web page or a schedule.
Command(r) ==
    /\ relays' = Differ(relays, {r})
    /\ own' = own \cup {r}
    /\ UNCHANGED <<pins, stateVars, pin, tardy>>

SenseElapse ==
    /\ steady' = [i \in Inputs |-> IF steady[i] < Debounce THEN steady[i] + 1 ELSE steady[i]]
    /\ bootAge' = IF bootAge < BootTime THEN bootAge + 1 ELSE bootAge
    /\ UNCHANGED <<pins, cfg, candidate, stable, late, ready, heard, relays, history>>

\* A restart: relay_ctrl has restored what it holds when input_sense_init()
\* takes the first sample.
Restart ==
    /\ Restarts
    /\ candidate' = ReadInput(cfg)
    /\ steady' = [i \in Inputs |-> 0]
    /\ stable' = {}
    /\ late' = {}
    /\ ready' = FALSE
    /\ bootAge' = 0
    /\ heard' = {}
    /\ relays' \in SUBSET relays
    /\ pin' = [i \in Inputs |-> "unknown"]
    /\ own' = {}
    /\ tardy' = {}
    /\ UNCHANGED <<pins, cfg>>

SenseInit ==
    /\ pins \in SUBSET Inputs
    /\ cfg \in Configs
    /\ candidate = ReadInput(cfg)
    /\ steady = [i \in Inputs |-> 0]
    /\ stable = {}
    /\ late = {}
    /\ ready = FALSE
    /\ bootAge = 0
    /\ heard = {}
    /\ relays \in SUBSET Relays
    /\ pin = [i \in Inputs |-> "unknown"]
    /\ own = {}
    /\ tardy = {}

SaveSettings == \E c \in Configs : UpdateConfig(c)

SenseNext ==
    \/ Poll
    \/ SaveSettings
    \/ PinChange
    \/ \E r \in Relays : Command(r)
    \/ SenseElapse
    \/ Restart

SenseSpec == SenseInit /\ [][SenseNext]_senseVars

\* The I/O task polls every 10 ms for as long as it runs, and time passes.
SenseFairSpec == SenseSpec /\ WF_senseVars(Poll) /\ WF_senseVars(SenseElapse)

-----------------------------------------------------------------------------
(***************************************************************************)
(* Properties.                                                             *)
(***************************************************************************)

\* The types of all variables.
SenseTypeOK ==
    /\ pins \in SUBSET Inputs
    /\ cfg \in Configs
    /\ candidate \in SUBSET Inputs
    /\ steady \in [Inputs -> 0 .. Debounce]
    /\ stable \in SUBSET Inputs
    /\ late \in SUBSET Inputs
    /\ ready \in BOOLEAN
    /\ bootAge \in 0 .. BootTime
    /\ relays \in SUBSET Relays
    /\ heard \in SUBSET Inputs
    /\ pin \in [Inputs -> Levels]
    /\ own \in SUBSET Relays
    /\ tardy \in SUBSET Inputs

\* The reported state and the pin say the same of every settled input, edits
\* of `invert` between and during changes included; and the listeners
\* (SignalK, counters, indicator) have been told of it.
ReportsTruth ==
    ready =>
        /\ heard = stable
        /\ \A i \in Inputs \ late :
              (i \in stable) = ((pin[i] = "high") # (i \in cfg.invert))

\* A relay that follows an input is in the input's state unless another
\* source commanded it, its link or the input's meaning was edited, or the
\* override itself failed or was put off, since the input last changed
\* (SPEC.md section 2) -- for inputs that settled during start-up.
Obeys(r) == (r \in relays) = (cfg.source[r] \in stable)

FollowsInput ==
    ready => \A r \in Followers(cfg, Inputs \ (late \cup tardy)) : r \in own \/ Obeys(r)

\* A poll switches a relay only for a pin that really changed: it has settled
\* at another level than it last settled at, or at its first one, which a
\* toggle link ignores.  Saved settings switch nothing, neither at once nor
\* by what they do to a later poll.
OnlyRealChanges ==
    [][Poll => \A r \in Differ(relays, relays') :
                  LET i == cfg.source[r] IN
                  /\ pin'[i] # pin[i]
                  /\ r \in cfg.toggle => pin[i] # "unknown"]_senseVars

\* An input that stops changing ends up reported as it is, also when another
\* one never stops bouncing (start-up gives up on that one).
SteadyIsReported ==
    \A i \in Inputs :
        \/ []<><<SaveSettings \/ Restart>>_senseVars
        \/ []<><<PinChange /\ i \in Differ(pins, pins')>>_senseVars
        \/ <>[](ready /\ i \notin Differ(stable, ReadInput(cfg)) \cup Differ(stable, heard))
=============================================================================
