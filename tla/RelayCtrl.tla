------------------------------ MODULE RelayCtrl ------------------------------
(***************************************************************************)
(* The relay controller (components/relay_ctrl/src/relay_ctrl.c) with the  *)
(* TCA9554 port expander below it (tca9554.c) and the flash store of the   *)
(* `hold` relays (relay_hw.c).                                             *)
(*                                                                         *)
(* Every public function runs under one mutex, so each is one action here: *)
(* Set, Toggle, SkLost, UpdateConfig, Tick and Boot (relay_ctrl_init).     *)
(* Listeners are called after the mutex is given back and are the subject  *)
(* of module RelayListeners.  The ESP32 may restart at any moment (Crash); *)
(* the expander and the flash survive that, a PowerCut spares the flash    *)
(* only.                                                                   *)
(*                                                                         *)
(* Bit masks are sets of relays.  A deadline `x_end[i]` together with its  *)
(* bit in the mask `x` is one countdown: Idle when the bit is clear, else  *)
(* the time left, 0 once the deadline has passed.  Elapse is the passage   *)
(* of one unit of time.                                                    *)
(***************************************************************************)
EXTENDS Integers

CONSTANTS
    Relays,            \* the relay channels
    Configs,           \* the validated configurations a save may install
    SaveDelay,         \* RELAY_CTRL_SAVE_DELAY_MS, in units of time
    BusFaults,         \* may a transfer to or from the expander fail?
    FlashFaults,       \* may saving the hold state fail?
    LoadFaults,        \* may reading it at boot fail?
    EditWhileWaiting,  \* may settings be saved during a dead time?
    Restarts           \* may the device restart or lose power?

Idle  == -1
Timer == Nat \cup {Idle}

(***************************************************************************)
(* device_config_t, as far as relay_ctrl reads it.  partner[i] holds       *)
(* relay i's interlock partner, or nothing.                                *)
(***************************************************************************)
Config == [ momentary : SUBSET Relays,          \* mode
            holds     : SUBSET Relays,          \* failsafe = FAILSAFE_HOLD
            wiredNc   : SUBSET Relays,
            partner   : [Relays -> SUBSET Relays],
            pulseMs   : [Relays -> Nat],
            maxOn     : [Relays -> Nat],        \* 0 = no limit
            deadMs    : Nat ]

(***************************************************************************)
(* device_config_load() keeps an interlock only when both relays name each *)
(* other, and none of a relay with itself (device_config.c:316-337).       *)
(***************************************************************************)
ASSUME ConfigAssumption ==
    /\ Configs \subseteq Config
    /\ \A c \in Configs : \A i, j \in Relays :
          j \in c.partner[i] => j # i /\ i \in c.partner[j]

ASSUME SwitchAssumption ==
    /\ SaveDelay \in Nat
    /\ BusFaults \in BOOLEAN
    /\ FlashFaults \in BOOLEAN
    /\ LoadFaults \in BOOLEAN
    /\ EditWhileWaiting \in BOOLEAN
    /\ Restarts \in BOOLEAN

VARIABLES
    up,           \* relay_ctrl_init() has run since the last reset
    cfg,          \* s.cfg
    mask,         \* s.mask: the coils, as last confirmed on the chip
    pulse,        \* s.pulsing, s.pulse_end[]
    limit,        \* s.limited, s.max_on_end[]
    wait,         \* s.pending_on, s.pending_on_end[]
    savePending,  \* s.save_pending
    saveAge,      \* now - s.last_save_ms, no larger than SaveDelay
    fault,        \* s.i2c_fault, the "relayExpander" alarm
    warned,       \* the relays named by the interlock warning
    chip,         \* the expander's OUTPUT register
    driven,       \* the expander's CONFIG register is 0: pins are outputs
    store         \* the hold state in flash

ram  == <<up, cfg, mask, pulse, limit, wait, savePending, saveAge, fault, warned>>
vars == <<ram, chip, driven, store>>

(***************************************************************************)
(* Helpers on configurations and timers.                                   *)
(***************************************************************************)
HoldMask(c) == c.holds \ c.momentary

MaxOn(c, i) == IF i \in c.momentary THEN 0 ELSE c.maxOn[i]

ConflictsIn(c, m) == {i \in m : c.partner[i] \cap m # {}}

PairSafe(c, m) == ConflictsIn(c, m) = {}

Running(timer) == {i \in Relays : timer[i] # Idle}

Due(timer) == {i \in Relays : timer[i] = 0}

Stopped == [i \in Relays |-> Idle]

Stop(timer, S) == [i \in Relays |-> IF i \in S THEN Idle ELSE timer[i]]

Start(timer, S, length) == [i \in Relays |-> IF i \in S THEN length[i] ELSE timer[i]]

TrackMaxOn(c, m, before, restart, timer) ==
    [i \in Relays |-> IF i \notin m \/ MaxOn(c, i) = 0 THEN Idle
                      ELSE IF i \notin before \/ i \in restart THEN MaxOn(c, i)
                      ELSE timer[i]]

(***************************************************************************)
(* commit_locked(): the boards that may result from bringing board b to    *)
(* the coils t.  The commit returned ESP_OK exactly when the result's mask *)
(* is t.  Nothing is written when t is already the confirmed state; after  *)
(* two failed attempts the chip may or may not have taken the value (a     *)
(* lost acknowledge, a failed or differing read-back).                     *)
(***************************************************************************)
Board == [mask |-> mask, chip |-> chip, fault |-> fault, save |-> savePending]

\* Mutants: assigns save_pending instead of raising it; raises no alarm.
CommitsForgetful(b, t, hold) ==
    IF t = b.mask
    THEN {b}
    ELSE {[mask |-> t, chip |-> t, fault |-> FALSE, save |-> (t \cap hold) # (b.mask \cap hold)]}
         \cup {[b EXCEPT !.chip = c, !.fault = TRUE] : c \in IF BusFaults THEN {b.chip, t} ELSE {}}

CommitsSilently(b, t, hold) ==
    IF t = b.mask
    THEN {b}
    ELSE {[mask |-> t, chip |-> t, fault |-> FALSE,
           save |-> b.save \/ (t \cap hold) # (b.mask \cap hold)]}
         \cup {[b EXCEPT !.chip = c] : c \in IF BusFaults THEN {b.chip, t} ELSE {}}

Commits(b, t, hold) ==
    IF t = b.mask
    THEN {b}
    ELSE {[mask  |-> t,
           chip  |-> t,
           fault |-> FALSE,
           save  |-> b.save \/ (t \cap hold) # (b.mask \cap hold)]}
         \cup
         {[b EXCEPT !.chip = c, !.fault = TRUE] :
              c \in IF BusFaults THEN {b.chip, t} ELSE {}}

SetBoard(b) ==
    /\ mask' = b.mask
    /\ chip' = b.chip
    /\ fault' = b.fault
    /\ savePending' = b.save

(***************************************************************************)
(* relay_ctrl_set() and relay_ctrl_toggle(): the four ways through         *)
(* set_or_toggle().                                                        *)
(***************************************************************************)
\* Mutant: drops the timers even when the relay could not be switched off.
SwitchOffUnchecked(i) ==
    /\ \E b \in Commits(Board, mask \ {i}, HoldMask(cfg)) : SetBoard(b)
    /\ pulse' = Stop(pulse, {i})
    /\ limit' = TrackMaxOn(cfg, mask \ {i}, mask, {}, limit)
    /\ wait' = Stop(wait, {i})

SwitchOff(i) ==
    /\ \E b \in Commits(Board, mask \ {i}, HoldMask(cfg)) :
          /\ SetBoard(b)
          /\ IF b.mask = mask \ {i}
             THEN /\ pulse' = Stop(pulse, {i})
                  /\ limit' = TrackMaxOn(cfg, b.mask, mask, {}, limit)
             ELSE UNCHANGED <<pulse, limit>>
    /\ wait' = Stop(wait, {i})

\* Mutants: switches over without the dead time; waits though the partner
\* could not be switched off.
SwitchOver(i) ==
    LET partner == cfg.partner[i]
        over    == (mask \ partner) \cup {i} IN
    /\ partner \cap mask # {}
    /\ \E b \in Commits(Board, over, HoldMask(cfg)) : SetBoard(b)
    /\ pulse' = Start(Stop(pulse, partner), {i} \cap cfg.momentary, cfg.pulseMs)
    /\ limit' = TrackMaxOn(cfg, over, mask, {i}, limit)
    /\ wait' = Stop(wait, partner)

SwitchOnAfterPartnerUnchecked(i) ==
    LET partner == cfg.partner[i] IN
    /\ partner \cap mask # {}
    /\ \E b \in Commits(Board, mask \ partner, HoldMask(cfg)) :
          /\ SetBoard(b)
          /\ IF b.mask = mask \ partner
             THEN /\ pulse' = Stop(pulse, partner)
                  /\ limit' = TrackMaxOn(cfg, b.mask, mask, {}, limit)
             ELSE UNCHANGED <<pulse, limit>>
    /\ wait' = [Stop(wait, partner) EXCEPT ![i] = cfg.deadMs]

SwitchOnAfterPartner(i) ==
    LET partner == cfg.partner[i] IN
    /\ partner \cap mask # {}
    /\ \E b \in Commits(Board, mask \ partner, HoldMask(cfg)) :
          /\ SetBoard(b)
          /\ IF b.mask = mask \ partner
             THEN /\ pulse' = Stop(pulse, partner)
                  /\ limit' = TrackMaxOn(cfg, b.mask, mask, {}, limit)
                  /\ wait' = [Stop(wait, partner) EXCEPT ![i] = cfg.deadMs]
             ELSE UNCHANGED <<pulse, limit, wait>>

SwitchOnNow(i) ==
    LET on == mask \cup {i} IN
    /\ cfg.partner[i] \cap mask = {}
    /\ wait[i] = Idle
    /\ \E b \in Commits(Board, on, HoldMask(cfg)) :
          /\ SetBoard(b)
          /\ IF b.mask = on
             THEN /\ pulse' = Start(pulse, {i} \cap cfg.momentary, cfg.pulseMs)
                  /\ limit' = TrackMaxOn(cfg, on, mask, {i}, limit)
                  /\ wait' = Stop(wait, cfg.partner[i])
             ELSE UNCHANGED <<pulse, limit, wait>>

\* A repeated "on" while waiting out the dead time changes nothing.
SwitchOnWaiting(i) ==
    /\ cfg.partner[i] \cap mask = {}
    /\ wait[i] # Idle
    /\ UNCHANGED <<mask, chip, fault, savePending, pulse, limit, wait>>

Switch(i, on) ==
    /\ up
    /\ \/ ~on /\ SwitchOff(i)
       \/ on /\ (SwitchOnAfterPartner(i) \/ SwitchOnNow(i) \/ SwitchOnWaiting(i))
    /\ UNCHANGED <<up, cfg, saveAge, warned, driven, store>>

\* The request is the load's state; the coil's is the opposite on a relay
\* wired to its normally closed terminal.
Set(i, request) == Switch(i, request # (i \in cfg.wiredNc))

Toggle(i) == Switch(i, i \notin mask)

(***************************************************************************)
(* relay_ctrl_sk_lost(): fail-safe after the SignalK grace period.         *)
(***************************************************************************)
SkLost ==
    LET hold == HoldMask(cfg) IN
    /\ up
    /\ \E b \in Commits(Board, mask \cap hold, hold) :
          /\ SetBoard(b)
          /\ IF b.mask = mask \cap hold
             THEN /\ pulse' = Stop(pulse, Relays \ hold)
                  /\ limit' = TrackMaxOn(cfg, b.mask, mask, {}, limit)
             ELSE UNCHANGED <<pulse, limit>>
    /\ wait' = Stop(wait, Relays \ hold)
    /\ UNCHANGED <<up, cfg, saveAge, warned, driven, store>>

(***************************************************************************)
(* relay_ctrl_update_config(): settings were saved while running.          *)
(***************************************************************************)
\* Mutant: no pulse for a relay that becomes momentary while it is on.
PulsesKept(c) == Stop(pulse, Relays \ c.momentary)

PulsesUnder(c) ==
    Start(Stop(pulse, Relays \ c.momentary),
          {i \in c.momentary \cap mask : pulse[i] = Idle},
          c.pulseMs)

UpdateConfig(c) ==
    LET changed  == {i \in Relays : MaxOn(c, i) # MaxOn(cfg, i)}
        limits   == TrackMaxOn(c, mask, mask, changed, limit)
        conflict == ConflictsIn(c, mask)
        dirty    == savePending \/ HoldMask(c) # HoldMask(cfg)
    IN
    /\ up
    /\ EditWhileWaiting \/ Running(wait) = {} \/ c.partner = cfg.partner
    /\ cfg' = c
    /\ \E b \in Commits([Board EXCEPT !.save = dirty], mask \ conflict, HoldMask(c)) :
          /\ SetBoard(b)
          /\ IF b.mask = mask \ conflict
             THEN /\ pulse' = Stop(PulsesUnder(c), conflict)
                  /\ wait' = Stop(wait, conflict)
                  /\ limit' = TrackMaxOn(c, b.mask, mask, {}, limits)
                  /\ warned' = conflict
             ELSE /\ pulse' = PulsesUnder(c)
                  /\ wait' = wait
                  /\ limit' = limits
                  /\ warned' = {}
    /\ UNCHANGED <<up, saveAge, driven, store>>

(***************************************************************************)
(* relay_ctrl_tick(), every 10 ms on the I/O task: end pulses, then        *)
(* maximum on-times, then dead times, then save the hold state when due.   *)
(***************************************************************************)
EndPulses(b) == Commits(b, b.mask \ Due(pulse), HoldMask(cfg))

EndMaxOn(b) == Commits(b, b.mask \ Due(limit), HoldMask(cfg))

\* Of the relays whose dead time is over, those with the partner's coil off.
Fired(b) == {i \in Due(wait) : cfg.partner[i] \cap b.mask = {}}

EndDeadTimes(b) == Commits(b, b.mask \cup Fired(b), HoldMask(cfg))

SaveHoldState(b) ==
    IF b.save /\ saveAge = SaveDelay
    THEN /\ saveAge' = 0
         /\ \/ /\ store' = b.mask \cap HoldMask(cfg)
               /\ savePending' = FALSE
            \/ /\ FlashFaults
               /\ store' = store
               /\ savePending' = b.save
    ELSE /\ savePending' = b.save
         /\ UNCHANGED <<store, saveAge>>

TickOutcome(b1, b2, b3) ==
    LET ended   == IF b1.mask = mask \ Due(pulse) THEN Due(pulse) ELSE {}
        expired == IF b2.mask = b1.mask \ Due(limit) THEN Due(limit) ELSE {}
        fired   == IF b3.mask = b2.mask \cup Fired(b2) THEN Fired(b2) ELSE {}
        dropped == Due(wait) \ Fired(b2)
        limits  == Stop(limit, expired)
    IN
    /\ mask' = b3.mask
    /\ chip' = b3.chip
    /\ fault' = b3.fault
    /\ pulse' = Start(Stop(pulse, ended), fired \cap cfg.momentary, cfg.pulseMs)
    /\ limit' = IF fired = {} THEN limits
                ELSE TrackMaxOn(cfg, b3.mask, b2.mask, fired, limits)
    /\ wait' = Stop(wait, fired \cup dropped)
    /\ SaveHoldState(b3)

Tick ==
    /\ up
    /\ \E b1 \in EndPulses(Board) : \E b2 \in EndMaxOn(b1) : \E b3 \in EndDeadTimes(b2) :
          TickOutcome(b1, b2, b3)
    /\ UNCHANGED <<up, cfg, warned, driven>>

(***************************************************************************)
(* Restarts.  Boot is relay_ctrl_init(): a warm boot finds the expander    *)
(* still driving its outputs, a cold one finds it as its power-up left it. *)
(***************************************************************************)
RamCleared ==
    /\ mask' = {}
    /\ pulse' = Stopped
    /\ limit' = Stopped
    /\ wait' = Stopped
    /\ savePending' = FALSE
    /\ saveAge' = SaveDelay
    /\ fault' = FALSE
    /\ warned' = {}

Crash ==
    /\ Restarts
    /\ up
    /\ up' = FALSE
    /\ RamCleared
    /\ UNCHANGED <<cfg, chip, driven, store>>

PowerCut ==
    /\ Restarts
    /\ up' = FALSE
    /\ chip' = Relays
    /\ driven' = FALSE
    /\ RamCleared
    /\ UNCHANGED <<cfg, store>>

\* What a boot finds: on a cold one the hold state, or nothing if it cannot
\* be read.
Found == IF driven THEN {chip} ELSE {store} \cup (IF LoadFaults THEN {{}} ELSE {})

\* found is in Found.
BootRestored(c, found) ==
    LET held     == found \cap HoldMask(c)
        conflict == ConflictsIn(c, held)
        target   == held \ conflict
    IN
    /\ mask' = target
    /\ chip' = target
    /\ driven' = TRUE
    /\ limit' = TrackMaxOn(c, target, {}, {}, Stopped)
    /\ savePending' = (driven \/ conflict # {})
    /\ warned' = conflict
    /\ fault' = FALSE

\* Mutant: writes the held state before it is checked for conflicts.
BootFailedAsStored(c, found) ==
    LET held == found \cap HoldMask(c) IN
    /\ BusFaults
    /\ mask' = {}
    /\ limit' = Stopped
    /\ savePending' = FALSE
    /\ warned' = {}
    /\ fault' = TRUE
    /\ \/ UNCHANGED <<chip, driven>>
       \/ chip' = held /\ driven' \in {driven, TRUE}

\* Some transfer failed: a register read, the OUTPUT write (which may have
\* landed all the same), or on a cold boot the CONFIG write (likewise).
BootFailed(c, found) ==
    LET held   == found \cap HoldMask(c)
        target == held \ ConflictsIn(c, held)
    IN
    /\ BusFaults
    /\ mask' = {}
    /\ limit' = Stopped
    /\ savePending' = FALSE
    /\ warned' = {}
    /\ fault' = TRUE
    /\ \/ UNCHANGED <<chip, driven>>
       \/ chip' = target /\ driven' \in {driven, TRUE}

Boot(c) ==
    /\ ~up
    /\ up' = TRUE
    /\ cfg' = c
    /\ \E found \in Found : BootRestored(c, found) \/ BootFailed(c, found)
    /\ pulse' = Stopped
    /\ wait' = Stopped
    /\ saveAge' = SaveDelay
    /\ UNCHANGED store

(***************************************************************************)
(* One unit of time passes.                                                *)
(***************************************************************************)
\* Mutant: counts stopped timers too.
CountDownAll(timer) == [i \in Relays |-> IF timer[i] # 0 THEN timer[i] - 1 ELSE 0]

CountDown(timer) == [i \in Relays |-> IF timer[i] > 0 THEN timer[i] - 1 ELSE timer[i]]

Elapse ==
    /\ up
    /\ pulse' = CountDown(pulse)
    /\ limit' = CountDown(limit)
    /\ wait' = CountDown(wait)
    /\ saveAge' = IF saveAge < SaveDelay THEN saveAge + 1 ELSE saveAge
    /\ UNCHANGED <<up, cfg, mask, savePending, fault, warned, chip, driven, store>>

(***************************************************************************)
(* Before the first boot: the expander has its power-up registers, the     *)
(* flash whatever an earlier firmware left there.                          *)
(***************************************************************************)
Init ==
    /\ up = FALSE
    /\ cfg \in Configs
    /\ mask = {}
    /\ pulse = Stopped
    /\ limit = Stopped
    /\ wait = Stopped
    /\ savePending = FALSE
    /\ saveAge = SaveDelay
    /\ fault = FALSE
    /\ warned = {}
    /\ chip = Relays
    /\ driven = FALSE
    /\ store \in SUBSET Relays

Command(i) == Toggle(i) \/ \E request \in BOOLEAN : Set(i, request)

Next ==
    \/ \E i \in Relays : Command(i)
    \/ SkLost
    \/ \E c \in Configs : UpdateConfig(c)
    \/ Tick
    \/ Elapse
    \/ Crash
    \/ PowerCut
    \/ \E c \in Configs : Boot(c)

Spec == Init /\ [][Next]_vars

(***************************************************************************)
(* The I/O task calls relay_ctrl_tick() every 10 ms for as long as it runs *)
(* (main.c:410-442), and time passes.  Commands, config saves, restarts    *)
(* and SignalK losses may or may not come.                                 *)
(***************************************************************************)
FairSpec == Spec /\ WF_vars(Elapse) /\ WF_vars(Tick) /\ WF_vars(\E c \in Configs : Boot(c))

-----------------------------------------------------------------------------
(***************************************************************************)
(* Properties.                                                             *)
(***************************************************************************)

Coils == IF driven THEN chip ELSE {}

\* The types of all variables; the board drives no relay it does not have.
TypeOK ==
    /\ up \in BOOLEAN
    /\ cfg \in Configs
    /\ mask \in SUBSET Relays
    /\ pulse \in [Relays -> Timer]
    /\ limit \in [Relays -> Timer]
    /\ wait \in [Relays -> Timer]
    /\ savePending \in BOOLEAN
    /\ saveAge \in 0 .. SaveDelay
    /\ fault \in BOOLEAN
    /\ warned \in SUBSET Relays
    /\ chip \in SUBSET Relays
    /\ driven \in BOOLEAN
    /\ store \in SUBSET Relays

\* Two interlocked coils are never energized together (SPEC.md section 2),
\* neither on the expander's pins nor in the controller's own mask.
Interlock == PairSafe(cfg, Coils) /\ PairSafe(cfg, mask)

\* No relay waits out a dead time with its coil or its partner's coil on, or
\* while its partner waits too: whichever command came last has cancelled the
\* other (relay_ctrl.c:396, :414), so the tick's safety net never has to.
WaitExclusive ==
    \A i \in Running(wait) :
        /\ i \notin mask
        /\ cfg.partner[i] \cap (mask \cup Running(wait)) = {}

(***************************************************************************)
(* When interlocked pairs are safe: the pairs are never edited, whatever   *)
(* else fails; or they are, but never during a dead time and on a working  *)
(* bus.  (An edit during a dead time can pair two relays that both wait:   *)
(* the tick looks at the partner's coil only, relay_ctrl.c:534, and turns  *)
(* both on.)                                                               *)
(***************************************************************************)
PairingFixed == \A c, e \in Configs : c.partner = e.partner

CarefulEdits == ~BusFaults /\ ~EditWhileWaiting

\* The inductive invariant behind Interlock.
InterlockInv ==
    /\ PairSafe(cfg, mask)
    /\ driven => PairSafe(cfg, chip)
    /\ ~BusFaults /\ up => driven /\ chip = mask
    /\ WaitExclusive

\* Momentary relays that are on have a pulse running and nothing else has;
\* latching relays with a maximum on-time that are on have that timer running
\* and nothing else has.  No path through commands, live config changes, I2C
\* failures or restarts leaves a relay on without the timer that ends it.
TimersMatchCoils ==
    /\ Running(pulse) = mask \cap cfg.momentary
    /\ Running(limit) = {i \in mask : MaxOn(cfg, i) > 0}

\* Whenever no save is pending the flash holds the state of every `hold`
\* relay, so a power cut loses at most the changes still waiting to be saved;
\* also when saves fail and are tried again (relay_ctrl.c:559).  Of a boot
\* that could not read the flash, or reach the expander, it is not true.
SavedOrPending ==
    up /\ ~savePending => store \cap HoldMask(cfg) = mask \cap HoldMask(cfg)

\* With no expander alarm raised the OUTPUT register is the confirmed mask.
QuietMeansConfirmed == up /\ ~fault => chip = mask

\* Whatever a relay's timers were started for ends, as long as the tick runs:
\* a dead time unless the settings are saved again and again; a momentary
\* relay's pulse (SPEC.md section 2: it "always auto-return[s] to off") unless
\* commands for the relay keep coming; and a maximum on-time unless either.
TimersEnd ==
    \A i \in Relays :
        /\ \/ []<><<\E c \in Configs : UpdateConfig(c)>>_vars
           \/ []<>(wait[i] = Idle)
        /\ \/ []<><<Command(i)>>_vars
           \/ []<>(i \notin mask \cap cfg.momentary)
        /\ \/ []<><<Command(i)>>_vars
           \/ []<><<\E c \in Configs : UpdateConfig(c)>>_vars
           \/ []<>(i \notin mask \/ MaxOn(cfg, i) = 0)

(***************************************************************************)
(* The controller implements the bank of module RelayBank.                 *)
(***************************************************************************)
Bank == INSTANCE RelayBank WITH
            Pairings <- {c.partner : c \in Configs},
            live     <- up,
            on       <- mask,
            owed     <- Running(wait),
            pairing  <- cfg.partner

\* Refinement: a coil comes on only for a command for that very relay, a debt
\* to one, or at boot; every command, tick, config save, fail-safe and restart
\* is a step (or a stutter) of the bank.
ImplementsBank == Bank!BankSpec
=============================================================================
