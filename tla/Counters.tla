------------------------------- MODULE Counters -------------------------------
(***************************************************************************)
(* Cycle counters and running hours (components/counters/src/counters.c).  *)
(*                                                                         *)
(* counters_on_change(), counters_tick() and counters_reset() run on       *)
(* different tasks under one mutex -- but for the writing of the flash,    *)
(* which counters_tick(), counters_reset() and counters_flush_now() do     *)
(* after giving it back, with a snapshot taken before.  Each of these      *)
(* three is a saver with three steps: snapshot, save, settle.              *)
(*                                                                         *)
(* Time passes in units, `Second` of them to the second.                   *)
(***************************************************************************)
EXTENDS Integers

CONSTANTS
    Channels,
    Second,        \* units of time per second
    SaveInterval,  \* COUNTERS_SAVE_INTERVAL_MS, in units of time
    FlashFaults,   \* may a save, or the load at start-up, fail?
    MaxTime,       \* bound: units of time a channel is on
    MaxCycles,     \* bound: cycles of a channel
    MaxResets      \* bound: resets of a channel

Savers == {"tick", "reset", "flush"}

ASSUME CounterAssumption ==
    /\ Second \in Nat \ {0}
    /\ SaveInterval \in Nat
    /\ FlashFaults \in BOOLEAN
    /\ MaxTime \in Nat /\ MaxCycles \in Nat /\ MaxResets \in Nat

VARIABLES
    on,        \* slot->on (every channel has been seen: see Init)
    age,       \* now - slot->on_since_ms, while on
    saved,     \* slot->saved: the snapshot in RAM
    dirty,     \* s.dirty
    saveAge,   \* now - s.last_save_ms
    saver,     \* per saver: "idle", "save", "settle"
    data,      \* the saver's snapshot, on its stack
    since,     \* now - the saver's now_ms, up to SaveInterval
    store,     \* the blob in flash
    stopped    \* the shutdown handler has returned

\* History: how long each channel has been on since it was last reset; has
\* anything changed while a saver was writing, or could the flash not be read
\* at start-up, with no save since that began after it?
VARIABLES onTime, raced

ramVars == <<on, age, saved, dirty, saveAge>>
vars    == <<ramVars, saver, data, since, store, stopped, onTime, raced>>

(***************************************************************************)
(* counters_channel_t; `era` (not in the code) numbers the resets, to tell *)
(* a snapshot from before a reset from one after it.                       *)
(***************************************************************************)
Zero(era) == [cycles |-> 0, runtime |-> 0, era |-> era]

Idle(p) == saver[p] = "idle"

\* Another saver is writing the flash.
Busy(p) == \E q \in Savers \ {p} : ~Idle(q)

AnyBusy == \E p \in Savers : ~Idle(p)

(***************************************************************************)
(* fold_running_locked(), for the channels S.                              *)
(***************************************************************************)
Folding(S) == {c \in S : on[c] /\ age[c] >= Second}

\* Mutants: starts the next second at the fold and so drops the remainder;
\* rounds up to whole seconds.
FoldedRestarting(S) ==
    [s |-> [c \in Channels |-> IF c \in Folding(S)
                               THEN [saved[c] EXCEPT !.runtime = @ + age[c] \div Second]
                               ELSE saved[c]],
     a |-> [c \in Channels |-> IF c \in Folding(S) THEN 0 ELSE age[c]]]

FoldedRoundingUp(S) ==
    LET whole(c) == (age[c] + Second - 1) \div Second IN
    [s |-> [c \in Channels |-> IF c \in Folding(S) THEN [saved[c] EXCEPT !.runtime = @ + whole(c)]
                               ELSE saved[c]],
     a |-> [c \in Channels |-> IF c \in Folding(S) THEN age[c] - Second * whole(c) ELSE age[c]]]

Folded(S) ==
    [s |-> [c \in Channels |-> IF c \in Folding(S)
                               THEN [saved[c] EXCEPT !.runtime = @ + age[c] \div Second]
                               ELSE saved[c]],
     a |-> [c \in Channels |-> IF c \in Folding(S) THEN age[c] % Second ELSE age[c]]]

(***************************************************************************)
(* counters_on_change(): a listener reports channel c, on any task.        *)
(***************************************************************************)
SwitchedOn(c) ==
    /\ ~stopped
    /\ ~on[c]
    /\ saved[c].cycles < MaxCycles
    /\ saved' = [saved EXCEPT ![c].cycles = @ + 1]
    /\ on' = [on EXCEPT ![c] = TRUE]
    /\ age' = [age EXCEPT ![c] = 0]
    /\ dirty' = TRUE
    /\ raced' = (raced \/ AnyBusy)
    /\ UNCHANGED <<saveAge, saver, data, since, store, stopped, onTime>>

\* Mutant: forgets that it has to be saved.
SwitchedOffClean(c) ==
    /\ ~stopped
    /\ on[c]
    /\ saved' = Folded({c}).s
    /\ on' = [on EXCEPT ![c] = FALSE]
    /\ age' = [age EXCEPT ![c] = 0]
    /\ raced' = (raced \/ AnyBusy)
    /\ UNCHANGED <<dirty, saveAge, saver, data, since, store, stopped, onTime>>

SwitchedOff(c) ==
    /\ ~stopped
    /\ on[c]
    /\ saved' = Folded({c}).s
    /\ on' = [on EXCEPT ![c] = FALSE]
    /\ age' = [age EXCEPT ![c] = 0]
    /\ dirty' = TRUE
    /\ raced' = (raced \/ AnyBusy)
    /\ UNCHANGED <<saveAge, saver, data, since, store, stopped, onTime>>

(***************************************************************************)
(* counters_tick(), on the I/O task.                                       *)
(***************************************************************************)
Tick ==
    /\ ~stopped
    /\ Idle("tick")
    /\ saveAge = SaveInterval
    /\ saved' = Folded(Channels).s
    /\ age' = Folded(Channels).a
    /\ dirty' = (dirty \/ Folding(Channels) # {})
    /\ IF dirty'
       THEN /\ data' = [data EXCEPT !["tick"] = saved']
            /\ saver' = [saver EXCEPT !["tick"] = "save"]
            /\ raced' = Busy("tick")
            /\ UNCHANGED saveAge
       ELSE /\ saveAge' = 0
            /\ UNCHANGED <<data, saver, raced>>
    /\ UNCHANGED <<on, since, store, stopped, onTime>>

(***************************************************************************)
(* counters_reset(), on the web server's task.                             *)
(***************************************************************************)
Reset(c) ==
    /\ ~stopped
    /\ Idle("reset")
    /\ saved[c].era < MaxResets
    /\ saved' = [saved EXCEPT ![c] = Zero(@.era + 1)]
    /\ age' = [age EXCEPT ![c] = 0]
    /\ onTime' = [onTime EXCEPT ![c] = 0]
    /\ dirty' = TRUE
    /\ data' = [data EXCEPT !["reset"] = saved']
    /\ saver' = [saver EXCEPT !["reset"] = "save"]
    /\ raced' = Busy("reset")
    /\ UNCHANGED <<on, saveAge, since, store, stopped>>

(***************************************************************************)
(* counters_flush_now(), as the shutdown handler of a clean restart.       *)
(***************************************************************************)
\* Mutant: saves the snapshot as the last tick left it.
FlushUnfolded ==
    /\ ~stopped
    /\ Idle("flush")
    /\ data' = [data EXCEPT !["flush"] = saved]
    /\ saver' = [saver EXCEPT !["flush"] = "save"]
    /\ raced' = (raced \/ Busy("flush"))
    /\ UNCHANGED <<ramVars, since, store, stopped, onTime>>

Flush ==
    /\ ~stopped
    /\ Idle("flush")
    /\ saved' = Folded(Channels).s
    /\ age' = Folded(Channels).a
    /\ dirty' = (dirty \/ Folding(Channels) # {})
    /\ data' = [data EXCEPT !["flush"] = saved']
    /\ saver' = [saver EXCEPT !["flush"] = "save"]
    /\ raced' = (raced \/ Busy("flush"))
    /\ UNCHANGED <<on, saveAge, since, store, stopped, onTime>>

(***************************************************************************)
(* The second half of all three: save without the lock, then settle.       *)
(***************************************************************************)
Done(p) ==
    /\ saver' = [saver EXCEPT ![p] = "idle"]
    /\ data' = [data EXCEPT ![p] = [c \in Channels |-> Zero(0)]]
    /\ since' = IF p = "flush" THEN since ELSE [since EXCEPT ![p] = 0]
    /\ stopped' = (p = "flush")

\* last_save_ms becomes the now_ms the saver was called with.  After a failed
\* save only counters_tick() sets it, to wait for another interval.
SaveFails(p) ==
    /\ FlashFaults
    /\ saver[p] = "save"
    /\ saveAge' = IF p = "tick" THEN since[p] ELSE saveAge
    /\ Done(p)
    /\ UNCHANGED <<on, age, saved, dirty, store, onTime, raced>>

Save(p) ==
    /\ saver[p] = "save"
    /\ store' = data[p]
    /\ saver' = [saver EXCEPT ![p] = "settle"]
    /\ UNCHANGED <<ramVars, data, since, stopped, onTime, raced>>

Settle(p) ==
    /\ saver[p] = "settle"
    /\ dirty' = FALSE
    /\ saveAge' = since[p]
    /\ Done(p)
    /\ UNCHANGED <<on, age, saved, store, onTime, raced>>

(***************************************************************************)
(* The device restarts: at any moment, or after the shutdown handler.      *)
(* counters_init() loads the blob, or starts from nothing if that fails;   *)
(* the channel's first report after it is its state, not a cycle.          *)
(***************************************************************************)
Loaded == {store} \cup IF FlashFaults THEN {[c \in Channels |-> Zero(store[c].era)]} ELSE {}

Reboot ==
    /\ saved' \in Loaded
    /\ on' \in [Channels -> BOOLEAN]
    /\ age' = [c \in Channels |-> 0]
    /\ onTime' = [c \in Channels |-> saved'[c].runtime * Second]
    /\ dirty' = FALSE
    /\ saveAge' = 0
    /\ saver' = [p \in Savers |-> "idle"]
    /\ data' = [p \in Savers |-> [c \in Channels |-> Zero(0)]]
    /\ since' = [p \in Savers |-> 0]
    /\ stopped' = FALSE
    /\ raced' = (saved' # store)
    /\ UNCHANGED store

Capped(n) == IF n < SaveInterval THEN n + 1 ELSE n

Elapse ==
    /\ ~stopped
    /\ \A c \in Channels : on[c] => onTime[c] < MaxTime
    /\ age' = [c \in Channels |-> IF on[c] THEN age[c] + 1 ELSE age[c]]
    /\ onTime' = [c \in Channels |-> IF on[c] THEN onTime[c] + 1 ELSE onTime[c]]
    /\ saveAge' = Capped(saveAge)
    /\ since' = [p \in Savers |-> IF Idle(p) THEN since[p] ELSE Capped(since[p])]
    /\ UNCHANGED <<on, saved, dirty, saver, data, store, stopped, raced>>

Init ==
    /\ on \in [Channels -> BOOLEAN]
    /\ age = [c \in Channels |-> 0]
    /\ saved = [c \in Channels |-> Zero(0)]
    /\ dirty = FALSE
    /\ saveAge = 0
    /\ saver = [p \in Savers |-> "idle"]
    /\ data = [p \in Savers |-> [c \in Channels |-> Zero(0)]]
    /\ since = [p \in Savers |-> 0]
    /\ store = saved
    /\ stopped = FALSE
    /\ onTime = [c \in Channels |-> 0]
    /\ raced = FALSE

Next ==
    \/ \E c \in Channels : SwitchedOn(c) \/ SwitchedOff(c) \/ Reset(c)
    \/ Tick
    \/ Flush
    \/ \E p \in Savers : Save(p) \/ SaveFails(p) \/ Settle(p)
    \/ Reboot
    \/ Elapse

Spec == Init /\ [][Next]_vars

-----------------------------------------------------------------------------
(***************************************************************************)
(* Properties.                                                             *)
(***************************************************************************)

Snapshot == [Channels -> [cycles : Nat, runtime : Nat, era : Nat]]

\* The types of all variables.
TypeOK ==
    /\ on \in [Channels -> BOOLEAN]
    /\ age \in [Channels -> Nat]
    /\ saved \in Snapshot
    /\ dirty \in BOOLEAN
    /\ saveAge \in 0 .. SaveInterval
    /\ saver \in [Savers -> {"idle", "save", "settle"}]
    /\ data \in [Savers -> Snapshot]
    /\ since \in [Savers -> 0 .. SaveInterval]
    /\ store \in Snapshot
    /\ stopped \in BOOLEAN
    /\ onTime \in [Channels -> Nat]
    /\ raced \in BOOLEAN

\* counters_get(): the hours of channel c in seconds, the running ones too.
Runtime(c) == saved[c].runtime + IF on[c] THEN age[c] \div Second ELSE 0

\* The hours never exceed the time spent on and miss less than a second per
\* period of being on (at most one more than the cycles): the folds at every
\* save neither lose nor invent time.
RuntimeExact ==
    \A c \in Channels :
        /\ Runtime(c) * Second <= onTime[c]
        /\ onTime[c] - Runtime(c) * Second <= (saved[c].cycles + 1) * (Second - 1)

\* Everything counted is in the flash, on its way there, or marked to be
\* saved, so that a power cut loses at most what the save interval held back
\* (counters.h:12) -- unless a change came in while the flash was written, or
\* the flash could not be read: the counts then start over, unsaved.
SavedOrDirty == dirty \/ AnyBusy \/ raced \/ store = saved

\* After the shutdown handler of a clean restart the flash has all that
\* counters_get() reports (main.c:209: "never loses counting") but for the
\* time its own write took -- with the same exceptions, and failed saves.
CleanRestartKeeps ==
    stopped => \/ raced \/ dirty
               \/ since["flush"] = SaveInterval
               \/ \A c \in Channels :
                     /\ store[c] = [saved[c] EXCEPT !.runtime = store[c].runtime]
                     /\ store[c].runtime <= Runtime(c)
                     /\ Second * (Runtime(c) - store[c].runtime) < since["flush"] + Second

=============================================================================
