-------------------------------- MODULE IoLoop --------------------------------
(***************************************************************************)
(* Start-up, the I/O loop and its restarts (main.c), and how a saved       *)
(* setting reaches the components.  A person's save writes one key after   *)
(* the other; each key wakes io_task, which loads all keys again, one by   *)
(* one, and hands the result to one component after the other, while       *)
(* app_main may still be starting them with what it loaded at boot.        *)
(*                                                                         *)
(* Of the settings only r<n>_interlock is kept: it is the one that is      *)
(* checked across keys.  Of the button (button_logic.c), only what a       *)
(* release may ask for.                                                    *)
(***************************************************************************)
EXTENDS Naturals

CONSTANTS
    RelayCount,   \* BOARD_CHANNELS
    Edits         \* the settings a person may save

Relays == 1 .. RelayCount

\* r<n>_interlock of every relay n: another relay, or 0 for none.
Raw == [Relays -> 0 .. RelayCount]

None == [i \in Relays |-> 0]

ASSUME IoAssumption ==
    /\ RelayCount \in Nat \ {0}
    /\ Edits \subseteq Raw

\* The order in which io_task hands settings out; the first two are there
\* before io_task is, the others are started one by one by app_main.
Consumers == <<"relay_ctrl", "input_sense", "sk_bridge", "n2k_bridge", "indicator", "web_ui">>

Late == {"sk_bridge", "n2k_bridge", "indicator", "web_ui"}

\* Pairs that name each other, as RelayCtrl takes them for granted.
Pairs == {p \in Raw : \A i \in Relays : p[i] # 0 => p[i] # i /\ p[p[i]] = i}

Name(k) == Consumers[k]

Names == {Consumers[k] : k \in 1 .. 6}

VARIABLES
    stored,       \* the keys in the flash
    target,       \* what the save in progress is to write
    boot,         \* app_main's cfg, loaded at start-up
    main,         \* where app_main is: the component it starts next
    notified,     \* a notification waits for io_task
    io,           \* where io_task is
    at,           \* the key it loads or the component it hands to
    cfg,          \* s_cfg
    used,         \* the pairs each component works with
    warned,       \* the relays the health page lists as ignored
    holdSaved,    \* the flash has hold states
    restarting,   \* s_restart_pending, and what for
    raced         \* the last key was saved before start-up had ended

settingVars == <<stored, target, raced>>
mainVars    == <<main, boot>>
ioVars      == <<io, at, cfg>>
vars == <<settingVars, mainVars, notified, ioVars, used, warned, holdSaved, restarting>>

\* Mutant: a relay that names itself counts as a pair.
ReciprocatedSelf(raw, i) == raw[i] \in Relays /\ raw[raw[i]] = i

\* A pair counts only if both relays name each other.
Reciprocated(raw, i) == raw[i] \in Relays \ {i} /\ raw[raw[i]] = i

Effective(raw) == [i \in Relays |-> IF Reciprocated(raw, i) THEN raw[i] ELSE 0]

\* device_config_t.interlock_invalid
Invalid(raw) == {i \in Relays : raw[i] # 0 /\ ~Reciprocated(raw, i)}

---------------------------------------------------------------------------
\* A person saves settings, key by key (the web server, the console).  There
\* is no way to reach the board before start_io() is through.

Save(raw) ==
    /\ main # "load"
    /\ target = stored
    /\ target' = raw
    /\ UNCHANGED <<stored, raced, mainVars, notified, ioVars, used, warned, holdSaved, restarting>>

\* Mutant: io_task is woken only if it is waiting.
NotifiedWhenIdle == notified \/ (main \notin {"load", "subscribe"} /\ io = "wait")

\* on_config_change(), once app_main has subscribed it.
Notified == notified \/ main \notin {"load", "subscribe"}

SaveKey(i) ==
    /\ target[i] # stored[i]
    /\ stored' = [stored EXCEPT ![i] = target[i]]
    /\ notified' = Notified
    /\ raced' = (main # "done")
    /\ UNCHANGED <<target, mainVars, ioVars, used, warned, holdSaved, restarting>>

---------------------------------------------------------------------------
\* app_main: start_io() up to the creation of io_task, ...

StartIo ==
    /\ main = "load"
    /\ main' = "subscribe"
    /\ boot' = stored
    /\ cfg' = stored
    /\ used' = [c \in Names |-> IF c \in Late THEN None ELSE Effective(stored)]
    /\ io' = "wait"
    /\ at' = 0
    /\ UNCHANGED <<settingVars, notified, warned, holdSaved, restarting>>

\* ... the health report and espos_config_subscribe(), ...
Subscribe ==
    /\ main = "subscribe"
    /\ main' = "sk_bridge"
    /\ warned' = Invalid(boot)
    /\ UNCHANGED <<settingVars, boot, notified, ioVars, used, holdSaved, restarting>>

\* ... then one component after the other, each with the settings of the boot;
\* nobody reads them once all have started.
After(c) == CASE c = "sk_bridge"  -> "n2k_bridge"
              [] c = "n2k_bridge" -> "web_ui"
              [] c = "web_ui"     -> "indicator"
              [] c = "indicator"  -> "done"

Start(c) ==
    /\ main = c
    /\ main' = After(c)
    /\ used' = [used EXCEPT ![c] = Effective(boot)]
    /\ boot' = IF After(c) = "done" THEN None ELSE boot
    /\ UNCHANGED <<settingVars, notified, ioVars, warned, holdSaved, restarting>>

---------------------------------------------------------------------------
\* io_task.

\* Mutant: the loop goes on while the restart waits for its chirp.
WakeAlways ==
    /\ io = "wait"
    /\ IF notified THEN io' = "load" /\ at' = 1 /\ cfg' = None
                   ELSE io' = "tick" /\ UNCHANGED <<at, cfg>>
    /\ notified' = FALSE
    /\ UNCHANGED <<settingVars, mainVars, used, warned, holdSaved, restarting>>

\* ulTaskNotifyTake() gives all notifications at once, or times out.
Wake ==
    /\ io = "wait"
    /\ restarting = "no"
    /\ IF notified THEN io' = "load" /\ at' = 1 /\ cfg' = None
                   ELSE io' = "tick" /\ UNCHANGED <<at, cfg>>
    /\ notified' = FALSE
    /\ UNCHANGED <<settingVars, mainVars, used, warned, holdSaved, restarting>>

\* Mutant: the notifications are dropped at the end of the load.
LoadKeyThenClear ==
    /\ io = "load"
    /\ cfg' = [cfg EXCEPT ![at] = stored[at]]
    /\ IF at = RelayCount THEN io' = "report" /\ at' = 0 /\ notified' = FALSE
                          ELSE io' = "load" /\ at' = at + 1 /\ UNCHANGED notified
    /\ UNCHANGED <<settingVars, mainVars, used, warned, holdSaved, restarting>>

\* device_config_load(): one espos_config_get per key.
LoadKey ==
    /\ io = "load"
    /\ cfg' = [cfg EXCEPT ![at] = stored[at]]
    /\ IF at = RelayCount THEN io' = "report" /\ at' = 0
                          ELSE io' = "load" /\ at' = at + 1
    /\ UNCHANGED <<settingVars, mainVars, notified, used, warned, holdSaved, restarting>>

ReportHealth ==
    /\ io = "report"
    /\ warned' = Invalid(cfg)
    /\ io' = "update"
    /\ at' = 1
    /\ UNCHANGED <<settingVars, mainVars, notified, cfg, used, holdSaved, restarting>>

\* n2k_bridge_update_config() returns early until n2k_bridge_start() has run;
\* the others take the settings and get the boot's again when they start.
Takes(c) == c = "n2k_bridge" => main \notin {"subscribe", "sk_bridge", "n2k_bridge"}

UpdateConfig ==
    /\ io = "update"
    /\ used' = IF Takes(Name(at)) THEN [used EXCEPT ![Name(at)] = Effective(cfg)] ELSE used
    /\ IF at = 6 THEN io' = "tick" /\ at' = 0 ELSE io' = "update" /\ at' = at + 1
    /\ UNCHANGED <<settingVars, mainVars, notified, cfg, warned, holdSaved, restarting>>

\* relay_ctrl_tick() saves hold states when some are due: any task may switch
\* relays at any time.
Tick ==
    /\ io = "tick"
    /\ io' = "button"
    /\ holdSaved' \in {holdSaved, TRUE}
    /\ UNCHANGED <<settingVars, mainVars, notified, at, cfg, used, warned, restarting>>

\* button_poll() and the ticks behind it; the button asks for nothing, ...
PollButton ==
    /\ io = "button"
    /\ io' = "wait"
    /\ UNCHANGED <<settingVars, mainVars, notified, at, cfg, used, warned, holdSaved, restarting>>

\* ... for the setup portal, ...
ReopenPortal ==
    /\ io = "button"
    /\ io' = "wait"
    /\ restarting' = "portal"
    /\ UNCHANGED <<settingVars, mainVars, notified, at, cfg, used, warned, holdSaved>>

\* ... or for a factory reset; a save that has begun may still write its keys.
FactoryReset ==
    /\ io = "button"
    /\ io' = "wait"
    /\ restarting' = "reset"
    /\ holdSaved' = FALSE
    /\ stored' = None
    /\ target' \in {None, target}
    /\ UNCHANGED <<raced, mainVars, notified, at, cfg, used, warned>>

\* A call into a component does not return; where io_task was no longer matters.
Stall ==
    /\ io \notin {"off", "stalled"}
    /\ io' = "stalled"
    /\ at' = 0
    /\ cfg' = None
    /\ UNCHANGED <<settingVars, mainVars, notified, used, warned, holdSaved, restarting>>

---------------------------------------------------------------------------
\* Only what is in the flash survives.
Restart ==
    /\ main' = "load"
    /\ io' = "off"
    /\ at' = 0
    /\ boot' = None
    /\ cfg' = None
    /\ used' = [c \in Names |-> None]
    /\ warned' = {}
    /\ notified' = FALSE
    /\ restarting' = "no"
    /\ target' = stored
    /\ raced' = FALSE
    /\ UNCHANGED <<stored, holdSaved>>

\* restart_cb(), after the chirp.
RestartDue == restarting # "no" /\ Restart

\* io_supervisor()
Supervise == io = "stalled" /\ Restart

PowerCycle == main # "load" /\ Restart

Init ==
    /\ stored \in Edits
    /\ target = stored
    /\ boot = None
    /\ main = "load"
    /\ notified = FALSE
    /\ io = "off"
    /\ at = 0
    /\ cfg = None
    /\ used = [c \in Names |-> None]
    /\ warned = {}
    /\ holdSaved \in BOOLEAN
    /\ restarting = "no"
    /\ raced = FALSE

MainStep == StartIo \/ Subscribe \/ \E c \in Late : Start(c)
IoStep   == Wake \/ LoadKey \/ ReportHealth \/ UpdateConfig \/ Tick
            \/ PollButton \/ ReopenPortal \/ FactoryReset

Next ==
    \/ \E raw \in Edits : Save(raw)
    \/ \E i \in Relays : SaveKey(i)
    \/ MainStep
    \/ IoStep
    \/ Stall
    \/ RestartDue \/ Supervise \/ PowerCycle

Spec == Init /\ [][Next]_vars

\* app_main and io_task are scheduled, and the restart timers fire.
FairSpec ==
    /\ Spec
    /\ WF_vars(MainStep)
    /\ WF_vars(IoStep)
    /\ WF_vars(RestartDue)
    /\ WF_vars(Supervise)
    /\ \A i \in Relays : WF_vars(SaveKey(i))

---------------------------------------------------------------------------
\* Every variable has its type; and the pairs every component works with name
\* each other, whatever a load that ran into the middle of a save has read.
TypeOK ==
    /\ stored \in Raw /\ target \in Raw /\ boot \in Raw /\ cfg \in Raw
    /\ main \in {"load", "subscribe", "done"} \cup Late
    /\ notified \in BOOLEAN /\ raced \in BOOLEAN
    /\ io \in {"off", "wait", "load", "report", "update", "tick", "button", "stalled"}
    /\ at \in Nat
    /\ io = "load" => at \in Relays
    /\ io = "update" => at \in 1 .. 6
    /\ used \in [Names -> Pairs]
    /\ warned \subseteq Relays
    /\ holdSaved \in BOOLEAN
    /\ restarting \in {"no", "portal", "reset"}

InUse == /\ cfg = stored
         /\ \A c \in Names : used[c] = Effective(stored)
         /\ warned = Invalid(stored)

\* Between two loads either a notification is waiting or every component and
\* the health page follow the settings in the flash: a key saved while a load
\* runs is never lost.  Keys saved during start-up may be (see raced).
NothingMissed ==
    main = "done" /\ ~raced /\ restarting = "no" /\ io \in {"wait", "tick", "button"}
        => notified \/ InUse

\* After the last save and restart, all settings are in use: those saved once
\* start-up had ended, and those the board started with.
SettingsApply ==
    \/ []<><<\E i \in Relays : SaveKey(i)>>_vars
    \/ []<><<Restart>>_vars
    \/ <>[](raced \/ InUse)

\* Nothing that io_task does until the restart undoes a factory reset.
ResetKept == restarting = "reset" => ~holdSaved
=============================================================================
