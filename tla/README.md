# A formal model of signalk-espOS-8relay

The firmware runs on an ESP32-S3 board with eight relays and eight digital inputs. It lets SignalK, an NMEA 2000 bus,
a web page, inputs and schedules switch the relays, reports inputs and relays back, raises alarms, counts cycles and
hours, and sees to it that relays return to a safe state when a timer ends, a server is lost or the board restarts.

This directory holds TLA+ modules translated from the C and C++ sources, TLC configurations that check them on small
instances, and TLAPS proofs of what matters most for every size. Paths are relative to the repository; `relay_ctrl.c:534`
is a line of the only file of that name. `PROJECT.json` maps every definition to the lines it stands for.

To check: `tlc -config RelayNominal.cfg MCRelayCtrl`, and so on for the runs below; `tlapm RelayCtrlProofs.tla` for a
proof module.

## 1. Inventory

### Tasks

| task | code | what it does |
|---|---|---|
| `io_task` | `main/main.c:410-442` | every 10 ms: reload settings if notified and hand them to six components; `relay_ctrl_tick`, `input_sense_poll`, `button_poll`, `sk_bridge_tick`, `counters_tick`; `schedule_tick` once a second |
| SignalK stream | espOS, `sk_bridge.c` | stream events; PUT requests that switch relays |
| `n2k` | `n2k_bridge.cpp:191-230` | every 10 ms: received messages (switch commands, alert responses), status, alert settings, alerts |
| `rx_task` and the TWAI interrupt | `twai_node.cpp` | hand over received frames, recover from bus-off; the interrupt frees transmit slots |
| `httpd` | `web_ui.c` | relay commands, counter resets, buzzer tests |
| indicator | `indicator.c:79-218` | LED and buzzer every 10 ms |
| timers | `main.c:300-326`, `:444-450` | restart after a chirp; the supervisor of a stalled `io_task` |
| config writer | `main.c:276-298` | whoever saves a setting; notifies `io_task` |

### Components

| component | state | operations | talks to | correct when |
|---|---|---|---|---|
| relay controller (`relay_ctrl`) | relay mask, deadlines of pulses, maximum on-times and dead times, pending save, alarm; expander registers; flash | set, toggle, tick, update_config, sk_lost, boot | I2C expander, flash, listeners | interlocked coils are never on together, timers end what they time, hold states survive, failures raise an alarm |
| listeners (`main.c:216-250`) | each consumer's picture of the relays | `on_relay_change` on the task that switched | counters, SignalK, NMEA 2000, indicator | whatever reports overtake each other, every consumer ends with the present state |
| SignalK bridge (`sk_bridge`) | connection, loss countdown, alarms' settings, republication age | stream events, tick, update_config, input changes | stream task, relay controller | a lost server ends in the fail-safe, a returning one is told everything |
| input sense | candidate, stable mask, ages, late inputs, start-up | poll, update_config, override | listeners, relay controller | real changes are reported and acted on once, edits and start-up act on nothing |
| counters | cycles, hours, dirty mark, save age | relay and input changes, tick, reset, shutdown flush | flash | hours are exact, what was counted is kept |
| schedules | per entry: active, valid, relay | tick, settings | clock, sun, relay controller | each relay is as the latest transition or command left it |
| NMEA 2000 bridge and alerts | changed flags, alert per channel | task pass, responses, update_config | CAN node, relay controller | displays show the alarms there are, no stale ones |
| CAN node (vendored with the bridge) | transmit slots, recovery flag, receive queue | transmit, interrupts, recover, receive | TWAI driver, the bridge's own queue | no frame is overwritten, received ones keep their order |
| start-up, settings, restarts (`main.c`, `device_config.c`) | settings snapshot, notification, restart pending | load, hand out, button actions, restart | all | settings saved take effect, a reset stays a reset |
| callers of the relay controller (`web_ui.c:234-262`, `n2k_bridge.cpp:166-186`, and the single calls of PUT, inputs, schedules, console) | the page's copy of the settings, what is left of a request | one relay, "all on", "all off", a switch bank message | relay controller | "all" switches what it says and nothing else, reports success only then |
| BOOT button (`button_logic.c`, `main.c:300-374`) | debounced level, time held, action pending | poll, feedback, restart | indicator, I/O loop | only a full hold acts, and does what was shown |
| indicator (`indicator.c`, `tone_player.c`) | requests, alarm, test, tone playing | pass of its task; chirp, test, preview, update_config, input changes | button, page, inputs | an alarm is heard as what it is for, what was accepted sounds or gives way |
| positions | position received, its age | update, get | SignalK, NMEA 2000, schedules | schedules use the boat's position while it is fresh, else the settings' |
| real-time clock, Ethernet, tone parsing | see section 8 | | | |

### What is hard here

- Six tasks share the relay controller under one mutex, but its **listeners run after the mutex is given back**, so two
  reports of one relay overtake each other.
- Settings are **saved and loaded key by key** on different tasks while everything runs; an edit may pair two relays
  that are on, invert an input that is bouncing, or retarget an active schedule.
- An I2C transfer may **fail and land all the same**; the controller then believes another state than the coils have.
- **Crashes and power cuts** at any moment: the expander may still drive the coils, the flash may hold older settings' state.
- **Requests of many calls** ("all on", a switch bank message) run relay by relay, from a copy of the settings that may be
  older than the controller's, with ticks, edits and other commands between two calls.
- The **button** is polled by a loop that may be late, and the **buzzer** is asked by five tasks through flags its own,
  lowest-priority task reads one after another.
- **Unlocked flash writes** of the counters by three tasks; **lost frames** and late acknowledgements on the bus;
  bus-offs that drop frames the driver still counts; two receive queues that drop when full; stream events that come late or twice.

All 40 hazards, with lines and the properties that cover them, are listed in `PROJECT.json`.

## 2. Modules

| module | what | state and actions against the code |
|---|---|---|
| `RelayBank` | what the relay controller promises: coils come on only for a command, a debt to one or at boot; no interlocked pair is on | abstract |
| `RelayCtrl` | `relay_ctrl.c` with `tca9554.c` and the flash | one action per public function, as each holds the mutex throughout: `Set`, `Toggle`, `Tick`, `UpdateConfig`, `SkLost`, `Boot`; `Crash`, `PowerCut`, `Elapse`. `mask` is the confirmed state, `chip`/`driven` the expander, `store` the flash. Deadlines are remaining times |
| `RelayListeners` | `notify()`, `on_relay_change()`, the status half of the NMEA 2000 task, publication to SignalK | per task a report and how far it has got; a step per listener |
| `Requests` | `put_all`, `put_one`, `on_message`, on top of `RelayCtrl` (which it extends) | `PutAll`, `BusControl` begin a request; `SetNext` is one `relay_ctrl_set()`; `WebTakes` is the hand-out of settings to the page; every other step is one of `RelayCtrl` |
| `InputSense` | `input_sense.c` and its listeners in `main.c` | `Poll` (start-up, late inputs, debounce, links), `UpdateConfig`, environment |
| `Counters` | `counters.c`, one saver per task | writes split into snapshot, write and settle |
| `SkBridge` | `sk_bridge.c` with the stream's events as a queue, and the server | `Connected`, `Disconnected`, `Subscribe`, `Start`, `UpdateConfig`, `Tick`, `SkLost`, ... |
| `N2kAlerts` | `n2k_alerts.c` in the NMEA 2000 task, its settings' hand-over, a display | a pass is three steps; every frame may be lost |
| `Schedules` | schedule part of `device_config_load()`, `schedule_eval.c`, `position.c`, `position_sk.c` | `Tick`, `TickNoTime`, `Reload`, clock, position, sun and commands |
| `TwaiNode` | the transmit half of `twai_node.cpp`, `CANSendFrame` | `transmit()` step by step, interrupts between any two |
| `CanReceive` | the receive half of `twai_node.cpp`, the bridge's sink and `CANGetFrame`, on top of `TwaiNode` | arrival in the interrupt, `RxTask` step by step (recovery, wait, delivery), `CANGetFrame`; every other step is one of `TwaiNode` |
| `ButtonLogic` | `button_logic.c` | pure functions of one poll; no variables |
| `Panel` | `button_poll()`, restarts, `indicator.c`, `tone_player.c` | `PollButton` with any delay since the last; `indicator_task` as six steps per pass; requests of the other tasks, the preview's in two steps |
| `IoLoop` | `app_main`, `io_task`, loading and hand-out of settings, restarts | one step per key loaded, per component updated, per component started |

`MC*` modules hold the constants' values; `*Proofs` modules the theorems. `RelayBank` composes with `RelayCtrl` by
refinement. `Requests` and `CanReceive` compose callers with the module they extend, and are proved to implement it
(`CallersImplementController`, `ReceiveImplementsNode`), so that what is proved of the part holds of the whole. `RelayCtrl`'s assumption that pairs are mutual is what `IoLoop` shows of `device_config_load()`
(theorem `EffectiveIsSound`, and `TypeOK` there). `RelayListeners`, `InputSense`, `SkBridge` and `Schedules` take any
interleaving of relay commands from elsewhere, which is what `RelayCtrl` gives them.

Mutated definitions, such as `CountDownAll`, stand beside the definition they replace under a comment `Mutant`. Each is a
plausible slip, and each breaks the property it is listed with; nothing else uses them.

## 3. Runs

TLC takes between 3 s and two minutes for each on two workers. Types are checked by TLC in `IoLoop`, where they say that pairs are
sound, and are part of what is proved of every module with variables (section 5).

| run | states | what it shows |
|---|---|---|
| `RelayNominal` | 110 589 | on a working bus with saves that may fail, "all on", "all off" and switch bank messages among single commands, settings saved at any moment outside dead times, restarts and power cuts: `SavedOrPending`, `AllOnlyAsAsked`, the refinement `ImplementsBank`, and `TimersEnd` |
| `RelayFaults` | 395 032 | every transfer may fail, landing or not, and so may saves of the hold state and its reading at boot; fixed pairs, other settings edited, requests of many calls: `Interlock`, `WaitExclusive`, `TimersMatchCoils`, `QuietMeansConfirmed`, `AllMeansAll` |
| `Listeners` | 303 184 | three tasks switch one relay, the wiring and the republish interval are edited, the stream comes and goes: `SkShowsCurrent`, `BusShowsCurrent`, `EventuallyTold` |
| `Inputs` | 80 016 | two inputs bounce, are inverted, debounced longer and relinked, overrides fail or are put off: `ReportsTruth`, `FollowsInput`, `OnlyRealChanges`, `SteadyIsReported` |
| `Counters` | 1 635 310 | three savers, failing saves and loads, a reset, clean restarts and crashes: `RuntimeExact`, `SavedOrDirty`, `CleanRestartKeeps` |
| `SkBridge` | 90 724 | connections come and go before and after start-up, with and without published trees: `SeenOrPending`, `AlarmShown`, `FailSafeOnce`, `SafeAfterLoss` |
| `Alerts` | 174 751 | inputs that change at every tick, one lost frame, late acknowledgements, severity edits at any time: `AckMeant`, `NoGhost`, `DisplayRight` |
| `Schedules` | 118 460 | seven tables, clock jumps, polar days, positions received and aging, edits, refusals: `WindowServed`, `NeverOutside`, `RelaysAsDue` |
| `CanFrames` | 583 138 | bus-offs at any moment, frames sent and received, both receive queues overflowing: `FramesIntact`, `InOrderOnce`, `AllSent` |
| `Panel` | 623 408 | a bouncing button polled late, chirps, tests, tones and alarms between any two steps of the indicator: `ActsOnFullHold`, `AlarmSaysWhy`, `AlarmHeard`, `AcceptedHeard` |
| `IoLoop` | 169 354 | saves during start-up and operation, stalls, factory reset: `TypeOK`, `NothingMissed`, `SettingsApply`, `ResetKept` |
| `SkLostFault` | violated | with a failing bus the fail-safe is lost (`SafeAfterLoss`) |

### The violation

`sk_bridge_tick()` marks a loss as handled (`sk_bridge.c:481`) before `relay_ctrl_sk_lost()` runs, which returns
nothing; if its one write fails (`relay_ctrl.c:480`), default-safe relays stay on for the whole outage. `SPEC.md:133-135`
says they go off.

### Bounds and why they are enough

- **Relays**: three in `RelayCtrl` (an interlocked pair and a bystander, with a momentary, a limited and a hold relay);
  no code path involves more than a relay and its partner. One in `RelayListeners`, where relays are independent bits.
  Two inputs are needed in `InputSense` (one can end start-up for the other), two channels in `N2kAlerts` (one waits for
  the other), two relays in `IoLoop` (a pair).
- **Times** are one to three units where the code has milliseconds: each timer is 0, running or due, and all orders of
  expiry occur. Ages are capped at the value from which the code no longer tells them apart.
- **Counters** (`MaxTime` 5, `MaxCycles` 1, `MaxResets` 1): a second is two units and the save interval three, so folds
  leave remainders and every saver can overlap every other.
- **Alerts** (`MaxLost` 1, `Repeats` 2, `MaxOccurrence` 2, `MaxEdits` 2, `StatusPeriod` 2): one lost frame is what `docs/plans/21`
  provides for; the occurrence wraps. Inputs may change at every tick (`mask` is what the last tick was given). Only channel 1's
  setting is edited, between two severities (`Choices`), twice so that it can change and change back; only channel 2's alerts are
  acknowledged; the channels compete for the same ticks. Both start as alarms (`BootLevels`).
- **Requests**: one request of many calls at a time; that of another task appears as single commands. Two messages:
  both relays of the pair at once, and one of them with the bystander, with fields of 2 and 3 that ask for nothing; `RelayFaults`
  has none, as its property is about "all". Channel numbers make the order of the calls.
- **CAN** (`MaxTxSlots` and `QueueDepth` 2, `BufferSize` 2, `MaxFrames` 4, `MaxArrivals` 4): slots and queue in the
  firmware's proportion (32 and 32), so few that bus-offs can lose them all. Both receive queues hold one frame
  (`RxDepth`, `BridgeDepth`), so that each overflows while the other does not. The proofs need no bound.
- **Panel** (`DebounceTicks` 2, `PortalTime` 2, `ResetTime` 3, one input, one text, tones of two passes): polls below,
  between and past the thresholds, a tone that spans passes. Times of a press are followed until no threshold is ahead.
  Polls come one or two units apart; any delay is covered by the proof of `ActsOnFullHold`.
- **Stream events** (`MaxEvents` 2): a connection can come and go before either event is handled.
- **Schedules**: days of four minutes, weeks of three days, so that windows cross midnight and the week's end.

### Fairness

Each run with a liveness property assumes only that tasks get to run and time passes: weak fairness of the tick or poll
(`io_task` loops without condition, and the supervisor restarts the board if it stops), of the passes of the NMEA 2000
and stream tasks, of restart timers, of `Elapse`, of the periodic publication while the settings ask for one and the stream is up (`sk_bridge.c:485-487`), of the indicator's passes and of the second half of a preview request (the web
server's task is scheduled). With requests, weak fairness is of the controller's own steps (`Time`, `IoTick`, `WebTakes`,
`BootUp`): nothing is assumed of the callers. Nothing is assumed of users, servers, other bus nodes
(but that someone acknowledges frames while the controller is on the bus), settings or inputs: the properties say what happens unless they keep changing.
`IoLoop` assumes that a save once begun writes all its keys. `n2k_task()` always has a next step, so `N2kAlerts` says
`[]<><<Task>>_alertVars` where others say WF: the two are the same there.

## 4. What the properties say

The comments above each property quote the line or document it is about. Some need a remark.

- `Interlock` and `WaitExclusive` are checked and proved **if pairs are never edited, or only outside dead times on a
  working bus** (`PairingFixed \/ CarefulEdits`). The condition is needed: see section 7.
- `NothingMissed` and `SettingsApply` except settings saved **during start-up** (`raced`), `AlarmShown` an alarm whose
  setting is switched off while the server cannot hear it (`muted`), `SavedOrDirty` and `CleanRestartKeeps` a change during an unlocked
  write and a flash that could not be read (`raced`), `FollowsInput` inputs that start-up gave up on (`tardy`) and overrides that failed or were put
  off (`own`). Each exception is a behaviour of the code that section 7 describes, and is as narrow as the history variable that marks it.
- `NoGhost` and `DisplayRight` except **alerts that were forgotten** (`forgotten`): their channel was cleared a second time while the
  display still showed them, and the second clear took their repeats. Nothing else is assumed of the pace of inputs and settings.
- `SavedOrPending` is checked and proved for a flash that can be **read** (`LoadFaults` FALSE); saves may fail.
- `AllMeansAll` speaks of requests nobody interfered with, and takes a relay that waits out a dead time for one that is
  on its way (`set_relay` reports success for it). Two interlocked relays both wired to their normally closed contact
  cannot both be off; they are excepted (`NcPair`). `AllOnlyAsAsked` holds as long as the
  controller's pairs are those the page read; wiring, modes and everything else may be edited, and the page's copy of them be old.
- `InOrderOnce` is about order and number, not about loss: queues may drop, and `missed` counts what the code does not.
- `NeverOutside` is about entries that do not run overnight, or name every day. The others the code runs outside the windows of the
  manual; that is not excepted in silence but is a theorem of its own, `FirstNightRunsToo`: see section 7.
- `AcceptedHeard` follows what a page was told was accepted until it sounds, or gives way to an alarm, the button or a
  newer request, unless chirps or tests keep coming.
- `EventuallyTold` covers SignalK and NMEA 2000 only. Counters are told the state in the report and not the present one. A relay whose wiring
  was edited is told to SignalK by the periodic publication only: with the interval set to 0, or the stream down, it stays as it was.
- `SafeAfterLoss` and `FailSafeOnce` ask for a **published tree** (`publishing`): without one the tick never fires the fail-safe (section 7).

## 5. Proofs

Every theorem holds for all values of the constants under the module's named assumption.

| module | theorem | by |
|---|---|---|
| `RelayCtrlProofs` | `TypeCorrect`: `Spec => []TypeOK` | inductive as it stands; one lemma per helper (`Commits`, timers, boots) |
| | `TimersAlwaysMatch`: `[]TimersMatchCoils` | inductive with `TypeOK`: every write to the mask goes through `Commits`, which settles timers with it; the live edits and boots are the other two cases |
| | `InterlockHolds`, `WaitsAreExclusive` | `InterlockInv`: mask and chip are each pair-safe, no relay waits beside its partner, and on a working bus the chip *is* the mask. The mask alone is not inductive, because a boot reads the chip |
| | `ControllerImplementsBank`: `Spec => Bank!BankSpec` | the same invariant, and one step per action: each maps to a step of the bank or a stutter |
| | `QuietIsConfirmed`, `HoldStateKept` | a write that is not confirmed sets `fault`; a change of a hold relay sets `savePending`, which only a save that worked clears |
| | `CallersImplementController`: `RequestSpec => Spec` | a step of a request is one call of the controller or touches none of its variables |
| | `AllAlwaysMeansAll`, `AllOnlyEverAsAsked` | `AllMeansAll` alone is not inductive: the invariant says for a request under way that each relay no longer left is as asked or waits, unless a call failed or somebody interfered (`view`); a call for one relay cannot undo another, because "all on" leaves out paired relays and "all off" only takes coils off, but for a pair wired NC |
| `N2kProofs` | `NodeTypeCorrect`, `FramesAlwaysIntact` | the held slots are distinct and in use, the slot at hand is free until it is marked, reclaiming happens only when the driver is empty |
| | `ReceiveImplementsNode`: `ReceiveSpec => Spec` | `rx_task`'s recovery is the node's `Recover`, every other step of the receive side leaves the node alone |
| | `AlwaysInOrderOnce` | `OrderInv`: what was read, lies in the bridge's queue, in `rx_task`'s hands and in the node's queue is one sorted sequence below the number of frames received, and its length and the drops add up to that number; one lemma for a frame lost, one more, moved from one queue to the next |
| | `AlertsTypeCorrect` | inductive as it stands; one lemma per thing done to a channel, and one for a pass (`TickShape`) |
| | `NoGhostHolds` | `ShownInv`, see below; from fewer frames lost than Normals sent alone |
| | `AckMeantHolds` | `AckInv`: an alert's number follows that of the one cleared before it, and an acknowledgement under way names one of the two; with three numbers or more a new alert has neither's. Nothing is assumed of the bus |
| | `RightInTimeHolds`: `TimedSpec => []RightInTime` | `TimedSpec` is the alerts with an observer, `quiet`, that counts the status periods ended since an input or setting changed, once the settings are taken over. `TimedInv` (see below) is inductive. A bound for `DisplayRight`: two periods more than frames can be lost, and the display is right |
| `PanelProofs` | `PanelTypeCorrect` | inductive as it stands |
| | `HoldsActOnly`: `Spec => ActsOnFullHold` | `HoldInv`: the state machine never counts a longer hold than the contact was really closed for, and ignores it until it was once let go after start-up |
| | `AlarmAlwaysSaysWhy` | inductive with `CopiesInPeace`: a browser's tone is only copied in a pass that saw no alarm |
| `InputsProofs` | `CountersTypeCorrect` | a fold keeps the types; one lemma on division (`MovedExactly`) says that seconds moved from the age to the hours are neither lost nor invented |
| | `RuntimeAlwaysExact` | `HoursInv`: whole seconds and age together never exceed the time on, and lack less than a second for each time the channel went off |
| | `AlwaysSavedOrDirty`, `CleanRestartAlwaysKeeps` | `KeptInv`: unless a change met a save or the flash could not be read, one saver is at work, its snapshot is what there is, and from the shutdown fold on no age is more than the time since and a fraction of a second |
| | `SenseTypeCorrect`, `ReportsTruthHolds`, `FollowsInputHolds` | `SenseInv`: an input has a level since the boot exactly once its first reading counts, and an input whose reading is still out counts as given up on. `FollowsInput` alone is not inductive: it exempts late inputs, and says nothing of when they stop being late. An override that was refused leaves its relay to itself (`own`) |
| | `OnlyRealChangesHolds` | from the same invariant, poll by poll: while start-up waits, when it ends, and after |
| `SchedulesProofs` | `SchedulesTypeCorrect` | inductive as it stands, for any table the parsers deliver |
| | `RelaysAsDueHolds` | `SchedulesInv`: no two entries in force name one relay (`Loaded`), after an evaluation each is remembered as it is (`Remembered`), and between evaluations the relays that the next one will set are due to be as their entries say, all others already are (`Awaited`) |
| | `WindowServedHolds`, `NeverOutsideHolds` | from `Remembered`, and that `clock_active()`'s comparisons of minutes and two days' masks agree with the windows as days and minutes, for each order of on and off |
| | `FirstNightRunsToo` | from the same two facts: the early hours of a day in the mask are active, and no window of a day in the mask reaches into them |
| `RelayListenersProofs` | `SkAlwaysShowsCurrent`, `BusAlwaysShowsCurrent` | inductive with the types: a critical section owes a report of exactly what it changed (`ChangesAreOwed`), and a task's debts change by its own steps only (`OthersOwe`) |
| `SkBridgeProofs` | `AlwaysSeenOrPending` | inductive, with what posting and delivering do to a queue of events |
| | `FailSafeAtMostOnce` | `OnceInv`: fired only if `lostFired` says so, and not while there is no loss |
| | `AlarmAlwaysShown` | `ShownInv`: what is not configured is not raised either, unless it was switched off unheard, and there is no report to make when new settings are taken on |
| `IoLoopProofs` | `EffectiveIsSound`, `IoTypeCorrect` | what `device_config_load()` makes of any raw settings is mutual |
| | `NothingEverMissed` | `SaveInv`: while a load runs unnotified, the keys already read are those stored; nothing is in use before it is loaded |
| | `ResetAlwaysKept` | a pending restart keeps `io_task` from its tick |

Assumptions: those the modules name (`ConfigAssumption`, `IoAssumption`, `TwaiAssumption`, ...): finite small facts such as mutual pairs
or non-empty slots, evaluated by TLC in every run. The interlock theorems also assume the condition of section 4; the
store theorem a working bus and a readable flash (`~BusFaults`, `~LoadFaults`) in its hypothesis; `NoGhostHolds` that fewer frames are
lost than Normals sent, `AckMeantHolds` three occurrence numbers, `RightInTimeHolds` `BusAssumption`.

**Why nothing stale stays on a display** (`NoGhostHolds`). That a stale alert is still going to be reported Normal is not
inductive: it has to be known how many of its Normals were lost. `ShownInv` counts. `Owed`: what was sent of a stale alert's Normals
was lost, so some are left as long as fewer frames are lost than Normals are sent. `ShownOurs`: what the display shows of a channel
is the alert there is, the one cleared before it, or one forgotten. `Remembered`: the alert there is is not among those forgotten.

**Why the display is right in time** (`RightInTimeHolds`). `Paced`: every status period without a change sends one of the Normals
owed, and the last one to count is due and has its turn before the period ends, because the channels ahead of it and the responses
that may yet make one due are no more than the ticks that are left (`Ahead`). `Told`: the same of an alert the display has not heard
of; it was sent in every period and lost. `CountedJudged`: periods count only when the settings are taken over and judged.
`BusAssumption` says what this takes of the numbers: channels and acknowledged channels together at most the ticks of a status
period (8 and 8 of 100), and fewer frames lost than Normals sent (3). The run `Alerts` meets what `NoGhostHolds` assumes; its period of
two ticks for two channels and its two occurrence numbers are below what the other two assume, and its properties hold all the same.

**Only model-checked**: liveness under fairness (`TimersEnd`, `EventuallyTold`, `SteadyIsReported`, `SafeAfterLoss`,
`DisplayRight`, `AllSent`, `SettingsApply`, `AlarmHeard`, `AcceptedHeard`), which the prover does not handle. Every
invariant and every action property of the runs is a theorem. No module uses a recursive operator.

## 6. Abstractions

- Names, metadata, JSON, PGN layouts, texts, logging and web status pages are left out. Payloads are sets of relays or
  inputs, alerts are identities.
- Of the buzzer a tone is a number of passes, of an alarm's Morse text only the set of inputs it names. Pitches and the
  LED's colours are output only.
- Time: a deadline is a remaining time counted down by `Elapse`. The 32-bit wrap of the millisecond clock is left out:
  all durations are below 2^31 ms by the settings' schema (at most 24 h), for which `deadline_passed()`
  (`relay_ctrl.c:153`) is exact.
- A failing I2C transfer is a choice whether it landed; a failing flash write leaves the flash as it was.
- espOS, the NMEA 2000 library, the flash, the server, displays and the TWAI driver are environment, modelled from how
  the code uses them and marked external in the map.

## 7. Observations

Behaviour met while modelling that no run states as a property, because no document contradicts it outright or because
the run's hypotheses exclude it.

- **Edits during dead times.** If settings pair two relays that are both waiting out a dead time, the tick looks only at the
  partner's coil (`relay_ctrl.c:534`) and turns both on. The comment above says a timer "must never be trusted to
  energize both coils together on its own" (`relay_ctrl.c:529-533`).
- **Start-up overwrites settings.** `app_main` starts the bridges, the page and the indicator (`main.c:816-862`) with the settings
  loaded at boot, although `io_task` may have handed out newer ones; keys saved between the load and the subscription
  (`main.c:802`) notify nobody. In that window `indicator_update_config` may also run on two tasks
  (`indicator.c:236-238` says it never does).
- **Half-saved pairs.** Re-pairing relay 1 from 2 to 3 key by key leaves no interlock while a half-saved load is in use.
- **Bank ids.** `report_health` compares the live ids, the bridges use those of the boot.
- **Counters.** They are given the state of each report, so overtaking reports can leave them counting the wrong one
  (`main.c:219`). `counters_tick()` may write an older snapshot over a reset or the shutdown flush, and a change during an unlocked write
  loses its dirty mark until the next (`counters.c:181`), against `counters.h:12`, `counters.c:154-155` and "never loses counting"
  (`main.c:209`). They may be written after a factory reset erased the flash. If the flash cannot be read at start-up they begin at zero,
  and the next save overwrites what it held (`counters.c:74-80`).
- **A flash that cannot be read** at a cold boot leaves every relay off (`relay_ctrl.c:263-264`); what it holds of the hold relays
  then differs from the relays, and no save is pending until one of them is switched.
- **Late inputs.** An input that bounces through all of start-up and then settles off fires no override, so a relay
  restored on stays on (`input_sense.c:174`).
- **Overrides.** `input_sense` ignores the result of its override (`input_sense.c:63`, `:66`): one that fails on the expander, or that an
  interlock's dead time puts off (`relay_ctrl.c:377-390`), is not repeated until the input changes again.
- **Cold boot on a failing bus.** The CONFIG write is not repeated (`relay_ctrl.c:273`); later OUTPUT writes clear the
  alarm while the pins are still inputs.
- **SignalK.** With both trees switched off the tick never decides to fire (`sk_bridge.c:478`), so there is no fail-safe,
  although `SPEC.md:133-135` names no such condition. The fail-safe is decided under the mutex and executed after it (`sk_bridge.c:491`), so a reconnection in
  between is answered by a fail-safe; a disconnection handled before `sk_bridge_start()` would call a clock that is not
  set (`sk_bridge.c:467`; left out of the model); an alarm whose setting is switched off while the server cannot hear
  it stays raised there.
- **Alerts.** A second clear of a channel takes over `clear_left` and the identity of the first (`n2k_alerts.c:90-99`). If the display
  has not taken a Normal of the first alert by then, that alert stays on it for good: one Normal was lost, or none at all but another
  channel went first (one channel sends per tick, `n2k_alerts.c:145-175`) and the input cleared, tripped and cleared within that time. `docs/plans/21:32-34` calls a stale alert
  "the failure that matters". `N2kAlerts` has these steps; its properties except the alerts concerned (`forgotten`).
- **Schedules.** A transition refused by the controller is not tried again (`schedule_eval.c:168`); an entry given another relay
  leaves the old one as it was. Switching on an interlocked relay whose partner is on is not refused, as
  `USER_MANUAL.md:319-320` says ("still can't be switched on while its partner is on"), but switches the partner off and follows after the
  dead time (`relay_ctrl.c:377-390`); the model has both as commands. A position's age wraps with the 32-bit clock: for ten minutes, 49.7 days after it was
  received, an old position counts as fresh again (`position.c:20`).
- **CAN.** A failing `twai_node_recover()` is only logged.
- **Early hours.** `clock_active()` (`schedule_eval.c:97-98`) counts the minutes before an overnight window's off time as
  active whenever *today* is in the mask, too: a Friday-only 22:00-06:00 entry also runs Friday 00:00-06:00, where
  `USER_MANUAL.md:315` and the test at `test_schedule_eval.c:145` name Friday 22:00 to Saturday 06:00. Theorem `FirstNightRunsToo` proves it
  of every overnight entry that names a day but not the day before.
- **"All" and its copies.** `put_all` reads the page's own settings, which may be older than the controller's, and is not
  atomic. The comment that "all off" "always reaches every relay" (`web_ui.c:239-241`) does not hold of two interlocked relays
  wired to their normally closed contacts. `set_relay` reports success for an "on" that waits for a dead time, which
  still comes on after the relay is unpaired; the NMEA 2000 bridge ignores the result of its calls.
- **Received frames** that find the bridge's queue full (`n2k_bridge.cpp:82`) or arrive before there is a sink are counted by nobody,
  although `twai_node.cpp:269-274` counts drops "rather than leaving a gap to be guessed at".
- **Button.** The release is debounced, so a threshold may pass after the last feedback was shown. `do_factory_reset` runs in the middle
  of a loop of `io_task`, so `sk_bridge_tick`, `counters_tick` and `schedule_tick` run once more after it
  (`main.c:437-440`). Until the restart's chirp is over, up to 10 s, `io_task` does nothing (`main.c:416`): pulses and
  maximum on-times run on (`docs/plans/22`, item 2.3).
- **Indicator.** A pass that has read the override before the restart clears the restart's own chirp request
  (`indicator.c:103`, `:131`). `request_chirp` keeps an index into a library that may change before it is picked up. A preview that is accepted may
  be replaced by a later one between flag and copy (`:186`, `:188`), which then sounds twice. A buzzer test accepted as an alarm starts
  stays requested and sounds when the alarm is over (`:356`).

## 8. Not modelled, and the plan

| part | status |
|---|---|
| sharing and stopping in `twai_node.cpp` | `acquire` runs once at start-up, `release` never: this firmware does not stop the node |
| `candump_tcp_server.cpp` | not started in this firmware (`n2k_bridge.cpp:65-67`) |
| `sun.c`, `position_n2k.c` | floating point; the N2K source is the SignalK one with another parser. `Schedules` has a position's age and fallback |
| real-time clock, Ethernet, tone parsing, Morse timing | I/O and formatting without state the relays depend on |

Order of the work: (1) the relay controller and `RelayBank`, with proofs; (2) its listeners; (3) inputs, SignalK, counters;
(4) alerts, schedules, CAN; (5) start-up and settings; (6) Panel; (7) Requests; (8) the receive half of the CAN node;
(9) proofs about `Requests`, `CanReceive`, `Panel`, `Counters`, `RelayListeners` and `SkBridge`; (10) proofs about `InputSense`,
`Schedules` and `N2kAlerts` - all done. Left: a module that composes `SkBridge`'s fail-safe with `RelayBank`.
