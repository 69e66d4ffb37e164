---------------------------- MODULE RelayCtrlProofs ----------------------------
(***************************************************************************)
(* Theorems about RelayCtrl for every set of relays, every set of          *)
(* validated configurations and every kind of fault: types and timers;     *)
(* what is remembered in flash and in the expander; interlocks, and the    *)
(* refinement of RelayBank.  Then about Requests, for any messages too:    *)
(* what is proved of the controller holds with its callers, and what "All  *)
(* on" and "All off" promise, although their calls are not one atomic      *)
(* step.                                                                   *)
(***************************************************************************)
EXTENDS Requests, TLAPS

BoardType == [mask : SUBSET Relays, chip : SUBSET Relays,
              fault : BOOLEAN, save : BOOLEAN]

(***************************************************************************)
(* What a commit can do to the board.                                      *)
(***************************************************************************)
LEMMA BoardTyped == TypeOK => Board \in BoardType
  BY DEF TypeOK, Board, BoardType

LEMMA CommitsResult ==
  ASSUME NEW b \in BoardType, NEW t \in SUBSET Relays, NEW h,
         NEW r \in Commits(b, t, h)
  PROVE  /\ r \in BoardType
         /\ r.mask = t \/ r.mask = b.mask
         /\ r.chip = t \/ r.chip = b.chip
         /\ r.mask = t /\ t # b.mask => r.chip = t
         /\ ~BusFaults => r.mask = t
         /\ ~BusFaults /\ b.chip = b.mask => r.chip = r.mask
         /\ ~r.save => ~b.save /\ r.mask \cap h = b.mask \cap h
  <1>1. CASE t = b.mask
    BY <1>1 DEF Commits
  <1>2. CASE t # b.mask
    <2> DEFINE good == [mask |-> t, chip |-> t, fault |-> FALSE,
                        save |-> b.save \/ (t \cap h) # (b.mask \cap h)]
    <2>1. CASE r = good
      <3>1. good \in BoardType
        BY DEF BoardType
      <3>2. good.mask = t /\ good.chip = t
        OBVIOUS
      <3>3. good.save = (b.save \/ (t \cap h) # (b.mask \cap h))
        OBVIOUS
      <3>4. QED
        BY <1>2, <2>1, <3>1, <3>2, <3>3
    <2>2. CASE r # good
      <3>1. PICK c \in (IF BusFaults THEN {b.chip, t} ELSE {}) :
                r = [b EXCEPT !.chip = c, !.fault = TRUE]
        BY <1>2, <2>2 DEF Commits
      <3>2. BusFaults /\ c \in {b.chip, t}
        BY <3>1
      <3>3. r.mask = b.mask /\ r.chip = c /\ r.save = b.save /\ r \in BoardType
        BY <3>1, <3>2 DEF BoardType
      <3>4. QED
        BY <1>2, <3>2, <3>3
    <2>3. QED
      BY <2>1, <2>2
  <1>3. QED
    BY <1>1, <1>2

(***************************************************************************)
(* The timers: types, and which of them run.                               *)
(***************************************************************************)
LEMMA StoppedTyped == Stopped \in [Relays -> Timer] /\ Running(Stopped) = {}
  BY DEF Stopped, Timer, Running

LEMMA StopTyped ==
  ASSUME NEW timer \in [Relays -> Timer], NEW S
  PROVE  /\ Stop(timer, S) \in [Relays -> Timer]
         /\ Running(Stop(timer, S)) = Running(timer) \ S
  BY DEF Stop, Timer, Running

LEMMA StartTyped ==
  ASSUME NEW timer \in [Relays -> Timer], NEW S, NEW length \in [Relays -> Nat]
  PROVE  /\ Start(timer, S, length) \in [Relays -> Timer]
         /\ Running(Start(timer, S, length)) = Running(timer) \cup (S \cap Relays)
  <1>1. Start(timer, S, length) \in [Relays -> Timer]
    BY DEF Start, Timer
  <1>2. \A i \in Relays : length[i] # Idle
    BY DEF Idle
  <1>3. QED
    BY <1>1, <1>2 DEF Start, Running

LEMMA TrackTyped ==
  ASSUME NEW timer \in [Relays -> Timer], NEW c \in Configs,
         NEW m, NEW before, NEW restart
  PROVE  TrackMaxOn(c, m, before, restart, timer) \in [Relays -> Timer]
  <1>1. \A i \in Relays : MaxOn(c, i) \in Nat
    BY ConfigAssumption DEF Config, MaxOn
  <1>2. QED
    BY <1>1 DEF TrackMaxOn, Timer

LEMMA CountDownTyped ==
  ASSUME NEW timer \in [Relays -> Timer]
  PROVE  /\ CountDown(timer) \in [Relays -> Timer]
         /\ Running(CountDown(timer)) = Running(timer)
  <1>1. CountDown(timer) \in [Relays -> Timer]
    BY DEF CountDown, Timer, Idle
  <1>2. \A i \in Relays : (CountDown(timer)[i] # Idle) <=> (timer[i] # Idle)
    BY DEF CountDown, Timer, Idle
  <1>3. QED
    BY <1>1, <1>2 DEF Running

LEMMA DueRuns == ASSUME NEW timer \in [Relays -> Timer] PROVE Due(timer) \subseteq Running(timer)
  BY DEF Due, Running, Idle

\* After tracking, exactly the limited relays that are on have a timer, given
\* that those that were on before and are not restarted had one.
LEMMA TrackedRunning ==
  ASSUME NEW timer \in [Relays -> Timer], NEW c \in Configs,
         NEW m \in SUBSET Relays, NEW before, NEW restart,
         \A i \in m : MaxOn(c, i) > 0 /\ i \in before /\ i \notin restart
                        => timer[i] # Idle
  PROVE  Running(TrackMaxOn(c, m, before, restart, timer)) = {i \in m : MaxOn(c, i) > 0}
  <1>1. \A i \in Relays : MaxOn(c, i) \in Nat
    BY ConfigAssumption DEF Config, MaxOn
  <1>2. ASSUME NEW i \in Relays
        PROVE  (TrackMaxOn(c, m, before, restart, timer)[i] # Idle)
                 <=> (i \in m /\ MaxOn(c, i) > 0)
    BY <1>1 DEF TrackMaxOn, Idle
  <1>3. QED
    BY <1>2 DEF Running

(***************************************************************************)
(* Every command, whichever way it came, is a Switch of one relay.         *)
(***************************************************************************)
LEMMA CommandIsSwitch ==
  ASSUME NEW i \in Relays, Command(i)
  PROVE  \E on \in BOOLEAN : Switch(i, on)
  BY DEF Command, Toggle, Set

LEMMA HoldMaskTyped == ASSUME NEW c \in Configs PROVE HoldMask(c) \in SUBSET Relays
  BY ConfigAssumption DEF Config, HoldMask

LEMMA SaveAges == SaveDelay \in 0 .. SaveDelay /\ 0 \in 0 .. SaveDelay
  BY SwitchAssumption

LEMMA ConfigParts ==
  ASSUME NEW c \in Configs
  PROVE  /\ c \in Config
         /\ c.momentary \in SUBSET Relays
         /\ c.partner \in [Relays -> SUBSET Relays]
         /\ c.pulseMs \in [Relays -> Nat]
         /\ c.deadMs \in Timer
         /\ \A i \in Relays : MaxOn(c, i) \in Nat
         /\ \A i \in c.momentary : MaxOn(c, i) = 0
         /\ \A i, j \in Relays : j \in c.partner[i] => j # i /\ i \in c.partner[j]
  BY ConfigAssumption DEF Config, Timer, MaxOn

(***************************************************************************)
(* Type correctness.                                                       *)
(***************************************************************************)
LEMMA SwitchTyped ==
  ASSUME TypeOK, NEW i \in Relays, NEW on \in BOOLEAN, Switch(i, on)
  PROVE  TypeOK'
  <1> USE DEF TypeOK
  <1>1. Board \in BoardType /\ HoldMask(cfg) \in SUBSET Relays /\ cfg \in Configs
    BY BoardTyped, HoldMaskTyped
  <1>2. UNCHANGED <<up, cfg, saveAge, warned, driven, store>>
    BY DEF Switch
  <1>3. CASE ~on /\ SwitchOff(i)
    <2>1. PICK b \in Commits(Board, mask \ {i}, HoldMask(cfg)) :
             /\ SetBoard(b)
             /\ \/ /\ pulse' = Stop(pulse, {i})
                   /\ limit' = TrackMaxOn(cfg, b.mask, mask, {}, limit)
                \/ UNCHANGED <<pulse, limit>>
      BY <1>3 DEF SwitchOff
    <2>2. b \in BoardType
      BY <1>1, <2>1, CommitsResult
    <2>3. wait' = Stop(wait, {i})
      BY <1>3 DEF SwitchOff
    <2>4. wait' \in [Relays -> Timer] /\ pulse' \in [Relays -> Timer] /\ limit' \in [Relays -> Timer]
      BY <1>1, <2>1, <2>3, StopTyped, StartTyped, TrackTyped, ConfigParts
    <2>5. QED
      BY <1>2, <2>1, <2>2, <2>4 DEF SetBoard, BoardType
  <1>4. CASE on /\ SwitchOnAfterPartner(i)
    <2> DEFINE partner == cfg.partner[i]
    <2>1. PICK b \in Commits(Board, mask \ partner, HoldMask(cfg)) :
             /\ SetBoard(b)
             /\ \/ /\ pulse' = Stop(pulse, partner)
                   /\ limit' = TrackMaxOn(cfg, b.mask, mask, {}, limit)
                   /\ wait' = [Stop(wait, partner) EXCEPT ![i] = cfg.deadMs]
                \/ UNCHANGED <<pulse, limit, wait>>
      BY <1>4 DEF SwitchOnAfterPartner
    <2>2. b \in BoardType
      BY <1>1, <2>1, CommitsResult
    <2>3. cfg.deadMs \in Timer
      BY <1>1, ConfigParts
    <2>4. Stop(wait, partner) \in [Relays -> Timer]
      BY <1>1, StopTyped, StartTyped, TrackTyped, ConfigParts
    <2>5. wait' \in [Relays -> Timer] /\ pulse' \in [Relays -> Timer] /\ limit' \in [Relays -> Timer]
      <3>1. CASE UNCHANGED <<pulse, limit, wait>>
        BY <3>1
      <3>2. CASE ~UNCHANGED <<pulse, limit, wait>>
        BY <1>1, <2>1, <2>3, <2>4, <3>2, StopTyped, StartTyped, TrackTyped, ConfigParts
      <3>3. QED
        BY <3>1, <3>2
    <2>6. QED
      BY <1>2, <2>1, <2>2, <2>5 DEF SetBoard, BoardType
  <1>5. CASE on /\ SwitchOnNow(i)
    <2> DEFINE lit == mask \cup {i}
    <2>1. PICK b \in Commits(Board, lit, HoldMask(cfg)) :
             /\ SetBoard(b)
             /\ \/ /\ pulse' = Start(pulse, {i} \cap cfg.momentary, cfg.pulseMs)
                   /\ limit' = TrackMaxOn(cfg, lit, mask, {i}, limit)
                   /\ wait' = Stop(wait, cfg.partner[i])
                \/ UNCHANGED <<pulse, limit, wait>>
      BY <1>5 DEF SwitchOnNow
    <2>2. b \in BoardType
      BY <1>1, <2>1, CommitsResult
    <2>3. wait' \in [Relays -> Timer] /\ pulse' \in [Relays -> Timer] /\ limit' \in [Relays -> Timer]
      BY <1>1, <2>1, StopTyped, StartTyped, TrackTyped, ConfigParts
    <2>4. QED
      BY <1>2, <2>1, <2>2, <2>3 DEF SetBoard, BoardType
  <1>6. CASE on /\ SwitchOnWaiting(i)
    BY <1>2, <1>6 DEF SwitchOnWaiting
  <1>7. QED
    BY <1>3, <1>4, <1>5, <1>6 DEF Switch

LEMMA SkLostTyped == ASSUME TypeOK, SkLost PROVE TypeOK'
  <1> USE DEF TypeOK
  <1>1. Board \in BoardType /\ HoldMask(cfg) \in SUBSET Relays /\ cfg \in Configs
    BY BoardTyped, HoldMaskTyped
  <1>2. PICK b \in Commits(Board, mask \cap HoldMask(cfg), HoldMask(cfg)) :
           /\ SetBoard(b)
           /\ \/ /\ pulse' = Stop(pulse, Relays \ HoldMask(cfg))
                 /\ limit' = TrackMaxOn(cfg, b.mask, mask, {}, limit)
              \/ UNCHANGED <<pulse, limit>>
    BY DEF SkLost
  <1>3. b \in BoardType
    BY <1>1, <1>2, CommitsResult
  <1>4. wait' \in [Relays -> Timer] /\ pulse' \in [Relays -> Timer] /\ limit' \in [Relays -> Timer]
    BY <1>1, <1>2, StopTyped, StartTyped, TrackTyped, ConfigParts DEF SkLost
  <1>5. QED
    BY <1>2, <1>3, <1>4 DEF SetBoard, BoardType, SkLost

LEMMA UpdateConfigTyped ==
  ASSUME TypeOK, NEW c \in Configs, UpdateConfig(c)
  PROVE  TypeOK'
  <1> USE DEF TypeOK
  <1> DEFINE changed  == {i \in Relays : MaxOn(c, i) # MaxOn(cfg, i)}
             limits   == TrackMaxOn(c, mask, mask, changed, limit)
             conflict == ConflictsIn(c, mask)
             dirty    == savePending \/ HoldMask(c) # HoldMask(cfg)
             old      == [Board EXCEPT !.save = dirty]
  <1>1. old \in BoardType /\ HoldMask(c) \in SUBSET Relays
    BY BoardTyped, HoldMaskTyped DEF BoardType
  <1>2. PICK b \in Commits(old, mask \ conflict, HoldMask(c)) :
           /\ SetBoard(b)
           /\ \/ /\ pulse' = Stop(PulsesUnder(c), conflict)
                 /\ wait' = Stop(wait, conflict)
                 /\ limit' = TrackMaxOn(c, b.mask, mask, {}, limits)
                 /\ warned' = conflict
              \/ /\ pulse' = PulsesUnder(c)
                 /\ wait' = wait
                 /\ limit' = limits
                 /\ warned' = {}
    BY DEF UpdateConfig
  <1>3. b \in BoardType
    BY <1>1, <1>2, CommitsResult
  <1>4. limits \in [Relays -> Timer] /\ PulsesUnder(c) \in [Relays -> Timer]
    <2>1. Stop(pulse, Relays \ c.momentary) \in [Relays -> Timer]
      BY StopTyped, StartTyped, TrackTyped, ConfigParts
    <2>2. QED
      BY <2>1, StopTyped, StartTyped, TrackTyped, ConfigParts DEF PulsesUnder
  <1>5. wait' \in [Relays -> Timer] /\ pulse' \in [Relays -> Timer] /\ limit' \in [Relays -> Timer]
    BY <1>2, <1>4, StopTyped, StartTyped, TrackTyped, ConfigParts
  <1>6. warned' \in SUBSET Relays
    BY <1>2 DEF ConflictsIn
  <1>7. QED
    BY <1>2, <1>3, <1>5, <1>6 DEF SetBoard, BoardType, UpdateConfig

\* The three boards a tick goes through, and what is known of each.
LEMMA TickBoards ==
  ASSUME TypeOK, NEW b1 \in EndPulses(Board), NEW b2 \in EndMaxOn(b1),
         NEW b3 \in EndDeadTimes(b2)
  PROVE  /\ b1 \in BoardType /\ b2 \in BoardType /\ b3 \in BoardType
         /\ b1.mask \in {mask, mask \ Due(pulse)}
         /\ b2.mask \in {b1.mask, b1.mask \ Due(limit)}
         /\ b3.mask \in {b2.mask, b2.mask \cup Fired(b2)}
         /\ Fired(b2) \in SUBSET Relays
  <1>1. Board \in BoardType /\ Board.mask = mask
    BY BoardTyped DEF Board
  <1>2. mask \ Due(pulse) \in SUBSET Relays
    BY DEF TypeOK
  <1>3. b1 \in BoardType /\ b1.mask \in {mask, mask \ Due(pulse)}
    BY <1>1, <1>2, CommitsResult DEF EndPulses
  <1>4. b1.mask \ Due(limit) \in SUBSET Relays
    BY <1>3 DEF BoardType
  <1>5. b2 \in BoardType /\ b2.mask \in {b1.mask, b1.mask \ Due(limit)}
    BY <1>3, <1>4, CommitsResult DEF EndMaxOn
  <1>6. Fired(b2) \in SUBSET Relays
    BY DEF Fired, Due
  <1>7. b2.mask \cup Fired(b2) \in SUBSET Relays
    BY <1>5, <1>6 DEF BoardType
  <1>8. b3 \in BoardType /\ b3.mask \in {b2.mask, b2.mask \cup Fired(b2)}
    <2>1. b3 \in Commits(b2, b2.mask \cup Fired(b2), HoldMask(cfg))
      BY DEF EndDeadTimes
    <2> HIDE DEF Fired
    <2>2. QED
      BY <1>5, <1>7, <2>1, CommitsResult
  <1>9. QED
    BY <1>3, <1>5, <1>6, <1>8

LEMMA TickTyped == ASSUME TypeOK, Tick PROVE TypeOK'
  <1>1. PICK b1 \in EndPulses(Board) : \E b2 \in EndMaxOn(b1) : \E b3 \in EndDeadTimes(b2) :
            TickOutcome(b1, b2, b3)
    BY DEF Tick
  <1>2. PICK b2 \in EndMaxOn(b1) : \E b3 \in EndDeadTimes(b2) : TickOutcome(b1, b2, b3)
    BY <1>1
  <1>3. PICK b3 \in EndDeadTimes(b2) : TickOutcome(b1, b2, b3)
    BY <1>2
  <1>4. b3 \in BoardType
    BY TickBoards
  <1> DEFINE ended   == IF b1.mask = mask \ Due(pulse) THEN Due(pulse) ELSE {}
             expired == IF b2.mask = b1.mask \ Due(limit) THEN Due(limit) ELSE {}
             fired   == IF b3.mask = b2.mask \cup Fired(b2) THEN Fired(b2) ELSE {}
             dropped == Due(wait) \ Fired(b2)
             limits  == Stop(limit, expired)
  <1>5. /\ mask' = b3.mask
        /\ chip' = b3.chip
        /\ fault' = b3.fault
        /\ pulse' = Start(Stop(pulse, ended), fired \cap cfg.momentary, cfg.pulseMs)
        /\ limit' = IF fired = {} THEN limits
                    ELSE TrackMaxOn(cfg, b3.mask, b2.mask, fired, limits)
        /\ wait' = Stop(wait, fired \cup dropped)
        /\ SaveHoldState(b3)
    BY <1>3, Zenon DEF TickOutcome
  <1> HIDE DEF ended, expired, fired, dropped
  <1>6. pulse' \in [Relays -> Timer]
    <2>1. Stop(pulse, ended) \in [Relays -> Timer]
      BY StopTyped DEF TypeOK
    <2>2. QED
      BY <1>5, <2>1, StartTyped, ConfigParts DEF TypeOK
  <1>7. limit' \in [Relays -> Timer]
    <2>1. limits \in [Relays -> Timer]
      BY StopTyped DEF TypeOK
    <2>2. QED
      BY <1>5, <2>1, TrackTyped DEF TypeOK
  <1>8. wait' \in [Relays -> Timer]
    BY <1>5, StopTyped DEF TypeOK
  <1>9. savePending' \in BOOLEAN /\ saveAge' \in 0 .. SaveDelay /\ store' \in SUBSET Relays
    BY <1>4, <1>5, SaveAges, HoldMaskTyped DEF SaveHoldState, TypeOK, BoardType
  <1>10. QED
    BY <1>4, <1>5, <1>6, <1>7, <1>8, <1>9 DEF TypeOK, BoardType, Tick

LEMMA FoundTyped == ASSUME TypeOK PROVE Found \subseteq SUBSET Relays
  BY DEF Found, TypeOK

LEMMA BootTyped == ASSUME TypeOK, NEW c \in Configs, Boot(c) PROVE TypeOK'
  <1> PICK found \in Found : BootRestored(c, found) \/ BootFailed(c, found)
    BY DEF Boot
  <1>0. found \in SUBSET Relays
    BY FoundTyped
  <1> DEFINE held     == found \cap HoldMask(c)
             conflict == ConflictsIn(c, held)
             target   == held \ conflict
  <1>1. target \in SUBSET Relays /\ conflict \in SUBSET Relays
    BY <1>0, HoldMaskTyped DEF TypeOK, ConflictsIn
  <1>2. TrackMaxOn(c, target, {}, {}, Stopped) \in [Relays -> Timer]
    BY StoppedTyped, TrackTyped
  <1>3. CASE BootRestored(c, found)
    BY <1>1, <1>2, <1>3, StoppedTyped, SaveAges DEF BootRestored, Boot, TypeOK
  <1>4. CASE BootFailed(c, found)
    BY <1>1, <1>4, StoppedTyped, SaveAges DEF BootFailed, Boot, TypeOK
  <1>5. QED
    BY <1>3, <1>4

\* Every variable of the controller keeps its type, for any relays and settings.
THEOREM TypeCorrect == Spec => []TypeOK
  <1>1. Init => TypeOK
    BY StoppedTyped, SaveAges DEF Init, TypeOK
  <1>2. TypeOK /\ [Next]_vars => TypeOK'
    <2> SUFFICES ASSUME TypeOK, [Next]_vars PROVE TypeOK'
      OBVIOUS
    <2>1. ASSUME NEW i \in Relays, Command(i) PROVE TypeOK'
      BY <2>1, CommandIsSwitch, SwitchTyped
    <2>2. CASE SkLost
      BY <2>2, SkLostTyped
    <2>3. ASSUME NEW c \in Configs, UpdateConfig(c) PROVE TypeOK'
      BY <2>3, UpdateConfigTyped
    <2>4. CASE Tick
      BY <2>4, TickTyped
    <2>5. CASE Elapse
      <3>1. saveAge' \in 0 .. SaveDelay
        BY <2>5, SwitchAssumption DEF Elapse, TypeOK
      <3>2. QED
        BY <2>5, <3>1, CountDownTyped DEF Elapse, TypeOK
    <2>6. CASE Crash
      BY <2>6, StoppedTyped, SaveAges DEF Crash, RamCleared, TypeOK
    <2>7. CASE PowerCut
      BY <2>7, StoppedTyped, SaveAges DEF PowerCut, RamCleared, TypeOK
    <2>8. ASSUME NEW c \in Configs, Boot(c) PROVE TypeOK'
      BY <2>8, BootTyped
    <2>9. CASE UNCHANGED vars
      BY <2>9 DEF vars, ram, TypeOK
    <2>10. QED
      BY <2>1, <2>2, <2>3, <2>4, <2>5, <2>6, <2>7, <2>8, <2>9 DEF Next
  <1>3. QED
    BY <1>1, <1>2, PTL DEF Spec

(***************************************************************************)
(* Every relay that must go off by itself has its timer running.           *)
(***************************************************************************)
Timed(c, m, p, l) ==
    /\ Running(p) = m \cap c.momentary
    /\ Running(l) = {i \in m : MaxOn(c, i) > 0}

LEMMA TimedInv == TimersMatchCoils <=> Timed(cfg, mask, pulse, limit)
  BY DEF TimersMatchCoils, Timed

\* Coils going off take their timers along.
LEMMA OffTimed ==
  ASSUME NEW c \in Configs, NEW m \in SUBSET Relays,
         NEW p \in [Relays -> Timer], NEW l \in [Relays -> Timer],
         Timed(c, m, p, l), NEW S
  PROVE  Timed(c, m \ S, Stop(p, S), TrackMaxOn(c, m \ S, m, {}, l))
  <1>1. Running(Stop(p, S)) = (m \ S) \cap c.momentary
    BY StopTyped DEF Timed
  <1>2. \A i \in m \ S : MaxOn(c, i) > 0 => l[i] # Idle
    BY DEF Timed, Running
  <1>3. Running(TrackMaxOn(c, m \ S, m, {}, l)) = {i \in m \ S : MaxOn(c, i) > 0}
    BY <1>2, TrackedRunning
  <1>4. QED
    BY <1>1, <1>3 DEF Timed

\* Coils S coming on start theirs.
LEMMA OnTimed ==
  ASSUME NEW c \in Configs, NEW m \in SUBSET Relays,
         NEW p \in [Relays -> Timer], NEW l \in [Relays -> Timer],
         Timed(c, m, p, l), NEW S \in SUBSET Relays
  PROVE  Timed(c, m \cup S, Start(p, S \cap c.momentary, c.pulseMs),
               TrackMaxOn(c, m \cup S, m, S, l))
  <1>1. c.momentary \in SUBSET Relays /\ c.pulseMs \in [Relays -> Nat]
    BY ConfigParts
  <1>2. Running(Start(p, S \cap c.momentary, c.pulseMs)) = (m \cup S) \cap c.momentary
    BY <1>1, StartTyped DEF Timed
  <1>3. \A i \in m : MaxOn(c, i) > 0 => l[i] # Idle
    BY DEF Timed, Running
  <1>4. Running(TrackMaxOn(c, m \cup S, m, S, l)) = {i \in m \cup S : MaxOn(c, i) > 0}
    <2>1. m \cup S \in SUBSET Relays
      OBVIOUS
    <2>2. \A i \in m \cup S : MaxOn(c, i) > 0 /\ i \in m /\ i \notin S => l[i] # Idle
      BY <1>3
    <2>3. QED
      BY <2>1, <2>2, TrackedRunning
  <1>5. QED
    BY <1>2, <1>4 DEF Timed

LEMMA FailedCommit ==
  ASSUME TypeOK, NEW t \in SUBSET Relays, NEW h, NEW r \in Commits(Board, t, h), r.mask # t
  PROVE  r.mask = mask
  <1>1. Board \in BoardType /\ Board.mask = mask
    BY BoardTyped DEF Board
  <1>2. QED
    BY <1>1, CommitsResult

LEMMA SwitchTimed ==
  ASSUME TypeOK, TimersMatchCoils, NEW i \in Relays, NEW on \in BOOLEAN, Switch(i, on)
  PROVE  TimersMatchCoils'
  <1>1. Board \in BoardType /\ Board.mask = mask /\ cfg \in Configs /\ cfg' = cfg
    BY BoardTyped DEF Board, TypeOK, Switch
  <1>2. Timed(cfg, mask, pulse, limit)
    BY TimedInv
  <1>3. SUFFICES Timed(cfg, mask', pulse', limit')
    BY <1>1 DEF Timed, TimersMatchCoils
  <1>4. CASE ~on /\ SwitchOff(i)
    <2>1. PICK b \in Commits(Board, mask \ {i}, HoldMask(cfg)) :
             /\ mask' = b.mask
             /\ IF b.mask = mask \ {i}
                THEN /\ pulse' = Stop(pulse, {i})
                     /\ limit' = TrackMaxOn(cfg, b.mask, mask, {}, limit)
                ELSE UNCHANGED <<pulse, limit>>
      BY <1>4 DEF SwitchOff, SetBoard
    <2>2. CASE b.mask = mask \ {i}
      BY <1>1, <1>2, <2>1, <2>2, OffTimed DEF TypeOK
    <2>3. CASE b.mask # mask \ {i}
      <3>1. mask \ {i} \in SUBSET Relays
        BY DEF TypeOK
      <3>2. b.mask = mask
        BY <2>1, <2>3, <3>1, FailedCommit
      <3>3. QED
        BY <1>2, <2>1, <2>3, <3>2
    <2>4. QED
      BY <2>2, <2>3
  <1>5. CASE on /\ SwitchOnAfterPartner(i)
    <2> DEFINE partner == cfg.partner[i]
    <2>1. PICK b \in Commits(Board, mask \ partner, HoldMask(cfg)) :
             /\ mask' = b.mask
             /\ IF b.mask = mask \ partner
                THEN /\ pulse' = Stop(pulse, partner)
                     /\ limit' = TrackMaxOn(cfg, b.mask, mask, {}, limit)
                ELSE UNCHANGED <<pulse, limit>>
      BY <1>5 DEF SwitchOnAfterPartner, SetBoard
    <2>2. CASE b.mask = mask \ partner
      BY <1>1, <1>2, <2>1, <2>2, OffTimed DEF TypeOK
    <2>3. CASE b.mask # mask \ partner
      <3>1. mask \ partner \in SUBSET Relays
        BY DEF TypeOK
      <3>2. b.mask = mask
        BY <2>1, <2>3, <3>1, FailedCommit
      <3>3. QED
        BY <1>2, <2>1, <2>3, <3>2
    <2>4. QED
      BY <2>2, <2>3
  <1>6. CASE on /\ SwitchOnNow(i)
    <2> DEFINE lit == mask \cup {i}
    <2>1. PICK b \in Commits(Board, lit, HoldMask(cfg)) :
             /\ mask' = b.mask
             /\ IF b.mask = lit
                THEN /\ pulse' = Start(pulse, {i} \cap cfg.momentary, cfg.pulseMs)
                     /\ limit' = TrackMaxOn(cfg, lit, mask, {i}, limit)
                ELSE UNCHANGED <<pulse, limit>>
      BY <1>6 DEF SwitchOnNow, SetBoard
    <2>2. CASE b.mask = lit
      <3>1. Timed(cfg, lit, Start(pulse, {i} \cap cfg.momentary, cfg.pulseMs),
                  TrackMaxOn(cfg, lit, mask, {i}, limit))
        BY <1>1, <1>2, OnTimed DEF TypeOK
      <3>2. QED
        BY <2>1, <2>2, <3>1
    <2>3. CASE b.mask # lit
      <3>1. lit \in SUBSET Relays
        BY DEF TypeOK
      <3>2. b.mask = mask
        BY <2>1, <2>3, <3>1, FailedCommit
      <3>3. QED
        BY <1>2, <2>1, <2>3, <3>2
    <2>4. QED
      BY <2>2, <2>3
  <1>7. CASE on /\ SwitchOnWaiting(i)
    BY <1>2, <1>7 DEF SwitchOnWaiting
  <1>8. QED
    BY <1>4, <1>5, <1>6, <1>7 DEF Switch

LEMMA SkLostTimed == ASSUME TypeOK, TimersMatchCoils, SkLost PROVE TimersMatchCoils'
  <1> DEFINE hold == HoldMask(cfg)
             off  == Relays \ hold
  <1>1. Board \in BoardType /\ Board.mask = mask /\ cfg \in Configs /\ cfg' = cfg
    BY BoardTyped DEF Board, TypeOK, SkLost
  <1>2. Timed(cfg, mask, pulse, limit)
    BY TimedInv
  <1>3. SUFFICES Timed(cfg, mask', pulse', limit')
    BY <1>1 DEF Timed, TimersMatchCoils
  <1>4. PICK b \in Commits(Board, mask \cap hold, hold) :
           /\ mask' = b.mask
           /\ IF b.mask = mask \cap hold
              THEN /\ pulse' = Stop(pulse, off)
                   /\ limit' = TrackMaxOn(cfg, b.mask, mask, {}, limit)
              ELSE UNCHANGED <<pulse, limit>>
    BY DEF SkLost, SetBoard
  <1>5. CASE b.mask = mask \cap hold
    <2>1. mask \cap hold = mask \ off
      BY DEF TypeOK
    <2>2. QED
      BY <1>1, <1>2, <1>4, <1>5, <2>1, OffTimed DEF TypeOK
  <1>6. CASE b.mask # mask \cap hold
    <2>1. mask \cap hold \in SUBSET Relays
      BY DEF TypeOK
    <2>2. b.mask = mask
      BY <1>4, <1>6, <2>1, FailedCommit
    <2>3. QED
      BY <1>2, <1>4, <1>6, <2>2
  <1>7. QED
    BY <1>5, <1>6

LEMMA UpdateConfigTimed ==
  ASSUME TypeOK, TimersMatchCoils, NEW c \in Configs, UpdateConfig(c)
  PROVE  TimersMatchCoils'
  <1> DEFINE changed  == {i \in Relays : MaxOn(c, i) # MaxOn(cfg, i)}
             limits   == TrackMaxOn(c, mask, mask, changed, limit)
             conflict == ConflictsIn(c, mask)
             dirty    == savePending \/ HoldMask(c) # HoldMask(cfg)
             old      == [Board EXCEPT !.save = dirty]
             pulses   == PulsesUnder(c)
  <1>1. old \in BoardType /\ old.mask = mask /\ cfg' = c
    BY BoardTyped DEF Board, BoardType, UpdateConfig
  <1>2. limits \in [Relays -> Timer] /\ pulses \in [Relays -> Timer]
    <2>1. Stop(pulse, Relays \ c.momentary) \in [Relays -> Timer]
      BY StopTyped DEF TypeOK
    <2>2. QED
      BY <2>1, StartTyped, TrackTyped, ConfigParts DEF PulsesUnder, TypeOK
  <1>3. Timed(c, mask, pulses, limits)
    <2>1. Running(pulses) = mask \cap c.momentary
      <3> DEFINE kept == Stop(pulse, Relays \ c.momentary)
                 new  == {i \in c.momentary \cap mask : pulse[i] = Idle}
      <3>1. kept \in [Relays -> Timer] /\ Running(kept) = Running(pulse) \ (Relays \ c.momentary)
        BY StopTyped DEF TypeOK
      <3>2. Running(pulses) = Running(kept) \cup (new \cap Relays)
        BY <3>1, StartTyped, ConfigParts DEF PulsesUnder
      <3>3. Running(pulse) \subseteq mask /\ mask \in SUBSET Relays
        BY DEF TimersMatchCoils, TypeOK
      <3>4. \A i \in mask : pulse[i] = Idle \/ i \in Running(pulse)
        BY <3>3 DEF Running
      <3>5. c.momentary \in SUBSET Relays
        BY ConfigParts
      <3>6. QED
        BY <3>1, <3>2, <3>3, <3>4, <3>5
    <2>2. Running(limits) = {i \in mask : MaxOn(c, i) > 0}
      <3>1. \A i \in mask : MaxOn(c, i) > 0 /\ i \notin changed => i \in Running(limit)
        BY DEF TimersMatchCoils, TypeOK
      <3>2. \A i \in mask : MaxOn(c, i) > 0 /\ i \in mask /\ i \notin changed
                              => limit[i] # Idle
        BY <3>1 DEF Running
      <3>3. mask \in SUBSET Relays /\ limit \in [Relays -> Timer]
        BY DEF TypeOK
      <3> HIDE DEF changed
      <3>4. QED
        BY <3>2, <3>3, TrackedRunning
    <2>3. QED
      BY <2>1, <2>2 DEF Timed
  <1> HIDE DEF limits, pulses
  <1>4. SUFFICES Timed(c, mask', pulse', limit')
    BY <1>1 DEF Timed, TimersMatchCoils
  <1>5. PICK b \in Commits(old, mask \ conflict, HoldMask(c)) :
           /\ mask' = b.mask
           /\ IF b.mask = mask \ conflict
              THEN /\ pulse' = Stop(pulses, conflict)
                   /\ limit' = TrackMaxOn(c, b.mask, mask, {}, limits)
              ELSE /\ pulse' = pulses
                   /\ limit' = limits
    BY DEF UpdateConfig, SetBoard, pulses, limits
  <1> HIDE DEF conflict, old
  <1>6. CASE b.mask = mask \ conflict
    <2>1. Timed(c, mask \ conflict, Stop(pulses, conflict),
                TrackMaxOn(c, mask \ conflict, mask, {}, limits))
      BY <1>2, <1>3, OffTimed DEF TypeOK
    <2>2. QED
      BY <1>5, <1>6, <2>1
  <1>7. CASE b.mask # mask \ conflict
    <2>1. mask \ conflict \in SUBSET Relays
      BY DEF TypeOK
    <2>2. b.mask = mask
      BY <1>1, <1>5, <1>7, <2>1, CommitsResult
    <2>3. QED
      BY <1>3, <1>5, <1>7, <2>2
  <1>8. QED
    BY <1>6, <1>7

LEMMA TickTimed == ASSUME TypeOK, TimersMatchCoils, Tick PROVE TimersMatchCoils'
  <1>1. PICK b1 \in EndPulses(Board) : \E b2 \in EndMaxOn(b1) : \E b3 \in EndDeadTimes(b2) :
            TickOutcome(b1, b2, b3)
    BY DEF Tick
  <1>2. PICK b2 \in EndMaxOn(b1) : \E b3 \in EndDeadTimes(b2) : TickOutcome(b1, b2, b3)
    BY <1>1
  <1>3. PICK b3 \in EndDeadTimes(b2) : TickOutcome(b1, b2, b3)
    BY <1>2
  <1> DEFINE ended   == IF b1.mask = mask \ Due(pulse) THEN Due(pulse) ELSE {}
             expired == IF b2.mask = b1.mask \ Due(limit) THEN Due(limit) ELSE {}
             fired   == IF b3.mask = b2.mask \cup Fired(b2) THEN Fired(b2) ELSE {}
             dropped == Due(wait) \ Fired(b2)
             pulses  == Stop(pulse, ended)
             limits  == Stop(limit, expired)
  <1>4. /\ mask' = b3.mask
        /\ pulse' = Start(pulses, fired \cap cfg.momentary, cfg.pulseMs)
        /\ limit' = IF fired = {} THEN limits
                    ELSE TrackMaxOn(cfg, b3.mask, b2.mask, fired, limits)
    BY <1>3, Zenon DEF TickOutcome
  <1>5. /\ b1 \in BoardType /\ b2 \in BoardType /\ b3 \in BoardType
        /\ b1.mask = mask \ ended
        /\ b2.mask = b1.mask \ expired
        /\ b3.mask = b2.mask \cup fired
        /\ fired \in SUBSET Relays
    BY TickBoards
  <1>6. ended \subseteq Running(pulse) /\ expired \subseteq Running(limit)
    BY DueRuns DEF TypeOK
  <1> HIDE DEF ended, expired, fired, dropped
  <1>7. /\ pulses \in [Relays -> Timer] /\ Running(pulses) = Running(pulse) \ ended
        /\ limits \in [Relays -> Timer] /\ Running(limits) = Running(limit) \ expired
    BY StopTyped DEF TypeOK
  <1>8. cfg \in Configs /\ cfg' = cfg
    BY DEF TypeOK, Tick
  <1>9. Timed(cfg, b2.mask, pulses, limits)
    <2>1. \A i \in ended : i \in cfg.momentary /\ ~(MaxOn(cfg, i) > 0)
      BY <1>6, <1>8, ConfigParts DEF TimersMatchCoils
    <2>2. \A i \in expired : MaxOn(cfg, i) > 0 /\ i \notin cfg.momentary
      BY <1>6, <1>8, ConfigParts DEF TimersMatchCoils
    <2>3. Running(pulses) = b2.mask \cap cfg.momentary
      BY <1>5, <1>7, <2>2 DEF TimersMatchCoils
    <2>4. Running(limits) = {i \in b2.mask : MaxOn(cfg, i) > 0}
      BY <1>5, <1>7, <2>1 DEF TimersMatchCoils
    <2>5. QED
      BY <2>3, <2>4 DEF Timed
  <1> HIDE DEF pulses, limits
  <1>10. SUFFICES Timed(cfg, mask', pulse', limit')
    BY <1>8 DEF Timed, TimersMatchCoils
  <1>11. CASE fired = {}
    <2>1. Running(Start(pulses, {}, cfg.pulseMs)) = Running(pulses)
      BY <1>7, <1>8, StartTyped, ConfigParts
    <2>2. fired \cap cfg.momentary = {}
      BY <1>11
    <2>3. QED
      BY <1>4, <1>5, <1>9, <1>11, <2>1, <2>2 DEF Timed
  <1>12. CASE fired # {}
    <2>1. Timed(cfg, b2.mask \cup fired, Start(pulses, fired \cap cfg.momentary, cfg.pulseMs),
                TrackMaxOn(cfg, b2.mask \cup fired, b2.mask, fired, limits))
      BY <1>5, <1>7, <1>8, <1>9, OnTimed DEF BoardType
    <2>2. QED
      BY <1>4, <1>5, <1>12, <2>1
  <1>13. QED
    BY <1>11, <1>12

LEMMA BootTimed ==
  ASSUME TypeOK, NEW c \in Configs, Boot(c)
  PROVE  TimersMatchCoils'
  <1> PICK found \in Found : BootRestored(c, found) \/ BootFailed(c, found)
    BY DEF Boot
  <1>0. found \in SUBSET Relays
    BY FoundTyped
  <1> DEFINE held     == found \cap HoldMask(c)
             target   == held \ ConflictsIn(c, held)
  <1>1. cfg' = c /\ Running(pulse') = {}
    BY StoppedTyped DEF Boot
  <1>2. CASE BootRestored(c, found)
    <2>1. mask' = target /\ limit' = TrackMaxOn(c, target, {}, {}, Stopped)
      BY <1>2 DEF BootRestored
    <2>2. target \in SUBSET Relays /\ target \cap c.momentary = {}
      <3>1. target \subseteq HoldMask(c)
        OBVIOUS
      <3>2. HoldMask(c) \in SUBSET Relays /\ HoldMask(c) \cap c.momentary = {}
        BY ConfigParts, HoldMaskTyped DEF HoldMask
      <3> HIDE DEF target
      <3>3. QED
        BY <3>1, <3>2
    <2>3. Running(limit') = {i \in target : MaxOn(c, i) > 0}
      <3> HIDE DEF target
      <3>1. QED
        BY <2>1, <2>2, StoppedTyped, TrackedRunning
    <2>4. QED
      BY <1>1, <2>1, <2>2, <2>3 DEF TimersMatchCoils
  <1>3. CASE BootFailed(c, found)
    BY <1>1, <1>3, StoppedTyped DEF BootFailed, TimersMatchCoils
  <1>4. QED
    BY <1>2, <1>3

\* No relay is ever on without the timer that must end it, whatever fails.
THEOREM TimersAlwaysMatch == Spec => []TimersMatchCoils
  <1>1. Init => TimersMatchCoils
    BY StoppedTyped DEF Init, TimersMatchCoils
  <1>2. TypeOK /\ TimersMatchCoils /\ [Next]_vars => TimersMatchCoils'
    <2> SUFFICES ASSUME TypeOK, TimersMatchCoils, [Next]_vars PROVE TimersMatchCoils'
      OBVIOUS
    <2>1. ASSUME NEW i \in Relays, Command(i) PROVE TimersMatchCoils'
      BY <2>1, CommandIsSwitch, SwitchTimed
    <2>2. CASE SkLost
      BY <2>2, SkLostTimed
    <2>3. ASSUME NEW c \in Configs, UpdateConfig(c) PROVE TimersMatchCoils'
      BY <2>3, UpdateConfigTimed
    <2>4. CASE Tick
      BY <2>4, TickTimed
    <2>5. CASE Elapse
      BY <2>5, CountDownTyped DEF Elapse, TimersMatchCoils, TypeOK
    <2>6. CASE Crash \/ PowerCut
      BY <2>6, StoppedTyped DEF Crash, PowerCut, RamCleared, TimersMatchCoils
    <2>7. ASSUME NEW c \in Configs, Boot(c) PROVE TimersMatchCoils'
      BY <2>7, BootTimed
    <2>8. CASE UNCHANGED vars
      BY <2>8 DEF vars, ram, TimersMatchCoils
    <2>9. QED
      BY <2>1, <2>2, <2>3, <2>4, <2>5, <2>6, <2>7, <2>8 DEF Next
  <1>3. QED
    BY <1>1, <1>2, TypeCorrect, PTL DEF Spec

-----------------------------------------------------------------------------
(***************************************************************************)
(* What RelayCtrl remembers: the hold state in flash, and the expander's   *)
(* OUTPUT register while no alarm is raised.                               *)
(***************************************************************************)

(***************************************************************************)
(* The two invariants, as predicates of a board.                           *)
(***************************************************************************)
SavedBoard(s, h, b) == ~b.save => s \cap h = b.mask \cap h

QuietBoard(b) == ~b.fault => b.chip = b.mask

LEMMA CommitSaved ==
  ASSUME NEW b \in BoardType, NEW t \in SUBSET Relays, NEW h, NEW s,
         SavedBoard(s, h, b), NEW r \in Commits(b, t, h)
  PROVE  SavedBoard(s, h, r)
  BY CommitsResult DEF SavedBoard

LEMMA CommitQuiet ==
  ASSUME NEW b \in BoardType, NEW t \in SUBSET Relays, NEW h,
         QuietBoard(b), NEW r \in Commits(b, t, h)
  PROVE  QuietBoard(r)
  <1>1. CASE t = b.mask
    BY <1>1 DEF Commits
  <1>2. CASE r = [mask |-> t, chip |-> t, fault |-> FALSE,
                  save |-> b.save \/ (t \cap h) # (b.mask \cap h)]
    BY <1>2 DEF QuietBoard
  <1>3. CASE \E c \in SUBSET Relays : r = [b EXCEPT !.chip = c, !.fault = TRUE]
    BY <1>3 DEF QuietBoard, BoardType
  <1>4. b.chip \in SUBSET Relays
    BY DEF BoardType
  <1>5. QED
    BY <1>1, <1>2, <1>3, <1>4 DEF Commits

\* A tick keeps whatever its three commits keep.
LEMMA TickChain ==
  ASSUME TypeOK, Tick
  PROVE  \E b1 \in BoardType : \E b2 \in BoardType : \E b3 \in BoardType :
            /\ b1 \in Commits(Board, mask \ Due(pulse), HoldMask(cfg))
            /\ b2 \in Commits(b1, b1.mask \ Due(limit), HoldMask(cfg))
            /\ b3 \in Commits(b2, b2.mask \cup Fired(b2), HoldMask(cfg))
            /\ mask \ Due(pulse) \in SUBSET Relays
            /\ b1.mask \ Due(limit) \in SUBSET Relays
            /\ b2.mask \cup Fired(b2) \in SUBSET Relays
            /\ mask' = b3.mask /\ chip' = b3.chip /\ fault' = b3.fault
            /\ SaveHoldState(b3)
  <1>1. PICK b1 \in EndPulses(Board) : \E b2 \in EndMaxOn(b1) : \E b3 \in EndDeadTimes(b2) :
            TickOutcome(b1, b2, b3)
    BY DEF Tick
  <1>2. PICK b2 \in EndMaxOn(b1) : \E b3 \in EndDeadTimes(b2) : TickOutcome(b1, b2, b3)
    BY <1>1
  <1>3. PICK b3 \in EndDeadTimes(b2) : TickOutcome(b1, b2, b3)
    BY <1>2
  <1>4. mask' = b3.mask /\ chip' = b3.chip /\ fault' = b3.fault /\ SaveHoldState(b3)
    BY <1>3, Zenon DEF TickOutcome
  <1>5. /\ b1 \in BoardType /\ b2 \in BoardType /\ b3 \in BoardType
        /\ Fired(b2) \in SUBSET Relays
    BY TickBoards
  <1>6. /\ mask \ Due(pulse) \in SUBSET Relays
        /\ b1.mask \ Due(limit) \in SUBSET Relays
        /\ b2.mask \cup Fired(b2) \in SUBSET Relays
    BY <1>5 DEF TypeOK, BoardType
  <1>7. /\ b1 \in Commits(Board, mask \ Due(pulse), HoldMask(cfg))
        /\ b2 \in Commits(b1, b1.mask \ Due(limit), HoldMask(cfg))
        /\ b3 \in Commits(b2, b2.mask \cup Fired(b2), HoldMask(cfg))
    BY DEF EndPulses, EndMaxOn, EndDeadTimes, Board
  <1> HIDE DEF Fired
  <1>8. QED
    BY <1>4, <1>5, <1>6, <1>7

\* A command and a SignalK loss are one commit each.
LEMMA SwitchCommits ==
  ASSUME TypeOK, NEW i \in Relays, NEW on \in BOOLEAN, Switch(i, on)
  PROVE  \/ UNCHANGED <<mask, chip, fault, savePending>>
         \/ \E t \in SUBSET Relays : \E b \in Commits(Board, t, HoldMask(cfg)) : SetBoard(b)
  <1>1. mask \ {i} \in SUBSET Relays /\ mask \ cfg.partner[i] \in SUBSET Relays
        /\ mask \cup {i} \in SUBSET Relays
    BY DEF TypeOK
  <1>2. CASE ~on /\ SwitchOff(i)
    BY <1>1, <1>2 DEF SwitchOff
  <1>3. CASE on /\ SwitchOnAfterPartner(i)
    BY <1>1, <1>3 DEF SwitchOnAfterPartner
  <1>4. CASE on /\ SwitchOnNow(i)
    BY <1>1, <1>4 DEF SwitchOnNow
  <1>5. CASE on /\ SwitchOnWaiting(i)
    BY <1>5 DEF SwitchOnWaiting
  <1>6. QED
    BY <1>2, <1>3, <1>4, <1>5 DEF Switch

LEMMA SkLostCommits ==
  ASSUME TypeOK, SkLost
  PROVE  \E t \in SUBSET Relays : \E b \in Commits(Board, t, HoldMask(cfg)) : SetBoard(b)
  <1>1. mask \cap HoldMask(cfg) \in SUBSET Relays
    BY DEF TypeOK
  <1>2. QED
    BY <1>1 DEF SkLost

(***************************************************************************)
(* Without an alarm the chip holds what the controller believes.           *)
(***************************************************************************)
LEMMA QuietStep ==
  ASSUME TypeOK, QuietMeansConfirmed, up, NEW t \in SUBSET Relays,
         NEW h, NEW b \in Commits(Board, t, h), SetBoard(b)
  PROVE  QuietMeansConfirmed'
  <1>1. Board \in BoardType /\ QuietBoard(Board)
    BY BoardTyped DEF Board, QuietBoard, QuietMeansConfirmed
  <1>2. QuietBoard(b)
    BY <1>1, CommitQuiet
  <1>3. QED
    BY <1>2 DEF QuietBoard, QuietMeansConfirmed, SetBoard

\* Whatever fails, an OUTPUT register that differs from the confirmed mask
\* has raised the alarm.
THEOREM QuietIsConfirmed == Spec => []QuietMeansConfirmed
  <1>1. Init => QuietMeansConfirmed
    BY DEF Init, QuietMeansConfirmed
  <1>2. TypeOK /\ QuietMeansConfirmed /\ [Next]_vars => QuietMeansConfirmed'
    <2> SUFFICES ASSUME TypeOK, QuietMeansConfirmed, [Next]_vars
                 PROVE  QuietMeansConfirmed'
      OBVIOUS
    <2>1. ASSUME NEW i \in Relays, NEW on \in BOOLEAN, Switch(i, on)
          PROVE  QuietMeansConfirmed'
      <3>1. up /\ up' = up
        BY <2>1 DEF Switch
      <3>2. CASE UNCHANGED <<mask, chip, fault, savePending>>
        BY <3>1, <3>2 DEF QuietMeansConfirmed
      <3>3. QED
        BY <2>1, <3>1, <3>2, SwitchCommits, QuietStep
    <2>2. CASE SkLost
      <3>1. up
        BY <2>2 DEF SkLost
      <3>2. QED
        BY <2>2, <3>1, SkLostCommits, QuietStep
    <2>3. ASSUME NEW c \in Configs, UpdateConfig(c) PROVE QuietMeansConfirmed'
      <3> DEFINE old == [Board EXCEPT !.save = savePending \/ HoldMask(c) # HoldMask(cfg)]
                 t   == mask \ ConflictsIn(c, mask)
      <3>1. PICK b \in Commits(old, t, HoldMask(c)) : SetBoard(b)
        BY <2>3 DEF UpdateConfig
      <3>2. old \in BoardType /\ QuietBoard(old) /\ t \in SUBSET Relays
        BY <2>3, BoardTyped
           DEF Board, BoardType, QuietBoard, QuietMeansConfirmed, UpdateConfig, TypeOK
      <3> HIDE DEF old, t
      <3>3. QuietBoard(b)
        BY <3>1, <3>2, CommitQuiet
      <3>4. QED
        BY <3>1, <3>3 DEF QuietBoard, QuietMeansConfirmed, SetBoard
    <2>4. CASE Tick
      <3>1. PICK b1 \in BoardType, b2 \in BoardType, b3 \in BoardType :
               /\ b1 \in Commits(Board, mask \ Due(pulse), HoldMask(cfg))
               /\ b2 \in Commits(b1, b1.mask \ Due(limit), HoldMask(cfg))
               /\ b3 \in Commits(b2, b2.mask \cup Fired(b2), HoldMask(cfg))
               /\ mask \ Due(pulse) \in SUBSET Relays
               /\ b1.mask \ Due(limit) \in SUBSET Relays
               /\ b2.mask \cup Fired(b2) \in SUBSET Relays
               /\ mask' = b3.mask /\ chip' = b3.chip /\ fault' = b3.fault
        BY <2>4, TickChain
      <3>2. Board \in BoardType /\ QuietBoard(Board)
        BY <2>4, BoardTyped DEF Board, QuietBoard, QuietMeansConfirmed, Tick
      <3>3. QuietBoard(b1)
        BY <3>1, <3>2, CommitQuiet
      <3>4. QuietBoard(b2)
        BY <3>1, <3>3, CommitQuiet
      <3>5. QuietBoard(b3)
        BY <3>1, <3>4, CommitQuiet
      <3>6. QED
        BY <3>1, <3>5 DEF QuietBoard, QuietMeansConfirmed
    <2>5. CASE Elapse
      BY <2>5 DEF Elapse, QuietMeansConfirmed
    <2>6. CASE Crash \/ PowerCut
      BY <2>6 DEF Crash, PowerCut, QuietMeansConfirmed
    <2>7. ASSUME NEW c \in Configs, Boot(c) PROVE QuietMeansConfirmed'
      BY <2>7 DEF Boot, BootRestored, BootFailed, QuietMeansConfirmed
    <2>8. CASE UNCHANGED vars
      BY <2>8 DEF vars, ram, QuietMeansConfirmed
    <2>9. QED
      BY <2>1, <2>2, <2>3, <2>4, <2>5, <2>6, <2>7, <2>8, CommandIsSwitch DEF Next
  <1>3. QED
    BY <1>1, <1>2, TypeCorrect, PTL DEF Spec

(***************************************************************************)
(* What is in flash, or about to be.                                       *)
(***************************************************************************)
LEMMA SavedStep ==
  ASSUME TypeOK, SavedOrPending, up, NEW t \in SUBSET Relays,
         NEW b \in Commits(Board, t, HoldMask(cfg)), SetBoard(b),
         UNCHANGED <<up, cfg, store>>
  PROVE  SavedOrPending'
  <1>1. Board \in BoardType /\ SavedBoard(store, HoldMask(cfg), Board)
    BY BoardTyped DEF Board, SavedBoard, SavedOrPending
  <1>2. SavedBoard(store, HoldMask(cfg), b)
    BY <1>1, CommitSaved
  <1>3. QED
    BY <1>2 DEF SavedBoard, SavedOrPending, SetBoard, HoldMask

\* On a working bus, and if boots can read the flash, a power cut loses at
\* most the changes that a pending save has yet to write; a save that fails
\* keeps it pending.
THEOREM HoldStateKept ==
  ASSUME ~BusFaults, ~LoadFaults
  PROVE  Spec => []SavedOrPending
  <1>1. Init => SavedOrPending
    BY DEF Init, SavedOrPending
  <1>2. TypeOK /\ SavedOrPending /\ [Next]_vars => SavedOrPending'
    <2> SUFFICES ASSUME TypeOK, SavedOrPending, [Next]_vars
                 PROVE  SavedOrPending'
      OBVIOUS
    <2>1. ASSUME NEW i \in Relays, NEW on \in BOOLEAN, Switch(i, on)
          PROVE  SavedOrPending'
      <3>1. up /\ UNCHANGED <<up, cfg, store>>
        BY <2>1 DEF Switch
      <3>2. CASE UNCHANGED <<mask, chip, fault, savePending>>
        BY <3>1, <3>2 DEF SavedOrPending, HoldMask
      <3>3. QED
        BY <2>1, <3>1, <3>2, SwitchCommits, SavedStep
    <2>2. CASE SkLost
      <3>1. up /\ UNCHANGED <<up, cfg, store>>
        BY <2>2 DEF SkLost
      <3>2. QED
        BY <2>2, <3>1, SkLostCommits, SavedStep
    <2>3. ASSUME NEW c \in Configs, UpdateConfig(c) PROVE SavedOrPending'
      <3> DEFINE dirty == savePending \/ HoldMask(c) # HoldMask(cfg)
                 old   == [Board EXCEPT !.save = dirty]
                 t     == mask \ ConflictsIn(c, mask)
      <3>1. PICK b \in Commits(old, t, HoldMask(c)) : SetBoard(b)
        BY <2>3 DEF UpdateConfig
      <3>2. up /\ up' = up /\ cfg' = c /\ store' = store
        BY <2>3 DEF UpdateConfig
      <3>3. old \in BoardType /\ old.mask = mask /\ old.save = dirty /\ t \in SUBSET Relays
        BY BoardTyped DEF Board, BoardType, TypeOK
      <3>4. SavedBoard(store, HoldMask(c), old)
        BY <3>2, <3>3 DEF SavedBoard, SavedOrPending
      <3> HIDE DEF old, t, dirty
      <3>5. SavedBoard(store, HoldMask(c), b)
        BY <3>1, <3>3, <3>4, CommitSaved
      <3>6. QED
        BY <3>1, <3>2, <3>5 DEF SavedBoard, SavedOrPending, SetBoard
    <2>4. CASE Tick
      <3>1. PICK b1 \in BoardType, b2 \in BoardType, b3 \in BoardType :
               /\ b1 \in Commits(Board, mask \ Due(pulse), HoldMask(cfg))
               /\ b2 \in Commits(b1, b1.mask \ Due(limit), HoldMask(cfg))
               /\ b3 \in Commits(b2, b2.mask \cup Fired(b2), HoldMask(cfg))
               /\ mask \ Due(pulse) \in SUBSET Relays
               /\ b1.mask \ Due(limit) \in SUBSET Relays
               /\ b2.mask \cup Fired(b2) \in SUBSET Relays
               /\ mask' = b3.mask
               /\ SaveHoldState(b3)
        BY <2>4, TickChain
      <3>2. up /\ UNCHANGED <<up, cfg>>
        BY <2>4 DEF Tick
      <3>3. Board \in BoardType /\ SavedBoard(store, HoldMask(cfg), Board)
        BY <3>2, BoardTyped DEF Board, SavedBoard, SavedOrPending
      <3>4. SavedBoard(store, HoldMask(cfg), b1)
        BY <3>1, <3>3, CommitSaved
      <3>5. SavedBoard(store, HoldMask(cfg), b2)
        BY <3>1, <3>4, CommitSaved
      <3>6. SavedBoard(store, HoldMask(cfg), b3)
        BY <3>1, <3>5, CommitSaved
      <3>7. ~savePending' => store' \cap HoldMask(cfg) = b3.mask \cap HoldMask(cfg)
        BY <3>1, <3>6 DEF SaveHoldState, SavedBoard
      <3>8. QED
        BY <3>1, <3>2, <3>7 DEF SavedOrPending
    <2>5. CASE Elapse
      BY <2>5 DEF Elapse, SavedOrPending
    <2>6. CASE Crash \/ PowerCut
      BY <2>6 DEF Crash, PowerCut, SavedOrPending
    <2>7. ASSUME NEW c \in Configs, Boot(c) PROVE SavedOrPending'
      <3>1. PICK found \in Found : BootRestored(c, found) /\ cfg' = c /\ store' = store
        BY <2>7 DEF Boot, BootFailed
      <3>2. ASSUME ~savePending' PROVE mask' = store \cap HoldMask(c)
        BY <3>1, <3>2 DEF BootRestored, Found
      <3>3. QED
        BY <3>1, <3>2 DEF SavedOrPending
    <2>8. CASE UNCHANGED vars
      BY <2>8 DEF vars, ram, SavedOrPending
    <2>9. QED
      BY <2>1, <2>2, <2>3, <2>4, <2>5, <2>6, <2>7, <2>8, CommandIsSwitch DEF Next
  <1>3. QED
    BY <1>1, <1>2, TypeCorrect, PTL DEF Spec

-----------------------------------------------------------------------------
(***************************************************************************)
(* Interlocked coils are never energized together, and the controller      *)
(* implements the bank of module RelayBank: for every set of relays, every *)
(* pairing, every fault of the expander and every restart.                 *)
(***************************************************************************)

LEMMA PairSafeMeans ==
  ASSUME NEW c, NEW m
  PROVE  PairSafe(c, m) <=> \A i \in m : c.partner[i] \cap m = {}
  BY DEF PairSafe, ConflictsIn

LEMMA SmallerIsSafe ==
  ASSUME NEW c, NEW m, PairSafe(c, m), NEW n \in SUBSET m
  PROVE  PairSafe(c, n)
  BY PairSafeMeans

LEMMA ClearedIsSafe ==
  ASSUME NEW c, NEW m
  PROVE  PairSafe(c, m \ ConflictsIn(c, m))
  BY DEF PairSafe, ConflictsIn

\* A relay may join coils none of which is its partner.
LEMMA JoinedIsSafe ==
  ASSUME NEW c \in Configs, NEW m \in SUBSET Relays, PairSafe(c, m),
         NEW S \in SUBSET Relays,
         \A i \in S : c.partner[i] \cap (m \cup S) = {}
  PROVE  PairSafe(c, m \cup S)
  <1>1. ASSUME NEW i \in m \cup S PROVE c.partner[i] \cap (m \cup S) = {}
    <2>1. CASE i \in S
      BY <2>1
    <2>2. CASE i \in m /\ i \notin S
      <3>1. c.partner[i] \cap m = {}
        BY <2>2, PairSafeMeans
      <3>2. \A j \in S : i \notin c.partner[j]
        BY <2>2
      <3>3. \A j \in S : j \notin c.partner[i]
        BY <2>2, <3>2, ConfigParts
      <3>4. QED
        BY <3>1, <3>3
    <2>3. QED
      BY <1>1, <2>1, <2>2
  <1>2. QED
    BY <1>1, PairSafeMeans

(***************************************************************************)
(* A board is safe when neither the confirmed nor the actual coils hold a  *)
(* pair; every commit of safe coils keeps it so, also one that fails.      *)
(***************************************************************************)
SafeBoard(c, b) ==
    /\ PairSafe(c, b.mask)
    /\ driven => PairSafe(c, b.chip)
    /\ ~BusFaults => driven /\ b.chip = b.mask

LEMMA CommitSafe ==
  ASSUME NEW b \in BoardType, NEW t \in SUBSET Relays, NEW h, NEW c,
         SafeBoard(c, b), PairSafe(c, t), NEW r \in Commits(b, t, h)
  PROVE  SafeBoard(c, r)
  BY CommitsResult DEF SafeBoard

LEMMA BoardSafe ==
  ASSUME InterlockInv, up
  PROVE  SafeBoard(cfg, Board)
  BY DEF InterlockInv, SafeBoard, Board

LEMMA CommitKeeps ==
  ASSUME TypeOK, InterlockInv, up, NEW t \in SUBSET Relays, PairSafe(cfg, t), NEW h,
         NEW r \in Commits(Board, t, h)
  PROVE  SafeBoard(cfg, r) /\ (r.mask = t \/ r.mask = mask)
  <1>1. Board \in BoardType /\ Board.mask = mask /\ SafeBoard(cfg, Board)
    BY BoardTyped, BoardSafe DEF Board
  <1>2. SafeBoard(cfg, r)
    BY <1>1, CommitSafe
  <1>3. QED
    BY <1>1, <1>2, CommitsResult

\* What remains to be shown of a step once its board is known to be safe.
LEMMA SafeStep ==
  ASSUME NEW b, SetBoard(b), SafeBoard(cfg', b), driven' = driven, WaitExclusive'
  PROVE  InterlockInv'
  BY DEF SafeBoard, SetBoard, InterlockInv, PairSafe, ConflictsIn

\* Coils going off and dead times ending leave every wait exclusive.
LEMMA FewerWait ==
  ASSUME WaitExclusive, cfg' = cfg, mask' \subseteq mask,
         Running(wait') \subseteq Running(wait)
  PROVE  WaitExclusive'
  BY DEF WaitExclusive

LEMMA SwitchSafe ==
  ASSUME TypeOK, InterlockInv, NEW i \in Relays, NEW on \in BOOLEAN, Switch(i, on)
  PROVE  InterlockInv'
  <1>1. Board \in BoardType /\ Board.mask = mask /\ cfg \in Configs
    BY BoardTyped DEF Board, TypeOK
  <1>2. up /\ cfg' = cfg /\ driven' = driven
    BY DEF Switch
  <1>3. PairSafe(cfg, mask) /\ WaitExclusive /\ mask \in SUBSET Relays
    BY DEF InterlockInv, TypeOK
  <1>4. CASE ~on /\ SwitchOff(i)
    <2> DEFINE t == mask \ {i}
    <2>1. PICK b \in Commits(Board, t, HoldMask(cfg)) : SetBoard(b)
      BY <1>4 DEF SwitchOff
    <2>2. t \in SUBSET Relays /\ PairSafe(cfg, t) /\ t \subseteq mask
      BY <1>3, SmallerIsSafe
    <2> HIDE DEF t
    <2>3. SafeBoard(cfg, b) /\ b.mask \in {t, mask}
      BY <1>2, <2>1, <2>2, CommitKeeps
    <2>4. Running(wait') \subseteq Running(wait)
      BY <1>4, StopTyped DEF SwitchOff, TypeOK
    <2>5. mask' \subseteq mask
      BY <2>1, <2>2, <2>3 DEF SetBoard
    <2>6. WaitExclusive'
      BY <1>2, <1>3, <2>4, <2>5, FewerWait
    <2>7. QED
      BY <1>2, <2>1, <2>3, <2>6, SafeStep
  <1>5. CASE on /\ SwitchOnAfterPartner(i)
    <2> DEFINE partner == cfg.partner[i]
               t       == mask \ partner
    <2>1. PICK b \in Commits(Board, t, HoldMask(cfg)) :
             /\ SetBoard(b)
             /\ IF b.mask = t
                THEN wait' = [Stop(wait, partner) EXCEPT ![i] = cfg.deadMs]
                ELSE wait' = wait
      BY <1>5 DEF SwitchOnAfterPartner
    <2>2. t \in SUBSET Relays /\ PairSafe(cfg, t)
      BY <1>3, SmallerIsSafe
    <2>3. SafeBoard(cfg, b) /\ b.mask \in {t, mask}
      BY <1>2, <2>1, <2>2, CommitKeeps
    <2>4. CASE b.mask # t
      <3>1. mask' = mask /\ wait' = wait
        BY <2>1, <2>3, <2>4 DEF SetBoard
      <3>2. QED
        BY <1>2, <1>3, <2>1, <2>3, <3>1, FewerWait, SafeStep
    <2>5. CASE b.mask = t
      <3>1. mask' = t
        BY <2>1, <2>5 DEF SetBoard
      <3>2. Running(wait') \subseteq (Running(wait) \ partner) \cup {i}
        <4>1. /\ Stop(wait, partner) \in [Relays -> Timer]
              /\ Running(Stop(wait, partner)) = Running(wait) \ partner
          BY StopTyped DEF TypeOK
        <4>2. \A j \in Relays : j # i => wait'[j] = Stop(wait, partner)[j]
          BY <2>1, <2>5, <4>1
        <4>3. QED
          BY <4>1, <4>2 DEF Running
      <3>3. PICK j \in Relays : j \in partner /\ j \in mask
        BY <1>3, <1>5 DEF SwitchOnAfterPartner
      <3>4. i \notin mask
        BY <1>3, <3>3, PairSafeMeans
      <3>5. WaitExclusive'
        <4>1. SUFFICES ASSUME NEW k \in Running(wait)', k \in Relays
                       PROVE  k \notin t /\ cfg.partner[k] \cap (t \cup Running(wait')) = {}
          BY <1>2, <3>1 DEF WaitExclusive, Running
        <4>2. CASE k = i
          <5>1. i \notin partner
            BY <1>1, ConfigParts
          <5>2. QED
            BY <3>2, <3>4, <4>2, <5>1
        <4>3. CASE k # i
          <5>1. k \in Running(wait) /\ k \notin partner
            BY <3>2, <4>1, <4>3 DEF Running
          <5>2. k \notin mask /\ cfg.partner[k] \cap (mask \cup Running(wait)) = {}
            BY <1>3, <5>1 DEF WaitExclusive
          <5>3. i \notin cfg.partner[k]
            BY <1>1, <4>1, <5>1, ConfigParts
          <5>4. QED
            BY <3>2, <5>2, <5>3
        <4>4. QED
          BY <4>2, <4>3
      <3>6. QED
        BY <1>2, <2>1, <2>3, <3>5, SafeStep
    <2>6. QED
      BY <2>4, <2>5
  <1>6. CASE on /\ SwitchOnNow(i)
    <2> DEFINE partner == cfg.partner[i]
               t       == mask \cup {i}
    <2>1. PICK b \in Commits(Board, t, HoldMask(cfg)) :
             /\ SetBoard(b)
             /\ IF b.mask = t THEN wait' = Stop(wait, partner) ELSE wait' = wait
      BY <1>6 DEF SwitchOnNow
    <2>2. partner \cap mask = {} /\ wait[i] = Idle
      BY <1>6 DEF SwitchOnNow
    <2>3. i \notin partner
      BY <1>1, ConfigParts
    <2>4. t \in SUBSET Relays /\ PairSafe(cfg, t)
      <3>1. {i} \in SUBSET Relays /\ \A k \in {i} : cfg.partner[k] \cap t = {}
        BY <2>2, <2>3
      <3>2. QED
        BY <1>1, <1>3, <3>1, JoinedIsSafe
    <2>5. SafeBoard(cfg, b) /\ b.mask \in {t, mask}
      <3> HIDE DEF t
      <3>1. QED
        BY <1>2, <2>1, <2>4, CommitKeeps
    <2>6. CASE b.mask # t
      <3>1. mask' = mask /\ wait' = wait
        BY <2>1, <2>5, <2>6 DEF SetBoard
      <3>2. QED
        BY <1>2, <1>3, <2>1, <2>5, <3>1, FewerWait, SafeStep
    <2>7. CASE b.mask = t
      <3>1. mask' = t /\ Running(wait') = Running(wait) \ partner
        BY <2>1, <2>7, StopTyped DEF SetBoard, TypeOK
      <3>2. WaitExclusive'
        <4>1. SUFFICES ASSUME NEW k \in Running(wait) \ partner, k \in Relays
                       PROVE  k \notin t /\ cfg.partner[k] \cap (t \cup (Running(wait) \ partner)) = {}
          BY <1>2, <3>1 DEF WaitExclusive, Running
        <4>2. k # i
          BY <2>2, <4>1 DEF Running
        <4>3. k \notin mask /\ cfg.partner[k] \cap (mask \cup Running(wait)) = {}
          BY <1>3, <4>1 DEF WaitExclusive
        <4>4. i \notin cfg.partner[k]
          BY <1>1, <4>1, ConfigParts
        <4>5. QED
          BY <4>2, <4>3, <4>4
      <3>3. QED
        BY <1>2, <2>1, <2>5, <3>2, SafeStep
    <2>8. QED
      BY <2>6, <2>7
  <1>7. CASE on /\ SwitchOnWaiting(i)
    BY <1>2, <1>7 DEF SwitchOnWaiting, Switch, InterlockInv, WaitExclusive, PairSafe, ConflictsIn
  <1>8. QED
    BY <1>4, <1>5, <1>6, <1>7 DEF Switch

LEMMA SkLostSafe == ASSUME TypeOK, InterlockInv, SkLost PROVE InterlockInv'
  <1> DEFINE t == mask \cap HoldMask(cfg)
  <1>1. PICK b \in Commits(Board, t, HoldMask(cfg)) : SetBoard(b)
    BY DEF SkLost
  <1>2. up /\ cfg' = cfg /\ driven' = driven /\ wait' = Stop(wait, Relays \ HoldMask(cfg))
    BY DEF SkLost
  <1>3. t \in SUBSET Relays /\ PairSafe(cfg, t) /\ t \subseteq mask
    BY SmallerIsSafe DEF InterlockInv, TypeOK
  <1> HIDE DEF t
  <1>4. SafeBoard(cfg, b) /\ (b.mask = t \/ b.mask = mask)
    BY <1>1, <1>2, <1>3, CommitKeeps
  <1>5. mask' \subseteq mask
    BY <1>1, <1>3, <1>4 DEF SetBoard
  <1>6. Running(wait') \subseteq Running(wait)
    BY <1>2, StopTyped DEF TypeOK
  <1>7. WaitExclusive'
    BY <1>2, <1>5, <1>6, FewerWait DEF InterlockInv
  <1>8. QED
    BY <1>1, <1>2, <1>4, <1>7, SafeStep

LEMMA UpdateConfigSafe ==
  ASSUME PairingFixed \/ CarefulEdits,
         TypeOK, InterlockInv, NEW c \in Configs, UpdateConfig(c)
  PROVE  InterlockInv'
  <1> DEFINE conflict == ConflictsIn(c, mask)
             dirty    == savePending \/ HoldMask(c) # HoldMask(cfg)
             old      == [Board EXCEPT !.save = dirty]
             t        == mask \ conflict
  <1>1. PICK b \in Commits(old, t, HoldMask(c)) :
           /\ SetBoard(b)
           /\ wait' = Stop(wait, conflict) \/ wait' = wait
    BY DEF UpdateConfig
  <1>2. up /\ cfg' = c /\ driven' = driven
    BY DEF UpdateConfig
  <1>3. t \in SUBSET Relays /\ PairSafe(c, t)
    BY ClearedIsSafe DEF TypeOK
  <1>4. old \in BoardType /\ old.mask = mask /\ old.chip = chip
    BY BoardTyped DEF Board, BoardType
  <1>5. Running(wait') \subseteq Running(wait)
    BY <1>1, StopTyped DEF TypeOK
  <1>6. CASE c.partner = cfg.partner
    <2>1. SafeBoard(c, old)
      BY <1>2, <1>4, <1>6 DEF InterlockInv, SafeBoard, PairSafe, ConflictsIn
    <2> HIDE DEF old, t
    <2>2. SafeBoard(c, b)
      BY <1>1, <1>3, <1>4, <2>1, CommitSafe
    <2>3. b.mask = t \/ b.mask = mask
      BY <1>1, <1>3, <1>4, CommitsResult
    <2>4. mask' \subseteq mask
      BY <1>1, <2>3 DEF SetBoard, t
    <2>5. WaitExclusive'
      BY <1>2, <1>5, <1>6, <2>4 DEF WaitExclusive, InterlockInv
    <2>6. QED
      BY <1>1, <1>2, <2>2, <2>5, SafeStep
  <1>7. CASE c.partner # cfg.partner
    <2>1. CarefulEdits
      BY <1>7 DEF PairingFixed, TypeOK
    <2>2. Running(wait) = {}
      BY <1>7, <2>1 DEF UpdateConfig, CarefulEdits
    <2>3. driven /\ chip = mask
      BY <1>2, <2>1 DEF CarefulEdits, InterlockInv
    <2> HIDE DEF old, t
    <2>4. b.mask = t /\ b.chip = b.mask
      <3>1. ~BusFaults /\ old.chip = old.mask
        BY <1>4, <2>1, <2>3 DEF CarefulEdits
      <3>2. b \in Commits(old, t, HoldMask(c)) /\ old \in BoardType /\ t \in SUBSET Relays
        BY <1>1, <1>3, <1>4
      <3>3. QED
        BY <3>1, <3>2, CommitsResult
    <2>5. SafeBoard(c, b)
      BY <1>3, <2>3, <2>4 DEF SafeBoard
    <2>6. WaitExclusive'
      BY <1>5, <2>2 DEF WaitExclusive
    <2>7. QED
      BY <1>1, <1>2, <2>5, <2>6, SafeStep
  <1>8. QED
    BY <1>6, <1>7

\* In a tick no dead time is dropped, and the relays that fire fit together.
LEMMA FiredFit ==
  ASSUME TypeOK, InterlockInv, NEW b \in BoardType, b.mask \subseteq mask, PairSafe(cfg, b.mask)
  PROVE  /\ Fired(b) = Due(wait)
         /\ Fired(b) \subseteq Running(wait)
         /\ b.mask \cup Fired(b) \in SUBSET Relays
         /\ PairSafe(cfg, b.mask \cup Fired(b))
  <1>1. Due(wait) \subseteq Running(wait) /\ Due(wait) \in SUBSET Relays
    BY DueRuns DEF TypeOK, Due
  <1>2. \A i \in Due(wait) : cfg.partner[i] \cap (b.mask \cup Due(wait)) = {}
    BY <1>1 DEF InterlockInv, WaitExclusive
  <1>3. Fired(b) = Due(wait)
    BY <1>2 DEF Fired
  <1>4. b.mask \in SUBSET Relays
    BY DEF BoardType
  <1>5. PairSafe(cfg, b.mask \cup Due(wait))
    BY <1>1, <1>2, <1>4, JoinedIsSafe DEF TypeOK
  <1>6. QED
    BY <1>1, <1>3, <1>4, <1>5

\* How the coils and the waits move in a tick.
LEMMA TickMoves ==
  ASSUME TypeOK, InterlockInv, Tick
  PROVE  \E fired \in SUBSET Running(wait) :
            /\ mask' \subseteq mask \cup fired
            /\ Running(wait') \subseteq Running(wait) \ fired
            /\ \E b \in BoardType : SafeBoard(cfg, b) /\ b.mask = mask' /\ b.chip = chip'
  <1>1. PICK b1 \in EndPulses(Board) : \E b2 \in EndMaxOn(b1) : \E b3 \in EndDeadTimes(b2) :
            TickOutcome(b1, b2, b3)
    BY DEF Tick
  <1>2. PICK b2 \in EndMaxOn(b1) : \E b3 \in EndDeadTimes(b2) : TickOutcome(b1, b2, b3)
    BY <1>1
  <1>3. PICK b3 \in EndDeadTimes(b2) : TickOutcome(b1, b2, b3)
    BY <1>2
  <1> DEFINE fired   == IF b3.mask = b2.mask \cup Fired(b2) THEN Fired(b2) ELSE {}
             dropped == Due(wait) \ Fired(b2)
  <1>4. mask' = b3.mask /\ chip' = b3.chip /\ wait' = Stop(wait, fired \cup dropped)
    BY <1>3, Zenon DEF TickOutcome
  <1>5. /\ b1 \in BoardType /\ b2 \in BoardType /\ b3 \in BoardType
        /\ b1.mask \subseteq mask /\ b2.mask \subseteq b1.mask
        /\ b3.mask = b2.mask \cup fired
    BY TickBoards
  <1>6. up /\ Board \in BoardType /\ SafeBoard(cfg, Board)
    BY BoardTyped, BoardSafe DEF Tick
  <1>7. SafeBoard(cfg, b1)
    <2>1. mask \ Due(pulse) \in SUBSET Relays /\ PairSafe(cfg, mask \ Due(pulse))
      BY SmallerIsSafe DEF TypeOK, InterlockInv
    <2>2. b1 \in Commits(Board, mask \ Due(pulse), HoldMask(cfg))
      BY DEF EndPulses, Board
    <2>3. QED
      BY <1>6, <2>1, <2>2, CommitSafe
  <1>8. SafeBoard(cfg, b2)
    <2>1. b1.mask \ Due(limit) \in SUBSET Relays /\ PairSafe(cfg, b1.mask \ Due(limit))
      BY <1>5, <1>7, SmallerIsSafe DEF SafeBoard, BoardType
    <2>2. b2 \in Commits(b1, b1.mask \ Due(limit), HoldMask(cfg))
      BY DEF EndMaxOn
    <2>3. QED
      BY <1>5, <1>7, <2>1, <2>2, CommitSafe
  <1>9. /\ Fired(b2) \subseteq Running(wait)
        /\ b2.mask \cup Fired(b2) \in SUBSET Relays
        /\ PairSafe(cfg, b2.mask \cup Fired(b2))
    BY <1>5, <1>8, FiredFit DEF SafeBoard
  <1>10. SafeBoard(cfg, b3)
    <2>1. b3 \in Commits(b2, b2.mask \cup Fired(b2), HoldMask(cfg))
      BY DEF EndDeadTimes
    <2> HIDE DEF Fired
    <2>2. QED
      BY <1>5, <1>8, <1>9, <2>1, CommitSafe
  <1>11. fired \in SUBSET Running(wait)
    BY <1>9
  <1>12. Running(wait') \subseteq Running(wait) \ fired
    BY <1>4, StopTyped DEF TypeOK
  <1>13. QED
    BY <1>4, <1>5, <1>10, <1>11, <1>12

LEMMA TickSafe == ASSUME TypeOK, InterlockInv, Tick PROVE InterlockInv'
  <1>1. PICK fired \in SUBSET Running(wait) :
            /\ mask' \subseteq mask \cup fired
            /\ Running(wait') \subseteq Running(wait) \ fired
            /\ \E b \in BoardType : SafeBoard(cfg, b) /\ b.mask = mask' /\ b.chip = chip'
    BY TickMoves
  <1>2. cfg' = cfg /\ driven' = driven
    BY DEF Tick
  <1>3. WaitExclusive'
    BY <1>1, <1>2 DEF WaitExclusive, InterlockInv
  <1>4. QED
    BY <1>1, <1>2, <1>3 DEF InterlockInv, SafeBoard, PairSafe, ConflictsIn

LEMMA BootSafe ==
  ASSUME PairingFixed \/ CarefulEdits,
         TypeOK, InterlockInv, NEW c \in Configs, Boot(c)
  PROVE  InterlockInv'
  <1> PICK found \in Found : BootRestored(c, found) \/ BootFailed(c, found)
    BY DEF Boot
  <1> DEFINE held   == found \cap HoldMask(c)
             target == held \ ConflictsIn(c, held)
  <1>1. PairSafe(c, target)
    BY ClearedIsSafe
  <1>2. cfg' = c /\ up' /\ WaitExclusive'
    BY StoppedTyped DEF Boot, WaitExclusive
  <1>3. CASE BootRestored(c, found)
    <2>1. mask' = target /\ chip' = target /\ driven'
      BY <1>3 DEF BootRestored
    <2>2. QED
      BY <1>1, <1>2, <2>1 DEF InterlockInv, PairSafe, ConflictsIn
  <1>4. CASE BootFailed(c, found)
    <2>1. BusFaults /\ mask' = {} /\ (UNCHANGED <<chip, driven>> \/ chip' = target)
      BY <1>4 DEF BootFailed
    <2>2. c.partner = cfg.partner
      BY <2>1 DEF PairingFixed, CarefulEdits, TypeOK
    <2>3. PairSafe(c, {})
      BY PairSafeMeans
    <2>4. driven' => PairSafe(c, chip')
      BY <1>1, <2>1, <2>2 DEF InterlockInv, PairSafe, ConflictsIn
    <2>5. QED
      BY <1>2, <2>1, <2>3, <2>4 DEF InterlockInv, PairSafe, ConflictsIn
  <1>5. QED
    BY <1>3, <1>4

LEMMA InterlockInductive ==
  ASSUME PairingFixed \/ CarefulEdits
  PROVE  /\ Init => InterlockInv
         /\ TypeOK /\ InterlockInv /\ [Next]_vars => InterlockInv'
  <1>1. Init => InterlockInv
    BY StoppedTyped, PairSafeMeans DEF Init, InterlockInv, WaitExclusive
  <1>2. TypeOK /\ InterlockInv /\ [Next]_vars => InterlockInv'
    <2> SUFFICES ASSUME TypeOK, InterlockInv, [Next]_vars PROVE InterlockInv'
      OBVIOUS
    <2>1. ASSUME NEW i \in Relays, Command(i) PROVE InterlockInv'
      BY <2>1, CommandIsSwitch, SwitchSafe
    <2>2. CASE SkLost
      BY <2>2, SkLostSafe
    <2>3. ASSUME NEW c \in Configs, UpdateConfig(c) PROVE InterlockInv'
      BY <2>3, UpdateConfigSafe
    <2>4. CASE Tick
      BY <2>4, TickSafe
    <2>5. CASE Elapse
      <3>1. UNCHANGED <<up, cfg, mask, chip, driven>> /\ Running(wait') = Running(wait)
        BY <2>5, CountDownTyped DEF Elapse, TypeOK
      <3>2. QED
        BY <3>1 DEF InterlockInv, WaitExclusive, PairSafe, ConflictsIn
    <2>6. CASE Crash
      <3>1. UNCHANGED <<cfg, chip, driven>> /\ up' = FALSE /\ mask' = {} /\ Running(wait') = {}
        BY <2>6, StoppedTyped DEF Crash, RamCleared
      <3>2. QED
        BY <3>1 DEF InterlockInv, WaitExclusive, PairSafe, ConflictsIn
    <2>7. CASE PowerCut
      <3>1. UNCHANGED cfg /\ up' = FALSE /\ driven' = FALSE /\ mask' = {} /\ Running(wait') = {}
        BY <2>7, StoppedTyped DEF PowerCut, RamCleared
      <3>2. QED
        BY <3>1 DEF InterlockInv, WaitExclusive, PairSafe, ConflictsIn
    <2>8. ASSUME NEW c \in Configs, Boot(c) PROVE InterlockInv'
      BY <2>8, BootSafe
    <2>9. CASE UNCHANGED vars
      BY <2>9 DEF vars, ram, InterlockInv, WaitExclusive, PairSafe, ConflictsIn, Running
    <2>10. QED
      BY <2>1, <2>2, <2>3, <2>4, <2>5, <2>6, <2>7, <2>8, <2>9 DEF Next
  <1>3. QED
    BY <1>1, <1>2

\* Two interlocked coils are never energized together, through commands from
\* any source, ticks, SignalK loss, I2C failures, crashes and power cuts, as
\* long as the pairs are not edited -- or are edited outside dead times and
\* the expander answers (relay_ctrl.c:353-420, :494-579).
THEOREM InterlockHolds ==
  ASSUME PairingFixed \/ CarefulEdits
  PROVE  Spec => []Interlock
  <1>1. Init => InterlockInv
    BY InterlockInductive
  <1>2. TypeOK /\ InterlockInv /\ [Next]_vars => InterlockInv'
    BY InterlockInductive
  <1>3. InterlockInv => Interlock
    BY PairSafeMeans DEF InterlockInv, Interlock, Coils
  <1>4. QED
    BY <1>1, <1>2, <1>3, TypeCorrect, PTL DEF Spec

\* Under the same conditions no relay ever waits while its own or its
\* partner's coil is on: the safety net of the tick has nothing to catch.
THEOREM WaitsAreExclusive ==
  ASSUME PairingFixed \/ CarefulEdits
  PROVE  Spec => []WaitExclusive
  <1>1. Init => InterlockInv
    BY InterlockInductive
  <1>2. TypeOK /\ InterlockInv /\ [Next]_vars => InterlockInv'
    BY InterlockInductive
  <1>3. InterlockInv => WaitExclusive
    BY DEF InterlockInv
  <1>4. QED
    BY <1>1, <1>2, <1>3, TypeCorrect, PTL DEF Spec

(***************************************************************************)
(* Refinement: every action is a step of the bank, or leaves it alone.     *)
(***************************************************************************)
LEMMA ExclusiveIsPairSafe ==
  ASSUME NEW c, NEW m
  PROVE  PairSafe(c, m) <=> Bank!Exclusive(c.partner, m)
  BY PairSafeMeans DEF Bank!Exclusive

LEMMA MaskStaysExclusive ==
  ASSUME InterlockInv'
  PROVE  Bank!Exclusive(cfg'.partner, mask')
  <1>1. PairSafe(cfg', mask')
    BY DEF InterlockInv, PairSafe, ConflictsIn
  <1>2. QED
    BY <1>1, ExclusiveIsPairSafe

\* Coils that go off and debts that are dropped are a settlement.
LEMMA OffSettles ==
  ASSUME up, InterlockInv', UNCHANGED <<up, cfg>>, mask' \subseteq mask,
         Running(wait') \subseteq Running(wait)
  PROVE  Bank!Settle
  <1>1. Bank!Exclusive(cfg.partner, mask')
    BY MaskStaysExclusive
  <1>2. QED
    BY <1>1 DEF Bank!Settle, Running

LEMMA SwitchRefines ==
  ASSUME TypeOK, InterlockInv, InterlockInv', NEW i \in Relays, NEW on \in BOOLEAN, Switch(i, on)
  PROVE  [Bank!BankNext]_(Bank!bankVars)
  <1>1. up /\ UNCHANGED <<up, cfg>>
    BY DEF Switch
  <1>2. SUFFICES ASSUME ~UNCHANGED <<mask, wait>> PROVE Bank!BankNext
    BY <1>1 DEF Bank!bankVars, Running
  <1>3. CASE ~on /\ SwitchOff(i)
    <2> DEFINE t == mask \ {i}
    <2>1. PICK b \in Commits(Board, t, HoldMask(cfg)) : SetBoard(b)
      BY <1>3 DEF SwitchOff
    <2>2. t \in SUBSET Relays /\ PairSafe(cfg, t) /\ t \subseteq mask
      BY SmallerIsSafe DEF InterlockInv, TypeOK
    <2> HIDE DEF t
    <2>3. mask' \subseteq mask
      BY <1>1, <2>1, <2>2, CommitKeeps DEF SetBoard
    <2>4. Running(wait') \subseteq Running(wait)
      BY <1>3, StopTyped DEF SwitchOff, TypeOK
    <2>5. QED
      BY <1>1, <2>3, <2>4, OffSettles DEF Bank!BankNext
  <1>4. CASE on /\ SwitchOnAfterPartner(i)
    <2> DEFINE partner == cfg.partner[i]
               t       == mask \ partner
    <2>1. PICK b \in Commits(Board, t, HoldMask(cfg)) :
             /\ SetBoard(b)
             /\ IF b.mask = t
                THEN wait' = [Stop(wait, partner) EXCEPT ![i] = cfg.deadMs]
                ELSE wait' = wait
      BY <1>4 DEF SwitchOnAfterPartner
    <2>2. t \in SUBSET Relays /\ PairSafe(cfg, t)
      BY SmallerIsSafe DEF InterlockInv, TypeOK
    <2>3. b.mask = t
      <3>1. b.mask = t \/ b.mask = mask
        <4> HIDE DEF t
        <4>1. QED
          BY <1>1, <2>1, <2>2, CommitKeeps
      <3>2. QED
        BY <1>2, <2>1, <3>1 DEF SetBoard
    <2>4. mask' = t
      BY <2>1, <2>3 DEF SetBoard
    <2>5. Running(wait') = (Running(wait) \ partner) \cup {i}
      <3>1. /\ Stop(wait, partner) \in [Relays -> Timer]
            /\ Running(Stop(wait, partner)) = Running(wait) \ partner
        BY StopTyped DEF TypeOK
      <3>2. /\ \A j \in Relays : j # i => wait'[j] = Stop(wait, partner)[j]
            /\ wait'[i] = cfg.deadMs
        BY <2>1, <2>3, <3>1
      <3>3. cfg.deadMs # Idle
        BY ConfigAssumption DEF TypeOK, Config, Idle
      <3>4. QED
        BY <3>1, <3>2, <3>3 DEF Running
    <2>6. partner \cap mask # {}
      BY <1>4 DEF SwitchOnAfterPartner
    <2>7. Bank!Displace(i)
      BY <1>1, <2>4, <2>5, <2>6 DEF Bank!Displace, Running
    <2>8. QED
      BY <2>7 DEF Bank!BankNext
  <1>5. CASE on /\ SwitchOnNow(i)
    <2> DEFINE partner == cfg.partner[i]
               t       == mask \cup {i}
    <2>1. PICK b \in Commits(Board, t, HoldMask(cfg)) :
             /\ SetBoard(b)
             /\ IF b.mask = t THEN wait' = Stop(wait, partner) ELSE wait' = wait
      BY <1>5 DEF SwitchOnNow
    <2>2. t \in SUBSET Relays
      BY DEF TypeOK
    <2>3. b.mask = t
      <3>1. b.mask = t \/ b.mask = mask
        <4> HIDE DEF t
        <4>1. QED
          BY <2>1, <2>2, FailedCommit
      <3>2. QED
        BY <1>2, <2>1, <3>1 DEF SetBoard
    <2>4. mask' = t /\ Running(wait') = Running(wait) \ partner
      BY <2>1, <2>3, StopTyped DEF SetBoard, TypeOK
    <2>5. partner \cap mask = {}
      BY <1>5 DEF SwitchOnNow
    <2>6. Bank!Energize(i)
      BY <1>1, <2>4, <2>5 DEF Bank!Energize, Running
    <2>7. QED
      BY <2>6 DEF Bank!BankNext
  <1>6. CASE on /\ SwitchOnWaiting(i)
    BY <1>2, <1>6 DEF SwitchOnWaiting
  <1>7. QED
    BY <1>3, <1>4, <1>5, <1>6 DEF Switch

LEMMA SkLostRefines ==
  ASSUME TypeOK, InterlockInv, InterlockInv', SkLost
  PROVE  Bank!BankNext
  <1> DEFINE t == mask \cap HoldMask(cfg)
  <1>1. PICK b \in Commits(Board, t, HoldMask(cfg)) : SetBoard(b)
    BY DEF SkLost
  <1>2. up /\ UNCHANGED <<up, cfg>> /\ wait' = Stop(wait, Relays \ HoldMask(cfg))
    BY DEF SkLost
  <1>3. t \in SUBSET Relays /\ PairSafe(cfg, t) /\ t \subseteq mask
    BY SmallerIsSafe DEF InterlockInv, TypeOK
  <1> HIDE DEF t
  <1>4. mask' \subseteq mask
    BY <1>1, <1>2, <1>3, CommitKeeps DEF SetBoard
  <1>5. Running(wait') \subseteq Running(wait)
    BY <1>2, StopTyped DEF TypeOK
  <1>6. QED
    BY <1>2, <1>4, <1>5, OffSettles DEF Bank!BankNext

LEMMA UpdateConfigRefines ==
  ASSUME TypeOK, InterlockInv', NEW c \in Configs, UpdateConfig(c)
  PROVE  Bank!BankNext
  <1> DEFINE conflict == ConflictsIn(c, mask)
             dirty    == savePending \/ HoldMask(c) # HoldMask(cfg)
             old      == [Board EXCEPT !.save = dirty]
             t        == mask \ conflict
  <1>1. PICK b \in Commits(old, t, HoldMask(c)) :
           /\ SetBoard(b)
           /\ wait' = Stop(wait, conflict) \/ wait' = wait
    BY DEF UpdateConfig
  <1>2. up /\ cfg' = c /\ up' = up
    BY DEF UpdateConfig
  <1>3. old \in BoardType /\ old.mask = mask /\ t \in SUBSET Relays /\ t \subseteq mask
    BY BoardTyped DEF Board, BoardType, TypeOK
  <1>4. Running(wait') \subseteq Running(wait)
    BY <1>1, StopTyped DEF TypeOK
  <1> HIDE DEF old, t, conflict, dirty
  <1>5. mask' \subseteq mask
    <2>1. b \in Commits(old, t, HoldMask(c)) /\ old \in BoardType /\ t \in SUBSET Relays
      BY <1>3
    <2>2. b.mask = t \/ b.mask = old.mask
      BY <2>1, CommitsResult
    <2>3. QED
      BY <1>1, <1>3, <2>2 DEF SetBoard
  <1>6. Bank!Exclusive(c.partner, mask')
    BY <1>2, MaskStaysExclusive
  <1>7. Bank!Repair
    BY <1>2, <1>4, <1>5, <1>6 DEF Bank!Repair, Running
  <1>8. QED
    BY <1>7 DEF Bank!BankNext

LEMMA TickRefines ==
  ASSUME TypeOK, InterlockInv, InterlockInv', Tick
  PROVE  Bank!BankNext
  <1>1. PICK fired \in SUBSET Running(wait) :
            /\ mask' \subseteq mask \cup fired
            /\ Running(wait') \subseteq Running(wait) \ fired
    BY TickMoves
  <1>2. up /\ UNCHANGED <<up, cfg>>
    BY DEF Tick
  <1>3. Bank!Exclusive(cfg.partner, mask')
    BY <1>2, MaskStaysExclusive
  <1>4. Bank!Settle
    BY <1>1, <1>2, <1>3 DEF Bank!Settle, Running
  <1>5. QED
    BY <1>4 DEF Bank!BankNext

LEMMA BootRefines ==
  ASSUME TypeOK', InterlockInv', NEW c \in Configs, Boot(c)
  PROVE  Bank!BankNext
  <1>1. ~up /\ up' = TRUE /\ cfg' = c /\ Running(wait') = {} /\ mask' \subseteq Relays
    BY StoppedTyped DEF Boot, TypeOK
  <1>2. Bank!Exclusive(c.partner, mask')
    BY <1>1, MaskStaysExclusive
  <1>3. Bank!Restore
    BY <1>1, <1>2 DEF Bank!Restore, Running
  <1>4. QED
    BY <1>3 DEF Bank!BankNext

\* The controller with its clock, its expander, its flash and their failures
\* implements the bank of module RelayBank.
THEOREM ControllerImplementsBank ==
  ASSUME PairingFixed \/ CarefulEdits
  PROVE  Spec => ImplementsBank
  <1>1. Init => Bank!BankInit
    BY StoppedTyped DEF Init, Bank!BankInit, Running
  <1>2. Init => InterlockInv
    BY InterlockInductive
  <1>3. TypeOK /\ InterlockInv /\ [Next]_vars => InterlockInv'
    BY InterlockInductive
  <1>4. TypeOK /\ TypeOK' /\ InterlockInv /\ InterlockInv' /\ [Next]_vars
          => [Bank!BankNext]_(Bank!bankVars)
    <2> SUFFICES ASSUME TypeOK, TypeOK', InterlockInv, InterlockInv', [Next]_vars
                 PROVE  [Bank!BankNext]_(Bank!bankVars)
      OBVIOUS
    <2>1. ASSUME NEW i \in Relays, Command(i) PROVE [Bank!BankNext]_(Bank!bankVars)
      BY <2>1, CommandIsSwitch, SwitchRefines
    <2>2. CASE SkLost
      BY <2>2, SkLostRefines
    <2>3. ASSUME NEW c \in Configs, UpdateConfig(c) PROVE Bank!BankNext
      BY <2>3, UpdateConfigRefines
    <2>4. CASE Tick
      BY <2>4, TickRefines
    <2>5. CASE Elapse
      <3>1. UNCHANGED <<up, cfg, mask>> /\ Running(wait') = Running(wait)
        BY <2>5, CountDownTyped DEF Elapse, TypeOK
      <3>2. UNCHANGED Bank!bankVars
        BY <3>1 DEF Bank!bankVars, Running
      <3>3. QED
        BY <3>2
    <2>6. CASE Crash \/ PowerCut
      <3>1. up' = FALSE /\ mask' = {} /\ Running(wait') = {} /\ cfg' = cfg
        BY <2>6, StoppedTyped DEF Crash, PowerCut, RamCleared
      <3>2. Bank!Fail
        BY <3>1 DEF Bank!Fail, Running
      <3>3. QED
        BY <3>2 DEF Bank!BankNext
    <2>7. ASSUME NEW c \in Configs, Boot(c) PROVE Bank!BankNext
      BY <2>7, BootRefines
    <2>8. CASE UNCHANGED vars
      BY <2>8 DEF vars, ram, Bank!bankVars, Running
    <2>9. QED
      BY <2>1, <2>2, <2>3, <2>4, <2>5, <2>6, <2>7, <2>8 DEF Next
  <1>5. QED
    BY <1>1, <1>2, <1>3, <1>4, TypeCorrect, PTL DEF Spec, ImplementsBank, Bank!BankSpec

--------------------------------------------------------------------------------
(***************************************************************************)
(* With its callers (Requests): they do nothing a controller alone could   *)
(* not do, so all that is proved above holds with them.                    *)
(***************************************************************************)

(***************************************************************************)
(* The request is always well formed.                                      *)
(***************************************************************************)
LEMMA NobodyTyped == Nobody \in Run
  BY DEF Nobody, Run

LEMMA MeanwhileTyped ==
  ASSUME run \in Run, Meanwhile
  PROVE  /\ run' \in Run
         /\ run'.ask = run.ask /\ run'.on = run.on /\ run'.off = run.off
         /\ run'.failed = run.failed /\ run'.view = Seen(run.view)
  <1>1. Seen(run.view) \in {"alone", "current", "stale"}
    BY DEF Seen, Run
  <1>2. QED
    BY <1>1 DEF Meanwhile, Run

LEMMA RunTyped ==
  ASSUME run \in Run, [RequestNext]_allVars
  PROVE  run' \in Run
  <1>1. ASSUME NEW on \in BOOLEAN, PutAll(on) PROVE run' \in Run
    BY <1>1 DEF PutAll, Run
  <1>2. ASSUME NEW fields \in Messages, BusControl(fields) PROVE run' \in Run
    BY <1>2 DEF BusControl, Run
  <1>3. ASSUME SetNext PROVE run' \in Run
    <2>1. PICK i \in Left : run' = [run EXCEPT !.on = run.on \ {i},
                                              !.off = run.off \ {i},
                                              !.failed = FailedSoFar(i, i \in run.on)]
      BY <1>3 DEF SetNext
    <2>2. FailedSoFar(i, i \in run.on) \in BOOLEAN
      BY DEF FailedSoFar, Refused, Run
    <2>3. QED
      BY <2>1, <2>2 DEF Run
  <1>4. CASE Answer \/ Down
    BY <1>4, NobodyTyped DEF Answer, Down
  <1>5. CASE OtherCommand \/ Lost \/ IoTick \/ \E c \in Configs : NewConfig(c)
    BY <1>5, MeanwhileTyped DEF OtherCommand, Lost, IoTick, NewConfig
  <1>6. CASE WebTakes \/ Time \/ (\E c \in Configs : BootUp(c)) \/ UNCHANGED allVars
    BY <1>6 DEF WebTakes, Time, BootUp, allVars
  <1>7. QED
    BY <1>1, <1>2, <1>3, <1>4, <1>5, <1>6 DEF RequestNext

(***************************************************************************)
(* Every step is a step of the controller or leaves it alone.              *)
(***************************************************************************)
LEMMA RequestStep ==
  ASSUME run \in Run, [RequestNext]_allVars
  PROVE  [Next]_vars
  <1>1. ASSUME NEW on \in BOOLEAN, PutAll(on) PROVE UNCHANGED vars
    BY <1>1 DEF PutAll
  <1>2. ASSUME NEW fields \in Messages, BusControl(fields) PROVE UNCHANGED vars
    BY <1>2 DEF BusControl
  <1>3. ASSUME SetNext PROVE Next
    <2>1. PICK i \in Left : Set(i, i \in run.on)
      BY <1>3 DEF SetNext
    <2>2. i \in Relays
      BY DEF Left, Run
    <2>3. \E request \in BOOLEAN : Set(i, request)
      <3>1. (i \in run.on) \in BOOLEAN
        OBVIOUS
      <3>2. QED
        BY <2>1, <3>1, Zenon
    <2>4. QED
      BY <2>2, <2>3 DEF Command, Next
  <1>4. ASSUME Answer PROVE UNCHANGED vars
    BY <1>4 DEF Answer
  <1>5. ASSUME OtherCommand PROVE Next
    BY <1>5 DEF OtherCommand, Next
  <1>6. ASSUME Lost PROVE Next
    BY <1>6 DEF Lost, Next
  <1>7. ASSUME NEW c \in Configs, NewConfig(c) PROVE Next
    BY <1>7 DEF NewConfig, Next
  <1>8. ASSUME WebTakes PROVE UNCHANGED vars
    BY <1>8 DEF WebTakes
  <1>9. ASSUME IoTick PROVE Next
    BY <1>9 DEF IoTick, Next
  <1>10. ASSUME Time PROVE Next
    BY <1>10 DEF Time, Next
  <1>11. ASSUME Down PROVE Next
    BY <1>11 DEF Down, Next
  <1>12. ASSUME NEW c \in Configs, BootUp(c) PROVE Next
    BY <1>12 DEF BootUp, Next
  <1>13. ASSUME UNCHANGED allVars PROVE UNCHANGED vars
    BY <1>13 DEF allVars
  <1>14. QED
    BY <1>1, <1>2, <1>3, <1>4, <1>5, <1>6, <1>7, <1>8, <1>9, <1>10, <1>11, <1>12, <1>13
       DEF RequestNext

\* The controller with its callers is the controller: nothing a request does
\* is a step of its own.
THEOREM CallersImplementController == RequestSpec => Spec
  <1>1. RequestInit => Init /\ run \in Run
    BY NobodyTyped DEF RequestInit
  <1>2. run \in Run /\ [RequestNext]_allVars => (run \in Run)'
    BY RunTyped
  <1>3. run \in Run /\ [RequestNext]_allVars => [Next]_vars
    BY RequestStep
  <1>4. QED
    BY <1>1, <1>2, <1>3, PTL DEF RequestSpec, Spec

(***************************************************************************)
(* What one call does to the coils and the waits.                          *)
(***************************************************************************)
LEMMA CommittedMask ==
  ASSUME TypeOK, NEW t \in SUBSET Relays, NEW h, NEW b \in Commits(Board, t, h)
  PROVE  b.mask \in {mask, t}
  <1>1. Board.mask = mask
    BY DEF Board
  <1>2. QED
    BY <1>1, BoardTyped, CommitsResult

LEMMA SwitchedOff ==
  ASSUME TypeOK, NEW i \in Relays, Switch(i, FALSE)
  PROVE  /\ cfg' = cfg
         /\ mask' \in {mask, mask \ {i}}
         /\ wait' = Stop(wait, {i})
  <1>1. PICK b \in Commits(Board, mask \ {i}, HoldMask(cfg)) : SetBoard(b)
    BY DEF Switch, SwitchOff
  <1>2. b.mask \in {mask, mask \ {i}}
    <2>1. mask \ {i} \in SUBSET Relays
      BY DEF TypeOK
    <2>2. QED
      BY <1>1, <2>1, CommittedMask
  <1>3. cfg' = cfg /\ wait' = Stop(wait, {i})
    BY DEF Switch, SwitchOff
  <1>4. QED
    BY <1>1, <1>2, <1>3 DEF SetBoard

LEMMA SwitchedOn ==
  ASSUME TypeOK, NEW i \in Relays, Switch(i, TRUE)
  PROVE  /\ cfg' = cfg
         /\ \/ /\ mask' = mask \ cfg.partner[i]
               /\ wait' = [Stop(wait, cfg.partner[i]) EXCEPT ![i] = cfg.deadMs]
            \/ /\ mask' = mask
               /\ wait' = wait
            \/ /\ cfg.partner[i] \cap mask = {}
               /\ mask' = mask \cup {i}
               /\ wait' = Stop(wait, cfg.partner[i])
  <1>1. CASE SwitchOnAfterPartner(i)
    <2>1. PICK b \in Commits(Board, mask \ cfg.partner[i], HoldMask(cfg)) :
             /\ SetBoard(b)
             /\ IF b.mask = mask \ cfg.partner[i]
                THEN wait' = [Stop(wait, cfg.partner[i]) EXCEPT ![i] = cfg.deadMs]
                ELSE wait' = wait
      BY <1>1 DEF SwitchOnAfterPartner
    <2>2. b.mask \in {mask, mask \ cfg.partner[i]}
      <3>1. mask \ cfg.partner[i] \in SUBSET Relays
        BY DEF TypeOK
      <3>2. QED
        BY <2>1, <3>1, CommittedMask
    <2>3. QED
      BY <2>1, <2>2 DEF Switch, SetBoard
  <1>2. CASE SwitchOnNow(i)
    <2>1. PICK b \in Commits(Board, mask \cup {i}, HoldMask(cfg)) :
             /\ SetBoard(b)
             /\ IF b.mask = mask \cup {i}
                THEN wait' = Stop(wait, cfg.partner[i])
                ELSE wait' = wait
      BY <1>2 DEF SwitchOnNow
    <2>2. b.mask \in {mask, mask \cup {i}}
      <3>1. mask \cup {i} \in SUBSET Relays
        BY DEF TypeOK
      <3>2. QED
        BY <2>1, <3>1, CommittedMask
    <2>3. QED
      BY <1>2, <2>1, <2>2 DEF Switch, SetBoard, SwitchOnNow
  <1>3. CASE SwitchOnWaiting(i)
    BY <1>3 DEF Switch, SwitchOnWaiting
  <1>4. QED
    BY <1>1, <1>2, <1>3 DEF Switch

(***************************************************************************)
(* What a request knows of itself.                                         *)
(***************************************************************************)
\* As long as the pairs are those it looked at, "All on" has only relays
\* without partner to do.
Informed ==
  run.view # "stale" =>
    \/ run.ask = "on" /\ run.off = {} /\ run.on \cap AllOnSkipped(cfg) = {}
    \/ run.ask = "off" /\ run.on = {}

\* What it has done so far stands, as long as nobody else has switched.
DoneOn(i) == i \in Loads(cfg, mask) \/ (wait[i] # Idle /\ i \notin cfg.wiredNc)

DoneOff(i) ==
  /\ i \in Loads(cfg, mask) => wait[i] # Idle
  /\ wait[i] # Idle => i \in cfg.wiredNc

Standing ==
  run.view = "alone" /\ ~run.failed =>
    /\ run.ask = "on" => \A i \in Relays \ (AllOnSkipped(cfg) \cup Left) : DoneOn(i)
    /\ run.ask = "off" /\ ~NcPair(cfg) => \A i \in Relays \ Left : DoneOff(i)

RequestInv ==
  /\ run \in Run
  /\ ~up => run.view = "stale"
  /\ Informed
  /\ Standing

LEMMA SetNextIs ==
  ASSUME TypeOK, run \in Run, SetNext
  PROVE  \E i \in Left :
            /\ i \in Relays
            /\ i \in run.on => Set(i, TRUE)
            /\ i \notin run.on => Set(i, FALSE)
            /\ run'.ask = run.ask /\ run'.view = run.view
            /\ run'.on = run.on \ {i} /\ run'.off = run.off \ {i}
            /\ run'.failed = FailedSoFar(i, i \in run.on)
  <1>1. PICK i \in Left : /\ Set(i, i \in run.on)
                          /\ run' = [run EXCEPT !.on = run.on \ {i},
                                                !.off = run.off \ {i},
                                                !.failed = FailedSoFar(i, i \in run.on)]
    BY DEF SetNext
  <1>2. i \in Relays
    BY DEF Left, Run
  <1>3. i \in run.on => Set(i, TRUE)
    <2>1. i \in run.on => (i \in run.on) = TRUE
      OBVIOUS
    <2>2. QED
      BY <1>1, <2>1
  <1>4. i \notin run.on => Set(i, FALSE)
    <2>1. i \notin run.on => (i \in run.on) = FALSE
      OBVIOUS
    <2>2. QED
      BY <1>1, <2>1
  <1>5. QED
    BY <1>1, <1>2, <1>3, <1>4 DEF Run

\* The coil goes the way of the request unless the relay is wired to its
\* normally closed terminal.
LEMMA SetWay ==
  ASSUME NEW i \in Relays
  PROVE  /\ Set(i, TRUE) => IF i \in cfg.wiredNc THEN Switch(i, FALSE) ELSE Switch(i, TRUE)
         /\ Set(i, FALSE) => IF i \in cfg.wiredNc THEN Switch(i, TRUE) ELSE Switch(i, FALSE)
  <1>1. CASE i \in cfg.wiredNc
    <2>1. (TRUE # (i \in cfg.wiredNc)) = FALSE
      BY <1>1
    <2>2. (FALSE # (i \in cfg.wiredNc)) = TRUE
      BY <1>1
    <2>3. Set(i, TRUE) => Switch(i, FALSE)
      BY <2>1 DEF Set
    <2>4. Set(i, FALSE) => Switch(i, TRUE)
      BY <2>2 DEF Set
    <2>5. QED
      BY <1>1, <2>3, <2>4
  <1>2. CASE i \notin cfg.wiredNc
    <2>1. (i \in cfg.wiredNc) = FALSE
      BY <1>2
    <2>2. (TRUE # FALSE) = TRUE /\ (FALSE # FALSE) = FALSE
      OBVIOUS
    <2>3. Set(i, TRUE) => Switch(i, TRUE)
      BY <2>1, <2>2 DEF Set
    <2>4. Set(i, FALSE) => Switch(i, FALSE)
      BY <2>1, <2>2 DEF Set
    <2>5. QED
      BY <1>2, <2>3, <2>4
  <1>3. QED
    BY <1>1, <1>2

LEMMA NotRefusedOff ==
  ASSUME NEW i \in Relays, ~Refused(i, FALSE)
  PROVE  IF i \in cfg.wiredNc THEN i \in mask' \/ wait'[i] # Idle ELSE i \notin mask'
  <1>1. CASE i \in cfg.wiredNc
    <2>1. (i \in cfg.wiredNc) = TRUE
      BY <1>1
    <2>2. QED
      BY <1>1, <2>1 DEF Refused
  <1>2. CASE i \notin cfg.wiredNc
    <2>1. (i \in cfg.wiredNc) = FALSE
      BY <1>2
    <2>2. QED
      BY <1>2, <2>1 DEF Refused
  <1>3. QED
    BY <1>1, <1>2

LEMMA OffKeepsOthers ==
  ASSUME TypeOK, NEW i \in Relays, Switch(i, FALSE), NEW j \in Relays, j # i
  PROVE  (j \in mask' <=> j \in mask) /\ wait'[j] = wait[j]
  BY SwitchedOff DEF Stop

LEMMA OnKeepsOthers ==
  ASSUME TypeOK, NEW i \in Relays, Switch(i, TRUE),
         NEW j \in Relays, j # i, j \notin cfg.partner[i]
  PROVE  (j \in mask' <=> j \in mask) /\ wait'[j] = wait[j]
  BY SwitchedOn DEF Stop

LEMMA OnStopsPartner ==
  ASSUME TypeOK, NEW i \in Relays, Switch(i, TRUE),
         NEW j \in Relays, j # i, j \in cfg.partner[i]
  PROVE  \/ j \notin mask' /\ wait'[j] = Idle
         \/ (j \in mask' <=> j \in mask) /\ wait'[j] = wait[j]
  BY SwitchedOn DEF Stop

\* The load of a relay that a call did not refuse.
LEMMA OffResult ==
  ASSUME TypeOK, NEW i \in Relays, Switch(i, FALSE)
  PROVE  wait'[i] = Idle
  BY SwitchedOff DEF Stop

LEMMA OnResult ==
  ASSUME TypeOK, NEW i \in Relays, Switch(i, TRUE)
  PROVE  \/ i \in mask'
         \/ wait'[i] # Idle
         \/ i \notin mask' /\ wait'[i] = Idle /\ mask' = mask /\ wait' = wait
  <1>1. cfg.deadMs # Idle
    BY ConfigAssumption DEF TypeOK, Config, Idle
  <1>2. CASE /\ mask' = mask \ cfg.partner[i]
             /\ wait' = [Stop(wait, cfg.partner[i]) EXCEPT ![i] = cfg.deadMs]
    BY <1>1, <1>2 DEF Stop
  <1>3. QED
    BY <1>2, SwitchedOn

LEMMA DoneOnKept ==
  ASSUME TypeOK, run \in Run, Informed, SetNext,
         run.view = "alone", run.ask = "on", run'.failed = FALSE,
         \A j \in Relays \ (AllOnSkipped(cfg) \cup Left) : DoneOn(j)
  PROVE  \A j \in Relays \ (AllOnSkipped(cfg) \cup Left') : DoneOn(j)'
  <1>1. PICK i \in Left :
           /\ i \in Relays
           /\ i \in run.on => Set(i, TRUE)
           /\ i \notin run.on => Set(i, FALSE)
           /\ run'.on = run.on \ {i} /\ run'.off = run.off \ {i}
           /\ run'.failed = FailedSoFar(i, i \in run.on)
    BY SetNextIs
  <1>2. i \in run.on /\ cfg.partner[i] = {} /\ ~Refused(i, TRUE)
    <2>1. i \in run.on /\ i \notin AllOnSkipped(cfg)
      BY <1>1 DEF Informed, Left
    <2>2. ~Refused(i, i \in run.on)
      BY <1>1 DEF FailedSoFar
    <2>3. (i \in run.on) = TRUE
      BY <2>1
    <2>4. QED
      BY <1>1, <2>1, <2>2, <2>3 DEF AllOnSkipped
  <1>3. SUFFICES ASSUME NEW j \in Relays, j \notin AllOnSkipped(cfg), j = i \/ j \notin Left
                 PROVE  DoneOn(j)'
    BY <1>1 DEF Left
  <1>4. CASE i \in cfg.wiredNc
    <2>1. Switch(i, FALSE)
      BY <1>1, <1>2, <1>4, SetWay
    <2>2. cfg' = cfg
      BY <1>1, <2>1, SwitchedOff
    <2>3. CASE j = i
      <3>1. i \notin mask'
        BY <1>2, <1>4 DEF Refused
      <3>2. QED
        BY <1>4, <2>2, <2>3, <3>1 DEF DoneOn, Loads
    <2>4. CASE j # i
      <3>1. (j \in mask' <=> j \in mask) /\ wait'[j] = wait[j]
        BY <1>1, <2>1, <2>4, OffKeepsOthers
      <3>2. QED
        BY <1>3, <2>2, <2>4, <3>1 DEF DoneOn, Loads
    <2>5. QED
      BY <2>3, <2>4
  <1>5. CASE i \notin cfg.wiredNc
    <2>1. Switch(i, TRUE)
      BY <1>1, <1>2, <1>5, SetWay
    <2>2. cfg' = cfg
      BY <1>1, <2>1, SwitchedOn
    <2>3. CASE j = i
      <3>1. i \in mask' \/ wait'[i] # Idle
        BY <1>2, <1>5 DEF Refused
      <3>2. QED
        BY <1>5, <2>2, <2>3, <3>1 DEF DoneOn, Loads
    <2>4. CASE j # i
      <3>1. (j \in mask' <=> j \in mask) /\ wait'[j] = wait[j]
        BY <1>1, <1>2, <2>1, <2>4, OnKeepsOthers
      <3>2. QED
        BY <1>3, <2>2, <2>4, <3>1 DEF DoneOn, Loads
    <2>5. QED
      BY <2>3, <2>4
  <1>6. QED
    BY <1>4, <1>5

LEMMA DoneOffKept ==
  ASSUME TypeOK, run \in Run, Informed, SetNext, ~NcPair(cfg),
         run.view = "alone", run.ask = "off", run'.failed = FALSE,
         \A j \in Relays \ Left : DoneOff(j)
  PROVE  \A j \in Relays \ Left' : DoneOff(j)'
  <1>1. PICK i \in Left :
           /\ i \in Relays
           /\ i \in run.on => Set(i, TRUE)
           /\ i \notin run.on => Set(i, FALSE)
           /\ run'.on = run.on \ {i} /\ run'.off = run.off \ {i}
           /\ run'.failed = FailedSoFar(i, i \in run.on)
    BY SetNextIs
  <1>2. i \notin run.on /\ ~Refused(i, FALSE)
    <2>1. i \notin run.on
      BY DEF Informed
    <2>2. ~Refused(i, i \in run.on)
      BY <1>1 DEF FailedSoFar
    <2>3. (i \in run.on) = FALSE
      BY <2>1
    <2>4. QED
      BY <2>1, <2>2, <2>3
  <1>3. SUFFICES ASSUME NEW j \in Relays, j = i \/ j \notin Left
                 PROVE  DoneOff(j)'
    BY <1>1 DEF Left
  <1>4. CASE i \notin cfg.wiredNc
    <2>1. Switch(i, FALSE)
      BY <1>1, <1>2, <1>4, SetWay
    <2>2. cfg' = cfg
      BY <1>1, <2>1, SwitchedOff
    <2>3. CASE j = i
      <3>1. i \notin mask' /\ wait'[i] = Idle
        BY <1>1, <1>2, <1>4, <2>1, OffResult, NotRefusedOff
      <3>2. QED
        BY <1>4, <2>2, <2>3, <3>1 DEF DoneOff, Loads
    <2>4. CASE j # i
      <3>1. (j \in mask' <=> j \in mask) /\ wait'[j] = wait[j]
        BY <1>1, <2>1, <2>4, OffKeepsOthers
      <3>2. QED
        BY <1>3, <2>2, <2>4, <3>1 DEF DoneOff, Loads
    <2>5. QED
      BY <2>3, <2>4
  <1>5. CASE i \in cfg.wiredNc
    <2>1. Switch(i, TRUE)
      BY <1>1, <1>2, <1>5, SetWay
    <2>2. cfg' = cfg
      BY <1>1, <2>1, SwitchedOn
    <2>3. CASE j = i
      <3>1. i \in mask' \/ wait'[i] # Idle
        BY <1>1, <1>2, <1>5, NotRefusedOff
      <3>2. QED
        BY <1>5, <2>2, <2>3, <3>1 DEF DoneOff, Loads
    <2>4. CASE j # i /\ j \notin cfg.partner[i]
      <3>1. (j \in mask' <=> j \in mask) /\ wait'[j] = wait[j]
        BY <1>1, <2>1, <2>4, OnKeepsOthers
      <3>2. QED
        BY <1>3, <2>2, <2>4, <3>1 DEF DoneOff, Loads
    <2>5. CASE j # i /\ j \in cfg.partner[i]
      <3>1. j \notin cfg.wiredNc
        BY <1>5, <2>5 DEF NcPair
      <3>2. \/ j \notin mask' /\ wait'[j] = Idle
            \/ (j \in mask' <=> j \in mask) /\ wait'[j] = wait[j]
        BY <1>1, <2>1, <2>5, OnStopsPartner
      <3>3. QED
        BY <1>3, <2>2, <2>5, <3>1, <3>2 DEF DoneOff, Loads
    <2>6. QED
      BY <2>3, <2>4, <2>5
  <1>6. QED
    BY <1>4, <1>5

(***************************************************************************)
(* The invariant is inductive.                                             *)
(***************************************************************************)
LEMMA StaleIsEnough ==
  ASSUME run' \in Run, run'.view = "stale"
  PROVE  RequestInv'
  BY DEF RequestInv, Informed, Standing

LEMMA SameIsEnough ==
  ASSUME RequestInv, run' \in Run, up' = up, mask' = mask,
         cfg'.partner = cfg.partner, cfg'.wiredNc = cfg.wiredNc,
         run'.ask = run.ask, run'.on = run.on, run'.off = run.off, run'.failed = run.failed,
         run'.view = run.view,
         \A i \in Relays : (wait'[i] # Idle) <=> (wait[i] # Idle)
  PROVE  RequestInv'
  <1>1. Left' = Left /\ AllOnSkipped(cfg)' = AllOnSkipped(cfg) /\ NcPair(cfg)' = NcPair(cfg)
    BY DEF Left, AllOnSkipped, NcPair
  <1>2. Informed' /\ (~up' => run'.view = "stale")
    BY <1>1 DEF RequestInv, Informed
  <1>3. Standing'
    <2>1. \A i \in Relays : DoneOn(i)' <=> DoneOn(i)
      BY DEF DoneOn, Loads
    <2>2. \A i \in Relays : DoneOff(i)' <=> DoneOff(i)
      BY DEF DoneOff, Loads
    <2>3. QED
      BY <1>1, <2>1, <2>2 DEF RequestInv, Standing
  <1>4. QED
    BY <1>2, <1>3 DEF RequestInv

LEMMA MeanwhileKeeps ==
  ASSUME RequestInv, Meanwhile, up, up'
  PROVE  RequestInv'
  <1>1. /\ run' \in Run
        /\ run'.ask = run.ask /\ run'.on = run.on /\ run'.off = run.off
        /\ run'.failed = run.failed /\ run'.view = Seen(run.view)
    BY MeanwhileTyped DEF RequestInv
  <1>2. CASE run'.view = "stale"
    BY <1>1, <1>2, StaleIsEnough
  <1>3. CASE run'.view # "stale"
    <2>1. cfg'.partner = cfg.partner /\ run.view # "stale"
      BY <1>1, <1>3 DEF Seen
    <2>2. CASE run'.view = "alone"
      <3>1. run.view = "alone" /\ cfg'.wiredNc = cfg.wiredNc /\ mask' = mask /\ wait' = wait
        BY <1>1, <2>1, <2>2 DEF Seen
      <3>2. QED
        BY <1>1, <2>1, <2>2, <3>1, SameIsEnough
    <2>3. CASE run'.view # "alone"
      BY <1>1, <1>3, <2>1, <2>3 DEF RequestInv, Informed, Standing, AllOnSkipped
    <2>4. QED
      BY <2>2, <2>3
  <1>4. QED
    BY <1>2, <1>3

LEMMA SetNextKeeps ==
  ASSUME TypeOK, RequestInv, SetNext, run' \in Run
  PROVE  RequestInv'
  <1>1. PICK i \in Left :
           /\ i \in Relays
           /\ i \in run.on => Set(i, TRUE)
           /\ i \notin run.on => Set(i, FALSE)
           /\ run'.ask = run.ask /\ run'.view = run.view
           /\ run'.on = run.on \ {i} /\ run'.off = run.off \ {i}
           /\ run'.failed = FailedSoFar(i, i \in run.on)
    BY SetNextIs DEF RequestInv
  <1>2. cfg' = cfg /\ up' = up
    BY <1>1 DEF Set, Switch
  <1>3. AllOnSkipped(cfg)' = AllOnSkipped(cfg) /\ NcPair(cfg)' = NcPair(cfg)
    BY <1>2 DEF AllOnSkipped, NcPair
  <1>4. Informed' /\ (~up' => run'.view = "stale")
    BY <1>1, <1>2, <1>3 DEF RequestInv, Informed
  <1>5. Standing'
    <2>1. SUFFICES ASSUME run'.view = "alone", ~run'.failed PROVE
                    /\ run.ask = "on" => \A j \in Relays \ (AllOnSkipped(cfg) \cup Left') : DoneOn(j)'
                    /\ run.ask = "off" /\ ~NcPair(cfg) => \A j \in Relays \ Left' : DoneOff(j)'
      BY <1>1, <1>3 DEF Standing
    <2>2. run.view = "alone" /\ ~run.failed /\ run'.failed = FALSE
      BY <1>1, <2>1 DEF FailedSoFar, Run
    <2>3. ASSUME run.ask = "on"
          PROVE  \A j \in Relays \ (AllOnSkipped(cfg) \cup Left') : DoneOn(j)'
      <3>1. \A j \in Relays \ (AllOnSkipped(cfg) \cup Left) : DoneOn(j)
        BY <2>2, <2>3 DEF RequestInv, Standing
      <3>2. QED
        BY <2>2, <2>3, <3>1, DoneOnKept DEF RequestInv
    <2>4. ASSUME run.ask = "off", ~NcPair(cfg)
          PROVE  \A j \in Relays \ Left' : DoneOff(j)'
      <3>1. \A j \in Relays \ Left : DoneOff(j)
        BY <2>2, <2>4 DEF RequestInv, Standing
      <3>2. QED
        BY <2>2, <2>4, <3>1, DoneOffKept DEF RequestInv
    <2>5. QED
      BY <2>3, <2>4
  <1>6. QED
    BY <1>4, <1>5 DEF RequestInv

LEMMA RequestInductive ==
  ASSUME TypeOK, RequestInv, [RequestNext]_allVars
  PROVE  RequestInv'
  <1> run \in Run /\ run' \in Run
    BY RunTyped DEF RequestInv
  <1>1. ASSUME NEW on \in BOOLEAN, PutAll(on) PROVE RequestInv'
    <2>1. CASE webCfg.partner # cfg.partner
      BY <1>1, <2>1, StaleIsEnough DEF PutAll
    <2>2. CASE webCfg.partner = cfg.partner
      <3>1. UNCHANGED vars /\ up
        BY <1>1 DEF PutAll
      <3>2. /\ run'.ask = IF on THEN "on" ELSE "off"
            /\ run'.on = IF on THEN Relays \ AllOnSkipped(cfg) ELSE {}
            /\ run'.off = IF on THEN {} ELSE Relays
        BY <1>1, <2>2 DEF PutAll, AllOnSkipped
      <3>3. AllOnSkipped(cfg)' = AllOnSkipped(cfg)
        BY <3>1 DEF AllOnSkipped, vars, ram
      <3>4. Informed'
        BY <3>2, <3>3 DEF Informed
      <3>5. Standing'
        BY <3>2, <3>3 DEF Standing, Left
      <3>6. QED
        BY <3>1, <3>4, <3>5 DEF RequestInv, vars, ram
    <2>3. QED
      BY <2>1, <2>2
  <1>2. ASSUME NEW fields \in Messages, BusControl(fields) PROVE RequestInv'
    BY <1>2, StaleIsEnough DEF BusControl
  <1>3. ASSUME SetNext PROVE RequestInv'
    BY <1>3, SetNextKeeps
  <1>4. CASE Answer \/ Down
    BY <1>4, StaleIsEnough DEF Answer, Down, Nobody
  <1>5. CASE OtherCommand
    <2>1. up /\ up'
      BY <1>5 DEF OtherCommand, Command, Toggle, Set, Switch
    <2>2. QED
      BY <1>5, <2>1, MeanwhileKeeps DEF OtherCommand
  <1>6. CASE Lost
    BY <1>6, MeanwhileKeeps DEF Lost, SkLost
  <1>7. ASSUME NEW c \in Configs, NewConfig(c) PROVE RequestInv'
    BY <1>7, MeanwhileKeeps DEF NewConfig, UpdateConfig
  <1>8. CASE IoTick
    BY <1>8, MeanwhileKeeps DEF IoTick, Tick
  <1>9. CASE Time
    <2>1. up' = up /\ cfg' = cfg /\ mask' = mask /\ run' = run /\ wait' = CountDown(wait)
      BY <1>9 DEF Time, Elapse
    <2>2. Running(wait') = Running(wait)
      BY <2>1, CountDownTyped DEF TypeOK
    <2>3. \A i \in Relays : (wait'[i] # Idle) <=> (wait[i] # Idle)
      BY <2>2 DEF Running
    <2>4. QED
      BY <2>1, <2>3, SameIsEnough
  <1>10. ASSUME NEW c \in Configs, BootUp(c) PROVE RequestInv'
    BY <1>10, StaleIsEnough DEF BootUp, Boot, RequestInv
  <1>11. CASE WebTakes \/ UNCHANGED allVars
    <2>1. up' = up /\ cfg' = cfg /\ mask' = mask /\ run' = run /\ wait' = wait
      BY <1>11 DEF WebTakes, allVars, vars, ram
    <2>2. QED
      BY <2>1, SameIsEnough
  <1>12. QED
    BY <1>1, <1>2, <1>3, <1>4, <1>5, <1>6, <1>7, <1>8, <1>9, <1>10, <1>11 DEF RequestNext

LEMMA RequestInvAlways == RequestSpec => [](TypeOK /\ RequestInv)
  <1>1. RequestInit => RequestInv
    BY NobodyTyped, StaleIsEnough DEF RequestInit, RequestInv, Informed, Standing, Nobody
  <1>2. TypeOK /\ RequestInv /\ [RequestNext]_allVars => RequestInv'
    BY RequestInductive
  <1>3. RequestSpec => []TypeOK
    BY CallersImplementController, TypeCorrect, PTL
  <1>4. QED
    BY <1>1, <1>2, <1>3, PTL DEF RequestSpec

\* "All on" and "All off" that report success and that nobody interfered with
\* have done what they were asked, whatever fails in between.
THEOREM AllAlwaysMeansAll == RequestSpec => []AllMeansAll
  <1>1. TypeOK /\ RequestInv => AllMeansAll
    <2>1. SUFFICES ASSUME TypeOK, RequestInv, Left = {}, ~run.failed, run.view = "alone"
                   PROVE  /\ run.ask = "on" =>
                                Relays \ AllOnSkipped(cfg)
                                  \subseteq Loads(cfg, mask) \cup (Running(wait) \ cfg.wiredNc)
                          /\ run.ask = "off" /\ ~NcPair(cfg) =>
                                /\ Loads(cfg, mask) \subseteq Running(wait)
                                /\ Running(wait) \subseteq cfg.wiredNc
      BY DEF AllMeansAll
    <2>2. Loads(cfg, mask) \subseteq Relays
      <3>1. cfg \in Config /\ mask \in SUBSET Relays
        BY <2>1, ConfigAssumption DEF TypeOK
      <3>2. cfg.wiredNc \in SUBSET Relays
        BY <3>1 DEF Config
      <3>3. QED
        BY <3>1, <3>2 DEF Loads
    <2>3. QED
      BY <2>1, <2>2 DEF RequestInv, Standing, DoneOn, DoneOff, Running
  <1>2. QED
    BY <1>1, RequestInvAlways, PTL

\* "All on" switches no load off, "All off" none on, whatever the other
\* callers, the bus, the timers and edits of all other settings do in
\* between, as long as the controller's pairs are those the page read.
THEOREM AllOnlyEverAsAsked == RequestSpec => AllOnlyAsAsked
  <1>1. ASSUME TypeOK, RequestInv, SetNext, run.view # "stale"
        PROVE  /\ run.ask = "on" => Loads(cfg, mask) \subseteq Loads(cfg, mask')
               /\ run.ask = "off" /\ ~NcPair(cfg) => Loads(cfg, mask') \subseteq Loads(cfg, mask)
    <2>1. PICK i \in Left :
             /\ i \in Relays
             /\ i \in run.on => Set(i, TRUE)
             /\ i \notin run.on => Set(i, FALSE)
      BY <1>1, SetNextIs DEF RequestInv
    <2>2. ASSUME run.ask = "on" PROVE Loads(cfg, mask) \subseteq Loads(cfg, mask')
      <3>1. i \in run.on /\ cfg.partner[i] = {}
        BY <1>1, <2>1, <2>2 DEF RequestInv, Informed, Left, AllOnSkipped
      <3>2. CASE i \in cfg.wiredNc
        <4>1. mask' \in {mask, mask \ {i}}
          BY <1>1, <2>1, <3>1, <3>2, SetWay, SwitchedOff
        <4>2. QED
          BY <3>2, <4>1 DEF Loads
      <3>3. CASE i \notin cfg.wiredNc
        <4>1. mask' \in {mask, mask \cup {i}}
          <5>1. mask \ cfg.partner[i] = mask
            BY <3>1
          <5>2. QED
            BY <1>1, <2>1, <3>1, <3>3, <5>1, SetWay, SwitchedOn
        <4>2. QED
          BY <3>3, <4>1 DEF Loads
      <3>4. QED
        BY <3>2, <3>3
    <2>3. ASSUME run.ask = "off", ~NcPair(cfg) PROVE Loads(cfg, mask') \subseteq Loads(cfg, mask)
      <3>1. i \notin run.on
        BY <1>1, <2>3 DEF RequestInv, Informed
      <3>2. CASE i \in cfg.wiredNc
        <4>1. cfg.partner[i] \cap cfg.wiredNc = {}
          BY <2>3, <3>2 DEF NcPair
        <4>2. mask' \in {mask, mask \ cfg.partner[i], mask \cup {i}}
          BY <1>1, <2>1, <3>1, <3>2, SetWay, SwitchedOn
        <4>3. QED
          BY <3>2, <4>1, <4>2 DEF Loads
      <3>3. CASE i \notin cfg.wiredNc
        <4>1. mask' \in {mask, mask \ {i}}
          BY <1>1, <2>1, <3>1, <3>3, SetWay, SwitchedOff
        <4>2. QED
          BY <3>3, <4>1 DEF Loads
      <3>4. QED
        BY <3>2, <3>3
    <2>4. QED
      BY <2>2, <2>3
  <1>2. QED
    BY <1>1, RequestInvAlways, PTL DEF AllOnlyAsAsked

================================================================================
