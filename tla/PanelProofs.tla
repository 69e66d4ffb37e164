----------------------------- MODULE PanelProofs -----------------------------
(***************************************************************************)
(* Theorems about Panel for any debounce length, thresholds, inputs,       *)
(* settings, tones and delays between the polls of the button.             *)
(***************************************************************************)
EXTENDS Panel, TLAPS

(***************************************************************************)
(* Type correctness.                                                       *)
(***************************************************************************)
LEMMA BootTyped ==
  ASSUME NEW pressed \in BOOLEAN
  PROVE  AtBoot(pressed) \in Button
  BY ButtonAssumption DEF AtBoot, Button

LEMMA DebounceTyped ==
  ASSUME NEW b \in Button, NEW pressed \in BOOLEAN
  PROVE  /\ Debounce(b, pressed) \in Button
         /\ Debounce(b, pressed).raw = pressed
         /\ Debounce(b, pressed).ignoring = b.ignoring
         /\ Debounce(b, pressed).was = b.was
         /\ Debounce(b, pressed).held = b.held
         /\ Debounce(b, pressed).same =
              LET before == IF pressed = b.raw THEN b.same ELSE 0
              IN  IF before < DebounceTicks THEN before + 1 ELSE DebounceTicks
         /\ Debounce(b, pressed).debounced =
              IF Debounce(b, pressed).same = DebounceTicks THEN pressed ELSE b.debounced
  <1> DEFINE before == IF pressed = b.raw THEN b.same ELSE 0
             same   == IF before < DebounceTicks THEN before + 1 ELSE DebounceTicks
  <1>1. before \in 0 .. DebounceTicks
    BY ButtonAssumption DEF Button
  <1>2. same \in 0 .. DebounceTicks
    BY <1>1, ButtonAssumption
  <1> HIDE DEF before
  <1>3. Debounce(b, pressed) =
          [b EXCEPT !.raw = pressed, !.same = same,
                    !.debounced = IF same = DebounceTicks THEN pressed ELSE b.debounced]
    BY DEF Debounce, before
  <1> HIDE DEF same
  <1>4. QED
    BY <1>2, <1>3 DEF Button, same, before

LEMMA CappedTyped ==
  ASSUME NEW time \in Nat
  PROVE  Capped(time) \in 0 .. ResetTime
  BY ButtonAssumption DEF Capped

LEMMA PolledIs ==
  ASSUME NEW b \in Button, NEW pressed \in BOOLEAN, NEW delay \in Nat
  PROVE  LET d == Debounce(b, pressed) IN
         /\ Polled(b, pressed, delay) \in Button
         /\ Polled(b, pressed, delay).raw = pressed
         /\ Polled(b, pressed, delay).same = d.same
         /\ Polled(b, pressed, delay).debounced = d.debounced
         /\ Polled(b, pressed, delay).was = d.debounced
         /\ Polled(b, pressed, delay).ignoring = (b.ignoring /\ d.debounced)
         /\ Polled(b, pressed, delay).held =
              IF b.ignoring \/ ~b.was THEN 0 ELSE Capped(b.held + delay)
  <1> DEFINE d == Debounce(b, pressed)
             held == IF b.ignoring \/ ~b.was THEN 0 ELSE Capped(b.held + delay)
  <1>1. d \in Button /\ d.raw = pressed /\ d.ignoring = b.ignoring /\ d.was = b.was /\ d.held = b.held
    BY DebounceTyped
  <1>2. held \in 0 .. ResetTime
    <2>1. b.held + delay \in Nat
      BY ButtonAssumption DEF Button
    <2>2. QED
      BY <2>1, CappedTyped, ButtonAssumption
  <1> HIDE DEF d
  <1>3. Polled(b, pressed, delay) =
          [d EXCEPT !.ignoring = d.ignoring /\ d.debounced, !.was = d.debounced, !.held = held]
    BY <1>1 DEF Polled, d
  <1> HIDE DEF held
  <1>4. QED
    BY <1>1, <1>2, <1>3 DEF Button, d, held

\* Asks and what the restarts are for.
LEMMA AsksTyped ==
  /\ \A b \in Button : Feedback(b) \in Asks
  /\ \A b, c \in Button : Action(b, c) \in Asks
  BY DEF Feedback, Action, AskOf, Asks

LEMMA RequestTyped ==
  ASSUME settings \in Settings, chirp \in Int, NEW tone \in Assigned, RequestChirp(tone)
  PROVE  chirp' \in Int
  <1>1. Assigned \subseteq Int
    BY PanelAssumption DEF Setting, Assigned, NoTone
  <1>2. QED
    BY <1>1 DEF RequestChirp

LEMMA PollTyped ==
  ASSUME TypeOK, NEW pressed \in BOOLEAN, NEW delay \in Delays, PollButton(pressed, delay)
  PROVE  TypeOK'
  <1> DEFINE after == Polled(button, pressed, delay)
  <1>1. button' = after /\ after \in Button
    BY PolledIs, PanelAssumption DEF PollButton, TypeOK
  <1>2. override' \in Asks
    BY <1>1, AsksTyped DEF PollButton
  <1>3. restarting' \in {"no", "portal", "reset"}
    BY <1>1, AsksTyped DEF PollButton, TypeOK, Asks
  <1>4. chirp' \in Int
    BY RequestTyped DEF PollButton, TypeOK
  <1>5. released' \in 0 .. DebounceTicks
    BY ButtonAssumption DEF PollButton, TypeOK
  <1>6. stretch' \in 0 .. Longest
    BY ButtonAssumption, PanelAssumption DEF PollButton, TypeOK, Longest
  <1>7. letGo' \in BOOLEAN
    BY DEF PollButton, TypeOK
  <1>8. QED
    BY <1>1, <1>2, <1>3, <1>4, <1>5, <1>6, <1>7
       DEF PollButton, TypeOK, webVars, worldVars, passVars

LEMMA RestartTyped ==
  ASSUME TypeOK, NEW pressed \in BOOLEAN, Restart(pressed)
  PROVE  TypeOK'
  <1>1. button' \in Button
    BY BootTyped DEF Restart
  <1>2. Silent \in Player /\ Calm \in Alarm /\ NoTone \in Int
    BY PanelAssumption DEF Silent, Player, Calm, Alarm, NoTone
  <1>3. released' \in 0 .. DebounceTicks /\ stretch' \in 0 .. Longest
    BY ButtonAssumption DEF Restart, Longest
  <1>4. testing' \in 0 .. Passes
    BY PanelAssumption DEF Restart
  <1>5. QED
    BY <1>1, <1>2, <1>3, <1>4 DEF Restart, TypeOK, Asks

LEMMA OthersTyped ==
  ASSUME TypeOK,
         \/ PlayTone \/ TestBuzzer \/ (\E text \in Texts : StorePreview(text)) \/ FlagPreview
         \/ (\E s \in Settings : UpdateConfig(s)) \/ (\E S \in SUBSET Inputs : SetInputs(S))
         \/ HealthChanges
  PROVE  TypeOK'
  <1> USE DEF TypeOK, buttonVars, webVars, worldVars, passVars
  <1>1. CASE PlayTone
    BY <1>1, RequestTyped DEF PlayTone
  <1>2. CASE TestBuzzer
    BY <1>2 DEF TestBuzzer
  <1>3. CASE \E text \in Texts : StorePreview(text)
    BY <1>3 DEF StorePreview
  <1>4. CASE FlagPreview
    BY <1>4 DEF FlagPreview
  <1>5. CASE \E s \in Settings : UpdateConfig(s)
    BY <1>5 DEF UpdateConfig
  <1>6. CASE \E S \in SUBSET Inputs : SetInputs(S)
    BY <1>6 DEF SetInputs
  <1>7. CASE HealthChanges
    BY <1>7 DEF HealthChanges
  <1>8. QED
    BY <1>1, <1>2, <1>3, <1>4, <1>5, <1>6, <1>7

LEMMA SilentTyped == Silent \in Player
  BY PanelAssumption DEF Silent, Player

LEMMA StartsTyped ==
  ASSUME NEW what \in {"chirp", "preview"}, NEW n \in 2 .. Passes
  PROVE  [what |-> what, left |-> n] \in Player
  BY PanelAssumption DEF Player

LEMMA AlarmTyped ==
  ASSUME TypeOK
  PROVE  AlarmNow \in Alarm
  <1>1. settings.buzzing \subseteq Inputs /\ settings.buzzer \in BOOLEAN
    BY PanelAssumption DEF TypeOK, Setting
  <1>2. QED
    BY <1>1 DEF TypeOK, AlarmNow, Alarm

LEMMA DecideTyped == ASSUME TypeOK, Decide PROVE TypeOK'
  <1>1. AlarmNow \in Alarm
    BY AlarmTyped
  <1>2. alarm' = AlarmNow /\ pc' = "chirp"
    BY DEF Decide
  <1>3. /\ player' \in Player /\ chirp' \in Int /\ flagged' \in BOOLEAN
        /\ owed' \in {"none"} \cup Texts
    <2>1. CASE Suppressed(AlarmNow)
      <3>1. player' = Silent /\ chirp' = NoTone /\ flagged' = FALSE
        BY <2>1 DEF Decide, DropRequests
      <3>2. owed' = "none" \/ owed' = owed
        BY <2>1 DEF Decide, DropRequests
      <3>3. NoTone \in Int
        BY DEF NoTone
      <3>4. QED
        BY <3>1, <3>2, <3>3, SilentTyped DEF TypeOK
    <2>2. CASE ~Suppressed(AlarmNow)
      BY <2>2 DEF Decide, DropRequests, TypeOK
    <2>3. QED
      BY <2>1, <2>2
  <1>4. testing' \in 0 .. Passes
    BY PanelAssumption DEF Decide, TypeOK
  <1>5. segs' \subseteq Inputs
    BY <1>1 DEF Decide, TypeOK, Alarm
  <1>6. test' \in BOOLEAN
    BY DEF Decide, TypeOK
  <1>7. QED
    BY <1>1, <1>2, <1>3, <1>4, <1>5, <1>6 DEF Decide, TypeOK, buttonVars, worldVars

LEMMA SoundTyped == ASSUME TypeOK, Sound PROVE TypeOK'
  <1>1. testing' \in 0 .. Passes
    BY PanelAssumption DEF Sound, TypeOK
  <1>2. player' \in Player
    <2>1. player.left \in 0 .. Passes
      BY DEF TypeOK, Player
    <2>2. player.left > 1 => [player EXCEPT !.left = player.left - 1] \in Player
      BY <2>1, PanelAssumption DEF TypeOK, Player
    <2>3. QED
      BY <2>2, SilentTyped DEF Sound, TypeOK
  <1>3. sounding' \in {"none", "tone", "test", "alarm"}
    BY DEF Sound, Sounding
  <1>4. seen' \in Asks /\ pc' = "look"
    BY DEF Sound, Asks
  <1>5. QED
    BY <1>1, <1>2, <1>3, <1>4 DEF Sound, TypeOK, buttonVars, webVars, worldVars

LEMMA PassTyped == ASSUME TypeOK, StartIndicator \/ Pass PROVE TypeOK'
  <1> USE DEF TypeOK, buttonVars, webVars, worldVars
  <1>1. CASE StartIndicator
    BY <1>1 DEF StartIndicator
  <1>2. CASE Look
    BY <1>2 DEF Look
  <1>3. CASE Decide
    BY <1>3, DecideTyped
  <1>4. CASE Chirp
    <2>1. player' \in Player
      BY <1>4, StartsTyped DEF Chirp
    <2>2. chirp' \in Int
      BY <1>4 DEF Chirp, NoTone
    <2>3. QED
      BY <1>4, <2>1, <2>2 DEF Chirp
  <1>5. CASE TakePreview
    BY <1>5 DEF TakePreview
  <1>6. CASE CopyPreview
    <2>1. player' \in Player
      BY <1>6, StartsTyped DEF CopyPreview
    <2>2. QED
      BY <1>6, <2>1 DEF CopyPreview
  <1>7. CASE Sound
    BY <1>7, SoundTyped
  <1>8. QED
    BY <1>1, <1>2, <1>3, <1>4, <1>5, <1>6, <1>7 DEF Pass

\* Every variable keeps its type.
THEOREM PanelTypeCorrect == Spec => []TypeOK
  <1>1. Init => TypeOK
    <2>1. Init => button \in Button
      BY BootTyped DEF Init
    <2>2. Calm \in Alarm /\ NoTone \in Int
      BY DEF Calm, Alarm, NoTone
    <2>3. Init => released \in 0 .. DebounceTicks /\ stretch \in 0 .. Longest
      BY ButtonAssumption DEF Init, Longest
    <2>4. Init => testing \in 0 .. Passes
      BY PanelAssumption DEF Init
    <2>5. QED
      BY <2>1, <2>2, <2>3, <2>4, SilentTyped DEF Init, TypeOK, Asks
  <1>2. TypeOK /\ [Next]_vars => TypeOK'
    <2> SUFFICES ASSUME TypeOK, [Next]_vars PROVE TypeOK'
      OBVIOUS
    <2>1. CASE UNCHANGED vars
      BY <2>1 DEF vars, buttonVars, webVars, worldVars, passVars, TypeOK
    <2>2. ASSUME NEW pressed \in BOOLEAN, NEW delay \in Delays, PollButton(pressed, delay)
          PROVE  TypeOK'
      BY <2>2, PollTyped
    <2>3. ASSUME NEW pressed \in BOOLEAN, Restart(pressed) PROVE TypeOK'
      BY <2>3, RestartTyped
    <2>4. CASE StartIndicator \/ Pass
      BY <2>4, PassTyped
    <2>5. QED
      BY <2>1, <2>2, <2>3, <2>4, OthersTyped DEF Next
  <1>3. QED
    BY <1>1, <1>2, PTL DEF Spec

(***************************************************************************)
(* The button.  HoldInv relates its state to what really happened to it:   *)
(* how often it was read as released and the time since it was pressed.    *)
(***************************************************************************)
HoldInv ==
    /\ button.was = button.debounced
    /\ button.same = DebounceTicks => button.debounced = button.raw
    /\ button.ignoring => button.debounced
    /\ button.raw => released = 0
    /\ ~button.raw => released = button.same
    /\ ~button.ignoring => letGo
    /\ button.raw /\ ~button.ignoring => stretch >= button.same - 1
    /\ button.debounced /\ ~button.ignoring => stretch >= button.held + DebounceTicks - 1

LEMMA HoldAtBoot ==
  ASSUME NEW pressed \in BOOLEAN, button = AtBoot(pressed), stretch = 0,
         released = IF pressed THEN 0 ELSE DebounceTicks, letGo = ~pressed
  PROVE  HoldInv
  BY ButtonAssumption DEF HoldInv, AtBoot

\* What a poll makes of the ghosts.
LEMMA PollGhosts ==
  ASSUME TypeOK, NEW pressed \in BOOLEAN, NEW delay \in Delays, PollButton(pressed, delay)
  PROVE  /\ delay \in Nat /\ delay >= 1
         /\ pressed => released' = 0
         /\ ~pressed /\ released < DebounceTicks => released' = released + 1
         /\ ~pressed /\ released = DebounceTicks => released' = DebounceTicks
         /\ stretch' \in Nat
         /\ released < DebounceTicks =>
              \/ stretch' >= stretch + delay
              \/ stretch' = Longest
         /\ letGo => letGo'
         /\ released' = DebounceTicks => letGo'
  <1>1. delay \in Nat /\ delay >= 1
    BY PanelAssumption
  <1>2. /\ released \in 0 .. DebounceTicks /\ stretch \in 0 .. Longest /\ letGo \in BOOLEAN
        /\ DebounceTicks \in Nat /\ Longest \in Nat
    BY ButtonAssumption DEF TypeOK, Longest
  <1>3. /\ released' = CASE pressed -> 0
                         [] ~pressed /\ released < DebounceTicks -> released + 1
                         [] OTHER -> released
        /\ stretch' = CASE released = DebounceTicks -> 0
                        [] released < DebounceTicks /\ stretch + delay <= Longest -> stretch + delay
                        [] OTHER -> Longest
        /\ letGo' = (letGo \/ released' = DebounceTicks)
    BY DEF PollButton
  <1>4. letGo' <=> letGo \/ released' = DebounceTicks
    BY <1>3
  <1>5. stretch' \in Nat
    BY <1>1, <1>2, <1>3
  <1>6. released < DebounceTicks => stretch' >= stretch + delay \/ stretch' = Longest
    BY <1>1, <1>2, <1>3
  <1>7. QED
    BY <1>1, <1>2, <1>3, <1>4, <1>5, <1>6

\* A poll keeps HoldInv, and acts on nothing but a full hold.
LEMMA HoldPolled ==
  ASSUME TypeOK, HoldInv, NEW pressed \in BOOLEAN, NEW delay \in Delays,
         PollButton(pressed, delay)
  PROVE  /\ HoldInv'
         /\ Action(button, button') # "none" =>
              /\ letGo
              /\ released' = DebounceTicks
              /\ stretch' >= button'.held + DebounceTicks - 1
  <1> DEFINE b == button
             a == button'
             D == DebounceTicks
  <1>1. /\ button \in Button /\ delay \in Nat /\ delay >= 1
        /\ button' = Polled(button, pressed, delay)
    BY PollGhosts DEF TypeOK, PollButton
  <1>2. /\ a.raw = pressed
        /\ a.same = IF (IF pressed = b.raw THEN b.same ELSE 0) < D
                    THEN (IF pressed = b.raw THEN b.same ELSE 0) + 1 ELSE D
        /\ a.debounced = IF a.same = D THEN pressed ELSE b.debounced
        /\ a.was = a.debounced
        /\ a.ignoring = (b.ignoring /\ a.debounced)
        /\ a.held = IF b.ignoring \/ ~b.was THEN 0 ELSE Capped(b.held + delay)
    BY <1>1, PolledIs, DebounceTyped
  <1>3. /\ b.raw \in BOOLEAN /\ b.debounced \in BOOLEAN /\ b.was \in BOOLEAN
        /\ b.ignoring \in BOOLEAN /\ b.same \in 0 .. D /\ b.held \in 0 .. ResetTime
        /\ D \in Nat /\ D >= 1 /\ ResetTime \in Nat
    BY <1>1, ButtonAssumption DEF Button
  <1>4. a.ignoring <=> b.ignoring /\ a.debounced
    BY <1>2, <1>3
  <1>5. a.debounced <=> IF a.same = D THEN pressed ELSE b.debounced
    BY <1>2, <1>3
  <1>6. /\ (pressed <=> b.raw) /\ b.same < D => a.same = b.same + 1
        /\ (pressed <=> b.raw) /\ b.same = D => a.same = D
        /\ ~(pressed <=> b.raw) => a.same = 1
        /\ a.same \in 1 .. D
    BY <1>2, <1>3
  <1>7. /\ b.was <=> b.debounced
        /\ b.same = D => (b.debounced <=> b.raw)
        /\ b.ignoring => b.debounced
        /\ b.raw => released = 0
        /\ ~b.raw => released = b.same
        /\ ~b.ignoring => letGo
        /\ b.raw /\ ~b.ignoring => stretch >= b.same - 1
        /\ b.debounced /\ ~b.ignoring => stretch >= b.held + D - 1
    BY <1>3 DEF HoldInv
  <1>8. /\ pressed => released' = 0
        /\ ~pressed /\ released < D => released' = released + 1
        /\ ~pressed /\ released = D => released' = D
        /\ stretch' \in Nat /\ stretch \in Nat
        /\ released < D => stretch' >= stretch + delay \/ stretch' = ResetTime + D - 1
        /\ letGo => letGo'
        /\ released' = D => letGo'
    BY PollGhosts, ButtonAssumption DEF Longest, TypeOK
  <1>9. /\ a.held \in Nat
        /\ ~b.ignoring /\ b.was => a.held <= b.held + delay /\ a.held <= ResetTime
        /\ b.ignoring \/ ~b.was => a.held = 0
    BY <1>1, <1>2, <1>3 DEF Capped
  <1> HIDE DEF a, b, D
  \* A level that settles has been read as often as it takes.
  <1>10. ~pressed => released' = a.same
    BY <1>3, <1>6, <1>7, <1>8
  <1>11. b.debounced => released < D
    BY <1>3, <1>7
  <1>12. b.debounced /\ ~a.debounced => ~pressed /\ a.same = D /\ released' = D
    BY <1>5, <1>10
  <1>13. pressed /\ ~a.ignoring => stretch' >= a.same - 1
    <2>1. ASSUME pressed, ~a.ignoring PROVE ~b.ignoring
      BY <2>1, <1>4, <1>5, <1>7
    <2>2. CASE b.raw
      BY <2>1, <2>2, <1>1, <1>3, <1>6, <1>7, <1>8
    <2>3. CASE ~b.raw
      BY <2>3, <1>3, <1>6, <1>8
    <2>4. QED
      BY <2>2, <2>3
  <1>14. b.debounced /\ ~b.ignoring => stretch' >= a.held + D - 1
    BY <1>1, <1>3, <1>7, <1>8, <1>9, <1>11
  <1>15. a.debounced /\ ~a.ignoring => stretch' >= a.held + D - 1
    <2>1. ASSUME a.debounced, ~a.ignoring PROVE ~b.ignoring
      BY <2>1, <1>4
    <2>2. ASSUME a.debounced, ~a.ignoring, ~b.debounced
          PROVE  pressed /\ a.same = D /\ a.held = 0
      BY <2>2, <1>5, <1>7, <1>9
    <2>3. QED
      BY <2>1, <2>2, <1>3, <1>8, <1>13, <1>14
  <1>16. HoldInv'
    <2>1. a.same = D => a.debounced = a.raw
      BY <1>2, <1>3
    <2>2. ~a.ignoring => letGo'
      BY <1>4, <1>7, <1>8, <1>12
    <2>3. QED
      BY <2>1, <2>2, <1>2, <1>4, <1>8, <1>10, <1>13, <1>15 DEF HoldInv, a, D
  <1>17. ASSUME Action(button, button') # "none"
         PROVE  letGo /\ released' = D /\ stretch' >= a.held + D - 1
    <2>1. ~b.ignoring /\ b.was /\ ~a.debounced
      BY <1>17 DEF Action, a, b
    <2>2. QED
      BY <2>1, <1>7, <1>12, <1>14
  <1>18. QED
    BY <1>16, <1>17 DEF a, D

\* Every other step leaves the button and its ghosts, or starts anew.
LEMMA HoldKept ==
  ASSUME TypeOK, HoldInv, [Next]_vars,
         ~ \E pressed \in BOOLEAN, delay \in Delays : PollButton(pressed, delay)
  PROVE  HoldInv' /\ restarting' \in {"no", restarting}
  <1>1. ASSUME NEW pressed \in BOOLEAN, Restart(pressed)
        PROVE  HoldInv' /\ restarting' = "no"
    <2>1. /\ button' = AtBoot(pressed) /\ stretch' = 0 /\ restarting' = "no"
          /\ released' = IF pressed THEN 0 ELSE DebounceTicks
          /\ letGo' = ~pressed
      BY <1>1 DEF Restart
    <2>2. QED
      BY <2>1, ButtonAssumption DEF HoldInv, AtBoot
  <1>2. ASSUME UNCHANGED buttonVars PROVE HoldInv' /\ restarting' = restarting
    BY <1>2 DEF buttonVars, HoldInv
  <1>3. UNCHANGED vars \/ StartIndicator \/ Pass => UNCHANGED buttonVars
    BY DEF vars, StartIndicator, Pass, Look, Decide, Chirp, TakePreview, CopyPreview, Sound
  <1>4. \/ PlayTone \/ TestBuzzer \/ (\E text \in Texts : StorePreview(text)) \/ FlagPreview
        \/ (\E s \in Settings : UpdateConfig(s)) \/ (\E S \in SUBSET Inputs : SetInputs(S))
        \/ HealthChanges
        => UNCHANGED buttonVars
    BY DEF PlayTone, TestBuzzer, StorePreview, FlagPreview, UpdateConfig, SetInputs, HealthChanges
  <1>5. QED
    BY <1>1, <1>2, <1>3, <1>4 DEF Next

\* Nothing but a full hold of the button acts (button_logic.c).
THEOREM HoldsActOnly == Spec => ActsOnFullHold
  <1>1. Init => HoldInv
    BY HoldAtBoot DEF Init
  <1>2. ASSUME TypeOK, HoldInv, NEW pressed \in BOOLEAN, NEW delay \in Delays,
               PollButton(pressed, delay), restarting' \notin {"no", restarting}
        PROVE  /\ letGo /\ released' = DebounceTicks
               /\ stretch' >= DebounceTicks - 1
                                + IF restarting' = "reset" THEN ResetTime ELSE PortalTime
    <2>1. restarting' = Action(button, button') /\ Action(button, button') # "none"
      BY <1>2 DEF PollButton
    <2>2. restarting' = AskOf(button'.held)
      BY <2>1 DEF Action
    <2>3. button'.held \in Nat /\ stretch' \in Nat
      BY <1>2, PollTyped, ButtonAssumption DEF TypeOK, Button, Longest
    <2>4. button'.held >= IF restarting' = "reset" THEN ResetTime ELSE PortalTime
      BY <2>1, <2>2 DEF AskOf
    <2>5. letGo /\ released' = DebounceTicks /\ stretch' >= button'.held + DebounceTicks - 1
      BY <1>2, <2>1, HoldPolled
    <2>6. QED
      BY <2>3, <2>4, <2>5, ButtonAssumption
  <1>3. TypeOK /\ HoldInv /\ [Next]_vars => HoldInv'
    BY HoldPolled, HoldKept
  <1>4. TypeOK /\ HoldInv /\ [Next]_vars =>
          [restarting' \notin {"no", restarting} =>
             /\ letGo
             /\ released' = DebounceTicks
             /\ stretch' >= DebounceTicks - 1
                               + IF restarting' = "reset" THEN ResetTime ELSE PortalTime]_vars
    BY <1>2, HoldKept
  <1>5. QED
    BY <1>1, <1>3, <1>4, PanelTypeCorrect, PTL DEF Spec, ActsOnFullHold

(***************************************************************************)
(* The alarm.  A browser's tone is copied only in a pass without one.      *)
(***************************************************************************)
CopiesInPeace == pc = "copy" => ~alarm.on

LEMMA SaysWhyDecided ==
  ASSUME TypeOK, AlarmSaysWhy, Decide
  PROVE  AlarmSaysWhy'
  <1> SUFFICES ASSUME AlarmNow.on
               PROVE  segs' = AlarmNow.inputs /\ testing' = 0 /\ player'.what = "none"
    BY DEF Decide, AlarmSaysWhy
  <1>1. player' = Silent
    BY DEF Decide, DropRequests, Suppressed
  <1>2. testing' = 0
    BY DEF Decide
  <1>3. segs' = IF Encodes(AlarmNow) THEN AlarmNow.inputs ELSE segs
    BY DEF Decide
  <1>4. ~Encodes(AlarmNow) => segs = AlarmNow.inputs
    BY DEF Encodes, AlarmSaysWhy
  <1>5. QED
    BY <1>1, <1>2, <1>3, <1>4 DEF Silent

LEMMA SaysWhyKept ==
  ASSUME TypeOK, AlarmSaysWhy, CopiesInPeace, [Next]_vars
  PROVE  AlarmSaysWhy' /\ CopiesInPeace'
  <1> USE DEF AlarmSaysWhy, CopiesInPeace
  <1>1. ASSUME UNCHANGED passVars PROVE AlarmSaysWhy' /\ CopiesInPeace'
    BY <1>1 DEF passVars
  <1>2. CASE UNCHANGED vars
    BY <1>1, <1>2 DEF vars
  <1>3. CASE \/ PlayTone \/ TestBuzzer \/ (\E text \in Texts : StorePreview(text)) \/ FlagPreview
             \/ (\E s \in Settings : UpdateConfig(s)) \/ (\E S \in SUBSET Inputs : SetInputs(S))
             \/ HealthChanges
             \/ \E pressed \in BOOLEAN, delay \in Delays : PollButton(pressed, delay)
    BY <1>1, <1>3 DEF PlayTone, TestBuzzer, StorePreview, FlagPreview, UpdateConfig,
                      SetInputs, HealthChanges, PollButton
  <1>4. ASSUME NEW pressed \in BOOLEAN, Restart(pressed)
        PROVE  AlarmSaysWhy' /\ CopiesInPeace'
    BY <1>4 DEF Restart, Calm
  <1>5. CASE StartIndicator \/ Look
    BY <1>5 DEF StartIndicator, Look
  <1>6. CASE Decide
    <2>1. pc' = "chirp"
      BY <1>6 DEF Decide
    <2>2. QED
      BY <1>6, <2>1, SaysWhyDecided
  <1>7. CASE Chirp
    <2>1. /\ alarm' = alarm /\ segs' = segs /\ testing' = testing /\ pc' = "preview"
          /\ alarm.on => player' = player
      BY <1>7 DEF Chirp, Free, Suppressed
    <2>2. QED
      BY <2>1
  <1>8. CASE TakePreview
    BY <1>8 DEF TakePreview, Free, Suppressed
  <1>9. CASE CopyPreview
    BY <1>9 DEF CopyPreview
  <1>10. CASE Sound
    BY <1>10 DEF Sound
  <1>11. QED
    BY <1>2, <1>3, <1>4, <1>5, <1>6, <1>7, <1>8, <1>9, <1>10 DEF Next, Pass

\* During an alarm the buzzer sounds what the alarm is for (indicator.c).
THEOREM AlarmAlwaysSaysWhy == Spec => []AlarmSaysWhy
  <1>1. Init => AlarmSaysWhy /\ CopiesInPeace
    BY DEF Init, AlarmSaysWhy, CopiesInPeace, Calm
  <1>2. TypeOK /\ AlarmSaysWhy /\ CopiesInPeace /\ [Next]_vars
          => AlarmSaysWhy' /\ CopiesInPeace'
    BY SaysWhyKept
  <1>3. QED
    BY <1>1, <1>2, PanelTypeCorrect, PTL DEF Spec
=============================================================================
