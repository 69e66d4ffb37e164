-------------------------- MODULE SchedulesProofs --------------------------
(***************************************************************************)
(* Theorems about Schedules for any length of day and week, any tables and *)
(* any sun, clock, edits, refusals and restarts: types; that relays are as *)
(* the latest of commands and entries left them; and when entries are      *)
(* active: in their windows, in no other if they run overnight on no day   *)
(* or on all, and in the first night of their days otherwise.              *)
(***************************************************************************)
EXTENDS Schedules, TLAPS

\* The settings as device_config_load() leaves them: what is enabled has
\* parsed, and no two entries that are enabled name the same relay.
Loaded ==
    /\ cfg \in [Entries -> Entry]
    /\ \A i \in Entries : cfg[i].relay \in Relays \cup {NoRelay}
    /\ \A i \in Entries : cfg[i].relay # NoRelay => Parses(cfg[i])
    /\ \A i, j \in Entries : i # j /\ cfg[i].relay = cfg[j].relay => cfg[i].relay = NoRelay

\* After an evaluation every entry in force is remembered as it is now, and
\* the others are forgotten.
Remembered ==
    ticked => \A i \in Entries :
                 IF synced /\ cfg[i].relay # NoRelay
                 THEN /\ entry[i].valid
                      /\ entry[i].active <=> Active(cfg[i])
                      /\ entry[i].relay = cfg[i].relay
                 ELSE ~entry[i].valid

\* The next evaluation will set this entry's relay.
Pending(i) == synced /\ Acts(i)

\* A relay that the next evaluation sets is due to be as its entry says; any
\* other one is already as it is due to be.
Awaited ==
    /\ \A i \in Entries : Pending(i) => (cfg[i].relay \in due <=> Active(cfg[i]))
    /\ \A r \in Relays : (\A i \in Entries : Pending(i) => cfg[i].relay # r)
                            => (r \in relays <=> r \in due)

\* What evaluations, the clock, the sun, edits, commands and restarts
\* preserve together.
SchedulesInv == TypeOK /\ Loaded /\ Remembered /\ Awaited

-----------------------------------------------------------------------------
(***************************************************************************)
(* Loading the settings.                                                   *)
(***************************************************************************)
LEMMA RelayOfTyped ==
    ASSUME NEW e
    PROVE  /\ RelayOf(e) \in Relays \cup {NoRelay}
           /\ RelayOf(e) # NoRelay => Parses(e)
  BY DEF RelayOf

\* An entry as Load() leaves it.
WithRelay(e, k) == [e EXCEPT !.relay = k]

LEMMA EntryWithRelay ==
    ASSUME NEW e \in Entry, NEW k \in Nat
    PROVE  /\ WithRelay(e, k) \in Entry
           /\ WithRelay(e, k).relay = k
           /\ WithRelay(e, k).mode = e.mode
           /\ WithRelay(e, k).on = e.on
           /\ WithRelay(e, k).off = e.off
  BY DEF WithRelay, Entry

LEMMA LoadedRelays ==
    ASSUME NEW raw \in Settings
    PROVE  /\ Load(raw) \in [Entries -> Entry]
           /\ \A i \in Entries : Load(raw)[i].relay \in Relays \cup {NoRelay}
           /\ \A i \in Entries : Load(raw)[i].relay # NoRelay => Parses(Load(raw)[i])
           /\ \A i, j \in Entries : i # j /\ Load(raw)[i].relay = Load(raw)[j].relay
                                        => Load(raw)[i].relay = NoRelay
  <1> DEFINE kept(i) == IF \E j \in Entries \ {i} : RelayOf(raw[j]) = RelayOf(raw[i])
                        THEN NoRelay ELSE RelayOf(raw[i])
  <1>0. \A i \in Entries : raw[i] \in Entry
    BY SchedulesAssumption
  <1>1. \A i \in Entries : Load(raw)[i] = [raw[i] EXCEPT !.relay = kept(i)]
    BY DEF Load
  <1>2. DOMAIN Load(raw) = Entries /\ Load(raw) = [i \in Entries |-> Load(raw)[i]]
    BY DEF Load
  <1>3. \A i \in Entries : /\ kept(i) \in Relays \cup {NoRelay}
                           /\ kept(i) # NoRelay => kept(i) = RelayOf(raw[i]) /\ Parses(raw[i])
    BY RelayOfTyped
  <1>4. \A i, j \in Entries : i # j /\ kept(i) = kept(j) => kept(i) = NoRelay
    OBVIOUS
  <1> HIDE DEF kept
  <1>5. ASSUME NEW i \in Entries
        PROVE  /\ Load(raw)[i] \in Entry
               /\ Load(raw)[i].relay = kept(i)
               /\ Load(raw)[i].mode = raw[i].mode
               /\ Load(raw)[i].on = raw[i].on /\ Load(raw)[i].off = raw[i].off
    <2>1. Relays \subseteq Nat /\ NoRelay \in Nat
      BY SchedulesAssumption DEF NoRelay
    <2>2. kept(i) \in Nat
      BY <1>3, <2>1
    <2>3. Load(raw)[i] = WithRelay(raw[i], kept(i)) /\ raw[i] \in Entry
      BY <1>0, <1>1 DEF WithRelay
    <2>4. QED
      BY <2>2, <2>3, EntryWithRelay
  <1>6. \A i \in Entries : Load(raw)[i].relay # NoRelay => Parses(Load(raw)[i])
    <2> SUFFICES ASSUME NEW i \in Entries, Load(raw)[i].relay # NoRelay
                 PROVE  Parses(Load(raw)[i])
      OBVIOUS
    <2>1. Parses(raw[i])
      BY <1>3, <1>5
    <2>2. Load(raw)[i].mode = raw[i].mode /\ Load(raw)[i].on = raw[i].on /\ Load(raw)[i].off = raw[i].off
      BY <1>5
    <2>3. QED
      BY <2>1, <2>2 DEF Parses
  <1>7. QED
    BY <1>2, <1>3, <1>4, <1>5, <1>6

-----------------------------------------------------------------------------
(***************************************************************************)
(* Windows.                                                                *)
(***************************************************************************)
LEMMA ActiveTyped ==
    ASSUME NEW e
    PROVE  Active(e) \in BOOLEAN
  BY DEF Active, RepeatActive, ClockActive

LEMMA ResolvedMinutes ==
    ASSUME TypeOK, NEW t \in Time, t.kind \in {"clock", "sunrise", "sunset"}
    PROVE  ResolveMinute(t) \in 0 .. DayLength
  <1> USE SchedulesAssumption
  <1>1. CASE t.kind = "clock"
    <2>1. t.at \in Minutes
      BY <1>1 DEF Time
    <2>2. ResolveMinute(t) = t.at
      BY <1>1 DEF ResolveMinute
    <2>3. QED
      BY <2>1, <2>2 DEF Minutes
  <1>2. CASE t.kind # "clock" /\ Sun.kind = "transition"
    <2>1. t.at \in Int
      BY <1>2 DEF Time
    <2>2. Sun.rise \in Minutes /\ Sun.set \in Minutes
      BY DEF Sun, TypeOK
    <2> DEFINE boundary == IF t.kind = "sunrise" THEN Sun.rise ELSE Sun.set
    <2>3. boundary + t.at \in Int
      BY <2>1, <2>2 DEF Minutes
    <2>4. ResolveMinute(t) = (boundary + t.at) % DayLength
      BY <1>2 DEF ResolveMinute
    <2> HIDE DEF boundary
    <2>5. QED
      BY <2>3, <2>4
  <1>3. CASE t.kind # "clock" /\ Sun.kind # "transition"
    <2>1. ResolveMinute(t) = IF <<Sun.kind, t.kind>> \in {<<"down", "sunset">>, <<"up", "sunrise">>}
                             THEN 0 ELSE DayLength
      BY <1>3 DEF ResolveMinute
    <2>2. QED
      BY <2>1
  <1>4. QED
    BY <1>1, <1>2, <1>3

\* What the code finds active is the windows of the days named, and for an
\* entry that runs overnight the early hours of a named day as well.
LEMMA ClockWindows ==
    ASSUME TypeOK, NEW e \in Entry, e.mode = "clock", Parses(e)
    PROVE  /\ InWindow(e) => ClockActive(e)
           /\ ClockActive(e) => InWindow(e) \/ Overnight(e)
           /\ ClockActive(e) /\ Yesterday \in e.days => InWindow(e)
           /\ Overnight(e) /\ day \in e.days /\ minute < ResolveMinute(e.off) => ClockActive(e)
           /\ Overnight(e) /\ Yesterday \notin e.days /\ minute < ResolveMinute(e.off) => ~InWindow(e)
  <1>1. /\ ResolveMinute(e.on) \in 0 .. DayLength
        /\ ResolveMinute(e.off) \in 0 .. DayLength
    <2>1. e.on \in Time /\ e.off \in Time
      BY DEF Entry
    <2>2. e.on.kind \in {"clock", "sunrise", "sunset"} /\ e.off.kind \in {"clock", "sunrise", "sunset"}
      BY DEF Parses
    <2>3. QED
      BY <2>1, <2>2, ResolvedMinutes
  <1>2. minute \in 0 .. DayLength - 1 /\ DayLength \in Nat \ {0}
    BY SchedulesAssumption DEF TypeOK, Minutes
  <1>3. QED
    BY <1>1, <1>2 DEF ClockActive, InWindow, Overnight

-----------------------------------------------------------------------------
(***************************************************************************)
(* Types.                                                                  *)
(***************************************************************************)
LEMMA ForgottenTyped ==
    [i \in Entries |-> Forgotten] \in [Entries -> [valid : BOOLEAN, active : BOOLEAN, relay : Relays \cup {NoRelay}]]
  BY DEF Forgotten

LEMMA SchedulesTypeInit == Init => TypeOK /\ Loaded
  <1> SUFFICES ASSUME Init PROVE TypeOK /\ Loaded
    OBVIOUS
  <1>1. PICK raw \in Settings : cfg = Load(raw)
    BY DEF Init
  <1>2. Loaded
    BY <1>1, LoadedRelays DEF Loaded
  <1>3. due \in SUBSET Relays
    BY DEF Init, DueAtBoot
  <1>4. day \in Weekdays /\ minute \in Minutes
    BY SchedulesAssumption DEF Init, Weekdays, Minutes
  <1>5. QED
    BY <1>2, <1>3, <1>4, ForgottenTyped DEF Init, TypeOK, Loaded

LEMMA TickTyped ==
    ASSUME TypeOK, Loaded, NEW refused, Tick(refused)
    PROVE  TypeOK' /\ Loaded'
  <1>1. Loaded'
    BY DEF Tick, Loaded
  <1>2. ASSUME NEW i \in Entries
        PROVE  entry'[i] \in [valid : BOOLEAN, active : BOOLEAN, relay : Relays \cup {NoRelay}]
    <2>1. entry[i] \in [valid : BOOLEAN, active : BOOLEAN, relay : Relays \cup {NoRelay}]
      BY DEF TypeOK
    <2>2. [entry[i] EXCEPT !.valid = FALSE] \in [valid : BOOLEAN, active : BOOLEAN, relay : Relays \cup {NoRelay}]
      BY <2>1
    <2>3. [valid |-> TRUE, active |-> Active(cfg[i]), relay |-> cfg[i].relay]
             \in [valid : BOOLEAN, active : BOOLEAN, relay : Relays \cup {NoRelay}]
      BY ActiveTyped DEF Loaded
    <2>4. \/ entry'[i] = [entry[i] EXCEPT !.valid = FALSE]
          \/ entry'[i] = [valid |-> TRUE, active |-> Active(cfg[i]), relay |-> cfg[i].relay]
          \/ entry'[i] = entry[i]
      BY DEF Tick
    <2>5. QED
      BY <2>1, <2>2, <2>3, <2>4
  <1>3. entry' \in [Entries -> [valid : BOOLEAN, active : BOOLEAN, relay : Relays \cup {NoRelay}]]
    BY <1>2 DEF Tick
  <1>4. relays' \in SUBSET Relays /\ due' \in SUBSET Relays
    <2> DEFINE acting == {i \in Entries : Acts(i)}
               on     == {cfg[i].relay : i \in {j \in acting : Active(cfg[j])}}
    <2>1. on \subseteq Relays
      BY DEF Loaded, Acts
    <2> HIDE DEF on
    <2>2. relays' \subseteq relays \cup on /\ due' \subseteq due \cup relays
      BY DEF Tick, on
    <2>3. QED
      BY <2>1, <2>2 DEF TypeOK
  <1>5. QED
    BY <1>1, <1>3, <1>4 DEF Tick, TypeOK, Loaded, envVars, placeVars

LEMMA SchedulesTypeStep == TypeOK /\ Loaded /\ [Next]_vars => TypeOK' /\ Loaded'
  <1> SUFFICES ASSUME TypeOK, Loaded, [Next]_vars
               PROVE  TypeOK' /\ Loaded'
    OBVIOUS
  <1> USE SchedulesAssumption
  <1>0. Change => due' \in SUBSET Relays /\ ticked' \in BOOLEAN
    BY DEF Change
  <1>1. ASSUME NEW refused \in SUBSET Relays, Tick(refused)
        PROVE  TypeOK' /\ Loaded'
    BY <1>1, TickTyped
  <1>2. CASE TickNoTime
    <2>1. entry' \in [Entries -> [valid : BOOLEAN, active : BOOLEAN, relay : Relays \cup {NoRelay}]]
      BY <1>2 DEF TickNoTime, TypeOK
    <2>2. QED
      BY <1>2, <2>1 DEF TickNoTime, TypeOK, Loaded, envVars, placeVars
  <1>3. CASE Elapse
    <2>1. minute' \in Minutes
      BY <1>3 DEF Elapse, TypeOK, Minutes
    <2>2. day' \in Weekdays
      BY <1>3 DEF Elapse, TypeOK, Weekdays
    <2>3. QED
      BY <1>0, <1>3, <2>1, <2>2 DEF Elapse, TypeOK, Loaded, placeVars
  <1>4. ASSUME NEW d \in Weekdays, NEW m \in Minutes, SetClock(d, m)
        PROVE  TypeOK' /\ Loaded'
    BY <1>0, <1>4 DEF SetClock, TypeOK, Loaded, placeVars
  <1>5. ASSUME NEW here \in Suns, NEW home \in HomeSuns, SunMoves(here, home)
        PROVE  TypeOK' /\ Loaded'
    BY <1>0, <1>5 DEF SunMoves, TypeOK, Loaded
  <1>6. ASSUME NEW here \in Suns, PositionReceived(here)
        PROVE  TypeOK' /\ Loaded'
    BY <1>0, <1>6 DEF PositionReceived, TypeOK, Loaded
  <1>7. CASE PositionAges
    BY <1>0, <1>7 DEF PositionAges, TypeOK, Loaded
  <1>8. ASSUME NEW raw \in Settings, Reload(raw)
        PROVE  TypeOK' /\ Loaded'
    <2>1. cfg' = Load(raw)
      BY <1>8 DEF Reload
    <2>2. Loaded'
      BY <2>1, LoadedRelays DEF Loaded
    <2>3. QED
      BY <1>0, <1>8, <2>2 DEF Reload, TypeOK, Loaded, envVars, placeVars
  <1>9. ASSUME NEW r \in Relays, Command(r)
        PROVE  TypeOK' /\ Loaded'
    <2>1. relays' \in SUBSET Relays
      BY <1>9 DEF Command, TypeOK
    <2>2. due' \in SUBSET Relays
      BY <1>9, <2>1 DEF Command, TypeOK
    <2>3. QED
      BY <1>9, <2>1, <2>2 DEF Command, TypeOK, Loaded, envVars, placeVars
  <1>10. CASE Restart
    <2>1. due' \in SUBSET Relays
      BY <1>10 DEF Restart, DueAtBoot
    <2>2. QED
      BY <1>10, <2>1, ForgottenTyped DEF Restart, TypeOK, Loaded
  <1>11. CASE UNCHANGED vars
    BY <1>11 DEF vars, envVars, placeVars, TypeOK, Loaded
  <1>12. QED
    BY <1>1, <1>2, <1>3, <1>4, <1>5, <1>6, <1>7, <1>8, <1>9, <1>10, <1>11 DEF Next

\* Every variable of the schedules keeps its type, for any tables and any sun.
THEOREM SchedulesTypeCorrect == Spec => []TypeOK
  <1>1. Spec => [](TypeOK /\ Loaded)
    BY SchedulesTypeInit, SchedulesTypeStep, PTL DEF Spec
  <1>2. QED
    BY <1>1, PTL

-----------------------------------------------------------------------------
(***************************************************************************)
(* What is due.                                                            *)
(***************************************************************************)
LEMMA SettledRelays ==
    ASSUME SchedulesInv, ticked
    PROVE  relays = due
  <1>1. \A i \in Entries : ~Pending(i)
    <2> SUFFICES ASSUME NEW i \in Entries, Pending(i)
                 PROVE  FALSE
      OBVIOUS
    <2>1. entry[i].valid /\ (entry[i].active <=> Active(cfg[i])) /\ entry[i].relay = cfg[i].relay
      BY DEF Pending, Acts, SchedulesInv, Remembered
    <2>2. entry[i].active \in BOOLEAN /\ Active(cfg[i]) \in BOOLEAN
      BY ActiveTyped DEF SchedulesInv, TypeOK
    <2>3. Active(cfg[i]) = entry[i].active
      BY <2>1, <2>2
    <2>4. QED
      BY <2>1, <2>3 DEF Pending, Acts
  <1>2. \A r \in Relays : r \in relays <=> r \in due
    BY <1>1 DEF SchedulesInv, Awaited
  <1>3. QED
    BY <1>2 DEF SchedulesInv, TypeOK

\* A change of clock, sun or settings: the entries it makes turn are those
\* that the next evaluation acts on.
LEMMA ChangeInv ==
    ASSUME SchedulesInv, Loaded', TypeOK', ticked, Change, UNCHANGED <<entry, relays>>,
           synced => synced'
    PROVE  Remembered' /\ Awaited'
  <1> DEFINE active == [i \in Entries |-> Active(cfg[i])]
             turning(r) == {i \in Entries : /\ synced' /\ cfg'[i].relay = r
                                            /\ ~(synced /\ cfg[i].relay = r) \/ active'[i] # active[i]}
  <1>1. ASSUME NEW i \in Entries
        PROVE  active[i] \in BOOLEAN /\ active'[i] \in BOOLEAN /\ entry[i].active \in BOOLEAN
    <2>1. Active(cfg[i]) \in BOOLEAN /\ Active(cfg[i])' \in BOOLEAN
      BY DEF Active, RepeatActive, ClockActive
    <2>2. QED
      BY <2>1 DEF SchedulesInv, TypeOK
  <1>2. relays = due
    BY SettledRelays
  <1>3. ticked' = FALSE
    BY DEF Change
  <1>4. ASSUME NEW r \in Relays
        PROVE  (r \in due') <=> IF turning(r) = {} THEN r \in due ELSE \E i \in turning(r) : active'[i]
    <2>1. turning(r) = {i \in Entries : /\ Serves(i, r)'
                                        /\ ~Serves(i, r) \/ Active(cfg[i])' # Active(cfg[i])}
      BY DEF Serves
    <2> DEFINE t == turning(r)
    <2>2. (r \in due') <=> IF t = {} THEN r \in due ELSE \E i \in t : Active(cfg[i])'
      BY <2>1 DEF Change
    <2>3. \A i \in t : active'[i] = Active(cfg[i])'
      OBVIOUS
    <2> HIDE DEF t
    <2>4. (r \in due') <=> IF t = {} THEN r \in due ELSE \E i \in t : active'[i]
      BY <2>2, <2>3
    <2>5. QED
      BY <2>4 DEF t
  <1> HIDE DEF active
  <1>5. ASSUME NEW i \in Entries
        PROVE  Pending(i)' <=> /\ synced' /\ cfg'[i].relay # NoRelay
                               /\ ~entry[i].valid \/ active'[i] # entry[i].active
                                     \/ entry[i].relay # cfg'[i].relay
    BY DEF Pending, Acts, active
  <1>6. ASSUME NEW i \in Entries
        PROVE  IF synced /\ cfg[i].relay # NoRelay
               THEN entry[i].valid /\ entry[i].active = active[i] /\ entry[i].relay = cfg[i].relay
               ELSE ~entry[i].valid
    <2>1. active[i] <=> Active(cfg[i])
      BY DEF active
    <2>2. QED
      BY <1>1, <2>1 DEF SchedulesInv, Remembered
  <1>7. ASSUME NEW i \in Entries, NEW r \in Relays
        PROVE  (i \in turning(r)) <=> (Pending(i)' /\ cfg'[i].relay = r)
    <2>1. r # NoRelay
      BY SchedulesAssumption
    <2>2. QED
      BY <1>1, <1>5, <1>6, <2>1
  <1>8. ASSUME NEW i \in Entries, Pending(i)'
        PROVE  cfg'[i].relay \in due' <=> Active(cfg[i])'
    <2> DEFINE r == cfg'[i].relay
    <2>1. r \in Relays
      BY <1>5, <1>8 DEF Loaded
    <2>2. \A j \in Entries : j \in turning(r) <=> j = i
      BY <1>5, <1>7, <1>8, <2>1 DEF Loaded
    <2>3. turning(r) = {i}
      BY <2>2
    <2> DEFINE t == turning(r)
    <2>4. (r \in due') <=> IF t = {} THEN r \in due ELSE \E j \in t : active'[j]
      BY <1>4, <2>1
    <2> HIDE DEF t
    <2>5. (r \in due') <=> active'[i]
      BY <2>3, <2>4 DEF t
    <2>6. active'[i] = Active(cfg[i])'
      BY DEF active
    <2>7. QED
      BY <2>5, <2>6
  <1>9. ASSUME NEW r \in Relays, \A i \in Entries : Pending(i)' => cfg'[i].relay # r
        PROVE  r \in relays' <=> r \in due'
    <2> DEFINE t == turning(r)
    <2>1. t = {}
      BY <1>7, <1>9
    <2>2. (r \in due') <=> IF t = {} THEN r \in due ELSE \E j \in t : active'[j]
      BY <1>4
    <2> HIDE DEF t
    <2>3. QED
      BY <1>2, <2>1, <2>2
  <1>10. QED
    BY <1>3, <1>8, <1>9 DEF Remembered, Awaited

\* A boot, or a restart: every entry in force is about to be evaluated.
JustBooted == entry = [i \in Entries |-> Forgotten] /\ ticked = FALSE /\ due = DueAtBoot

LEMMA BootAwaited == TypeOK /\ Loaded /\ JustBooted => Remembered /\ Awaited
  <1> SUFFICES ASSUME TypeOK, Loaded, JustBooted
               PROVE  Remembered /\ Awaited
    OBVIOUS
  <1> USE DEF JustBooted
  <1>1. ASSUME NEW i \in Entries
        PROVE  Pending(i) <=> synced /\ cfg[i].relay # NoRelay
    BY DEF Pending, Acts, Forgotten
  <1>2. ASSUME NEW r \in Relays
        PROVE  (r \in due) <=> IF \A i \in Entries : ~Serves(i, r) THEN r \in relays
                               ELSE \E i \in Entries : Serves(i, r) /\ Active(cfg[i])
    BY DEF DueAtBoot
  <1>3. NoRelay \notin Relays
    BY SchedulesAssumption
  <1>4. ASSUME NEW i \in Entries, Pending(i)
        PROVE  cfg[i].relay \in due <=> Active(cfg[i])
    BY <1>1, <1>2, <1>4 DEF Loaded, Serves
  <1>5. ASSUME NEW r \in Relays, \A i \in Entries : Pending(i) => cfg[i].relay # r
        PROVE  r \in relays <=> r \in due
    BY <1>1, <1>2, <1>3, <1>5 DEF Serves
  <1>6. QED
    BY <1>4, <1>5 DEF Remembered, Awaited

LEMMA TickInv ==
    ASSUME SchedulesInv, NEW refused, Tick(refused)
    PROVE  Remembered' /\ Awaited'
  <1> DEFINE acting == {i \in Entries : Acts(i)}
             set    == {cfg[i].relay : i \in acting} \ refused
             on     == {cfg[i].relay : i \in {j \in acting : Active(cfg[j])}}
  <1>1. /\ synced /\ synced' = synced /\ cfg' = cfg
        /\ refused \subseteq {cfg[i].relay : i \in acting}
        /\ relays' = (relays \ set) \cup (on \cap set)
        /\ due' = (due \ refused) \cup (relays \cap refused)
    BY DEF Tick, envVars
  <1>2. ASSUME NEW i \in Entries
        PROVE  (Active(cfg[i])' <=> Active(cfg[i])) /\ Active(cfg[i]) \in BOOLEAN
    <2>1. UNCHANGED <<day, minute, sunHere, sunHome, fix, cfg>>
      BY DEF Tick, envVars, placeVars
    <2>2. QED
      BY <2>1 DEF Active, RepeatActive, ClockActive, ResolveMinute, Sun, Yesterday
  <1>3. ASSUME NEW i \in Entries
        PROVE  IF cfg[i].relay # NoRelay
               THEN entry'[i].valid /\ entry'[i].active = Active(cfg[i]) /\ entry'[i].relay = cfg[i].relay
               ELSE ~entry'[i].valid
    <2>1. entry'[i] = IF cfg[i].relay = NoRelay THEN [entry[i] EXCEPT !.valid = FALSE]
                      ELSE IF Acts(i)
                      THEN [valid |-> TRUE, active |-> Active(cfg[i]), relay |-> cfg[i].relay]
                      ELSE entry[i]
      BY DEF Tick
    <2>2. entry[i] \in [valid : BOOLEAN, active : BOOLEAN, relay : Relays \cup {NoRelay}]
      BY DEF SchedulesInv, TypeOK
    <2>3. CASE cfg[i].relay = NoRelay
      BY <2>1, <2>2, <2>3
    <2>4. CASE cfg[i].relay # NoRelay /\ Acts(i)
      BY <2>1, <2>4
    <2>5. CASE cfg[i].relay # NoRelay /\ ~Acts(i)
      BY <1>2, <2>1, <2>2, <2>5 DEF Acts
    <2>6. QED
      BY <2>3, <2>4, <2>5
  <1>4. Remembered'
    BY <1>1, <1>2, <1>3 DEF Remembered
  <1>5. \A i \in Entries : ~Pending(i)'
    <2> SUFFICES ASSUME NEW i \in Entries
                 PROVE  ~(Acts(i)')
      BY DEF Pending
    <2>1. Active(cfg[i])' \in BOOLEAN
      BY DEF Active, RepeatActive, ClockActive
    <2>2. cfg[i].relay # NoRelay => entry'[i].active = Active(cfg[i])'
      BY <1>2, <1>3, <2>1
    <2>3. QED
      BY <1>1, <1>3, <2>2 DEF Acts
  <1>6. ASSUME NEW r \in Relays
        PROVE  r \in relays' <=> r \in due'
    <2>1. CASE r \in refused
      BY <1>1, <2>1
    <2>2. CASE r \notin {cfg[i].relay : i \in acting}
      <3>1. \A i \in Entries : Pending(i) => cfg[i].relay # r
        BY <2>2 DEF Pending
      <3>2. r \in relays <=> r \in due
        BY <3>1 DEF SchedulesInv, Awaited
      <3>3. QED
        BY <1>1, <2>2, <3>2
    <2>3. CASE r \notin refused /\ r \in {cfg[i].relay : i \in acting}
      <3>1. PICK i \in acting : cfg[i].relay = r
        BY <2>3
      <3>2. cfg[i].relay \in due <=> Active(cfg[i])
        BY <1>1 DEF SchedulesInv, Awaited, Pending
      <3>3. \A j \in acting : cfg[j].relay = r => j = i
        BY <3>1 DEF SchedulesInv, Loaded, Acts
      <3>4. r \in on <=> Active(cfg[i])
        BY <3>1, <3>3
      <3>5. QED
        BY <1>1, <2>3, <3>1, <3>2, <3>4
    <2>4. QED
      BY <2>1, <2>2, <2>3
  <1>7. QED
    BY <1>4, <1>5, <1>6 DEF Awaited

LEMMA TickNoTimeInv ==
    ASSUME SchedulesInv, TickNoTime
    PROVE  Remembered' /\ Awaited'
  <1>1. ~synced /\ synced' = synced /\ cfg' = cfg /\ relays' = relays /\ due' = due
    BY DEF TickNoTime, envVars
  <1>2. \A i \in Entries : ~entry'[i].valid
    BY DEF TickNoTime, SchedulesInv, TypeOK
  <1>3. \A i \in Entries : ~Pending(i) /\ ~Pending(i)'
    BY <1>1 DEF Pending
  <1>4. QED
    BY <1>1, <1>2, <1>3 DEF Remembered, Awaited, SchedulesInv

LEMMA CommandInv ==
    ASSUME SchedulesInv, NEW r \in Relays, Command(r)
    PROVE  Remembered' /\ Awaited'
  <1> DEFINE turning == {cfg[i].relay : i \in {j \in Entries : synced /\ Acts(j)}}
  <1>1. /\ relays' = IF r \in relays THEN relays \ {r} ELSE relays \cup {r}
        /\ due' = IF r \in turning THEN due ELSE (due \ {r}) \cup (relays' \cap {r})
        /\ UNCHANGED <<day, minute, sunHere, sunHome, fix, synced, cfg, entry, ticked>>
    BY DEF Command, envVars, placeVars
  <1>2. ASSUME NEW i \in Entries
        PROVE  (Active(cfg[i])' <=> Active(cfg[i])) /\ (Pending(i)' <=> Pending(i))
    <2>1. Active(cfg[i])' = Active(cfg[i])
      BY <1>1 DEF Active, RepeatActive, ClockActive, ResolveMinute, Sun, Yesterday
    <2>2. QED
      BY <1>1, <2>1 DEF Pending, Acts
  <1>3. Remembered'
    BY <1>1, <1>2 DEF Remembered, SchedulesInv
  <1>4. ASSUME NEW i \in Entries, Pending(i)'
        PROVE  cfg'[i].relay \in due' <=> Active(cfg[i])'
    <2>1. cfg[i].relay \in turning
      BY <1>2, <1>4 DEF Pending
    <2>2. cfg[i].relay \in due' <=> cfg[i].relay \in due
      BY <1>1, <2>1
    <2>3. QED
      BY <1>1, <1>2, <1>4, <2>2 DEF SchedulesInv, Awaited
  <1>5. ASSUME NEW q \in Relays, \A i \in Entries : Pending(i)' => cfg'[i].relay # q
        PROVE  q \in relays' <=> q \in due'
    <2>1. q \notin turning
      BY <1>1, <1>2, <1>5 DEF Pending
    <2>2. q \in relays <=> q \in due
      BY <1>1, <1>2, <1>5 DEF SchedulesInv, Awaited
    <2>3. QED
      BY <1>1, <2>1, <2>2
  <1>6. QED
    BY <1>3, <1>4, <1>5 DEF Awaited

LEMMA SchedulesInvInit == Init => SchedulesInv
  BY SchedulesTypeInit, BootAwaited DEF Init, JustBooted, SchedulesInv

LEMMA SchedulesInvStep == SchedulesInv /\ [Next]_vars => SchedulesInv'
  <1> SUFFICES ASSUME SchedulesInv, [Next]_vars
               PROVE  SchedulesInv'
    OBVIOUS
  <1>0. TypeOK' /\ Loaded'
    BY SchedulesTypeStep DEF SchedulesInv
  <1> SUFFICES Remembered' /\ Awaited'
    BY <1>0 DEF SchedulesInv
  <1>1. ASSUME NEW refused \in SUBSET Relays, Tick(refused)
        PROVE  Remembered' /\ Awaited'
    BY <1>1, TickInv
  <1>2. CASE TickNoTime
    BY <1>2, TickNoTimeInv
  <1>3. CASE Elapse
    BY <1>0, <1>3, ChangeInv DEF Elapse
  <1>4. ASSUME NEW d \in Weekdays, NEW m \in Minutes, SetClock(d, m)
        PROVE  Remembered' /\ Awaited'
    BY <1>0, <1>4, ChangeInv DEF SetClock
  <1>5. ASSUME NEW here \in Suns, NEW home \in HomeSuns, SunMoves(here, home)
        PROVE  Remembered' /\ Awaited'
    BY <1>0, <1>5, ChangeInv DEF SunMoves
  <1>6. ASSUME NEW here \in Suns, PositionReceived(here)
        PROVE  Remembered' /\ Awaited'
    BY <1>0, <1>6, ChangeInv DEF PositionReceived
  <1>7. CASE PositionAges
    BY <1>0, <1>7, ChangeInv DEF PositionAges
  <1>8. ASSUME NEW raw \in Settings, Reload(raw)
        PROVE  Remembered' /\ Awaited'
    BY <1>0, <1>8, ChangeInv DEF Reload, envVars
  <1>9. ASSUME NEW r \in Relays, Command(r)
        PROVE  Remembered' /\ Awaited'
    BY <1>9, CommandInv
  <1>10. CASE Restart
    <2>1. JustBooted'
      BY <1>10 DEF Restart, JustBooted
    <2>2. TypeOK' /\ Loaded' /\ JustBooted' => Remembered' /\ Awaited'
      BY BootAwaited, PTL
    <2>3. QED
      BY <1>0, <2>1, <2>2
  <1>11. CASE UNCHANGED vars
    <2>1. UNCHANGED <<day, minute, sunHere, sunHome, fix, synced, cfg, entry, relays, ticked, due>>
      BY <1>11 DEF vars, envVars, placeVars
    <2>2. ASSUME NEW i \in Entries
          PROVE  (Active(cfg[i])' <=> Active(cfg[i])) /\ (Pending(i)' <=> Pending(i))
      <3>1. Active(cfg[i])' = Active(cfg[i])
        BY <2>1 DEF Active, RepeatActive, ClockActive, ResolveMinute, Sun, Yesterday
      <3>2. QED
        BY <2>1, <3>1 DEF Pending, Acts
    <2>3. QED
      BY <2>1, <2>2 DEF SchedulesInv, Remembered, Awaited
  <1>12. QED
    BY <1>1, <1>2, <1>3, <1>4, <1>5, <1>6, <1>7, <1>8, <1>9, <1>10, <1>11 DEF Next

\* Every relay is as it is due to be, or its entry's next evaluation (schedule_eval_tick)
\* will set it so.
THEOREM SchedulesInvariant == Spec => []SchedulesInv
  BY SchedulesInvInit, SchedulesInvStep, PTL DEF Spec

\* After every evaluation a relay is as the latest of commands and entries
\* left it, whatever the tables hold and however the clock, the sun, the
\* settings and restarts come in between.
THEOREM RelaysAsDueHolds == Spec => []RelaysAsDue
  <1>1. SchedulesInv => RelaysAsDue
    BY SettledRelays DEF RelaysAsDue
  <1>2. QED
    BY <1>1, SchedulesInvariant, PTL

LEMMA EvaluatedEntry ==
    ASSUME SchedulesInv, NEW i \in Entries, Evaluated(i)
    PROVE  /\ entry[i].active <=> ClockActive(cfg[i])
           /\ cfg[i] \in Entry /\ cfg[i].mode = "clock" /\ Parses(cfg[i])
  <1>1. cfg[i] \in Entry /\ cfg[i].mode = "clock" /\ Parses(cfg[i])
    BY DEF Evaluated, SchedulesInv, Loaded
  <1>2. entry[i].active <=> Active(cfg[i])
    BY DEF Evaluated, SchedulesInv, Remembered
  <1>3. Active(cfg[i]) <=> ClockActive(cfg[i])
    BY <1>1 DEF Active
  <1>4. QED
    BY <1>1, <1>2, <1>3

\* A clock entry is active throughout every window that began on a day it
\* names, for days of any length and weeks of at least two days.
THEOREM WindowServedHolds == Spec => []WindowServed
  <1>1. SchedulesInv => WindowServed
    BY EvaluatedEntry, ClockWindows DEF WindowServed, SchedulesInv
  <1>2. QED
    BY <1>1, SchedulesInvariant, PTL

\* ... and, if it does not run overnight or names every day, at no other time.
THEOREM NeverOutsideHolds == Spec => []NeverOutside
  <1>1. ASSUME SchedulesInv, NEW i \in Entries, Evaluated(i), entry[i].active,
               Overnight(cfg[i]) => cfg[i].days = Weekdays
        PROVE  InWindow(cfg[i])
    <2>1. ClockActive(cfg[i]) /\ cfg[i] \in Entry /\ cfg[i].mode = "clock" /\ Parses(cfg[i])
      BY <1>1, EvaluatedEntry
    <2>2. TypeOK
      BY <1>1 DEF SchedulesInv
    <2>3. Yesterday \in Weekdays
      BY <2>2, SchedulesAssumption DEF TypeOK, Yesterday, Weekdays
    <2>4. QED
      BY <1>1, <2>1, <2>2, <2>3, ClockWindows
  <1>2. SchedulesInv => NeverOutside
    BY <1>1 DEF NeverOutside
  <1>3. QED
    BY <1>2, SchedulesInvariant, PTL

\* Of an overnight entry that names a day but not its eve, the manual and
\* test_schedule_eval.c:145 have the window begin that evening: "Friday 22:00
\* to Saturday 06:00".  Every such entry is active in the early hours of that
\* day as well, in no window of a day it names (schedule_eval.c:97-98).
THEOREM FirstNightRunsToo ==
    Spec => [](\A i \in Entries : FirstNight(i) => entry[i].active /\ ~InWindow(cfg[i]))
  <1>1. ASSUME SchedulesInv, NEW i \in Entries, FirstNight(i)
        PROVE  entry[i].active /\ ~InWindow(cfg[i])
    <2>1. Evaluated(i) /\ TypeOK
      BY <1>1 DEF FirstNight, SchedulesInv
    <2>2. QED
      BY <1>1, <2>1, EvaluatedEntry, ClockWindows DEF FirstNight
  <1>2. SchedulesInv => \A i \in Entries : FirstNight(i) => entry[i].active /\ ~InWindow(cfg[i])
    BY <1>1
  <1>3. QED
    BY <1>2, SchedulesInvariant, PTL
=============================================================================
