----------------------------- MODULE InputsProofs ------------------------------
(***************************************************************************)
(* Theorems about what becomes of an input: Counters, for every number of  *)
(* pulses and every way the loop is late or restarted, and InputSense, for *)
(* every set of configurations.                                            *)
(***************************************************************************)
EXTENDS Counters, InputSense, TLAPS

-----------------------------------------------------------------------------
(***************************************************************************)
(* Arithmetic of a fold.                                                   *)
(***************************************************************************)

\* n units of time are its whole seconds and a remainder of less than one.
LEMMA WholeAndRest ==
    ASSUME NEW n \in Nat
    PROVE  /\ n \div Second \in Nat
           /\ n % Second \in Nat
           /\ n % Second < Second
           /\ n < Second => n \div Second = 0
<1>1. Second \in Int /\ Second > 0
  BY CounterAssumption
<1>2. n \div Second \in Nat
  BY <1>1
<1>3. n % Second \in Nat /\ n % Second < Second
  BY <1>1
<1>4. n < Second => n \div Second = 0
  BY <1>1
<1> QED
  BY <1>2, <1>3, <1>4

\* Seconds added are their time added.
LEMMA TimeAdds ==
    ASSUME NEW m \in Nat, NEW n \in Nat
    PROVE  /\ (m + n) * Second = m * Second + n * Second
           /\ m * Second \in Nat
           /\ (m + 1) * (Second - 1) = m * (Second - 1) + (Second - 1)
           /\ m * (Second - 1) \in Nat
<1>1. Second \in Nat \ {0}
  BY CounterAssumption
<1> QED
  BY <1>1, SMT

\* Seconds moved from the age to the hours are neither lost nor invented.
LEMMA MovedExactly ==
    ASSUME NEW m \in Nat, NEW n \in Nat
    PROVE  n % Second = m * Second + n - (m + n \div Second) * Second
<1>1. Second \in Int /\ Second > 0
  BY CounterAssumption
<1>2. m * Second + n - (m + n \div Second) * Second = n % Second
  BY <1>1
<1> QED
  BY <1>2, Zenon

-----------------------------------------------------------------------------
(***************************************************************************)
(* Types.                                                                  *)
(***************************************************************************)

\* fold_running_locked() keeps the types, touches neither cycles nor resets,
\* turns whole seconds of age into hours, and does nothing to the others.
LEMMA FoldIsExact ==
    ASSUME TypeOK, NEW S \in SUBSET Channels
    PROVE  /\ Folded(S).s \in Snapshot
           /\ Folded(S).a \in [Channels -> Nat]
           /\ Folding(S) = {} => Folded(S).s = saved
           /\ \A c \in Channels :
                /\ Folded(S).s[c].cycles = saved[c].cycles
                /\ Folded(S).s[c].era = saved[c].era
                /\ Folded(S).a[c] = saved[c].runtime * Second + age[c]
                                       - Folded(S).s[c].runtime * Second
                /\ c \in S /\ on[c] => Folded(S).a[c] < Second
                /\ c \notin S => Folded(S).s[c] = saved[c]
<1>1. \A c \in Channels : saved[c] \in [cycles : Nat, runtime : Nat, era : Nat] /\ age[c] \in Nat
  BY DEF TypeOK, Snapshot
<1>2. Second \in Nat \ {0}
  BY CounterAssumption
<1>3. Folding(S) \subseteq S
  BY DEF Folding
<1>4. \A c \in Channels :
        LET added == [saved[c] EXCEPT !.runtime = @ + age[c] \div Second] IN
        /\ added \in [cycles : Nat, runtime : Nat, era : Nat]
        /\ added.cycles = saved[c].cycles /\ added.era = saved[c].era
        /\ added.runtime = saved[c].runtime + age[c] \div Second
  <2> SUFFICES ASSUME NEW c \in Channels
               PROVE  LET added == [saved[c] EXCEPT !.runtime = @ + age[c] \div Second] IN
                      /\ added \in [cycles : Nat, runtime : Nat, era : Nat]
                      /\ added.cycles = saved[c].cycles /\ added.era = saved[c].era
                      /\ added.runtime = saved[c].runtime + age[c] \div Second
    OBVIOUS
  <2>1. age[c] \div Second \in Nat
    BY <1>1, WholeAndRest
  <2> HIDE DEF TypeOK
  <2> QED
    BY <1>1, <2>1
<1>5. \A c \in Channels : age[c] % Second \in Nat /\ age[c] % Second < Second
  BY <1>1, <1>2, WholeAndRest
<1>6. Folded(S).s \in Snapshot
  BY <1>1, <1>4 DEF Folded, Snapshot
<1>7. Folded(S).a \in [Channels -> Nat]
  BY <1>1, <1>5 DEF Folded
<1>8. Folding(S) = {} => Folded(S).s = saved
  BY DEF Folded, TypeOK, Snapshot
<1>9. ASSUME NEW c \in Channels
      PROVE  /\ Folded(S).s[c].cycles = saved[c].cycles
             /\ Folded(S).s[c].era = saved[c].era
             /\ Folded(S).a[c] = saved[c].runtime * Second + age[c]
                                    - Folded(S).s[c].runtime * Second
             /\ c \in S /\ on[c] => Folded(S).a[c] < Second
             /\ c \notin S => Folded(S).s[c] = saved[c]
  <2>1. CASE c \in Folding(S)
    <3>1. /\ Folded(S).s[c] = [saved[c] EXCEPT !.runtime = @ + age[c] \div Second]
          /\ Folded(S).a[c] = age[c] % Second
      BY <2>1, <1>9 DEF Folded
    <3>2. Folded(S).s[c].runtime = saved[c].runtime + age[c] \div Second
      BY <3>1, <1>4, <1>9
    <3>3. Folded(S).a[c] = saved[c].runtime * Second + age[c]
                              - Folded(S).s[c].runtime * Second
      <4>1. age[c] % Second = saved[c].runtime * Second + age[c]
                                 - (saved[c].runtime + age[c] \div Second) * Second
        BY <1>1, <1>9, MovedExactly
      <4> QED
        BY <3>1, <3>2, <4>1, Zenon
    <3> QED
      BY <3>1, <3>3, <1>3, <1>4, <1>5, <1>9, <2>1
  <2>2. CASE c \notin Folding(S)
    <3>1. Folded(S).s[c] = saved[c] /\ Folded(S).a[c] = age[c]
      BY <2>2, <1>9 DEF Folded
    <3>3. age[c] = saved[c].runtime * Second + age[c] - saved[c].runtime * Second
      <4>1. PICK x \in Int : x = saved[c].runtime * Second
        BY <1>1, <1>9, TimeAdds
      <4>2. age[c] = x + age[c] - x
        BY <1>1, <1>9
      <4> QED
        BY <4>1, <4>2, Zenon
    <3>2. c \in S /\ on[c] => age[c] < Second
      BY <2>2, <1>1, <1>2, <1>9 DEF Folding
    <3> QED
      BY <3>1, <3>2, <3>3, Zenon
  <2> QED
    BY <2>1, <2>2
<1> QED
  BY <1>6, <1>7, <1>8, <1>9

LEMMA ZeroTyped ==
    ASSUME NEW n \in Nat
    PROVE  Zero(n) \in [cycles : Nat, runtime : Nat, era : Nat]
BY DEF Zero

LEMMA TypeInit == Init => TypeOK
<1> SUFFICES ASSUME Init PROVE TypeOK
  OBVIOUS
<1>1. [c \in Channels |-> Zero(0)] \in Snapshot
  BY ZeroTyped DEF Snapshot
<1>2. 0 \in 0 .. SaveInterval
  BY CounterAssumption
<1>3. store \in Snapshot /\ data \in [Savers -> Snapshot] /\ since \in [Savers -> 0 .. SaveInterval]
  BY <1>1, <1>2 DEF Init
<1> QED
  BY <1>1, <1>2, <1>3 DEF Init, TypeOK

LEMMA CappedTyped ==
    ASSUME NEW n \in 0 .. SaveInterval
    PROVE  Capped(n) \in 0 .. SaveInterval
BY CounterAssumption DEF Capped

LEMMA DoneTyped ==
    ASSUME TypeOK, NEW p \in Savers, Done(p)
    PROVE  /\ saver' \in [Savers -> {"idle", "save", "settle"}]
           /\ data' \in [Savers -> Snapshot]
           /\ since' \in [Savers -> 0 .. SaveInterval]
           /\ stopped' \in BOOLEAN
<1>1. [c \in Channels |-> Zero(0)] \in Snapshot
  BY ZeroTyped DEF Snapshot
<1>2. 0 \in 0 .. SaveInterval
  BY CounterAssumption
<1>3. data' \in [Savers -> Snapshot]
  BY <1>1 DEF Done, TypeOK
<1>4. since' \in [Savers -> 0 .. SaveInterval]
  BY <1>2 DEF Done, TypeOK
<1> QED
  BY <1>3, <1>4 DEF Done, TypeOK

LEMMA TypeStep == TypeOK /\ [Next]_vars => TypeOK'
<1> SUFFICES ASSUME TypeOK, [Next]_vars PROVE TypeOK'
  OBVIOUS
<1>1. ASSUME NEW c \in Channels, SwitchedOn(c) PROVE TypeOK'
  <2>1. saved' \in Snapshot
    <3>1. /\ saved[c] \in [cycles : Nat, runtime : Nat, era : Nat]
          /\ saved' = [saved EXCEPT ![c] = [saved[c] EXCEPT !.cycles = saved[c].cycles + 1]]
      BY <1>1 DEF SwitchedOn, TypeOK, Snapshot
    <3>2. [saved[c] EXCEPT !.cycles = saved[c].cycles + 1] \in [cycles : Nat, runtime : Nat, era : Nat]
      BY <3>1
    <3> QED
      BY <3>1, <3>2 DEF TypeOK, Snapshot
  <2> QED
    BY <1>1, <2>1 DEF SwitchedOn, TypeOK, AnyBusy, Idle
<1>2. ASSUME NEW c \in Channels, SwitchedOff(c) PROVE TypeOK'
  <2>1. Folded({c}).s \in Snapshot
    BY <1>2, FoldIsExact
  <2> QED
    BY <1>2, <2>1 DEF SwitchedOff, TypeOK, AnyBusy, Idle
<1>3. ASSUME NEW c \in Channels, Reset(c) PROVE TypeOK'
  <2>1. saved' \in Snapshot
    <3>1. saved[c].era + 1 \in Nat
      BY <1>3 DEF TypeOK, Snapshot
    <3>2. Zero(saved[c].era + 1) \in [cycles : Nat, runtime : Nat, era : Nat]
      BY <3>1, ZeroTyped
    <3> QED
      BY <1>3, <3>2 DEF Reset, TypeOK, Snapshot
  <2>2. data' \in [Savers -> Snapshot]
    BY <1>3, <2>1 DEF Reset, TypeOK
  <2> QED
    BY <1>3, <2>1, <2>2 DEF Reset, TypeOK, Busy, Idle
<1>4. CASE Tick
  <2>1. saved' \in Snapshot /\ age' \in [Channels -> Nat]
    BY <1>4, FoldIsExact DEF Tick
  <2>2. saver' \in [Savers -> {"idle", "save", "settle"}] /\ data' \in [Savers -> Snapshot]
    BY <1>4, <2>1 DEF Tick, TypeOK
  <2>3. dirty' \in BOOLEAN
    BY <1>4 DEF Tick, TypeOK
  <2>4. saveAge' \in 0 .. SaveInterval
    BY <1>4, CounterAssumption DEF Tick, TypeOK
  <2>5. raced' \in BOOLEAN
    BY <1>4 DEF Tick, TypeOK, Busy, Idle
  <2> QED
    BY <1>4, <2>1, <2>2, <2>3, <2>4, <2>5 DEF Tick, TypeOK
<1>5. CASE Flush
  <2>1. saved' \in Snapshot /\ age' \in [Channels -> Nat]
    BY <1>5, FoldIsExact DEF Flush
  <2>2. data' \in [Savers -> Snapshot]
    BY <1>5, <2>1 DEF Flush, TypeOK
  <2> QED
    BY <1>5, <2>1, <2>2 DEF Flush, TypeOK, Busy, Idle
<1>6. ASSUME NEW p \in Savers, Save(p) PROVE TypeOK'
  BY <1>6 DEF Save, TypeOK, ramVars
<1>7. ASSUME NEW p \in Savers, SaveFails(p) PROVE TypeOK'
  <2>1. Done(p)
    BY <1>7 DEF SaveFails
  <2>2. saveAge' \in 0 .. SaveInterval
    BY <1>7 DEF SaveFails, TypeOK
  <2> QED
    BY <1>7, <2>1, <2>2, DoneTyped DEF SaveFails, TypeOK
<1>8. ASSUME NEW p \in Savers, Settle(p) PROVE TypeOK'
  <2>1. Done(p)
    BY <1>8 DEF Settle
  <2>2. saveAge' \in 0 .. SaveInterval
    BY <1>8 DEF Settle, TypeOK
  <2> QED
    BY <1>8, <2>1, <2>2, DoneTyped DEF Settle, TypeOK
<1>9. CASE Reboot
  <2>1. [c \in Channels |-> Zero(0)] \in Snapshot
    BY ZeroTyped DEF Snapshot
  <2>0. [c \in Channels |-> Zero(store[c].era)] \in Snapshot
    BY ZeroTyped DEF TypeOK, Snapshot
  <2>6. saved' \in Snapshot
    BY <1>9, <2>0 DEF Reboot, Loaded, TypeOK
  <2>2. \A c \in Channels : saved'[c].runtime * Second \in Nat
    BY <2>6, TimeAdds DEF Snapshot
  <2>3. onTime' \in [Channels -> Nat]
    BY <1>9, <2>2 DEF Reboot
  <2>4. /\ saver' \in [Savers -> {"idle", "save", "settle"}]
        /\ data' \in [Savers -> Snapshot]
    BY <1>9, <2>1 DEF Reboot
  <2>5. saveAge' \in 0 .. SaveInterval /\ since' \in [Savers -> 0 .. SaveInterval]
    BY <1>9, CounterAssumption DEF Reboot
  <2> QED
    BY <1>9, <2>3, <2>4, <2>5, <2>6 DEF Reboot, TypeOK
<1>10. CASE Elapse
  <2>1. saveAge' \in 0 .. SaveInterval /\ since' \in [Savers -> 0 .. SaveInterval]
    BY <1>10, CappedTyped DEF Elapse, TypeOK
  <2>2. age' \in [Channels -> Nat] /\ onTime' \in [Channels -> Nat]
    BY <1>10 DEF Elapse, TypeOK
  <2> QED
    BY <1>10, <2>1, <2>2 DEF Elapse, TypeOK
<1>11. CASE UNCHANGED vars
  BY <1>11 DEF vars, ramVars, TypeOK
<1> QED
  BY <1>1, <1>2, <1>3, <1>4, <1>5, <1>6, <1>7, <1>8, <1>9, <1>10, <1>11 DEF Next

\* Every variable keeps its type, for any channels, second and interval.
THEOREM CountersTypeCorrect == Spec => []TypeOK
<1>1. TypeOK /\ UNCHANGED vars => TypeOK'
  BY DEF vars, ramVars, TypeOK
<1> QED
  BY TypeInit, TypeStep, PTL DEF Spec

-----------------------------------------------------------------------------
(***************************************************************************)
(* The hours.                                                              *)
(***************************************************************************)

\* The time channel c has been counted for: whole seconds in its snapshot,
\* the rest in its age.
Counted(c) == saved[c].runtime * Second + IF on[c] THEN age[c] ELSE 0

\* How much a channel may have lost: less than a second each time it went off.
MayMiss(c) == saved[c].cycles * (Second - 1) + IF on[c] THEN 0 ELSE Second - 1

\* Nothing counted that was not spent on, and little missed.
HoursInv ==
    \A c \in Channels :
        /\ Counted(c) <= onTime[c]
        /\ onTime[c] - Counted(c) <= MayMiss(c)

\* What both are, as numbers.
LEMMA HoursTyped ==
    ASSUME TypeOK, NEW c \in Channels
    PROVE  /\ Counted(c) \in Nat /\ MayMiss(c) \in Nat /\ onTime[c] \in Nat /\ age[c] \in Nat
           /\ saved[c].runtime \in Nat /\ saved[c].cycles \in Nat
           /\ saved[c].runtime * Second \in Nat
           /\ saved[c].cycles * (Second - 1) \in Nat
           /\ Second \in Nat \ {0}
<1>1. onTime[c] \in Nat /\ age[c] \in Nat /\ saved[c].runtime \in Nat /\ saved[c].cycles \in Nat
  BY DEF TypeOK, Snapshot
<1>2. saved[c].runtime * Second \in Nat /\ saved[c].cycles * (Second - 1) \in Nat
  BY <1>1, TimeAdds
<1>3. Second \in Nat \ {0}
  BY CounterAssumption
<1> QED
  BY <1>1, <1>2, <1>3 DEF Counted, MayMiss

\* A step that changes nothing of channel c's hours keeps its part.
LEMMA SameHours ==
    ASSUME TypeOK, HoursInv, NEW c \in Channels,
           saved'[c] = saved[c], on'[c] = on[c], age'[c] = age[c], onTime'[c] = onTime[c]
    PROVE  Counted(c)' <= onTime'[c] /\ onTime'[c] - Counted(c)' <= MayMiss(c)'
<1>1. Counted(c)' = Counted(c) /\ MayMiss(c)' = MayMiss(c)
  BY Zenon DEF Counted, MayMiss
<1> QED
  BY <1>1 DEF HoursInv

\* Nor does one that folds it.
LEMMA FoldedHours ==
    ASSUME TypeOK, HoursInv, NEW S \in SUBSET Channels, NEW c \in Channels,
           saved' = Folded(S).s, age' = Folded(S).a, on' = on, onTime' = onTime
    PROVE  Counted(c)' <= onTime'[c] /\ onTime'[c] - Counted(c)' <= MayMiss(c)'
<1>1. /\ saved'[c].cycles = saved[c].cycles
      /\ age'[c] = saved[c].runtime * Second + age[c] - saved'[c].runtime * Second
  BY FoldIsExact
<1>2. MayMiss(c)' = MayMiss(c)
  BY <1>1, Zenon DEF MayMiss
<1>3. CASE on[c]
  <2>1. saved'[c].runtime \in Nat
    BY FoldIsExact DEF Snapshot
  <2>2. PICK y \in Int : y = saved'[c].runtime * Second
    <3>1. ASSUME NEW k \in Nat PROVE k * Second \in Int
      BY <3>1, TimeAdds
    <3> QED
      BY <2>1, <3>1
  <2>3. PICK x \in Int : x = saved[c].runtime * Second
    BY HoursTyped
  <2>4. Counted(c)' = y + age'[c] /\ Counted(c) = x + age[c]
    BY <1>3, <2>2, <2>3 DEF Counted
  <2>5. age'[c] = x + age[c] - y
    BY <1>1, <2>2, <2>3
  <2>6. Counted(c)' = Counted(c)
    BY <2>4, <2>5, HoursTyped
  <2> QED
    BY <1>2, <2>6 DEF HoursInv
<1>4. CASE ~on[c]
  <2>1. saved'[c] = saved[c]
    BY <1>4 DEF Folded, Folding
  <2>2. Counted(c)' = Counted(c)
    BY <1>4, <2>1 DEF Counted
  <2> QED
    BY <1>2, <2>2 DEF HoursInv
<1> QED
  BY <1>3, <1>4

LEMMA HoursInit == Init => HoursInv
<1> SUFFICES ASSUME Init, NEW c \in Channels
             PROVE  Counted(c) <= onTime[c] /\ onTime[c] - Counted(c) <= MayMiss(c)
  BY DEF HoursInv
<1>1. saved[c].runtime = 0 /\ age[c] = 0 /\ onTime[c] = 0
  BY DEF Init, Zero
<1>2. Counted(c) = 0
  BY <1>1, CounterAssumption DEF Counted
<1> QED
  BY <1>1, <1>2, TypeInit, HoursTyped

LEMMA HoursStep == TypeOK /\ HoursInv /\ [Next]_vars => HoursInv'
<1> SUFFICES ASSUME TypeOK, HoursInv, [Next]_vars, NEW c \in Channels
             PROVE  Counted(c)' <= onTime'[c] /\ onTime'[c] - Counted(c)' <= MayMiss(c)'
  BY DEF HoursInv
<1> DEFINE Kept == saved'[c] = saved[c] /\ on'[c] = on[c] /\ age'[c] = age[c] /\ onTime'[c] = onTime[c]
<1>1. ASSUME NEW d \in Channels, SwitchedOn(d)
      PROVE  Counted(c)' <= onTime'[c] /\ onTime'[c] - Counted(c)' <= MayMiss(c)'
  <2>1. CASE c = d
    <3>1. /\ ~on[c] /\ on'[c] /\ age'[c] = 0 /\ onTime' = onTime
          /\ saved'[c].runtime = saved[c].runtime
          /\ saved'[c].cycles = saved[c].cycles + 1
      BY <1>1, <2>1 DEF SwitchedOn, TypeOK, Snapshot
    <3>2. PICK x \in Nat : x = saved[c].runtime * Second
      BY HoursTyped
    <3>3. Counted(c) = x /\ Counted(c)' = x
      BY <3>1, <3>2 DEF Counted
    <3>4. PICK m \in Nat : m = saved[c].cycles * (Second - 1)
      BY HoursTyped
    <3>5. (saved[c].cycles + 1) * (Second - 1) = m + (Second - 1)
      BY <3>4, HoursTyped, TimeAdds
    <3>6. MayMiss(c) = m + (Second - 1) /\ MayMiss(c)' = m + (Second - 1) + 0
      BY <3>1, <3>4, <3>5 DEF MayMiss
    <3> QED
      BY <3>1, <3>3, <3>6, HoursTyped DEF HoursInv
  <2>2. CASE c # d
    BY <1>1, <2>2, SameHours DEF SwitchedOn, TypeOK, Snapshot
  <2> QED
    BY <2>1, <2>2
<1>2. ASSUME NEW d \in Channels, SwitchedOff(d)
      PROVE  Counted(c)' <= onTime'[c] /\ onTime'[c] - Counted(c)' <= MayMiss(c)'
  <2>1. CASE c = d
    <3>1. on[c] /\ ~on'[c] /\ onTime' = onTime /\ saved' = Folded({c}).s
      BY <1>2, <2>1 DEF SwitchedOff, TypeOK
    <3> DEFINE rest == Folded({c}).a[c]
    <3>2. /\ saved'[c].cycles = saved[c].cycles
          /\ rest = saved[c].runtime * Second + age[c] - saved'[c].runtime * Second
          /\ rest < Second /\ rest \in Nat
          /\ saved'[c].runtime \in Nat
      BY <3>1, FoldIsExact DEF Snapshot
    <3>3. PICK y \in Nat : y = saved'[c].runtime * Second
      <4>1. ASSUME NEW k \in Nat PROVE k * Second \in Nat
        BY <4>1, TimeAdds
      <4> QED
        BY <3>2, <4>1
    <3>4. PICK x \in Nat : x = saved[c].runtime * Second
      BY HoursTyped
    <3>5. Counted(c)' = y + 0 /\ Counted(c) = x + age[c]
      BY <3>1, <3>3, <3>4 DEF Counted
    <3>6. PICK m \in Nat : m = saved[c].cycles * (Second - 1)
      BY HoursTyped
    <3>7. MayMiss(c) = m + 0 /\ MayMiss(c)' = m + (Second - 1)
      BY <3>1, <3>2, <3>6 DEF MayMiss
    <3>8. rest = x + age[c] - y
      BY <3>2, <3>3, <3>4
    <3> HIDE DEF rest
    <3> QED
      BY <3>1, <3>2, <3>5, <3>7, <3>8, HoursTyped DEF HoursInv
  <2>2. CASE c # d
    <3>1. saved'[c] = saved[c]
      BY <1>2, <2>2, FoldIsExact DEF SwitchedOff
    <3> QED
      BY <1>2, <2>2, <3>1, SameHours DEF SwitchedOff, TypeOK
  <2> QED
    BY <2>1, <2>2
<1>3. ASSUME NEW d \in Channels, Reset(d)
      PROVE  Counted(c)' <= onTime'[c] /\ onTime'[c] - Counted(c)' <= MayMiss(c)'
  <2>1. CASE c = d
    <3>1. /\ saved'[c].runtime = 0 /\ saved'[c].cycles = 0 /\ age'[c] = 0 /\ onTime'[c] = 0
      BY <1>3, <2>1 DEF Reset, TypeOK, Snapshot, Zero
    <3>2. Counted(c)' = 0
      BY <3>1, CounterAssumption DEF Counted
    <3>3. MayMiss(c)' >= 0
      BY <3>1, CounterAssumption DEF MayMiss
    <3> QED
      BY <3>1, <3>2, <3>3
  <2>2. CASE c # d
    BY <1>3, <2>2, SameHours DEF Reset, TypeOK, Snapshot
  <2> QED
    BY <2>1, <2>2
<1>4. CASE Tick
  BY <1>4, FoldedHours DEF Tick
<1>5. CASE Flush
  BY <1>5, FoldedHours DEF Flush
<1>6. ASSUME NEW p \in Savers, Save(p) \/ SaveFails(p) \/ Settle(p) PROVE Kept
  BY <1>6 DEF Save, SaveFails, Settle, ramVars
<1>7. CASE Reboot
  <2>1. /\ age'[c] = 0 /\ onTime'[c] = saved'[c].runtime * Second
        /\ saved'[c].runtime \in Nat /\ saved'[c].cycles \in Nat
    BY <1>7 DEF Reboot, Loaded, Zero, TypeOK, Snapshot
  <2>2. PICK x \in Nat : x = saved'[c].runtime * Second
    BY <2>1, TimeAdds
  <2>3. Counted(c)' = x + 0
    BY <2>1, <2>2 DEF Counted
  <2>4. PICK m \in Nat : m = saved'[c].cycles * (Second - 1)
    BY <2>1, TimeAdds
  <2>5. MayMiss(c)' = m + 0 \/ MayMiss(c)' = m + (Second - 1)
    BY <2>1, <2>4 DEF MayMiss
  <2> QED
    BY <2>1, <2>2, <2>3, <2>5, CounterAssumption
<1>8. CASE Elapse
  <2>1. /\ saved' = saved /\ on' = on
        /\ on[c] => age'[c] = age[c] + 1 /\ onTime'[c] = onTime[c] + 1
        /\ ~on[c] => age'[c] = age[c] /\ onTime'[c] = onTime[c]
    BY <1>8 DEF Elapse
  <2>2. PICK x \in Nat : x = saved[c].runtime * Second
    BY HoursTyped
  <2>3. CASE on[c]
    <3>1. Counted(c)' = x + (age[c] + 1) /\ Counted(c) = x + age[c]
      BY <2>1, <2>2, <2>3 DEF Counted
    <3>2. MayMiss(c)' = MayMiss(c)
      BY <2>1, Zenon DEF MayMiss
    <3> QED
      BY <2>1, <2>3, <3>1, <3>2, HoursTyped DEF HoursInv
  <2>4. CASE ~on[c]
    BY <2>1, <2>4, SameHours
  <2> QED
    BY <2>3, <2>4
<1>9. CASE UNCHANGED vars
  BY <1>9, SameHours DEF vars, ramVars
<1> QED
  <2>1. Kept => Counted(c)' <= onTime'[c] /\ onTime'[c] - Counted(c)' <= MayMiss(c)'
    BY SameHours
  <2> HIDE DEF Kept
  <2> QED
    BY <2>1, <1>1, <1>2, <1>3, <1>4, <1>5, <1>6, <1>7, <1>8, <1>9 DEF Next

\* What counters_get() reports is within a second of what has been counted.
LEMMA HoursReported == TypeOK /\ HoursInv => RuntimeExact
<1> SUFFICES ASSUME TypeOK, HoursInv, NEW c \in Channels
             PROVE  /\ Runtime(c) * Second <= onTime[c]
                    /\ onTime[c] - Runtime(c) * Second <= (saved[c].cycles + 1) * (Second - 1)
  BY DEF RuntimeExact
<1>1. PICK m \in Nat : m = saved[c].cycles * (Second - 1)
  BY HoursTyped
<1>2. (saved[c].cycles + 1) * (Second - 1) = m + (Second - 1)
  BY <1>1, HoursTyped, TimeAdds
<1>3. PICK x \in Nat : x = saved[c].runtime * Second
  BY HoursTyped
<1>4. CASE on[c]
  <2>1. PICK y \in Int : y = (saved[c].runtime + age[c] \div Second) * Second
    <3>1. saved[c].runtime + age[c] \div Second \in Nat
      BY HoursTyped, WholeAndRest
    <3>2. ASSUME NEW k \in Nat PROVE k * Second \in Int
      BY <3>2, TimeAdds
    <3> QED
      BY <3>1, <3>2
  <2>2. Runtime(c) * Second = y
    BY <1>4, <2>1, Zenon DEF Runtime
  <2>3. age[c] % Second = x + age[c] - y
    BY <1>3, <2>1, HoursTyped, MovedExactly
  <2>4. age[c] % Second \in Nat /\ age[c] % Second < Second
    BY HoursTyped, WholeAndRest
  <2>5. Counted(c) = x + age[c] /\ MayMiss(c) = m + 0
    BY <1>1, <1>3, <1>4 DEF Counted, MayMiss
  <2>6. PICK r \in Nat : r = age[c] % Second
    BY <2>4
  <2>7. r < Second /\ r = x + age[c] - y
    BY <2>3, <2>4, <2>6
  <2>8. y <= onTime[c] /\ onTime[c] - y <= m + (Second - 1)
    BY <2>5, <2>7, HoursTyped DEF HoursInv
  <2> QED
    BY <1>2, <2>2, <2>8, Zenon
<1>5. CASE ~on[c]
  <2>1. Runtime(c) * Second = x
    <3>1. Runtime(c) = saved[c].runtime
      BY <1>5, HoursTyped DEF Runtime
    <3> QED
      BY <1>3, <3>1, Zenon
  <2>2. Counted(c) = x + 0 /\ MayMiss(c) = m + (Second - 1)
    BY <1>1, <1>3, <1>5 DEF Counted, MayMiss
  <2>3. x <= onTime[c] /\ onTime[c] - x <= m + (Second - 1)
    BY <2>2, HoursTyped DEF HoursInv
  <2> QED
    BY <1>2, <2>1, <2>3, Zenon
<1> QED
  BY <1>4, <1>5

\* fold_running_locked() at every save, switch and reset loses less than a
\* second per cycle and invents nothing, for any length of the second.
THEOREM RuntimeAlwaysExact == Spec => []RuntimeExact
<1>1. Init => TypeOK /\ HoursInv
  BY TypeInit, HoursInit
<1>2. TypeOK /\ HoursInv /\ [Next]_vars => (TypeOK /\ HoursInv)'
  BY TypeStep, HoursStep
<1> QED
  BY <1>1, <1>2, HoursReported, PTL DEF Spec

-----------------------------------------------------------------------------
(***************************************************************************)
(* What is saved.                                                          *)
(***************************************************************************)

\* As long as nothing came in while the flash was written, and the flash was
\* read: only one saver is at work, and what it writes is what there is.
SavingInv ==
    /\ \A p, q \in Savers : ~Idle(p) /\ ~Idle(q) => p = q
    /\ \A p \in Savers : saver[p] = "save" => data[p] = saved /\ (dirty \/ store = saved)
    /\ \A p \in Savers : saver[p] = "settle" => store = saved
    /\ ~AnyBusy => dirty \/ store = saved
    /\ stopped => ~AnyBusy

\* From the shutdown handler's fold on, no age is more than the time since and
\* a fraction of a second.
FlushInv ==
    ~Idle("flush") \/ stopped =>
        \/ since["flush"] = SaveInterval
        \/ \A c \in Channels : on[c] => age[c] < Second + since["flush"]

KeptInv == raced \/ (SavingInv /\ FlushInv)

LEMMA KeptInit == Init => KeptInv
BY DEF Init, KeptInv, SavingInv, FlushInv, Idle, AnyBusy, Savers

\* A switching: recorded as dirty, or while some saver was busy.
LEMMA SwitchKeeps ==
    ASSUME KeptInv, ~stopped, dirty', raced' <=> (raced \/ AnyBusy),
           UNCHANGED <<saver, stopped>>
    PROVE  KeptInv'
BY DEF KeptInv, SavingInv, FlushInv, AnyBusy, Idle, Savers

\* A saver that begins alone, with a snapshot of what there is.
LEMMA BeginKeeps ==
    ASSUME TypeOK, KeptInv, NEW p \in Savers, ~stopped, Idle(p),
           saver' = [saver EXCEPT ![p] = "save"],
           data' = [data EXCEPT ![p] = saved'],
           Busy(p) => raced',
           dirty' \/ (saved' = saved /\ store = saved),
           p = "flush" => \A c \in Channels : on'[c] => age'[c] < Second + since'["flush"],
           UNCHANGED <<stopped, store>>
    PROVE  KeptInv'
<1> SUFFICES ASSUME ~raced' PROVE SavingInv' /\ FlushInv'
  BY DEF KeptInv
<1>1. \A q \in Savers : saver'[q] # "idle" <=> q = p
  BY DEF Busy, Idle, TypeOK
<1>2. saver'[p] = "save" /\ data'[p] = saved'
  BY DEF TypeOK
<1>3. dirty' \/ store' = saved'
  OBVIOUS
<1>4. AnyBusy'
  BY <1>1 DEF AnyBusy, Idle
<1>5. SavingInv'
  BY <1>1, <1>2, <1>3, <1>4 DEF SavingInv, Idle
<1>6. FlushInv'
  BY <1>1 DEF FlushInv, Idle, Savers
<1> QED
  BY <1>5, <1>6

LEMMA KeptStep == TypeOK /\ KeptInv /\ [Next]_vars => KeptInv'
<1> SUFFICES ASSUME TypeOK, KeptInv, [Next]_vars PROVE KeptInv'
  OBVIOUS
<1>1. ASSUME NEW c \in Channels, SwitchedOn(c) \/ SwitchedOff(c) PROVE KeptInv'
  <2>1. ~stopped /\ dirty' /\ (raced' <=> (raced \/ AnyBusy)) /\ UNCHANGED <<saver, stopped>>
    BY <1>1 DEF SwitchedOn, SwitchedOff
  <2> QED
    BY <2>1, SwitchKeeps
<1>2. ASSUME NEW c \in Channels, Reset(c) PROVE KeptInv'
  <2>1. "reset" \in Savers /\ "reset" # "flush"
    BY DEF Savers
  <2>2. /\ ~stopped /\ Idle("reset") /\ dirty' /\ (Busy("reset") => raced')
        /\ saver' = [saver EXCEPT !["reset"] = "save"]
        /\ data' = [data EXCEPT !["reset"] = saved']
        /\ UNCHANGED <<stopped, store>>
    BY <1>2 DEF Reset
  <2> QED
    BY <2>1, <2>2, BeginKeeps
<1>3. CASE Tick
  <2>1. "tick" \in Savers /\ "tick" # "flush"
    BY DEF Savers
  <2>2. CASE dirty'
    <3>1. /\ ~stopped /\ Idle("tick") /\ (Busy("tick") => raced')
          /\ saver' = [saver EXCEPT !["tick"] = "save"]
          /\ data' = [data EXCEPT !["tick"] = saved']
          /\ UNCHANGED <<stopped, store>>
      BY <1>3, <2>2 DEF Tick
    <3> QED
      BY <2>1, <2>2, <3>1, BeginKeeps
  <2>3. CASE ~dirty'
    <3>1. /\ ~dirty /\ Folding(Channels) = {} /\ ~stopped
          /\ UNCHANGED <<data, saver, raced, store, stopped>>
      BY <1>3, <2>3 DEF Tick
    <3>2. saved' = saved
      BY <1>3, <3>1, FoldIsExact DEF Tick
    <3>3. CASE ~Idle("flush")
      <4>1. age' = age /\ on' = on /\ since' = since
        BY <1>3, <3>1 DEF Tick, Folded, TypeOK
      <4> QED
        BY <2>3, <3>1, <3>2, <4>1 DEF KeptInv, SavingInv, FlushInv, AnyBusy, Idle
    <3>4. CASE Idle("flush")
      BY <2>3, <3>1, <3>2, <3>4 DEF KeptInv, SavingInv, FlushInv, AnyBusy, Idle
    <3> QED
      BY <3>3, <3>4
  <2> QED
    BY <2>2, <2>3
<1>4. CASE Flush
  <2>1. CASE raced'
    BY <2>1 DEF KeptInv
  <2>2. CASE ~raced'
    <3>1. /\ ~stopped /\ Idle("flush") /\ ~raced /\ ~Busy("flush")
          /\ saver' = [saver EXCEPT !["flush"] = "save"]
          /\ data' = [data EXCEPT !["flush"] = saved']
          /\ UNCHANGED <<stopped, store, on, since>>
      BY <1>4, <2>2 DEF Flush
    <3>2. dirty \/ store = saved
      BY <3>1 DEF KeptInv, SavingInv, AnyBusy, Busy, Idle
    <3>3. dirty' \/ (saved' = saved /\ store = saved)
      BY <1>4, <3>2, FoldIsExact DEF Flush
    <3>4. \A c \in Channels : on'[c] => age'[c] < Second + since'["flush"]
      <4> SUFFICES ASSUME NEW c \in Channels, on[c] PROVE age'[c] < Second + since["flush"]
        BY <3>1
      <4>1. age'[c] < Second /\ age'[c] \in Nat
        BY <1>4, FoldIsExact DEF Flush
      <4>2. since["flush"] \in Nat
        BY CounterAssumption DEF TypeOK, Savers
      <4> QED
        BY <4>1, <4>2, CounterAssumption
    <3>5. "flush" \in Savers
      BY DEF Savers
    <3> QED
      BY <3>1, <3>3, <3>4, <3>5, BeginKeeps
  <2> QED
    BY <2>1, <2>2
<1>5. ASSUME NEW p \in Savers, Save(p) PROVE KeptInv'
  <2>1. /\ saver[p] = "save" /\ store' = data[p] /\ saver' = [saver EXCEPT ![p] = "settle"]
        /\ UNCHANGED <<on, age, saved, dirty, data, since, stopped, raced>>
    BY <1>5 DEF Save, ramVars
  <2>2. \A q \in Savers : saver'[q] = "idle" <=> saver[q] = "idle"
    BY <2>1 DEF TypeOK
  <2>3. FlushInv => FlushInv'
    BY <2>1, <2>2 DEF FlushInv, Idle, Savers
  <2>4. ASSUME SavingInv PROVE SavingInv'
    <3>1. store' = saved' /\ saved' = saved
      BY <2>1, <2>4 DEF SavingInv
    <3>2. \A q \in Savers : saver[q] # "idle" => q = p
      BY <2>1, <2>4 DEF SavingInv, Idle
    <3>3. \A q \in Savers : saver'[q] # "save"
      BY <2>1, <3>2 DEF TypeOK
    <3>4. AnyBusy' <=> AnyBusy
      BY <2>2 DEF AnyBusy, Idle
    <3> QED
      BY <2>1, <2>2, <2>4, <3>1, <3>3, <3>4 DEF SavingInv, Idle
  <2> QED
    BY <2>1, <2>3, <2>4 DEF KeptInv
<1>6. ASSUME NEW p \in Savers, SaveFails(p) \/ Settle(p) PROVE KeptInv'
  <2>1. CASE raced
    BY <1>6, <2>1 DEF KeptInv, SaveFails, Settle
  <2>2. CASE ~raced
    <3>1. SavingInv /\ FlushInv
      BY <2>2 DEF KeptInv
    <3>2. /\ ~Idle(p) /\ Done(p)
          /\ UNCHANGED <<on, age, saved, store, raced>>
      BY <1>6 DEF SaveFails, Settle, Idle
    <3>3. \A q \in Savers : saver'[q] = "idle"
      BY <3>1, <3>2 DEF SavingInv, Idle, Done, TypeOK
    <3>4. dirty' \/ store' = saved'
      BY <1>6, <3>1 DEF SavingInv, SaveFails, Settle
    <3>5. SavingInv'
      BY <3>3, <3>4 DEF SavingInv, Idle, AnyBusy
    <3>6. FlushInv'
      <4>1. CASE p = "flush"
        BY <3>1, <3>2, <4>1 DEF FlushInv, Done
      <4>2. CASE p # "flush"
        BY <3>2, <3>3, <4>2 DEF FlushInv, Done, Idle, Savers
      <4> QED
        BY <4>1, <4>2
    <3> QED
      BY <3>5, <3>6 DEF KeptInv
  <2> QED
    BY <2>1, <2>2
<1>7. CASE Reboot
  <2>1. \A q \in Savers : saver'[q] = "idle"
    BY <1>7 DEF Reboot
  <2>2. raced' \/ SavingInv'
    <3>1. ~raced' => store' = saved'
      BY <1>7 DEF Reboot
    <3>2. ~AnyBusy' /\ ~stopped'
      BY <1>7, <2>1 DEF Reboot, AnyBusy, Idle
    <3> QED
      BY <2>1, <3>1, <3>2 DEF SavingInv, AnyBusy, Idle
  <2>3. FlushInv'
    BY <1>7, <2>1 DEF Reboot, FlushInv, Idle, Savers
  <2> QED
    BY <2>2, <2>3 DEF KeptInv
<1>8. CASE Elapse
  <2>1. SavingInv => SavingInv'
    BY <1>8 DEF Elapse, SavingInv, AnyBusy, Idle
  <2>2. FlushInv => FlushInv'
    <3>1. CASE Idle("flush")
      BY <1>8, <3>1 DEF Elapse, FlushInv, Idle
    <3>2. CASE ~Idle("flush")
      <4>1. since'["flush"] = Capped(since["flush"]) /\ since["flush"] \in 0 .. SaveInterval
        BY <1>8, <3>2 DEF Elapse, TypeOK, Savers
      <4>2. \A c \in Channels : on'[c] => on[c] /\ age'[c] = age[c] + 1 /\ age[c] \in Nat
        BY <1>8 DEF Elapse, TypeOK
      <4> QED
        BY <3>2, <4>1, <4>2, CounterAssumption DEF FlushInv, Capped
    <3> QED
      BY <3>1, <3>2
  <2> QED
    BY <1>8, <2>1, <2>2 DEF KeptInv, Elapse
<1>9. CASE UNCHANGED vars
  BY <1>9 DEF vars, ramVars, KeptInv, SavingInv, FlushInv, AnyBusy, Idle
<1> QED
  BY <1>1, <1>2, <1>3, <1>4, <1>5, <1>6, <1>7, <1>8, <1>9 DEF Next

\* Once the shutdown handler has returned, the flash is behind what is
\* reported by the time since its snapshot at most.
LEMMA StoppedIsKept == TypeOK /\ KeptInv => CleanRestartKeeps
<1> SUFFICES ASSUME TypeOK, SavingInv, FlushInv, stopped, ~dirty, since["flush"] # SaveInterval,
                    NEW c \in Channels
             PROVE  /\ store[c] = [saved[c] EXCEPT !.runtime = store[c].runtime]
                    /\ store[c].runtime <= Runtime(c)
                    /\ Second * (Runtime(c) - store[c].runtime) < since["flush"] + Second
  BY DEF KeptInv, CleanRestartKeeps
<1>1. store = saved
  BY DEF SavingInv
<1>2. /\ saved[c] \in [cycles : Nat, runtime : Nat, era : Nat] /\ age[c] \in Nat
      /\ since["flush"] \in Nat /\ Second \in Nat \ {0}
  BY CounterAssumption DEF TypeOK, Snapshot, Savers
<1>3. store[c] = [saved[c] EXCEPT !.runtime = store[c].runtime]
  BY <1>1, <1>2
<1>4. PICK q \in Nat : q = age[c] \div Second
  BY <1>2, WholeAndRest
<1>5. Second * q <= age[c]
  <2>1. age[c] % Second = 0 * Second + age[c] - (0 + age[c] \div Second) * Second
    BY <1>2, MovedExactly
  <2> QED
    BY <1>2, <1>4
<1>6. PICK d \in Nat : d = IF on[c] THEN q ELSE 0
  OBVIOUS
<1>7. Runtime(c) = saved[c].runtime + d
  BY <1>4, <1>6 DEF Runtime
<1>8. Second * d < since["flush"] + Second
  <2>1. CASE on[c]
    BY <2>1, <1>2, <1>5, <1>6 DEF FlushInv
  <2>2. CASE ~on[c]
    BY <2>2, <1>2, <1>6
  <2> QED
    BY <2>1, <2>2
<1>9. store[c].runtime <= Runtime(c) /\ Runtime(c) - store[c].runtime = d
  BY <1>1, <1>2, <1>7
<1> QED
  BY <1>3, <1>8, <1>9, Zenon

LEMMA KeptAlways == Spec => [](TypeOK /\ KeptInv)
<1>1. Init => TypeOK /\ KeptInv
  BY TypeInit, KeptInit
<1>2. TypeOK /\ KeptInv /\ [Next]_vars => (TypeOK /\ KeptInv)'
  BY TypeStep, KeptStep
<1> QED
  BY <1>1, <1>2, PTL DEF Spec

\* counters.h:12: what was counted is in the flash, on its way or marked --
\* whichever of the three savers meet, unless a change met one of them or
\* the flash could not be read at start-up.
THEOREM AlwaysSavedOrDirty == Spec => []SavedOrDirty
<1>1. KeptInv => SavedOrDirty
  BY DEF KeptInv, SavingInv, SavedOrDirty
<1> QED
  BY <1>1, KeptAlways, PTL

\* main.c:209: a clean restart keeps what was counted, with those exceptions
\* and failed saves.
THEOREM CleanRestartAlwaysKeeps == Spec => []CleanRestartKeeps
BY KeptAlways, StoppedIsKept, PTL

--------------------------------------------------------------------------------
(***************************************************************************)
(* The inputs themselves (InputSense): the invariant.                      *)
(***************************************************************************)

\* An input has a level since the boot exactly once its first reading counts.
KnownOnceRead == \A i \in Inputs : (pin[i] = "unknown") <=> (~ready \/ i \in late)

\* A boot reading that is still out keeps its override out as well.
LateIsTardy == late \subseteq tardy

\* What a poll, a saved setting, a command and a restart preserve together.
SenseInv ==
    /\ SenseTypeOK
    /\ KnownOnceRead
    /\ LateIsTardy
    /\ ReportsTruth
    /\ FollowsInput

-----------------------------------------------------------------------------
LEMMA DifferMember ==
    ASSUME NEW S, NEW T, NEW x
    PROVE  (x \in Differ(S, T)) <=> ~((x \in S) <=> (x \in T))
  BY DEF Differ

LEMMA DifferSubset ==
    ASSUME NEW U, NEW S \in SUBSET U, NEW T \in SUBSET U
    PROVE  Differ(S, T) \in SUBSET U
  BY DEF Differ

\* A listener that is told of the inputs T only.
LEMMA RetoldSubset ==
    ASSUME NEW U, NEW H \in SUBSET U, NEW S \in SUBSET U, NEW T
    PROVE  Differ(H \ T, S \cap T) \in SUBSET U
  BY DEF Differ

LEMMA RetoldAgrees ==
    ASSUME NEW H, NEW S, NEW T, \A x : x \notin T => (x \in H <=> x \in S)
    PROVE  Differ(H \ T, S \cap T) = S
  BY DEF Differ

LEMMA ConfigsTyped ==
    ASSUME NEW c \in Configs
    PROVE  /\ c.debounce \in 1 .. Debounce
           /\ c.invert \in SUBSET Inputs
           /\ c.source \in [Relays -> Inputs \cup {NoInput}]
           /\ c.toggle \in SUBSET Relays
  BY InputAssumption DEF Config

LEMMA FollowersTyped ==
    ASSUME NEW c \in Configs, NEW S
    PROVE  Followers(c, S) \subseteq Relays /\ Toggled(c, S) \subseteq Relays
  BY ConfigsTyped DEF Followers, Toggled

-----------------------------------------------------------------------------
LEMMA SenseTypeInit == SenseInit => SenseTypeOK
  <1> SUFFICES ASSUME SenseInit PROVE SenseTypeOK
    OBVIOUS
  <1> USE InputAssumption
  <1>1. cfg.invert \in SUBSET Inputs
    BY ConfigsTyped DEF SenseInit
  <1>2. candidate \in SUBSET Inputs
    BY <1>1, DifferSubset DEF SenseInit, ReadInput
  <1>3. 0 \in 0 .. BootTime /\ 0 \in 0 .. Debounce
    BY DEF BootTime
  <1>4. QED
    BY <1>2, <1>3 DEF SenseInit, SenseTypeOK, Levels

LEMMA SampleTyped ==
    ASSUME SenseTypeOK
    PROVE  /\ ReadInput(cfg) \in SUBSET Inputs
           /\ AgeNow \in [Inputs -> 0 .. Debounce]
           /\ Settled \in SUBSET Inputs
  <1> USE InputAssumption DEF SenseTypeOK
  <1>1. ReadInput(cfg) \in SUBSET Inputs
    BY ConfigsTyped, DifferSubset DEF ReadInput
  <1>2. AgeNow \in [Inputs -> 0 .. Debounce]
    BY DEF AgeNow
  <1>3. QED
    BY <1>1, <1>2 DEF Settled

LEMMA OverrideTyped ==
    ASSUME SenseTypeOK, NEW S, NEW up, NEW boot, Override(S, up, boot)
    PROVE  relays' \in SUBSET Relays /\ own' \in SUBSET Relays
  <1> USE DEF SenseTypeOK
  <1> DEFINE pressed  == Toggled(cfg, (S \cap up) \ boot)
             followed == (relays \ Followers(cfg, S \ up)) \cup Followers(cfg, S \cap up)
  <1>1. pressed \in SUBSET Relays /\ followed \in SUBSET Relays
    BY FollowersTyped
  <1>2. Overridden(S, up, boot) = Differ(followed, pressed)
    BY DEF Overridden
  <1> HIDE DEF pressed, followed
  <1>3. Overridden(S, up, boot) \in SUBSET Relays
    BY <1>1, <1>2, DifferSubset
  <1>4. Differ(relays, Overridden(S, up, boot)) \in SUBSET Relays
    BY <1>3, DifferSubset
  <1>5. QED
    BY <1>3, <1>4 DEF Override

LEMMA SenseTypeStep == SenseTypeOK /\ [SenseNext]_senseVars => SenseTypeOK'
  <1> SUFFICES ASSUME SenseTypeOK, [SenseNext]_senseVars
               PROVE  SenseTypeOK'
    OBVIOUS
  <1> USE InputAssumption
  <1> USE DEF SenseTypeOK
  <1>s. cfg.invert \in SUBSET Inputs
    BY ConfigsTyped
  <1>1. CASE PollWaiting
    BY <1>1, SampleTyped DEF PollWaiting, Sample, history
  <1>2. CASE PollFirst
    <2>1. relays' \in SUBSET Relays /\ own' \in SUBSET Relays
      BY <1>2, OverrideTyped DEF PollFirst
    <2>2. pin' \in [Inputs -> Levels]
      BY <1>2 DEF PollFirst, LevelOf, Levels
    <2>3. QED
      BY <1>2, <2>1, <2>2, SampleTyped DEF PollFirst, Sample
  <1>3. CASE PollReady
    <2> DEFINE changed == Settled \cap Differ(ReadInput(cfg), stable)
               now     == Differ(stable, changed)
    <2>1. relays' \in SUBSET Relays /\ own' \in SUBSET Relays
      BY <1>3, OverrideTyped DEF PollReady
    <2>2. pin' \in [Inputs -> Levels]
      BY <1>3 DEF PollReady, LevelOf, Levels
    <2>3. changed \in SUBSET Inputs /\ now \in SUBSET Inputs
      <3>1. changed \in SUBSET Inputs
        BY SampleTyped
      <3> HIDE DEF changed
      <3>2. QED
        BY <3>1, DifferSubset
    <2>4. stable' = now /\ heard' = Differ(heard \ changed, now \cap changed)
      BY <1>3 DEF PollReady
    <2> HIDE DEF changed, now
    <2>5. heard' \in SUBSET Inputs
      BY <2>3, <2>4, RetoldSubset
    <2>6. QED
      BY <1>3, <2>1, <2>2, <2>3, <2>4, <2>5, SampleTyped DEF PollReady, Sample
  <1>4. ASSUME NEW c \in Configs, UpdateConfig(c)
        PROVE  SenseTypeOK'
    <2> DEFINE flipped == Differ(c.invert, cfg.invert)
    <2>1. flipped \in SUBSET Inputs
      BY <1>s, ConfigsTyped, DifferSubset
    <2>2. Followers(c, flipped) \subseteq Relays
      BY FollowersTyped
    <2>3. Differ(candidate, flipped) \in SUBSET Inputs /\ Differ(stable, flipped) \in SUBSET Inputs
      BY <2>1, DifferSubset
    <2>4. \/ heard' = Differ(heard \ flipped, stable' \cap flipped)
          \/ heard' = heard
      BY <1>4 DEF UpdateConfig, Flip
    <2>5. stable' \in SUBSET Inputs /\ candidate' \in SUBSET Inputs
      BY <1>4, <2>3 DEF UpdateConfig, Flip
    <2>6. own' \in SUBSET Relays
      BY <1>4, <2>2 DEF UpdateConfig
    <2> HIDE DEF flipped
    <2>7. heard' \in SUBSET Inputs
      BY <2>4, <2>5 DEF Differ
    <2>8. cfg' = c /\ UNCHANGED <<pins, steady, late, ready, bootAge, relays, pin, tardy>>
      BY <1>4 DEF UpdateConfig
    <2>9. QED
      BY <2>5, <2>6, <2>7, <2>8
  <1>5. CASE PinChange
    BY <1>5 DEF PinChange, stateVars, history
  <1>6. ASSUME NEW r \in Relays, Command(r)
        PROVE  SenseTypeOK'
    <2>1. relays' \in SUBSET Relays
      BY <1>6, DifferSubset DEF Command
    <2>2. QED
      BY <1>6, <2>1 DEF Command, stateVars
  <1>7. CASE SenseElapse
    <2>1. steady' \in [Inputs -> 0 .. Debounce]
      BY <1>7 DEF SenseElapse
    <2>2. bootAge' \in 0 .. BootTime
      BY <1>7 DEF SenseElapse, BootTime
    <2>3. QED
      BY <1>7, <2>1, <2>2 DEF SenseElapse, history
  <1>8. CASE Restart
    <2>1. ReadInput(cfg) \in SUBSET Inputs
      BY SampleTyped
    <2>2. 0 \in 0 .. BootTime /\ 0 \in 0 .. Debounce
      BY DEF BootTime
    <2>3. QED
      BY <1>8, <2>1, <2>2 DEF Restart, Levels
  <1>9. CASE UNCHANGED senseVars
    BY <1>9 DEF senseVars, stateVars, history
  <1>10. QED
    BY <1>1, <1>2, <1>3, <1>4, <1>5, <1>6, <1>7, <1>8, <1>9 DEF SenseNext, Poll, SaveSettings

\* Every variable of the inputs keeps its type, for any inputs, settings and
\* debounce and start-up times.
THEOREM SenseTypeCorrect == SenseSpec => []SenseTypeOK
  BY SenseTypeInit, SenseTypeStep, PTL DEF SenseSpec

-----------------------------------------------------------------------------
(***************************************************************************)
(* The readings: a poll takes over exactly the settled inputs.             *)
(***************************************************************************)
LEMMA ReadingOf ==
    ASSUME NEW i \in Inputs, SenseTypeOK
    PROVE  /\ (i \in ReadInput(cfg)) <=> ~((i \in pins) <=> (i \in cfg.invert))
           /\ (LevelOf(i) = "high") <=> (i \in pins)
           /\ LevelOf(i) # "unknown"
  BY DifferMember DEF ReadInput, LevelOf

\* ReportsTruth with the comparison of truth values as an equivalence.
LEMMA TruthMeans ==
    ReportsTruth <=>
        (ready => /\ heard = stable
                  /\ \A i \in Inputs \ late :
                        (i \in stable) <=> ~((pin[i] = "high") <=> (i \in cfg.invert)))
  <1>1. ASSUME NEW i \in Inputs
        PROVE  ((i \in stable) = ((pin[i] = "high") # (i \in cfg.invert)))
               <=> ((i \in stable) <=> ~((pin[i] = "high") <=> (i \in cfg.invert)))
    OBVIOUS
  <1>2. QED
    BY <1>1, Zenon DEF ReportsTruth

LEMMA SenseInvInit == SenseInit => SenseInv
  BY SenseTypeInit DEF SenseInit, SenseInv, KnownOnceRead, LateIsTardy, ReportsTruth, FollowsInput

\* FollowsInput, relay by relay.
LEMMA FollowsMeans ==
    FollowsInput <=>
        (ready => \A r \in Relays :
                     /\ r \notin cfg.toggle
                     /\ cfg.source[r] \in Inputs \ (late \cup tardy)
                     => r \in own \/ ((r \in relays) <=> (cfg.source[r] \in stable)))
  BY DEF FollowsInput, Followers, Obeys

\* What an override does to a relay: one that follows an input of S is set,
\* one that is linked to none of them is left alone.
LEMMA OverriddenMember ==
    ASSUME NEW S, NEW up, NEW boot, NEW r \in Relays
    PROVE  /\ r \notin cfg.toggle /\ cfg.source[r] \in S
              => (r \in Overridden(S, up, boot) <=> cfg.source[r] \in up)
           /\ cfg.source[r] \notin S
              => (r \in Overridden(S, up, boot) <=> r \in relays)
           /\ r \in cfg.toggle /\ cfg.source[r] \in boot
              => (r \in Overridden(S, up, boot) <=> r \in relays)
  <1>1. (r \in Overridden(S, up, boot)) <=>
            ~((r \in (relays \ Followers(cfg, S \ up)) \cup Followers(cfg, S \cap up))
              <=> (r \in Toggled(cfg, (S \cap up) \ boot)))
    BY DEF Overridden, Differ
  <1>2. QED
    BY <1>1 DEF Followers, Toggled

\* What becomes of it: the override switches it, or it keeps its state and is
\* counted among the relays that do not follow.
LEMMA OverrideMember ==
    ASSUME NEW S, NEW up, NEW boot, Override(S, up, boot)
    PROVE  /\ own \ Followers(cfg, S) \subseteq own'
           /\ \A r : \/ (r \in relays' <=> r \in Overridden(S, up, boot))
                    \/ /\ r \in relays' <=> r \in relays
                       /\ r \in Followers(cfg, S) => r \in own'
           /\ Differ(relays, relays') \subseteq Differ(relays, Overridden(S, up, boot))
  <1>1. PICK refused \in SUBSET Differ(relays, Overridden(S, up, boot)) :
            /\ relays' = (Overridden(S, up, boot) \ refused) \cup (relays \cap refused)
            /\ own' = (own \ Followers(cfg, S)) \cup (refused \cap Followers(cfg, S))
    BY DEF Override
  <1>2. QED
    BY <1>1 DEF Differ

\* A relay that no link names is never overridden.
LEMMA OverriddenRelays ==
    ASSUME SenseTypeOK, NEW S, NEW up, NEW boot, NEW r \in Differ(relays, Overridden(S, up, boot))
    PROVE  r \in Relays
  <1>1. ~((r \in relays) <=> (r \in Overridden(S, up, boot)))
    BY DifferMember
  <1>2. (r \in Overridden(S, up, boot)) <=>
            ~((r \in (relays \ Followers(cfg, S \ up)) \cup Followers(cfg, S \cap up))
              <=> (r \in Toggled(cfg, (S \cap up) \ boot)))
    BY DEF Overridden, Differ
  <1>3. QED
    BY <1>1, <1>2, FollowersTyped DEF SenseTypeOK

LEMMA PollFirstInv ==
    ASSUME SenseInv, SenseTypeOK', PollFirst
    PROVE  SenseInv'
  <1> DEFINE first == Settled \cap ReadInput(cfg)
  <1>0. Settled \in SUBSET Inputs
    BY SampleTyped DEF SenseInv
  <1>1. /\ ready' = TRUE /\ cfg' = cfg /\ stable' = first /\ heard' = first
        /\ late' = Inputs \ Settled /\ tardy' = Inputs \ Settled
        /\ pin' = [i \in Inputs |-> IF i \in Settled THEN LevelOf(i) ELSE "unknown"]
        /\ Override(Settled, first, Settled)
    BY DEF PollFirst, Sample
  <1>2. KnownOnceRead' /\ LateIsTardy'
    BY <1>1, ReadingOf DEF SenseInv, KnownOnceRead, LateIsTardy
  <1>3. ReportsTruth'
    <2>1. ASSUME NEW i \in Settled
          PROVE  (i \in first) <=> ~((pin'[i] = "high") <=> (i \in cfg.invert))
      BY <1>0, <1>1, ReadingOf DEF SenseInv
    <2>2. ASSUME NEW i \in Settled
          PROVE  (i \in first) = ((pin'[i] = "high") # (i \in cfg.invert))
      BY <2>1
    <2>3. QED
      BY <1>0, <1>1, <2>2 DEF ReportsTruth
  <1>4. FollowsInput'
    <2> SUFFICES ASSUME NEW r \in Relays, r \notin cfg.toggle, cfg.source[r] \in Settled,
                        r \notin own'
                 PROVE  (r \in relays') = (cfg.source[r] \in stable')
      BY <1>0, <1>1 DEF FollowsInput, Followers, Obeys
    <2>1. r \in Overridden(Settled, first, Settled) <=> cfg.source[r] \in first
      BY OverriddenMember
    <2>2. r \in relays' <=> r \in Overridden(Settled, first, Settled)
      BY <1>1, OverrideMember DEF Followers
    <2>3. QED
      BY <1>1, <2>1, <2>2
  <1>5. QED
    BY <1>2, <1>3, <1>4 DEF SenseInv

LEMMA PollReadyInv ==
    ASSUME SenseInv, SenseTypeOK', PollReady
    PROVE  SenseInv'
  <1> DEFINE changed == Settled \cap Differ(ReadInput(cfg), stable)
             boot    == late \cap Settled
             now     == Differ(stable, changed)
  <1>0. Settled \in SUBSET Inputs
    BY SampleTyped DEF SenseInv
  <1>1. /\ ready /\ ready' = ready /\ cfg' = cfg /\ stable' = now
        /\ heard' = Differ(heard \ changed, now \cap changed)
        /\ late' = late \ Settled /\ tardy' = tardy \ changed
        /\ pin' = [i \in Inputs |-> IF i \in Settled THEN LevelOf(i) ELSE pin[i]]
        /\ Override(changed, now, boot)
    BY DEF PollReady, Sample
  <1>2. ASSUME NEW i
        PROVE  /\ (i \in changed) <=> (i \in Settled /\ ~((i \in ReadInput(cfg)) <=> (i \in stable)))
               /\ (i \in now) <=> (IF i \in Settled THEN i \in ReadInput(cfg) ELSE i \in stable)
    BY DEF Differ
  <1> HIDE DEF changed, now
  <1>3. KnownOnceRead'
    BY <1>0, <1>1, ReadingOf DEF SenseInv, KnownOnceRead
  <1>4. LateIsTardy'
    BY <1>1, <1>2 DEF SenseInv, LateIsTardy
  <1>5. heard' = stable'
    <2>1. heard = stable
      BY <1>1 DEF SenseInv, ReportsTruth
    <2>2. \A x : x \notin changed => (x \in heard <=> x \in now)
      BY <1>2, <2>1
    <2>3. QED
      BY <1>1, <2>2, RetoldAgrees
  <1>6. ReportsTruth'
    <2>1. ASSUME NEW i \in Inputs \ late'
          PROVE  (i \in now) <=> ~((pin'[i] = "high") <=> (i \in cfg.invert))
      <3>1. CASE i \in Settled
        BY <1>1, <1>2, <3>1, ReadingOf DEF SenseInv
      <3>2. CASE i \notin Settled
        <4>1. (i \in stable) <=> ~((pin[i] = "high") <=> (i \in cfg.invert))
          BY <1>1, <3>2, TruthMeans DEF SenseInv
        <4>2. QED
          BY <1>1, <1>2, <3>2, <4>1
      <3>3. QED
        BY <3>1, <3>2
    <2>2. ASSUME NEW i \in Inputs \ late'
          PROVE  (i \in now) = ((pin'[i] = "high") # (i \in cfg.invert))
      BY <2>1
    <2>3. QED
      BY <1>1, <1>5, <2>2 DEF ReportsTruth
  <1>7. FollowsInput'
    <2> SUFFICES ASSUME NEW r \in Relays, r \notin cfg.toggle,
                        cfg.source[r] \in Inputs \ (late' \cup tardy'), r \notin own'
                 PROVE  (r \in relays') = (cfg.source[r] \in stable')
      BY <1>1 DEF FollowsInput, Followers, Obeys
    <2>1. CASE cfg.source[r] \in changed
      <3>1. r \in Overridden(changed, now, boot) <=> cfg.source[r] \in now
        BY <2>1, OverriddenMember
      <3>2. r \in relays' <=> r \in Overridden(changed, now, boot)
        BY <1>1, <2>1, OverrideMember DEF Followers
      <3>3. QED
        BY <1>1, <3>1, <3>2
    <2>2. CASE cfg.source[r] \notin changed
      <3>1. r \in Overridden(changed, now, boot) <=> r \in relays
        BY <2>2, OverriddenMember
      <3>2. r \notin own /\ cfg.source[r] \notin late \cup tardy
        BY <1>1, <2>2, OverrideMember DEF SenseInv, LateIsTardy, Followers
      <3>3. r \in relays <=> cfg.source[r] \in stable
        BY <1>1, <3>2, FollowsMeans DEF SenseInv
      <3>4. r \in relays' <=> r \in relays
        BY <1>1, <3>1, OverrideMember
      <3>5. QED
        BY <1>1, <1>2, <2>2, <3>3, <3>4
    <2>3. QED
      BY <2>1, <2>2
  <1>8. QED
    BY <1>3, <1>4, <1>6, <1>7 DEF SenseInv

LEMMA UpdateConfigInv ==
    ASSUME SenseInv, SenseTypeOK', NEW c \in Configs, UpdateConfig(c)
    PROVE  SenseInv'
  <1> DEFINE flipped  == Differ(c.invert, cfg.invert)
             relinked == {r \in Relays : \/ c.source[r] # cfg.source[r]
                                         \/ (r \in c.toggle) # (r \in cfg.toggle)}
  <1>1. /\ cfg' = c /\ own' = own \cup relinked \cup Followers(c, flipped)
        /\ UNCHANGED <<late, ready, relays, pin, tardy>>
    BY DEF UpdateConfig
  <1>2. IF ready
        THEN /\ stable' = Differ(stable, flipped)
             /\ heard' = Differ(heard \ flipped, stable' \cap flipped)
        ELSE UNCHANGED <<stable, heard>>
    BY DEF UpdateConfig, Flip
  <1>3. ASSUME NEW i
        PROVE  /\ (i \in flipped) <=> ~((i \in c.invert) <=> (i \in cfg.invert))
               /\ ready => ((i \in stable') <=> ~((i \in stable) <=> (i \in flipped)))
    BY <1>2, DifferMember
  <1>4. \A r \in Relays : r \in relinked \/ (c.source[r] = cfg.source[r] /\ (r \in c.toggle <=> r \in cfg.toggle))
    OBVIOUS
  <1> HIDE DEF flipped, relinked
  <1>5. KnownOnceRead' /\ LateIsTardy'
    BY <1>1 DEF SenseInv, KnownOnceRead, LateIsTardy
  <1>6. ready => heard' = stable'
    <2> SUFFICES ASSUME ready PROVE heard' = stable'
      OBVIOUS
    <2>1. heard = stable
      BY DEF SenseInv, ReportsTruth
    <2>2. \A x : x \notin flipped => (x \in heard <=> x \in stable')
      BY <1>3, <2>1
    <2>3. QED
      BY <1>2, <2>2, RetoldAgrees
  <1>7. ReportsTruth'
    <2> SUFFICES ASSUME ready, NEW i \in Inputs \ late
                 PROVE  (i \in stable') = ((pin[i] = "high") # (i \in c.invert))
      BY <1>1, <1>6 DEF ReportsTruth
    <2>1. (i \in stable) <=> ~((pin[i] = "high") <=> (i \in cfg.invert))
      BY TruthMeans DEF SenseInv
    <2>2. (i \in stable') <=> ~((pin[i] = "high") <=> (i \in c.invert))
      BY <1>3, <2>1
    <2>3. QED
      BY <2>2
  <1>8. FollowsInput'
    <2> SUFFICES ASSUME ready, NEW r \in Relays, r \notin c.toggle,
                        c.source[r] \in Inputs \ (late \cup tardy), r \notin own'
                 PROVE  (r \in relays) = (c.source[r] \in stable')
      BY <1>1 DEF FollowsInput, Followers, Obeys
    <2>1. r \notin own /\ r \notin relinked /\ c.source[r] \notin flipped
      BY <1>1 DEF Followers
    <2>2. c.source[r] = cfg.source[r] /\ r \notin cfg.toggle
      BY <1>4, <2>1
    <2>3. r \in relays <=> cfg.source[r] \in stable
      BY <2>1, <2>2, FollowsMeans DEF SenseInv
    <2>4. QED
      BY <1>3, <2>1, <2>2, <2>3
  <1>9. QED
    BY <1>5, <1>7, <1>8 DEF SenseInv

LEMMA SenseInvStep == SenseInv /\ [SenseNext]_senseVars => SenseInv'
  <1> SUFFICES ASSUME SenseInv, [SenseNext]_senseVars
               PROVE  SenseInv'
    OBVIOUS
  <1>0. SenseTypeOK'
    BY SenseTypeStep DEF SenseInv
  <1> USE <1>0 DEF SenseInv, KnownOnceRead, LateIsTardy, ReportsTruth, FollowsInput, Followers, Obeys
  <1>1. CASE PollWaiting
    BY <1>1 DEF PollWaiting, Sample, history
  <1>2. CASE PollFirst
    BY <1>0, <1>2, PollFirstInv
  <1>3. CASE PollReady
    BY <1>0, <1>3, PollReadyInv
  <1>4. ASSUME NEW c \in Configs, UpdateConfig(c)
        PROVE  SenseInv'
    BY <1>0, <1>4, UpdateConfigInv
  <1>5. CASE PinChange
    BY <1>5 DEF PinChange, stateVars, history
  <1>6. ASSUME NEW r \in Relays, Command(r)
        PROVE  SenseInv'
    BY <1>6 DEF Command, stateVars, Differ
  <1>7. CASE SenseElapse
    BY <1>7 DEF SenseElapse, history
  <1>8. CASE Restart
    BY <1>8 DEF Restart, SenseTypeOK
  <1>9. CASE UNCHANGED senseVars
    BY <1>9 DEF senseVars, stateVars, history
  <1>10. QED
    BY <1>1, <1>2, <1>3, <1>4, <1>5, <1>6, <1>7, <1>8, <1>9 DEF SenseNext, Poll, SaveSettings

\* An input has a level since the boot exactly from its first reading on, and
\* what is known of it and its relay follows from that level.
THEOREM SenseInvariant == SenseSpec => []SenseInv
  BY SenseInvInit, SenseInvStep, PTL DEF SenseSpec

\* What SignalK, the counters and the indicator were last told of an input,
\* what is reported of it and the level its pin settled at agree: through
\* polls, edits of `invert` at any moment and restarts, whatever the other
\* inputs do.
THEOREM ReportsTruthHolds == SenseSpec => []ReportsTruth
  BY SenseInvariant, PTL DEF SenseInv

\* A relay that follows an input is in its state, unless something else has
\* commanded or re-linked it since the input last changed, or the override
\* that change called for failed or was put off.
THEOREM FollowsInputHolds == SenseSpec => []FollowsInput
  BY SenseInvariant, PTL DEF SenseInv

-----------------------------------------------------------------------------
(***************************************************************************)
(* What switches a relay.                                                  *)
(***************************************************************************)
LEMMA RealChange ==
    ASSUME SenseInv, Poll, NEW r \in Differ(relays, relays')
    PROVE  /\ pin'[cfg.source[r]] # pin[cfg.source[r]]
           /\ r \in cfg.toggle => pin[cfg.source[r]] # "unknown"
  <1> DEFINE i == cfg.source[r]
  <1>0. Settled \in SUBSET Inputs
    BY SampleTyped DEF SenseInv
  <1>1. CASE PollWaiting
    BY <1>1 DEF PollWaiting, Differ
  <1>2. CASE PollFirst
    <2> DEFINE first == Settled \cap ReadInput(cfg)
    <2>1. /\ ~ready /\ Override(Settled, first, Settled)
          /\ pin' = [j \in Inputs |-> IF j \in Settled THEN LevelOf(j) ELSE "unknown"]
      BY <1>2 DEF PollFirst
    <2>2. r \in Differ(relays, Overridden(Settled, first, Settled))
      BY <2>1, OverrideMember
    <2>3. r \in Relays
      BY <2>2, OverriddenRelays DEF SenseInv
    <2>4. ~(r \in relays <=> r \in Overridden(Settled, first, Settled))
      BY <2>2, DifferMember
    <2>5. i \in Settled /\ r \notin cfg.toggle
      BY <2>3, <2>4, OverriddenMember
    <2>6. pin[i] = "unknown" /\ pin'[i] # "unknown"
      BY <1>0, <2>1, <2>5, ReadingOf DEF SenseInv, KnownOnceRead
    <2>7. QED
      BY <2>5, <2>6
  <1>3. CASE PollReady
    <2> DEFINE changed == Settled \cap Differ(ReadInput(cfg), stable)
               boot    == late \cap Settled
               now     == Differ(stable, changed)
    <2>1. /\ ready /\ Override(changed, now, boot)
          /\ pin' = [j \in Inputs |-> IF j \in Settled THEN LevelOf(j) ELSE pin[j]]
      BY <1>3 DEF PollReady
    <2>2. r \in Differ(relays, Overridden(changed, now, boot))
      BY <2>1, OverrideMember
    <2>3. r \in Relays
      BY <2>2, OverriddenRelays DEF SenseInv
    <2>4. ~(r \in relays <=> r \in Overridden(changed, now, boot))
      BY <2>2, DifferMember
    <2>5. i \in changed /\ (r \in cfg.toggle => i \notin boot)
      BY <2>3, <2>4, OverriddenMember
    <2>6. i \in Settled /\ ~(i \in ReadInput(cfg) <=> i \in stable)
      BY <2>5 DEF Differ
    <2>7. i \in Inputs
      BY <1>0, <2>6
    <2>8. pin'[i] = LevelOf(i)
      BY <2>1, <2>6, <2>7
    <2>9. CASE i \in late
      <3>1. pin[i] = "unknown"
        BY <2>7, <2>9 DEF SenseInv, KnownOnceRead
      <3>2. QED
        BY <2>5, <2>6, <2>7, <2>8, <2>9, <3>1, ReadingOf DEF SenseInv
    <2>10. CASE i \notin late
      <3>1. pin[i] # "unknown"
        BY <2>1, <2>7, <2>10 DEF SenseInv, KnownOnceRead
      <3>2. (i \in stable) <=> ~((pin[i] = "high") <=> (i \in cfg.invert))
        BY <2>1, <2>7, <2>10, TruthMeans DEF SenseInv
      <3>3. ~((pin'[i] = "high") <=> (pin[i] = "high"))
        BY <2>6, <2>7, <2>8, <3>2, ReadingOf DEF SenseInv
      <3>4. QED
        BY <3>1, <3>3
    <2>11. QED
      BY <2>9, <2>10
  <1>4. QED
    BY <1>1, <1>2, <1>3 DEF Poll

\* A poll switches a relay only for a pin that settled at another level than
\* before, and a toggle link never for a boot reading: neither a save nor
\* what a save leaves for a later poll switches anything.
THEOREM OnlyRealChangesHolds == SenseSpec => OnlyRealChanges
  <1>1. SenseInv /\ Poll =>
            \A r \in Differ(relays, relays') :
                LET i == cfg.source[r] IN
                /\ pin'[i] # pin[i]
                /\ r \in cfg.toggle => pin[i] # "unknown"
    BY RealChange
  <1>2. QED
    BY <1>1, SenseInvariant, PTL DEF OnlyRealChanges, SenseSpec

================================================================================
