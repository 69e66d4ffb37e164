----------------------------- MODULE IoLoopProofs -----------------------------
(***************************************************************************)
(* Proofs about IoLoop: types, with the soundness of the interlock pairs,  *)
(* and that a setting saved after start-up is never missed.                *)
(***************************************************************************)
EXTENDS IoLoop, TLAPS

LEMMA NamesAre ==
    /\ Names = {"relay_ctrl", "input_sense", "sk_bridge", "n2k_bridge", "indicator", "web_ui"}
    /\ \A k \in 1 .. 6 : Name(k) \in Names
<1>1. \A k \in 1 .. 6 : Name(k) \in Names
  BY DEF Name, Names
<1>2. /\ Consumers[1] = "relay_ctrl" /\ Consumers[2] = "input_sense" /\ Consumers[3] = "sk_bridge"
      /\ Consumers[4] = "n2k_bridge" /\ Consumers[5] = "indicator" /\ Consumers[6] = "web_ui"
  BY DEF Consumers
<1>3. Names = {Consumers[1], Consumers[2], Consumers[3], Consumers[4], Consumers[5], Consumers[6]}
  <2>1. 1 .. 6 = {1, 2, 3, 4, 5, 6}
    OBVIOUS
  <2> QED  BY <2>1 DEF Names
<1> QED  BY <1>1, <1>2, <1>3

LEMMA NoneIsSound == None \in Raw /\ None \in Pairs
BY IoAssumption DEF None, Raw, Pairs, Relays

\* Whatever was saved or read, the effective pairs name each other.
THEOREM EffectiveIsSound == \A raw \in Raw : Effective(raw) \in Pairs
<1> SUFFICES ASSUME NEW raw \in Raw PROVE Effective(raw) \in Pairs
  OBVIOUS
<1>1. \A i \in Relays : Effective(raw)[i] = IF Reciprocated(raw, i) THEN raw[i] ELSE 0
  BY DEF Effective
<1>2. Effective(raw) \in Raw
  BY IoAssumption DEF Effective, Raw, Relays
<1>3. ASSUME NEW i \in Relays, Effective(raw)[i] # 0
      PROVE  LET j == Effective(raw)[i] IN j # i /\ Effective(raw)[j] = i
  <2>1. Reciprocated(raw, i) /\ Effective(raw)[i] = raw[i]
    BY <1>1, <1>3
  <2>2. raw[i] \in Relays /\ raw[i] # i /\ raw[raw[i]] = i
    BY <2>1 DEF Reciprocated
  <2>3. Reciprocated(raw, raw[i])
    BY <2>2 DEF Reciprocated
  <2> QED  BY <1>1, <2>1, <2>2, <2>3
<1> QED  BY <1>2, <1>3 DEF Pairs

(***************************************************************************)
(* Types.                                                                  *)
(***************************************************************************)
LEMMA InitTyped == Init => TypeOK
<1> SUFFICES ASSUME Init PROVE TypeOK
  OBVIOUS
<1>1. stored \in Raw /\ used \in [Names -> Pairs]
  BY IoAssumption, NoneIsSound DEF Init
<1> QED  BY <1>1, NoneIsSound DEF Init, TypeOK

LEMMA RestartTyped == TypeOK /\ Restart => TypeOK'
<1> SUFFICES ASSUME TypeOK, Restart PROVE TypeOK'
  OBVIOUS
<1>1. used' \in [Names -> Pairs]
  BY NoneIsSound DEF Restart
<1> QED  BY <1>1, NoneIsSound DEF Restart, TypeOK

LEMMA StepTyped == TypeOK /\ [Next]_vars => TypeOK'
<1> SUFFICES ASSUME TypeOK, [Next]_vars PROVE TypeOK'
  OBVIOUS
<1> USE DEF settingVars, mainVars, ioVars
<1>1. ASSUME NEW raw \in Edits, Save(raw) PROVE TypeOK'
  BY <1>1, IoAssumption DEF Save, TypeOK
<1>2. ASSUME NEW i \in Relays, SaveKey(i) PROVE TypeOK'
  <2>1. stored' \in Raw
    BY <1>2 DEF SaveKey, TypeOK, Raw
  <2>2. notified' \in BOOLEAN /\ raced' \in BOOLEAN
    BY <1>2 DEF SaveKey, TypeOK, Notified
  <2> QED  BY <1>2, <2>1, <2>2 DEF SaveKey, TypeOK
<1>3. CASE StartIo
  <2>1. used' \in [Names -> Pairs]
    BY <1>3, NoneIsSound, EffectiveIsSound DEF StartIo, TypeOK
  <2> QED  BY <1>3, <2>1 DEF StartIo, TypeOK
<1>4. CASE Subscribe
  BY <1>4 DEF Subscribe, TypeOK, Invalid, Late
<1>5. ASSUME NEW c \in Late, Start(c) PROVE TypeOK'
  <2>1. used' \in [Names -> Pairs]
    BY <1>5, EffectiveIsSound DEF Start, TypeOK
  <2>2. After(c) \in {"done"} \cup Late
    BY DEF After, Late
  <2>3. boot' \in Raw
    BY <1>5, NoneIsSound DEF Start, TypeOK
  <2> QED  BY <1>5, <2>1, <2>2, <2>3 DEF Start, TypeOK
<1>6. CASE Wake
  <2>1. 1 \in Relays
    BY IoAssumption DEF Relays
  <2>2. CASE notified
    <3>1. io' = "load" /\ at' = 1 /\ cfg' = None /\ notified' = FALSE
      BY <1>6, <2>2 DEF Wake
    <3>2. UNCHANGED <<stored, target, raced, main, boot, used, warned, holdSaved, restarting>>
      BY <1>6 DEF Wake
    <3> QED  BY <2>1, <3>1, <3>2, NoneIsSound DEF TypeOK
  <2>3. CASE ~notified
    BY <1>6, <2>3 DEF Wake, TypeOK
  <2> QED  BY <2>2, <2>3
<1>7. CASE LoadKey
  <2>1. cfg' \in Raw
    BY <1>7 DEF LoadKey, TypeOK, Raw
  <2>2. at' \in Nat /\ io' \in {"load", "report"} /\ (io' = "load" => at' \in Relays)
    BY <1>7, IoAssumption DEF LoadKey, TypeOK, Relays
  <2> QED  BY <1>7, <2>1, <2>2 DEF LoadKey, TypeOK
<1>8. CASE ReportHealth
  BY <1>8 DEF ReportHealth, TypeOK, Invalid
<1>9. CASE UpdateConfig
  <2>1. used' \in [Names -> Pairs]
    BY <1>9, NamesAre, EffectiveIsSound DEF UpdateConfig, TypeOK
  <2>2. at' \in Nat /\ io' \in {"update", "tick"} /\ (io' = "update" => at' \in 1 .. 6)
    BY <1>9 DEF UpdateConfig, TypeOK
  <2> QED  BY <1>9, <2>1, <2>2 DEF UpdateConfig, TypeOK
<1>10. CASE Tick
  BY <1>10 DEF Tick, TypeOK
<1>11. CASE PollButton \/ ReopenPortal
  BY <1>11 DEF PollButton, ReopenPortal, TypeOK
<1>12. CASE FactoryReset
  BY <1>12, NoneIsSound DEF FactoryReset, TypeOK
<1>13. CASE Stall
  BY <1>13, NoneIsSound DEF Stall, TypeOK
<1>14. CASE RestartDue \/ Supervise \/ PowerCycle
  BY <1>14, RestartTyped DEF RestartDue, Supervise, PowerCycle
<1>15. CASE UNCHANGED vars
  BY <1>15 DEF vars, TypeOK
<1> QED
  BY <1>1, <1>2, <1>3, <1>4, <1>5, <1>6, <1>7, <1>8, <1>9, <1>10, <1>11, <1>12, <1>13,
     <1>14, <1>15 DEF Next, MainStep, IoStep

\* Types hold at all times; in particular no component ever works with a pair
\* that is not one, whatever is read in the middle of a save.
THEOREM IoTypeCorrect == Spec => []TypeOK
BY InitTyped, StepTyped, PTL DEF Spec

(***************************************************************************)
(* No save is missed.  While app_main starts the components and nobody has *)
(* saved, each runs with what is in the flash; afterwards, unless a new    *)
(* notification waits, what io_task has loaded and handed out so far is    *)
(* what is in the flash.                                                   *)
(***************************************************************************)
Loading  == \A r \in Relays : r < at => cfg[r] = stored[r]
Updating == /\ cfg = stored
            /\ warned = Invalid(stored)
            /\ \A k \in 1 .. 6 : k < at => used[Name(k)] = Effective(stored)

\* The components app_main has started when it is at m, and those before it.
Up(m) == (Names \ Late) \cup CASE m = "n2k_bridge" -> {"sk_bridge"}
                              [] m = "web_ui"     -> {"sk_bridge", "n2k_bridge"}
                              [] m = "indicator"  -> {"sk_bridge", "n2k_bridge", "web_ui"}
                              [] OTHER            -> {}

NotYetLoaded == main = "load" => io = "off" /\ target = stored /\ ~notified /\ ~raced

StartingUp ==
    main \notin {"load", "done"} /\ ~raced /\ restarting = "no" =>
        /\ boot = stored
        /\ ~notified
        /\ io \in {"wait", "tick", "button", "stalled"}
        /\ io # "stalled" => cfg = stored
        /\ main # "subscribe" => warned = Invalid(stored)
        /\ \A c \in Up(main) : used[c] = Effective(stored)

Running ==
    main = "done" /\ ~raced /\ restarting = "no" /\ ~notified =>
        /\ io # "off"
        /\ io = "load"   => Loading
        /\ io = "report" => cfg = stored
        /\ io = "update" => Updating
        /\ io \in {"wait", "tick", "button"} => InUse

SaveInv == TypeOK /\ NotYetLoaded /\ StartingUp /\ Running

LEMMA SaveInvInit == Init => SaveInv
BY InitTyped DEF Init, SaveInv, NotYetLoaded, StartingUp, Running

LEMMA SaveInvStep == SaveInv /\ [Next]_vars => SaveInv'
<1> SUFFICES ASSUME SaveInv, [Next]_vars
             PROVE  NotYetLoaded' /\ StartingUp' /\ Running'
  BY StepTyped DEF SaveInv
<1>0. TypeOK /\ NotYetLoaded /\ StartingUp /\ Running
  BY DEF SaveInv
<1> USE DEF settingVars, mainVars, ioVars
<1>1. ASSUME NEW raw \in Edits, Save(raw) PROVE NotYetLoaded' /\ StartingUp' /\ Running'
  BY <1>0, <1>1 DEF Save, NotYetLoaded, StartingUp, Running, Loading, Updating, InUse
<1>2. ASSUME NEW i \in Relays, SaveKey(i) PROVE NotYetLoaded' /\ StartingUp' /\ Running'
  BY <1>0, <1>2 DEF SaveKey, Notified, NotYetLoaded, StartingUp, Running
<1>3. CASE StartIo
  BY <1>0, <1>3 DEF StartIo, NotYetLoaded, StartingUp, Running, Up
<1>4. CASE Subscribe
  BY <1>0, <1>4 DEF Subscribe, NotYetLoaded, StartingUp, Running, Up
<1>5. ASSUME NEW c \in Late, Start(c) PROVE NotYetLoaded' /\ StartingUp' /\ Running'
  <2>1. UNCHANGED <<stored, target, raced, notified, io, at, cfg, warned, restarting>>
    BY <1>5 DEF Start
  <2>2. main = c /\ main' = After(c) /\ c \in Names
    BY <1>5, NamesAre DEF Start, Late
  <2>3. used'[c] = Effective(boot) /\ \A d \in Names \ {c} : used'[d] = used[d]
    BY <1>0, <1>5, <2>2 DEF Start, TypeOK
  <2>4. NotYetLoaded'
    BY <2>2 DEF NotYetLoaded, After, Late
  <2>5. CASE raced \/ restarting # "no"
    BY <2>1, <2>4, <2>5 DEF StartingUp, Running
  <2>6. CASE ~raced /\ restarting = "no"
    <3>1. /\ boot = stored /\ ~notified /\ warned = Invalid(stored)
          /\ io \in {"wait", "tick", "button", "stalled"}
          /\ io # "stalled" => cfg = stored
          /\ \A d \in Up(c) : used[d] = Effective(stored)
      BY <1>0, <2>2, <2>6 DEF StartingUp, Late
    <3>2. \A d \in Up(c) \cup {c} : used'[d] = Effective(stored)
      BY <2>2, <2>3, <3>1, NamesAre DEF Up, Late
    <3>3. CASE c = "indicator"
      <4>1. Up(c) \cup {c} = Names
        BY <3>3, NamesAre DEF Up, Late
      <4>2. main' = "done"
        BY <2>2, <3>3 DEF After
      <4> QED  BY <2>1, <2>4, <3>1, <3>2, <4>1, <4>2 DEF StartingUp, Running, InUse
    <3>4. CASE c # "indicator"
      <4>1. Up(main') = Up(c) \cup {c} /\ main' \notin {"load", "done"}
        BY <2>2, <3>4 DEF Up, After, Late
      <4>2. boot' = boot
        BY <1>5, <2>2, <4>1 DEF Start
      <4> QED  BY <2>1, <2>4, <3>1, <3>2, <4>1, <4>2 DEF StartingUp, Running
    <3> QED  BY <3>3, <3>4
  <2> QED  BY <2>5, <2>6
<1>6. CASE Wake
  <2>1. CASE notified
    BY <1>0, <1>6, <2>1 DEF Wake, NotYetLoaded, StartingUp, Running, Loading, Relays
  <2>2. CASE ~notified
    BY <1>0, <1>6, <2>2 DEF Wake, NotYetLoaded, StartingUp, Running, InUse
  <2> QED  BY <2>1, <2>2
<1>7. CASE LoadKey
  <2>1. /\ UNCHANGED <<stored, target, raced, notified, main, boot, used, warned, restarting>>
        /\ io = "load" /\ io' \in {"load", "report"}
    BY <1>7 DEF LoadKey
  <2>2. NotYetLoaded' /\ StartingUp'
    BY <1>0, <2>1 DEF NotYetLoaded, StartingUp
  <2>3. ASSUME Loading PROVE \A r \in Relays : r <= at => cfg'[r] = stored[r]
    <3>1. at \in Relays /\ cfg \in Raw
      BY <1>0, <2>1 DEF TypeOK
    <3> QED  BY <1>7, <2>3, <3>1, IoAssumption DEF LoadKey, Loading, Raw, Relays
  <2>4. CASE at = RelayCount
    <3>1. Loading => cfg' = stored
      BY <1>0, <1>7, <2>3, <2>4, IoAssumption DEF LoadKey, TypeOK, Raw, Relays
    <3>2. io' = "report"
      BY <1>7, <2>4 DEF LoadKey
    <3> QED  BY <1>0, <2>1, <2>2, <3>1, <3>2 DEF Running
  <2>5. CASE at # RelayCount
    <3>1. io' = "load" /\ at' = at + 1
      BY <1>7, <2>5 DEF LoadKey
    <3>2. Loading => Loading'
      BY <1>0, <2>1, <2>3, <3>1, IoAssumption DEF Loading, TypeOK, Relays
    <3> QED  BY <1>0, <2>1, <2>2, <3>1, <3>2 DEF Running
  <2> QED  BY <2>4, <2>5
<1>8. CASE ReportHealth
  BY <1>0, <1>8 DEF ReportHealth, NotYetLoaded, StartingUp, Running, Updating
<1>9. CASE UpdateConfig
  <2>1. /\ UNCHANGED <<stored, target, raced, notified, main, boot, cfg, warned, restarting>>
        /\ io = "update" /\ io' \in {"update", "tick"} /\ at \in 1 .. 6
    BY <1>0, <1>9 DEF UpdateConfig, TypeOK
  <2>2. NotYetLoaded' /\ StartingUp'
    BY <1>0, <2>1 DEF NotYetLoaded, StartingUp
  <2>3. ASSUME main = "done", Updating
        PROVE  \A k \in 1 .. 6 : k <= at => used'[Name(k)] = Effective(stored)
    <3>1. used' = [used EXCEPT ![Name(at)] = Effective(stored)]
      BY <1>9, <2>3 DEF UpdateConfig, Takes, Updating
    <3>2. \A k \in 1 .. 6 : used'[Name(k)] = IF Name(k) = Name(at) THEN Effective(stored) ELSE used[Name(k)]
      BY <1>0, <2>1, <3>1, NamesAre DEF TypeOK
    <3> QED  BY <2>1, <2>3, <3>2 DEF Updating
  <2>4. CASE at = 6
    <3>1. io' = "tick"
      BY <1>9, <2>4 DEF UpdateConfig
    <3>2. ASSUME main = "done", Updating PROVE InUse'
      <4>1. \A k \in 1 .. 6 : used'[Consumers[k]] = Effective(stored)
        BY <2>3, <2>4, <3>2 DEF Name
      <4>2. \A c \in Names : used'[c] = Effective(stored)
        BY <4>1 DEF Names
      <4> QED  BY <2>1, <3>2, <4>2 DEF InUse, Updating
    <3> QED  BY <1>0, <2>1, <2>2, <3>1, <3>2 DEF Running
  <2>5. CASE at # 6
    <3>1. io' = "update" /\ at' = at + 1
      BY <1>9, <2>5 DEF UpdateConfig
    <3>2. ASSUME main = "done", Updating PROVE Updating'
      BY <2>1, <2>3, <3>1, <3>2 DEF Updating
    <3> QED  BY <1>0, <2>1, <2>2, <3>1, <3>2 DEF Running
  <2> QED  BY <2>4, <2>5
<1>10. CASE Tick
  BY <1>0, <1>10 DEF Tick, NotYetLoaded, StartingUp, Running, InUse
<1>11. CASE PollButton
  BY <1>0, <1>11 DEF PollButton, NotYetLoaded, StartingUp, Running, InUse
<1>12. CASE ReopenPortal \/ FactoryReset
  BY <1>0, <1>12 DEF ReopenPortal, FactoryReset, NotYetLoaded, StartingUp, Running
<1>13. CASE Stall
  BY <1>0, <1>13 DEF Stall, NotYetLoaded, StartingUp, Running
<1>14. CASE RestartDue \/ Supervise \/ PowerCycle
  BY <1>14 DEF RestartDue, Supervise, PowerCycle, Restart, NotYetLoaded, StartingUp, Running
<1>15. CASE UNCHANGED vars
  BY <1>0, <1>15 DEF vars, NotYetLoaded, StartingUp, Running, Loading, Updating, InUse
<1> QED
  BY <1>1, <1>2, <1>3, <1>4, <1>5, <1>6, <1>7, <1>8, <1>9, <1>10, <1>11, <1>12, <1>13,
     <1>14, <1>15 DEF Next, MainStep, IoStep

\* A key saved after start-up is loaded or has its notification waiting, at
\* whatever point of a load, of the handing out or of a tick it is saved.
THEOREM NothingEverMissed == Spec => []NothingMissed
<1>1. SaveInv => NothingMissed
  BY DEF SaveInv, Running, NothingMissed
<1> QED  BY SaveInvInit, SaveInvStep, <1>1, PTL DEF Spec

(***************************************************************************)
(* The factory reset.                                                      *)
(***************************************************************************)
ResetInv == restarting = "reset" => io \in {"wait", "stalled"} /\ ~holdSaved

LEMMA ResetInvStep == ResetInv /\ [Next]_vars => ResetInv'
<1> SUFFICES ASSUME ResetInv, [Next]_vars PROVE ResetInv'
  OBVIOUS
<1> USE DEF settingVars, mainVars, ioVars, ResetInv
<1>1. CASE \/ \E raw \in Edits : Save(raw)
           \/ \E i \in Relays : SaveKey(i)
  BY <1>1 DEF Save, SaveKey
<1>2. CASE MainStep
  <2>1. CASE StartIo
    BY <2>1 DEF StartIo
  <2>2. CASE Subscribe \/ \E c \in Late : Start(c)
    BY <2>2 DEF Subscribe, Start
  <2> QED  BY <1>2, <2>1, <2>2 DEF MainStep
<1>3. CASE IoStep
  BY <1>3 DEF IoStep, Wake, LoadKey, ReportHealth, UpdateConfig, Tick, PollButton, ReopenPortal,
              FactoryReset
<1>4. CASE Stall
  BY <1>4 DEF Stall
<1>5. CASE RestartDue \/ Supervise \/ PowerCycle
  BY <1>5 DEF RestartDue, Supervise, PowerCycle, Restart
<1>6. CASE UNCHANGED vars
  BY <1>6 DEF vars
<1> QED  BY <1>1, <1>2, <1>3, <1>4, <1>5, <1>6 DEF Next

\* From a factory reset to the restart the hold states stay erased, although
\* relays may still be switched.
THEOREM ResetAlwaysKept == Spec => []ResetKept
<1>1. Init => ResetInv
  BY DEF Init, ResetInv
<1>2. ResetInv => ResetKept
  BY DEF ResetInv, ResetKept
<1> QED  BY <1>1, <1>2, ResetInvStep, PTL DEF Spec
=============================================================================
