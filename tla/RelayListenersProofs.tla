------------------------ MODULE RelayListenersProofs -------------------------
(***************************************************************************)
(* Proofs about RelayListeners, for any relays, wirings and number of      *)
(* tasks: what SignalK and the bus show is current, or a report is on its  *)
(* way.  Both are inductive with the types.                                *)
(***************************************************************************)
EXTENDS RelayListeners, TLAPS

LEMMA LoadTyped == ASSUME NEW m, NEW nc PROVE Load(m, nc) \in SUBSET Relays
BY DEF Load

\* What a notice reports is what differs.
LEMMA NoticeReports ==
    ASSUME NEW before \in SUBSET Relays, NEW after \in SUBSET Relays
    PROVE  /\ Notice(before, after) \in Report
           /\ Notice(before, after).step = "counters"
           /\ Notice(before, after).on \cup Notice(before, after).off
                 = (before \ after) \cup (after \ before)
BY DEF Notice, Report, Steps

LEMMA TypeInit == Init => TypeOK
<1> SUFFICES ASSUME Init PROVE TypeOK
  OBVIOUS
<1>1. Notice({}, {}) \in Report
  BY NoticeReports
<1>2. Reported \in SUBSET Relays
  BY LoadTyped DEF Reported
<1> QED
  BY <1>1, <1>2 DEF Init, TypeOK

LEMMA TypeStep == TypeOK /\ [Next]_vars => TypeOK'
<1> USE ListenerAssumption
<1> SUFFICES ASSUME TypeOK, [Next]_vars PROVE TypeOK'
  OBVIOUS
<1>1. ASSUME NEW t \in Switching, NEW coils \in SUBSET Relays, Change(t, coils) PROVE TypeOK'
  <2>1. Notice(Reported, Load(coils, wiredNc)) \in Report
    BY LoadTyped, NoticeReports DEF Reported
  <2> QED
    BY <1>1, <2>1 DEF Change, TypeOK, skVars, linkVars, n2kVars
<1>2. ASSUME NEW nc \in Wirings, NEW coils \in SUBSET mask, UpdateConfig(nc, coils) PROVE TypeOK'
  <2>1. Notice(Load(mask, nc), Load(coils, nc)) \in Report
    BY LoadTyped, NoticeReports
  <2>2. (wiredNc \ nc) \cup (nc \ wiredNc) \in SUBSET Relays
    BY DEF TypeOK
  <2> QED
    BY <1>2, <2>1, <2>2 DEF UpdateConfig, TypeOK, linkVars
<1>3. ASSUME NEW t \in Tasks, CountersOnChange(t) PROVE TypeOK'
  <2>1. First(Left(t)) \in told[t].on => First(Left(t)) \in Relays
    BY DEF TypeOK, Report
  <2>2. told[t] \in Report /\ "sk" \in Steps
    BY DEF TypeOK, Steps
  <2>3. [told[t] EXCEPT !.step = "sk"] \in Report
    BY <2>2 DEF Report
  <2>4. told' = [told EXCEPT ![t] = [told[t] EXCEPT !.step = "sk"]]
    BY <1>3 DEF CountersOnChange
  <2> QED
    BY <1>3, <2>1, <2>3, <2>4 DEF CountersOnChange, TypeOK, skVars, linkVars, n2kVars
<1>4. ASSUME NEW t \in Tasks, SkBridgeRelayChanged(t) PROVE TypeOK'
  <2>1. told[t] \in Report /\ "n2k" \in Steps
    BY DEF TypeOK, Steps
  <2>2. [told[t] EXCEPT !.step = "n2k"] \in Report
    BY <2>1 DEF Report
  <2>3. told' = [told EXCEPT ![t] = [told[t] EXCEPT !.step = "n2k"]]
    BY <1>4 DEF SkBridgeRelayChanged
  <2>4. shown' \in SUBSET Relays /\ skDue' \in SUBSET Relays
    BY <1>4, LoadTyped DEF SkBridgeRelayChanged, Publish, Reported, TypeOK
  <2> QED
    BY <1>4, <2>2, <2>3, <2>4 DEF SkBridgeRelayChanged, TypeOK, linkVars, n2kVars
<1>5. ASSUME NEW t \in Tasks, N2kBridgeStateChanged(t) PROVE TypeOK'
  <2>1. told[t] \in Report
    BY DEF TypeOK
  <2>2. \A i : [on |-> told[t].on \ {i}, off |-> told[t].off \ {i}, step |-> "counters"] \in Report
    BY <2>1 DEF Report, Steps
  <2> QED
    BY <1>5, <2>2 DEF N2kBridgeStateChanged, TypeOK, skVars, linkVars
<1>6. CASE SkBridgeStart
  BY <1>6, LoadTyped DEF SkBridgeStart, Publish, Reported, TypeOK, relayVars, n2kVars
<1>7. CASE PublishStates
  BY <1>7, LoadTyped DEF PublishStates, Publish, Reported, TypeOK, relayVars, linkVars, n2kVars
<1>11. CASE Connected
  BY <1>11, LoadTyped DEF Connected, Publish, Reported, TypeOK, relayVars, n2kVars
<1>12. CASE Disconnected \/ UpdateInterval(~every)
  BY <1>12 DEF Disconnected, UpdateInterval, TypeOK, relayVars, n2kVars
<1>8. CASE TakeChanged
  BY <1>8 DEF TakeChanged, TypeOK, relayVars, skVars, linkVars
<1>9. CASE SendStatus
  BY <1>9, LoadTyped DEF SendStatus, Reported, TypeOK, relayVars, skVars, linkVars
<1>10. CASE UNCHANGED vars
  BY <1>10 DEF vars, relayVars, skVars, linkVars, n2kVars, TypeOK
<1> QED
  BY <1>1, <1>2, <1>3, <1>4, <1>5, <1>6, <1>7, <1>8, <1>9, <1>10, <1>11, <1>12
     DEF Next, Switch, Edit, Tell, TypeOK

-----------------------------------------------------------------------------
\* After a critical section of task t, every relay whose state differs is
\* owed to both consumers; what the other tasks owe they still do.
LEMMA ChangesAreOwed ==
    ASSUME TypeOK, NEW t \in Tasks, Silent(t),
           NEW before \in SUBSET Relays, NEW after \in SUBSET Relays,
           told' = [told EXCEPT ![t] = Notice(before, after)],
           NEW i \in Relays, NEW step \in {"sk", "n2k"}
    PROVE  /\ i \in (before \ after) \cup (after \ before) => Owes(t, step, i)'
           /\ \A u \in Tasks : Owes(u, step, i) => Owes(u, step, i)'
<1>1. told'[t] = Notice(before, after) /\ \A u \in Tasks \ {t} : told'[u] = told[u]
  BY DEF TypeOK
<1>2. ASSUME i \in (before \ after) \cup (after \ before) PROVE Owes(t, step, i)'
  BY <1>1, <1>2, NoticeReports DEF Owes, Left
<1>3. ~Owes(t, step, i)
  BY DEF Owes, Silent
<1>4. ASSUME NEW u \in Tasks \ {t} PROVE Owes(u, step, i)' <=> Owes(u, step, i)
  BY <1>1, <1>4, Zenon DEF Owes, Left
<1> QED
  BY <1>2, <1>3, <1>4

\* When task t moves on, the others owe what they owed.
LEMMA OthersOwe ==
    ASSUME TypeOK, NEW t \in Tasks, NEW r, told' = [told EXCEPT ![t] = r],
           NEW u \in Tasks, u # t, NEW i, NEW step
    PROVE  Owes(u, step, i)' <=> Owes(u, step, i)
<1>1. told'[u] = told[u]
  BY DEF TypeOK
<1> QED
  BY <1>1, Zenon DEF Owes, Left

LEMMA SkStep == TypeOK /\ SkShowsCurrent /\ [Next]_vars => SkShowsCurrent'
<1> USE ListenerAssumption
<1> SUFFICES ASSUME TypeOK, SkShowsCurrent, [Next]_vars, started', NEW i \in Relays,
                    \A t \in Tasks : ~Owes(t, "sk", i)', i \notin skDue'
             PROVE  (i \in shown)' <=> (i \in Reported)'
  BY DEF SkShowsCurrent
<1>1. ASSUME NEW t \in Switching, NEW coils \in SUBSET Relays, Change(t, coils)
      PROVE  (i \in shown)' <=> (i \in Reported)'
  <2>1. /\ Silent(t) /\ told' = [told EXCEPT ![t] = Notice(Reported, Load(coils, wiredNc))]
        /\ started /\ shown' = shown /\ skDue' = skDue
        /\ Reported' = Load(coils, wiredNc)
    BY <1>1 DEF Change, skVars, linkVars, Reported
  <2>2. Reported \in SUBSET Relays /\ Load(coils, wiredNc) \in SUBSET Relays
    BY LoadTyped DEF Reported
  <2>3. \A u \in Tasks : ~Owes(u, "sk", i)
    BY <2>1, <2>2, ChangesAreOwed
  <2>4. i \in Reported <=> i \in Reported'
    BY <2>1, <2>2, ChangesAreOwed
  <2> QED
    BY <2>1, <2>3, <2>4 DEF SkShowsCurrent
<1>2. ASSUME NEW nc \in Wirings, NEW coils \in SUBSET mask, UpdateConfig(nc, coils)
      PROVE  (i \in shown)' <=> (i \in Reported)'
  <2>1. /\ Silent(IoTask) /\ told' = [told EXCEPT ![IoTask] = Notice(Load(mask, nc), Load(coils, nc))]
        /\ started /\ shown' = shown /\ i \notin skDue
        /\ i \in wiredNc <=> i \in nc
        /\ Reported' = Load(coils, nc)
    BY <1>2 DEF UpdateConfig, linkVars, Reported
  <2>2. Load(mask, nc) \in SUBSET Relays /\ Load(coils, nc) \in SUBSET Relays
    BY LoadTyped
  <2>3. \A u \in Tasks : ~Owes(u, "sk", i)
    BY <2>1, <2>2, ChangesAreOwed
  <2>4. i \in Load(mask, nc) <=> i \in Load(coils, nc)
    BY <2>1, <2>2, ChangesAreOwed
  <2>5. i \in Reported <=> i \in Load(mask, nc)
    BY <2>1 DEF Reported, Load
  <2> QED
    BY <2>1, <2>3, <2>4, <2>5 DEF SkShowsCurrent
<1>3. ASSUME NEW t \in Tasks, CountersOnChange(t) PROVE (i \in shown)' <=> (i \in Reported)'
  <2>1. /\ told' = [told EXCEPT ![t] = [told[t] EXCEPT !.step = "sk"]]
        /\ told[t].step = "counters"
        /\ started /\ shown' = shown /\ skDue' = skDue /\ Reported' = Reported
    BY <1>3 DEF CountersOnChange, Reports, skVars, linkVars, Reported
  <2>2. /\ told'[t].on = told[t].on /\ told'[t].off = told[t].off /\ told'[t].step = "sk"
    BY <2>1 DEF TypeOK, Report
  <2>3. ~Owes(t, "sk", i)
    BY <2>2 DEF Owes, Left
  <2>4. \A u \in Tasks : ~Owes(u, "sk", i)
    BY <2>1, <2>3, OthersOwe
  <2> QED
    BY <2>1, <2>4 DEF SkShowsCurrent
<1>4. ASSUME NEW t \in Tasks, SkBridgeRelayChanged(t) PROVE (i \in shown)' <=> (i \in Reported)'
  <2> DEFINE f == First(Left(t))
  <2>1. /\ told' = [told EXCEPT ![t] = [told[t] EXCEPT !.step = "n2k"]]
        /\ told[t].step = "sk"
        /\ started /\ Publish({f}) /\ Reported' = Reported
    BY <1>4 DEF SkBridgeRelayChanged, Reports, linkVars, Reported
  <2>2. /\ told'[t].on = told[t].on /\ told'[t].off = told[t].off /\ told'[t].step = "n2k"
    BY <2>1 DEF TypeOK, Report
  <2>3. Left(t)' = Left(t)
    BY <2>2 DEF Left
  <2>4. CASE i = f
    BY <2>1, <2>4 DEF Publish
  <2>5. CASE i # f
    <3>1. ~Owes(t, "sk", i)
      BY <2>3, <2>5 DEF Owes
    <3>2. \A u \in Tasks : ~Owes(u, "sk", i)
      BY <2>1, <3>1, OthersOwe
    <3>3. i \in shown' <=> i \in shown
      BY <2>1, <2>5 DEF Publish
    <3>4. i \notin skDue
      BY <2>1, <2>5 DEF Publish
    <3> QED
      BY <2>1, <3>2, <3>3, <3>4 DEF SkShowsCurrent
  <2> QED
    BY <2>4, <2>5
<1>5. ASSUME NEW t \in Tasks, N2kBridgeStateChanged(t) PROVE (i \in shown)' <=> (i \in Reported)'
  <2> DEFINE f == First(Left(t))
  <2>1. /\ told' = [told EXCEPT ![t] = [on |-> told[t].on \ {f}, off |-> told[t].off \ {f},
                                        step |-> "counters"]]
        /\ told[t].step = "n2k"
        /\ started /\ shown' = shown /\ skDue' = skDue /\ Reported' = Reported
    BY <1>5 DEF N2kBridgeStateChanged, Reports, skVars, linkVars, Reported
  <2>2. told'[t] = [on |-> told[t].on \ {f}, off |-> told[t].off \ {f}, step |-> "counters"]
    BY <2>1 DEF TypeOK
  <2>3. Left(t)' = Left(t) \ {f} /\ told'[t].step = "counters"
    BY <2>2 DEF Left
  <2>4. ~Owes(t, "sk", i)
    BY <2>1, <2>3 DEF Owes
  <2>5. \A u \in Tasks : ~Owes(u, "sk", i)
    BY <2>1, <2>4, OthersOwe
  <2> QED
    BY <2>1, <2>5 DEF SkShowsCurrent
<1>6. CASE SkBridgeStart
  BY <1>6 DEF SkBridgeStart, Publish, Reported, relayVars
<1>7. CASE PublishStates \/ Connected
  BY <1>7 DEF PublishStates, Connected, Publish, Reported, relayVars
<1>8. CASE TakeChanged \/ SendStatus \/ Disconnected \/ UpdateInterval(~every) \/ UNCHANGED vars
  <2>1. told' = told /\ shown' = shown /\ skDue' = skDue /\ started' = started /\ Reported' = Reported
    BY <1>8 DEF TakeChanged, SendStatus, Disconnected, UpdateInterval, vars, relayVars, skVars, linkVars,
                Reported
  <2>2. \A u \in Tasks : Owes(u, "sk", i)' <=> Owes(u, "sk", i)
    BY <2>1, Zenon DEF Owes, Left
  <2> QED
    BY <2>1, <2>2 DEF SkShowsCurrent
<1> QED
  BY <1>1, <1>2, <1>3, <1>4, <1>5, <1>6, <1>7, <1>8 DEF Next, Switch, Edit, Tell, TypeOK

\* SignalK is never stuck on a stale state: whichever tasks switch a relay and
\* whoever's listeners run late, a wrong state is owed a report (sk_bridge.c:
\* 416-418), but for edits of the wiring.
THEOREM SkAlwaysShowsCurrent == Spec => []SkShowsCurrent
<1>1. Init => SkShowsCurrent
  BY DEF Init, SkShowsCurrent
<1> QED
  BY <1>1, TypeInit, TypeStep, SkStep, PTL DEF Spec

-----------------------------------------------------------------------------
LEMMA BusStep == TypeOK /\ BusShowsCurrent /\ [Next]_vars => BusShowsCurrent'
<1> USE ListenerAssumption
<1> SUFFICES ASSUME TypeOK, BusShowsCurrent, [Next]_vars, ~changed', ~sending', NEW i \in Relays,
                    \A t \in Tasks : ~Owes(t, "n2k", i)', i \notin busDue'
             PROVE  (i \in bus)' <=> (i \in Reported)'
  BY DEF BusShowsCurrent
<1>1. ASSUME NEW t \in Switching, NEW coils \in SUBSET Relays, Change(t, coils)
      PROVE  (i \in bus)' <=> (i \in Reported)'
  <2>1. /\ Silent(t) /\ told' = [told EXCEPT ![t] = Notice(Reported, Load(coils, wiredNc))]
        /\ ~changed /\ ~sending /\ bus' = bus /\ busDue' = busDue
        /\ Reported' = Load(coils, wiredNc)
    BY <1>1 DEF Change, n2kVars, Reported
  <2>2. Reported \in SUBSET Relays /\ Load(coils, wiredNc) \in SUBSET Relays
    BY LoadTyped DEF Reported
  <2>3. \A u \in Tasks : ~Owes(u, "n2k", i)
    BY <2>1, <2>2, ChangesAreOwed
  <2>4. i \in Reported <=> i \in Reported'
    BY <2>1, <2>2, ChangesAreOwed
  <2> QED
    BY <2>1, <2>3, <2>4 DEF BusShowsCurrent
<1>2. ASSUME NEW nc \in Wirings, NEW coils \in SUBSET mask, UpdateConfig(nc, coils)
      PROVE  (i \in bus)' <=> (i \in Reported)'
  <2>1. /\ Silent(IoTask) /\ told' = [told EXCEPT ![IoTask] = Notice(Load(mask, nc), Load(coils, nc))]
        /\ ~changed /\ ~sending /\ bus' = bus /\ i \notin busDue
        /\ i \in wiredNc <=> i \in nc
        /\ Reported' = Load(coils, nc)
    BY <1>2 DEF UpdateConfig, Reported
  <2>2. Load(mask, nc) \in SUBSET Relays /\ Load(coils, nc) \in SUBSET Relays
    BY LoadTyped
  <2>3. \A u \in Tasks : ~Owes(u, "n2k", i)
    BY <2>1, <2>2, ChangesAreOwed
  <2>4. i \in Load(mask, nc) <=> i \in Load(coils, nc)
    BY <2>1, <2>2, ChangesAreOwed
  <2>5. i \in Reported <=> i \in Load(mask, nc)
    BY <2>1 DEF Reported, Load
  <2> QED
    BY <2>1, <2>3, <2>4, <2>5 DEF BusShowsCurrent
<1>3. ASSUME NEW t \in Tasks, CountersOnChange(t) \/ SkBridgeRelayChanged(t)
      PROVE  (i \in bus)' <=> (i \in Reported)'
  <2>1. PICK step \in Steps : told' = [told EXCEPT ![t] = [told[t] EXCEPT !.step = step]]
    BY <1>3 DEF CountersOnChange, SkBridgeRelayChanged, Steps
  <2>2. ~changed /\ ~sending /\ bus' = bus /\ busDue' = busDue /\ Reported' = Reported
    BY <1>3 DEF CountersOnChange, SkBridgeRelayChanged, n2kVars, Reported
  <2>3. told'[t].on = told[t].on /\ told'[t].off = told[t].off
    BY <2>1 DEF TypeOK, Report
  <2>4. ~Owes(t, "n2k", i)
    BY <2>3 DEF Owes, Left
  <2>5. \A u \in Tasks : ~Owes(u, "n2k", i)
    BY <2>1, <2>4, OthersOwe
  <2> QED
    BY <2>2, <2>5 DEF BusShowsCurrent
<1>4. ASSUME NEW t \in Tasks, N2kBridgeStateChanged(t) PROVE FALSE
  BY <1>4 DEF N2kBridgeStateChanged
<1>5. CASE TakeChanged
  BY <1>5 DEF TakeChanged
<1>6. CASE SendStatus
  BY <1>6 DEF SendStatus, relayVars, Reported
<1>7. ASSUME \/ SkBridgeStart \/ Connected \/ Disconnected \/ PublishStates
             \/ UpdateInterval(~every) \/ UNCHANGED vars
      PROVE  (i \in bus)' <=> (i \in Reported)'
  <2>1. told' = told /\ UNCHANGED n2kVars /\ Reported' = Reported
    BY <1>7 DEF SkBridgeStart, Connected, Disconnected, PublishStates, UpdateInterval, vars, relayVars,
                Reported
  <2>2. \A u \in Tasks : Owes(u, "n2k", i)' <=> Owes(u, "n2k", i)
    BY <2>1, Zenon DEF Owes, Left
  <2> QED
    BY <2>1, <2>2 DEF BusShowsCurrent, n2kVars
<1> QED
  BY <1>1, <1>2, <1>3, <1>4, <1>5, <1>6, <1>7 DEF Next, Switch, Edit, Tell, TypeOK

\* n2k_bridge.cpp:218: between the flag, the read of the state and the frame
\* no change is lost, for any number of tasks that switch.
THEOREM BusAlwaysShowsCurrent == Spec => []BusShowsCurrent
<1>1. Init => BusShowsCurrent
  BY DEF Init, BusShowsCurrent
<1> QED
  BY <1>1, TypeInit, TypeStep, BusStep, PTL DEF Spec

=============================================================================
