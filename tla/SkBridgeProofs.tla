---------------------------- MODULE SkBridgeProofs ----------------------------
(***************************************************************************)
(* Proofs about SkBridge, for any inputs, relays, grace periods, intervals *)
(* and number of events under way: what the server has seen and shows, and *)
(* that one loss is answered by one fail-safe at most.                     *)
(***************************************************************************)
EXTENDS SkBridge, SequenceTheorems, TLAPS

-----------------------------------------------------------------------------
(***************************************************************************)
(* The events under way.                                                   *)
(***************************************************************************)

EventsOK == link \in BOOLEAN /\ events \in Seq(BOOLEAN)

\* Nothing is Pending more or less for an event that is a loss; a connection
\* posted is.
LEMMA PostedIsPending ==
    ASSUME EventsOK, NEW up \in BOOLEAN, Post(up)
    PROVE  /\ events' \in Seq(BOOLEAN)
           /\ Pending => Pending'
           /\ stage # "boot" /\ up => Pending'
           /\ Pending' => Pending \/ up
<1>1. CASE stage = "boot"
  BY <1>1 DEF Post, Pending, EventsOK
<1>2. CASE stage # "boot"
  <2>1. events' = Append(events, up)
    BY <1>2 DEF Post
  <2>2. /\ events' \in Seq(BOOLEAN)
        /\ Len(events') = Len(events) + 1 /\ DOMAIN events = 1 .. Len(events)
        /\ DOMAIN events' = 1 .. Len(events) + 1 /\ Len(events) \in Nat
        /\ events'[Len(events) + 1] = up
        /\ \A k \in DOMAIN events : events'[k] = events[k]
    BY <2>1 DEF EventsOK
  <2>3. Pending => Pending'
    BY <2>2 DEF Pending
  <2>4. ASSUME up PROVE Pending'
    <3>1. Len(events) + 1 \in DOMAIN events'
      BY <2>2
    <3>2. events'[Len(events) + 1]
      BY <2>2, <2>4, Zenon
    <3> QED
      BY <3>1, <3>2 DEF Pending
  <2>5. Pending' => Pending \/ up
    BY <2>2 DEF Pending
  <2> QED
    BY <2>2, <2>3, <2>4, <2>5
<1> QED
  BY <1>1, <1>2

\* Only a connection delivered may end what is Pending.
LEMMA DeliveredLoss ==
    ASSUME EventsOK, NEW up \in BOOLEAN, Deliver(up)
    PROVE  /\ events' \in Seq(BOOLEAN)
           /\ Pending' => Pending
           /\ ~up /\ Pending => Pending'
<1>1. /\ events # <<>> /\ Head(events) = up /\ events' = Tail(events)
      /\ events \in Seq(BOOLEAN)
  BY DEF Deliver, EventsOK
<1>2. /\ events' \in Seq(BOOLEAN) /\ Len(events) \in Nat \ {0}
      /\ Len(events') = Len(events) - 1
      /\ \A k \in 1 .. Len(events) - 1 : events'[k] = events[k + 1]
      /\ events[1] = up
      /\ DOMAIN events = 1 .. Len(events) /\ DOMAIN events' = 1 .. Len(events) - 1
  BY <1>1
<1>3. Pending' => Pending
  BY <1>2 DEF Pending
<1>4. ASSUME ~up, Pending PROVE Pending'
  <2>1. PICK k \in 1 .. Len(events) : events[k]
    BY <1>2, <1>4 DEF Pending
  <2>2. k # 1
    BY <1>2, <1>4, <2>1
  <2>3. k - 1 \in 1 .. Len(events) - 1 /\ events'[k - 1] = events[(k - 1) + 1] /\ (k - 1) + 1 = k
    BY <1>2, <2>1, <2>2
  <2> QED
    BY <1>2, <2>1, <2>3 DEF Pending
<1> QED
  BY <1>2, <1>3, <1>4

\* Every other step leaves stream and events alone.
LEMMA EventsStep == EventsOK /\ [Next]_vars => EventsOK'
<1> SUFFICES ASSUME EventsOK, [Next]_vars PROVE EventsOK'
  OBVIOUS
<1>1. CASE Stream
  BY <1>1, PostedIsPending DEF Stream, StreamUp, StreamDown, StillDown, EventsOK
<1>2. CASE Connected \/ Disconnected
  BY <1>2, DeliveredLoss DEF Connected, Disconnected, EventsOK
<1>3. ASSUME UNCHANGED streamVars PROVE EventsOK'
  BY <1>3 DEF streamVars, EventsOK
<1> QED
  BY <1>1, <1>2, <1>3 DEF Next, Subscribe, Start, UpdateConfig, Poll, PollNotReady, InputChanged,
                          Tick, SkLost, Switch, Elapse, vars

LEMMA EventsInit == Init => EventsOK
<1>1. <<>> \in Seq(BOOLEAN)
  OBVIOUS
<1> QED
  BY <1>1 DEF Init, EventsOK

-----------------------------------------------------------------------------
(***************************************************************************)
(* The server has seen the paths.                                          *)
(***************************************************************************)

LEMMA SeenStep == EventsOK /\ SeenOrPending /\ [Next]_vars => SeenOrPending'
<1> SUFFICES ASSUME EventsOK, SeenOrPending, [Next]_vars, Heard', Started', ~Pending' PROVE seen'
  BY DEF SeenOrPending
<1>1. CASE StreamUp
  BY <1>1, PostedIsPending DEF StreamUp, Started, Heard
<1>2. CASE StreamDown \/ StillDown
  BY <1>2 DEF StreamDown, StillDown, EventsOK, Heard, cfgVars, serverVars, Started, SeenOrPending, Pending
<1>3. CASE Connected
  BY <1>3 DEF Connected, PublishAll, Started, Heard, cfgVars
<1>4. CASE Disconnected
  <2>1. ~Pending
    BY <1>4, DeliveredLoss DEF Disconnected
  <2> QED
    BY <1>4, <2>1 DEF Disconnected, serverVars, cfgVars, Heard, Started, SeenOrPending
<1>5. CASE Subscribe
  BY <1>5 DEF Subscribe, Started
<1>6. CASE Start
  BY <1>6 DEF Start, PublishAll, streamVars, cfgVars, Heard
<1>7. ASSUME UNCHANGED <<streamVars, publishing, stage>>, seen' = seen \/ PublishStates PROVE seen'
  BY <1>7 DEF streamVars, Heard, Started, Pending, SeenOrPending, PublishStates
<1>8. CASE Tick
  <2>1. UNCHANGED <<streamVars, publishing, stage>> /\ (seen' = seen \/ PublishStates)
    BY <1>8 DEF Tick, serverVars, cfgVars
  <2> QED
    BY <1>7, <2>1
<1>9. CASE UNCHANGED vars
  BY <1>9, <1>7 DEF vars, serverVars, cfgVars
<1> QED
  BY <1>1, <1>2, <1>3, <1>4, <1>5, <1>6, <1>7, <1>8, <1>9
     DEF Next, Stream, UpdateConfig, Poll, PollNotReady, InputChanged, SkLost, Switch, Elapse, serverVars, cfgVars

\* main.c:814: whenever the stream connects around the subscription and the
\* start of the bridge, the server is told the paths on that connection or
\* its event is still to come.
THEOREM AlwaysSeenOrPending == Spec => []SeenOrPending
<1>1. Init => SeenOrPending
  BY DEF Init, SeenOrPending, Heard
<1> QED
  BY <1>1, EventsInit, EventsStep, SeenStep, PTL DEF Spec

-----------------------------------------------------------------------------
(***************************************************************************)
(* One loss, one fail-safe.                                                *)
(***************************************************************************)

\* The fail-safe has been fired for this loss if lostFired says so, and not
\* while there is none.
OnceInv ==
    /\ fired \in {0, 1}
    /\ ~down \/ ~lostFired => fired = 0

LEMMA OnceStep == OnceInv /\ [Next]_vars => OnceInv'
<1> SUFFICES ASSUME OnceInv, [Next]_vars PROVE OnceInv'
  OBVIOUS
<1>1. CASE Connected
  BY <1>1 DEF Connected, OnceInv
<1>2. CASE Disconnected
  BY <1>2 DEF Disconnected, OnceInv
<1>3. CASE Tick
  <2> DEFINE fire == Started /\ down /\ ~lostFired /\ publishing /\ downAge >= grace
  <2>1. (lostFired' <=> lostFired \/ fire) /\ (down' <=> down)
    BY <1>3, Zenon DEF Tick
  <2>2. fired' = IF fire THEN fired + 1 ELSE fired
    BY <1>3 DEF Tick
  <2>3. CASE fire
    <3>1. fired = 0 /\ fired' = 1
      BY <2>2, <2>3 DEF OnceInv
    <3> QED
      BY <2>1, <2>3, <3>1 DEF OnceInv
  <2>4. CASE ~fire
    BY <2>1, <2>2, <2>4 DEF OnceInv
  <2> QED
    BY <2>3, <2>4
<1>4. ASSUME UNCHANGED <<down, lostFired, fired>> PROVE OnceInv'
  BY <1>4 DEF OnceInv
<1> QED
  BY <1>1, <1>2, <1>3, <1>4
     DEF Next, Stream, StreamUp, StreamDown, StillDown, Subscribe, Start, UpdateConfig, Poll,
         PollNotReady, InputChanged, SkLost, Switch, Elapse, lossVars, vars

\* sk_bridge.c:464: reports of the same loss restart nothing, however many
\* come and however late.
THEOREM FailSafeAtMostOnce == Spec => []FailSafeOnce
<1>1. Init => OnceInv
  BY DEF Init, OnceInv
<1>2. OnceInv => FailSafeOnce
  BY DEF OnceInv, FailSafeOnce
<1> QED
  BY <1>1, <1>2, OnceStep, PTL DEF Spec

-----------------------------------------------------------------------------
(***************************************************************************)
(* The alarms the server shows.                                            *)
(***************************************************************************)

\* AlarmShown needs to know that what is not configured is not raised either,
\* server up to date or not, and that the I/O task has no report to make when
\* it takes on new settings.
ShownInv ==
    /\ AlarmShown
    /\ publishing => \A i \in Inputs \ (alarm \cup muted) : i \notin raised
    /\ io # "tick" => report = {}

\* Publishing everything to a server that listens.
LEMMA PublishedIsShown ==
    ASSUME ShownInv, PublishAll, UNCHANGED <<alarm, publishing, inputs, report, ready, link, io>>
    PROVE  /\ ready /\ Heard =>
                  \A i \in Inputs \ (muted' \cup report') : i \in raised' <=> i \in alarm \cap inputs
           /\ publishing => \A i \in Inputs \ (alarm \cup muted') : i \notin raised'
BY DEF PublishAll, Notify, ShownInv, Heard

\* A step that touches neither alarms nor inputs and brings no connection up
\* to date keeps it.
LEMMA SameShown ==
    ASSUME ShownInv, UNCHANGED <<alarm, publishing, inputs, report, raised, muted>>,
           Current' => Current, io' # "tick" => io # "tick" \/ report = {}
    PROVE  ShownInv'
BY DEF ShownInv, AlarmShown

LEMMA ShownStep == EventsOK /\ ShownInv /\ [Next]_vars => ShownInv'
<1> SUFFICES ASSUME EventsOK, ShownInv, [Next]_vars PROVE ShownInv'
  OBVIOUS
<1>1. CASE StreamUp
  <2>1. ~Current'
    BY <1>1, PostedIsPending DEF StreamUp, Current, Started
  <2> QED
    BY <1>1, <2>1, SameShown DEF StreamUp, cfgVars, inputVars
<1>2. CASE StreamDown \/ StillDown
  <2>1. ~Current'
    BY <1>2 DEF StreamDown, StillDown, Current
  <2> QED
    BY <1>2, <2>1, SameShown DEF StreamDown, StillDown, cfgVars, inputVars, serverVars
<1>3. CASE Connected
  <2>1. UNCHANGED <<alarm, publishing, inputs, report, ready, link, stage, io>>
    BY <1>3 DEF Connected, cfgVars, inputVars
  <2>2. CASE Started
    <3>1. PublishAll
      BY <1>3, <2>2 DEF Connected
    <3> QED
      BY <2>1, <3>1, PublishedIsShown DEF ShownInv, AlarmShown, Current, Heard
  <2>3. CASE ~Started
    <3>1. ~Current' /\ UNCHANGED <<raised, muted>>
      BY <1>3, <2>1, <2>3 DEF Connected, Current, Started, serverVars
    <3> QED
      BY <2>1, <3>1, SameShown
  <2> QED
    BY <2>2, <2>3
<1>4. CASE Disconnected
  <2>1. UNCHANGED <<alarm, publishing, inputs, report, ready, link, stage, io, raised, muted>>
    BY <1>4 DEF Disconnected, cfgVars, inputVars, serverVars
  <2>2. Pending => Pending'
    BY <1>4, DeliveredLoss DEF Disconnected
  <2>3. Current' => Current
    BY <2>1, <2>2 DEF Current, Started
  <2> QED
    BY <2>1, <2>3, SameShown
<1>5. CASE Start
  <2>1. UNCHANGED <<alarm, publishing, inputs, report, ready, link, io>> /\ PublishAll
    BY <1>5 DEF Start, cfgVars, inputVars, streamVars
  <2> QED
    BY <2>1, PublishedIsShown DEF ShownInv, AlarmShown, Current, Heard
<1>6. ASSUME NEW a \in SUBSET Inputs, NEW g \in Graces, UpdateConfig(a, g) PROVE ShownInv'
  <2> DEFINE edited == (alarm \ a) \cup (a \ alarm)
             told   == IF ready /\ Heard THEN edited \cap inputs ELSE {}
  <2>1. /\ io = "poll" /\ alarm' = a /\ Started
        /\ raised' = (raised \ told) \cup (a \cap told)
        /\ muted' = (muted \ told) \cup (IF Current THEN {} ELSE alarm \ (a \cup told))
        /\ UNCHANGED <<io, publishing, inputs, report, ready, link, stage, events>>
    BY <1>6 DEF UpdateConfig, inputVars, streamVars
  <2>2. report = {} /\ (Current' <=> Current)
    BY <2>1 DEF ShownInv, Current, Started, Pending
  <2>3. ASSUME Current, publishing, NEW i \in Inputs \ muted' PROVE i \in raised' <=> i \in a \cap inputs
    <3>1. told = edited \cap inputs
      BY <2>3 DEF Current, Heard
    <3>2. CASE i \in told
      BY <2>1, <3>1, <3>2
    <3>3. CASE i \notin told
      <4>1. i \in raised <=> i \in alarm \cap inputs
        BY <2>1, <2>2, <2>3, <3>3 DEF ShownInv, AlarmShown
      <4> QED
        BY <2>1, <3>1, <3>3, <4>1
    <3> QED
      BY <3>2, <3>3
  <2>4. ASSUME publishing, NEW i \in Inputs \ (a \cup muted') PROVE i \notin raised'
    <3>1. CASE Current
      BY <2>3, <2>4, <3>1
    <3>2. CASE ~Current
      BY <2>1, <2>4, <3>2 DEF ShownInv
    <3> QED
      BY <3>1, <3>2
  <2> HIDE DEF told
  <2> QED
    BY <2>1, <2>2, <2>3, <2>4 DEF ShownInv, AlarmShown
<1>7. ASSUME NEW now \in SUBSET Inputs, Poll(now) PROVE ShownInv'
  <2>1. /\ io = "poll" /\ io' = "tick" /\ inputs' = now
        /\ report' = IF ready THEN (inputs \ now) \cup (now \ inputs) ELSE Inputs
        /\ UNCHANGED <<alarm, publishing, raised, muted, link, stage, events>>
    BY <1>7 DEF Poll, cfgVars, serverVars, streamVars
  <2>2. CASE ready
    <3>1. Current' => Current
      BY <2>1, <2>2 DEF Current, Started, Pending
    <3> QED
      BY <2>1, <2>2, <3>1 DEF ShownInv, AlarmShown
  <2>3. CASE ~ready
    BY <2>1, <2>3 DEF ShownInv, AlarmShown
  <2> QED
    BY <2>2, <2>3
<1>8. ASSUME NEW i \in Inputs, InputChanged(i) PROVE ShownInv'
  <2>1. /\ i \in report /\ report' = report \ {i}
        /\ UNCHANGED <<alarm, publishing, inputs, ready, link, stage, events, io>>
    BY <1>8 DEF InputChanged, cfgVars, streamVars
  <2>2. Current' <=> Current
    BY <2>1 DEF Current, Started, Pending
  <2>3. CASE Started /\ i \in alarm /\ Heard
    <3>1. /\ raised' = (raised \ {i}) \cup (inputs \cap {i}) /\ muted' = muted \ {i}
      BY <1>8, <2>3 DEF InputChanged, Notify
    <3> QED
      BY <2>1, <2>2, <2>3, <3>1 DEF ShownInv, AlarmShown
  <2>4. CASE ~(Started /\ i \in alarm /\ Heard)
    <3>1. UNCHANGED <<raised, muted>>
      BY <1>8, <2>4 DEF InputChanged, Notify
    <3> QED
      BY <2>1, <2>2, <2>4, <3>1 DEF ShownInv, AlarmShown, Current, Heard
  <2> QED
    BY <2>3, <2>4
<1>9. CASE Tick
  <2>1. report = {} /\ UNCHANGED <<alarm, publishing, inputs, report, ready, link, stage, events>>
    BY <1>9 DEF Tick, cfgVars, inputVars, streamVars
  <2>2. Current' <=> Current
    BY <2>1 DEF Current, Started, Pending
  <2>3. CASE UNCHANGED <<raised, muted>>
    BY <2>1, <2>2, <2>3, SameShown
  <2>4. CASE PublishStates
    BY <2>1, <2>2, <2>4 DEF PublishStates, Notify, ShownInv, AlarmShown, Heard
  <2> QED
    BY <1>9, <2>3, <2>4 DEF Tick, serverVars
<1>10. ASSUME UNCHANGED <<streamVars, stage, cfgVars, inputVars, raised, muted>>, io # "tick" \/ io' = io
                 \/ report = {}
       PROVE  ShownInv'
  <2>1. Current' => Current
    BY <1>10 DEF Current, Started, Pending, streamVars, inputVars
  <2> QED
    BY <1>10, <2>1, SameShown DEF cfgVars, inputVars
<1>11. CASE PollNotReady
  <2>1. ~Current'
    BY <1>11 DEF PollNotReady, Current, inputVars
  <2> QED
    BY <1>11, <2>1, SameShown DEF PollNotReady, cfgVars, inputVars, serverVars
<1>12. CASE Subscribe
  <2>1. ~Current'
    BY <1>12 DEF Subscribe, Current, Started
  <2> QED
    BY <1>12, <2>1, SameShown DEF Subscribe, cfgVars, inputVars, serverVars
<1>13. CASE SkLost
  BY <1>13, <1>10 DEF SkLost, serverVars
<1>14. ASSUME Elapse \/ UNCHANGED vars \/ \E i \in Relays : Switch(i) PROVE ShownInv'
  BY <1>14, <1>10 DEF Elapse, Switch, vars, serverVars
<1> QED
  BY <1>1, <1>2, <1>3, <1>4, <1>5, <1>6, <1>7, <1>8, <1>9, <1>11, <1>12, <1>13, <1>14
     DEF Next, Stream

\* sk_bridge.c:246-248: a connected server shows the alarms as they are, also
\* those that cleared or were edited while it was away or the device was off.
THEOREM AlarmAlwaysShown == Spec => []AlarmShown
<1>1. Init => ShownInv
  BY DEF Init, ShownInv, AlarmShown, Current
<1>2. ShownInv => AlarmShown
  BY DEF ShownInv
<1> QED
  BY <1>1, <1>2, EventsInit, EventsStep, ShownStep, PTL DEF Spec

=============================================================================
