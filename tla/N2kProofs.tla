------------------------------- MODULE N2kProofs -------------------------------
(***************************************************************************)
(* Theorems about the NMEA 2000 side.  TwaiNode: its types, and that the   *)
(* driver always finds the frames it accepted behind the pointers it       *)
(* keeps.  CanReceive: that it adds nothing to what TwaiNode does, and     *)
(* that received frames keep their order.  N2kAlerts: its types, that no   *)
(* display is left with an alert that was cleared, that an acknowledgement *)
(* is only taken for the alert it was meant for, and when the display is   *)
(* right.                                                                  *)
(***************************************************************************)
EXTENDS CanReceive, N2kAlerts, SequenceTheorems, FiniteSetTheorems, WellFoundedInduction, TLAPS

\* Slots are numbers, and there is one.
LEMMA SlotsAreThere == Slots \subseteq Nat /\ 1 \in Slots
<1>1. SlotCount \in Nat /\ 1 <= SlotCount
  BY TwaiAssumption DEF SlotCount
<1> QED
  BY <1>1 DEF Slots

\* What accepting a frame makes of the driver's queue.
LEMMA HeldGrows ==
    ASSUME TypeOK, held' = Append(held, slot)
    PROVE  /\ held' \in Seq(Slots)
           /\ Len(held) \in Nat
           /\ Len(held') = Len(held) + 1
           /\ \A k \in 1 .. Len(held) : held'[k] = held[k]
           /\ held'[Len(held) + 1] = slot
BY AppendProperties, LenProperties DEF TypeOK

\* What it loses when the frame in the controller is done with.
LEMMA HeldShrinks ==
    ASSUME TypeOK, held # <<>>, held' = Tail(held)
    PROVE  /\ held' \in Seq(Slots)
           /\ Len(held) \in Nat \ {0}
           /\ Len(held') = Len(held) - 1
           /\ \A k \in 1 .. Len(held') : held'[k] = held[k + 1]
           /\ Head(held) = held[1]
<1>1. held \in Seq(Slots)
  BY DEF TypeOK
<1>2. Len(held) \in Nat \ {0}
  <2>1. \A s \in Seq(Slots) : s # <<>> => Len(s) \in Nat \ {0}
    BY EmptySeq
  <2> QED
    BY <1>1, <2>1
<1>3. Head(held) = held[1]
  BY <1>1
<1> QED
  BY <1>1, <1>2, <1>3, HeadTailProperties

\* The node starts with every variable in its type.
THEOREM TypeInit == Init => TypeOK
<1>1. <<>> \in Seq(Slots)
  BY EmptySeq
<1>2. [s \in Slots |-> 0] \in [Slots -> Nat]
  OBVIOUS
<1>3. 1 \in Slots
  BY SlotsAreThere
<1> QED
  BY <1>1, <1>2, <1>3 DEF Init, TypeOK, Places

\* No step of transmit(), the driver or the recovery leaves the types.
THEOREM TypeStep == TypeOK /\ [Next]_vars => TypeOK'
<1> SUFFICES ASSUME TypeOK, [Next]_vars PROVE TypeOK'
  OBVIOUS
<1> USE DEF TypeOK, Places
<1>1. CASE Give
  BY <1>1 DEF Give, driverVars, txVars, rxVars
<1>2. CASE TransmitLook
  BY <1>2 DEF TransmitLook, driverVars, frameVars, rxVars
<1>3. CASE TransmitDrain
  BY <1>3 DEF TransmitDrain, driverVars, frameVars, rxVars
<1>4. CASE TransmitReclaim
  BY <1>4, SlotsAreThere DEF TransmitReclaim, driverVars, frameVars, rxVars
<1>5. CASE TransmitFill
  BY <1>5 DEF TransmitFill, driverVars, frameVars, rxVars
<1>6. CASE TransmitMark
  BY <1>6 DEF TransmitMark, driverVars, frameVars, rxVars
<1>7. CASE TransmitHand
  <2>1. held' \in Seq(Slots)
    BY <1>7, HeldGrows DEF TransmitHand
  <2> QED
    BY <1>7, <2>1 DEF TransmitHand, rxVars
<1>8. CASE TransmitUnmark
  BY <1>8 DEF TransmitUnmark, driverVars, frameVars, rxVars
<1>9. CASE OnTxDone
  <2>1. held' \in Seq(Slots)
    BY <1>9, HeldShrinks DEF OnTxDone
  <2> QED
    BY <1>9, <2>1 DEF OnTxDone, txVars, rxVars
<1>10. CASE BusOff
  <2>1. held' \in Seq(Slots)
    BY <1>10, HeldShrinks DEF BusOff
  <2> QED
    BY <1>10, <2>1 DEF BusOff, txVars
<1>11. CASE Recover
  BY <1>11 DEF Recover, driverVars, frameVars, txVars
<1>12. CASE BusRecovered
  BY <1>12 DEF BusRecovered, frameVars, txVars, rxVars
<1>13. CASE UNCHANGED vars
  BY <1>13 DEF vars, driverVars, frameVars, txVars, rxVars
<1> QED
  BY <1>1, <1>2, <1>3, <1>4, <1>5, <1>6, <1>7, <1>8, <1>9, <1>10, <1>11, <1>12, <1>13
  DEF Next, Transmit

\* Every variable of the node keeps its type, for any number of slots.
THEOREM NodeTypeCorrect == Spec => []TypeOK
BY TypeInit, TypeStep, PTL DEF Spec

-----------------------------------------------------------------------------
(***************************************************************************)
(* The inductive invariant: what the driver holds is marked in use, each   *)
(* slot once; transmit() works on a slot the driver does not hold, and on  *)
(* one that carries the next frame from the time it is filled; and while   *)
(* it takes all slots back the driver holds none.                          *)
(***************************************************************************)
HeldMarked == \A k \in 1 .. Len(held) : held[k] \in inUse

HeldOnce == \A k, n \in 1 .. Len(held) : k # n => held[k] # held[n]

SlotFree ==
    pc \in {"fill", "mark", "hand", "unmark"} =>
        \A k \in 1 .. Len(held) : held[k] # slot

SlotFilled == pc \in {"mark", "hand"} => content[slot] = accepted + 1

SlotMarked == pc = "hand" => slot \in inUse

DriverIdle == pc = "reclaim" => held = <<>>

SlotInv ==
    /\ HeldMarked
    /\ HeldOnce
    /\ SlotFree
    /\ SlotFilled
    /\ SlotMarked
    /\ DriverIdle
    /\ FramesIntact

\* The node starts with all slots free and none with the driver.
THEOREM SlotInit == Init => SlotInv
BY DEF Init, SlotInv, HeldMarked, HeldOnce, SlotFree, SlotFilled, SlotMarked,
       DriverIdle, FramesIntact

\* The driver lets go of the frame in the controller; transmit() stays put.
\* The slot of that frame may be handed back or not.
LEMMA LettingGo ==
    ASSUME TypeOK, SlotInv, held # <<>>, held' = Tail(held), done' = done + 1,
           inUse \ {Head(held)} \subseteq inUse',
           UNCHANGED <<content, accepted, pc, slot>>
    PROVE  SlotInv'
<1> USE HeldShrinks DEF SlotInv
<1>1. HeldMarked'
  <2> SUFFICES ASSUME NEW k \in 1 .. Len(held') PROVE held'[k] \in inUse'
    BY DEF HeldMarked
  <2>1. k + 1 \in 1 .. Len(held) /\ 1 \in 1 .. Len(held) /\ k + 1 # 1
    OBVIOUS
  <2>2. held[k + 1] \in inUse /\ held[k + 1] # held[1]
    BY <2>1 DEF HeldMarked, HeldOnce
  <2> QED
    BY <2>2
<1>2. HeldOnce'
  BY DEF HeldOnce
<1>3. SlotFree'
  BY DEF SlotFree
<1>4. SlotFilled'
  BY DEF SlotFilled
<1>5. SlotMarked'
  <2>1. pc = "hand" => slot # held[1]
    BY DEF SlotFree
  <2> QED
    BY <2>1 DEF SlotMarked
<1>6. DriverIdle'
  BY DEF DriverIdle
<1>7. FramesIntact'
  <2>1. accepted' = done' + Len(held')
    BY DEF FramesIntact, TypeOK
  <2>2. ASSUME NEW k \in 1 .. Len(held') PROVE content'[held'[k]] = done' + k
    BY <2>2 DEF FramesIntact, TypeOK
  <2> QED
    BY <2>1, <2>2 DEF FramesIntact
<1> QED
  BY <1>1, <1>2, <1>3, <1>4, <1>5, <1>6, <1>7

\* The driver accepts the frame transmit() has prepared.
LEMMA Accepting ==
    ASSUME TypeOK, SlotInv, pc = "hand", held' = Append(held, slot),
           accepted' = accepted + 1, pc' = "idle",
           UNCHANGED <<content, inUse, done, slot>>
    PROVE  SlotInv'
<1> USE HeldGrows DEF SlotInv
<1>1. HeldMarked'
  BY DEF HeldMarked, SlotMarked
<1>2. HeldOnce'
  BY DEF HeldOnce, SlotFree
<1>3. SlotFree' /\ SlotFilled' /\ SlotMarked' /\ DriverIdle'
  BY DEF SlotFree, SlotFilled, SlotMarked, DriverIdle
<1>4. FramesIntact'
  <2>1. accepted' = done' + Len(held')
    BY DEF FramesIntact, TypeOK
  <2>2. ASSUME NEW k \in 1 .. Len(held') PROVE content'[held'[k]] = done' + k
    <3>1. CASE k \in 1 .. Len(held)
      BY <3>1 DEF FramesIntact
    <3>2. CASE k = Len(held) + 1
      BY <3>2 DEF FramesIntact, SlotFilled, TypeOK
    <3> QED
      BY <3>1, <3>2
  <2> QED
    BY <2>1, <2>2 DEF FramesIntact
<1> QED
  BY <1>1, <1>2, <1>3, <1>4

\* No step reuses a slot the driver still points at (twai_node.cpp:201-242).
THEOREM SlotStep == TypeOK /\ SlotInv /\ [Next]_vars => SlotInv'
<1> SUFFICES ASSUME TypeOK, SlotInv, [Next]_vars PROVE SlotInv'
  OBVIOUS
<1> USE DEF SlotInv
<1>1. CASE Give
  BY <1>1 DEF Give, driverVars, txVars, rxVars, HeldMarked, HeldOnce, SlotFree,
              SlotFilled, SlotMarked, DriverIdle, FramesIntact
<1>2. CASE TransmitLook
  <2>1. UNCHANGED <<content, inUse, held, accepted, done>>
    BY <1>2 DEF TransmitLook, driverVars, frameVars
  <2>2. pc' = "drain" \/ (pc' = "fill" /\ slot' \notin inUse)
    BY <1>2 DEF TransmitLook, Lowest
  <2> QED
    BY <2>1, <2>2 DEF HeldMarked, HeldOnce, SlotFree, SlotFilled, SlotMarked,
                      DriverIdle, FramesIntact
<1>3. CASE TransmitDrain
  BY <1>3 DEF TransmitDrain, driverVars, frameVars, rxVars, HeldMarked, HeldOnce,
              SlotFree, SlotFilled, SlotMarked, DriverIdle, FramesIntact
<1>4. CASE TransmitReclaim
  <2>1. held = <<>> /\ held' = <<>> /\ pc' = "fill"
    BY <1>4 DEF TransmitReclaim, driverVars, DriverIdle
  <2>2. UNCHANGED <<content, accepted, done>>
    BY <1>4 DEF TransmitReclaim, frameVars
  <2> QED
    BY <2>1, <2>2 DEF HeldMarked, HeldOnce, SlotFree, SlotFilled, SlotMarked,
                      DriverIdle, FramesIntact
<1>5. CASE TransmitFill
  <2>1. /\ pc = "fill" /\ pc' = "mark"
        /\ UNCHANGED <<inUse, held, accepted, done, slot>>
        /\ content' = [content EXCEPT ![slot] = accepted + 1]
    BY <1>5 DEF TransmitFill, driverVars, frameVars
  <2>2. content'[slot] = accepted + 1
    BY <2>1 DEF TypeOK
  <2>3. \A k \in 1 .. Len(held) : content'[held[k]] = content[held[k]]
    BY <2>1 DEF SlotFree, TypeOK
  <2> QED
    BY <2>1, <2>2, <2>3 DEF HeldMarked, HeldOnce, SlotFree, SlotFilled,
                            SlotMarked, DriverIdle, FramesIntact
<1>6. CASE TransmitMark
  BY <1>6 DEF TransmitMark, driverVars, frameVars, rxVars, HeldMarked, HeldOnce,
              SlotFree, SlotFilled, SlotMarked, DriverIdle, FramesIntact
<1>7. CASE TransmitHand
  <2>1. CASE accepted' = accepted + 1 /\ held' = Append(held, slot) /\ pc' = "idle"
    BY <1>7, <2>1, Accepting DEF TransmitHand
  <2>2. CASE pc' = "unmark" /\ UNCHANGED <<held, accepted>>
    BY <1>7, <2>2 DEF TransmitHand, HeldMarked, HeldOnce, SlotFree, SlotFilled,
                      SlotMarked, DriverIdle, FramesIntact
  <2> QED
    BY <1>7, <2>1, <2>2 DEF TransmitHand
<1>8. CASE TransmitUnmark
  BY <1>8 DEF TransmitUnmark, driverVars, frameVars, rxVars, HeldMarked, HeldOnce,
              SlotFree, SlotFilled, SlotMarked, DriverIdle, FramesIntact
<1>9. CASE OnTxDone
  BY <1>9, LettingGo DEF OnTxDone, txVars
<1>10. CASE BusOff
  <2>1. CASE held = <<>>
    BY <1>10, <2>1 DEF BusOff, txVars, HeldMarked, HeldOnce, SlotFree, SlotFilled,
                       SlotMarked, DriverIdle, FramesIntact
  <2>2. CASE held # <<>>
    BY <1>10, <2>2, LettingGo DEF BusOff, txVars
  <2> QED
    BY <2>1, <2>2
<1>11. CASE Recover
  BY <1>11 DEF Recover, driverVars, frameVars, txVars, HeldMarked, HeldOnce,
               SlotFree, SlotFilled, SlotMarked, DriverIdle, FramesIntact
<1>12. CASE BusRecovered
  BY <1>12 DEF BusRecovered, frameVars, txVars, HeldMarked, HeldOnce, SlotFree,
               SlotFilled, SlotMarked, DriverIdle, FramesIntact
<1>13. CASE UNCHANGED vars
  BY <1>13 DEF vars, driverVars, frameVars, txVars, HeldMarked, HeldOnce, SlotFree,
               SlotFilled, SlotMarked, DriverIdle, FramesIntact
<1> QED
  BY <1>1, <1>2, <1>3, <1>4, <1>5, <1>6, <1>7, <1>8, <1>9, <1>10, <1>11, <1>12, <1>13
  DEF Next, Transmit

\* The driver never finds a frame overwritten, missing, doubled or out of
\* order behind its pointers, however interrupts, bus-offs and recoveries fall
\* between the steps of transmit() (twai_node.cpp:201-242), for any number of
\* slots and any queue.
THEOREM FramesAlwaysIntact == Spec => []FramesIntact
<1>1. Init => TypeOK /\ SlotInv
  BY TypeInit, SlotInit
<1>2. TypeOK /\ SlotInv /\ [Next]_vars => (TypeOK /\ SlotInv)'
  BY TypeStep, SlotStep
<1>3. SlotInv => FramesIntact
  BY DEF SlotInv
<1> QED
  BY <1>1, <1>2, <1>3, PTL DEF Spec

(***************************************************************************)
(* The receive side.                                                       *)
(***************************************************************************)
\* With its receive side the node takes no step on the transmit side that it
\* does not take without: what holds of TwaiNode holds of both.
THEOREM ReceiveImplementsNode == ReceiveSpec => Spec
<1>1. ReceiveInit => Init
  BY DEF ReceiveInit
<1>2. [ReceiveNext]_allVars => [Next]_vars
  BY DEF ReceiveNext, allVars, Sending, Next, RxTask, TaskTop, TaskTakes, TaskTimesOut,
         TaskDelivers, OnRxDone, CANGetFrame, SetSink
<1> QED
  BY <1>1, <1>2, PTL DEF ReceiveSpec, Spec

Increasing(s) == \A i, j \in DOMAIN s : i < j => s[i] < s[j]

UpTo(s, n) == \A i \in DOMAIN s : s[i] <= n

\* Places before and after one that is gone.
LEMMA Shifted ==
    ASSUME NEW m \in Nat, NEW l \in Nat, NEW i \in 1 .. m + l
    PROVE  /\ (IF i <= m THEN i ELSE i + 1) \in 1 .. m + 1 + l
           /\ \A j \in 1 .. m + l :
                 i < j => (IF i <= m THEN i ELSE i + 1) < (IF j <= m THEN j ELSE j + 1)
OBVIOUS

\* A frame lost from the middle leaves the others in order.
LEMMA OneLost ==
    ASSUME NEW s \in Seq(Nat), NEW x \in Nat, NEW t \in Seq(Nat), NEW n \in Nat,
           Increasing((s \o <<x>>) \o t), UpTo((s \o <<x>>) \o t, n)
    PROVE  /\ Increasing(s \o t)
           /\ UpTo(s \o t, n)
           /\ Len(s \o t) = Len((s \o <<x>>) \o t) - 1
<1> DEFINE a == (s \o <<x>>) \o t
           b == s \o t
           m == Len(s)
<1>1. <<x>> \in Seq(Nat) /\ Len(<<x>>) = 1
  OBVIOUS
<1>2. /\ s \o <<x>> \in Seq(Nat) /\ Len(s \o <<x>>) = m + 1
      /\ \A i \in 1 .. m : (s \o <<x>>)[i] = s[i]
  BY <1>1, ConcatProperties, LenProperties
<1>3. a \in Seq(Nat) /\ Len(a) = m + 1 + Len(t) /\ DOMAIN a = 1 .. m + 1 + Len(t)
  BY <1>2, ConcatProperties, LenProperties
<1>4. b \in Seq(Nat) /\ Len(b) = m + Len(t) /\ DOMAIN b = 1 .. m + Len(t)
  BY ConcatProperties, LenProperties
<1>5. m \in Nat /\ Len(t) \in Nat
  BY LenProperties
<1>6. \A i \in 1 .. m + Len(t) : b[i] = a[IF i <= m THEN i ELSE i + 1]
  <2>1. \A i \in 1 .. m + Len(t) : b[i] = IF i <= m THEN s[i] ELSE t[i - m]
    BY ConcatProperties
  <2>2. \A i \in 1 .. m + 1 + Len(t) :
           a[i] = IF i <= m + 1 THEN (s \o <<x>>)[i] ELSE t[i - (m + 1)]
    BY <1>2, ConcatProperties
  <2> QED
    BY <1>2, <1>5, <2>1, <2>2
<1> HIDE DEF a, b, m
<1>7. Increasing(a) /\ UpTo(a, n)
  BY DEF a
<1>8. Increasing(b)
  <2> SUFFICES ASSUME NEW i \in 1 .. m + Len(t), NEW j \in 1 .. m + Len(t), i < j
               PROVE  b[i] < b[j]
    BY <1>4 DEF Increasing
  <2> DEFINE p == IF i <= m THEN i ELSE i + 1
             q == IF j <= m THEN j ELSE j + 1
  <2>1. p \in DOMAIN a /\ q \in DOMAIN a /\ p < q
    BY <1>3, <1>5, Shifted
  <2> HIDE DEF p, q
  <2>2. a[p] < a[q]
    BY <1>7, <2>1 DEF Increasing
  <2>3. b[i] = a[p] /\ b[j] = a[q]
    BY <1>6 DEF p, q
  <2> QED
    BY <2>2, <2>3
<1>9. UpTo(b, n)
  <2> SUFFICES ASSUME NEW i \in 1 .. m + Len(t) PROVE b[i] <= n
    BY <1>4 DEF UpTo
  <2>1. (IF i <= m THEN i ELSE i + 1) \in DOMAIN a
    BY <1>3, <1>5, Shifted
  <2> QED
    BY <1>6, <1>7, <2>1 DEF UpTo
<1> QED
  BY <1>3, <1>4, <1>5, <1>8, <1>9 DEF a, b

\* A frame that arrives is newer than all.
LEMMA OneMore ==
    ASSUME NEW s \in Seq(Nat), NEW n \in Nat, Increasing(s), UpTo(s, n)
    PROVE  /\ Increasing(Append(s, n + 1))
           /\ UpTo(Append(s, n + 1), n + 1)
           /\ Len(Append(s, n + 1)) = Len(s) + 1
<1>1. /\ Append(s, n + 1) \in Seq(Nat)
      /\ Len(Append(s, n + 1)) = Len(s) + 1
      /\ \A i \in 1 .. Len(s) : Append(s, n + 1)[i] = s[i]
      /\ Append(s, n + 1)[Len(s) + 1] = n + 1
  BY AppendProperties
<1>2. DOMAIN Append(s, n + 1) = 1 .. Len(s) + 1 /\ DOMAIN s = 1 .. Len(s) /\ Len(s) \in Nat
  BY <1>1, LenProperties
<1>3. \A i \in 1 .. Len(s) : s[i] \in Nat /\ s[i] <= n
  BY <1>2, ElementOfSeq DEF UpTo
<1>4. \A i, j \in 1 .. Len(s) : i < j => s[i] < s[j]
  BY <1>2 DEF Increasing
<1> HIDE DEF Increasing
<1>5. UpTo(Append(s, n + 1), n + 1)
  BY <1>1, <1>2, <1>3 DEF UpTo
<1>6. Increasing(Append(s, n + 1))
  <2> SUFFICES ASSUME NEW i \in 1 .. Len(s) + 1, NEW j \in 1 .. Len(s) + 1, i < j
               PROVE  Append(s, n + 1)[i] < Append(s, n + 1)[j]
    BY <1>2 DEF Increasing
  <2>1. CASE j = Len(s) + 1
    BY <1>1, <1>2, <1>3, <2>1
  <2>2. CASE j # Len(s) + 1
    BY <1>1, <1>2, <1>4, <2>2
  <2> QED
    BY <2>1, <2>2
<1> QED
  BY <1>1, <1>5, <1>6

\* A sequence is its head and the rest.
LEMMA HeadAndTail ==
    ASSUME NEW s \in Seq(Nat), s # <<>>
    PROVE  /\ Head(s) \in Nat /\ Tail(s) \in Seq(Nat)
           /\ <<Head(s)>> \in Seq(Nat)
           /\ s = <<Head(s)>> \o Tail(s)
<1>1. /\ Head(s) \in Nat /\ Tail(s) \in Seq(Nat) /\ Len(Tail(s)) = Len(s) - 1
      /\ \A i \in 1 .. Len(Tail(s)) : Tail(s)[i] = s[i + 1]
      /\ Len(s) \in Nat
  BY HeadTailProperties, LenProperties
<1>2. <<Head(s)>> \in Seq(Nat) /\ Len(<<Head(s)>>) = 1 /\ <<Head(s)>>[1] = s[1]
  BY <1>1
<1>3. /\ <<Head(s)>> \o Tail(s) \in Seq(Nat)
      /\ Len(<<Head(s)>> \o Tail(s)) = Len(s)
      /\ \A i \in 1 .. Len(s) : (<<Head(s)>> \o Tail(s))[i] = s[i]
  BY <1>1, <1>2, ConcatProperties
<1> QED
  BY <1>1, <1>2, <1>3, SeqEqual

OrderInv ==
    /\ ReceiveTypeOK
    /\ Increasing(OnTheWay)
    /\ UpTo(OnTheWay, Arrived)
    /\ Len(OnTheWay) = framesRx - missed

\* What a step that leaves the frames and their number alone keeps.
LEMMA SameFrames ==
    ASSUME OrderInv, ReceiveTypeOK', OnTheWay' = OnTheWay,
           UNCHANGED <<framesRx, framesDropped, missed>>
    PROVE  OrderInv'
BY DEF OrderInv, Increasing, UpTo, Arrived

LEMMA OrderArrives ==
    ASSUME OrderInv, OnRxDone
    PROVE  OrderInv'
<1>1. /\ read \in Seq(Nat) /\ bridgeQueue \in Seq(Nat) /\ InHand \in Seq(Nat)
      /\ rxQueue \in Seq(Nat) /\ framesRx \in Nat /\ framesDropped \in Nat /\ missed \in Nat
  BY DEF OrderInv, ReceiveTypeOK, InHand
<1>2. Arrived \in Nat
  BY <1>1 DEF Arrived
<1>3. InHand' = InHand /\ read' = read /\ bridgeQueue' = bridgeQueue /\ missed' = missed
  BY DEF OnRxDone, InHand
<1>4. OnTheWay \in Seq(Nat) /\ (read \o bridgeQueue) \o InHand \in Seq(Nat)
  BY <1>1, ConcatProperties DEF OnTheWay
<1>5. CASE rxQueue' = Append(rxQueue, Arrived + 1) /\ framesRx' = framesRx + 1
           /\ framesDropped' = framesDropped
  <2> DEFINE A == (read \o bridgeQueue) \o InHand
             x == Arrived + 1
  <2>1. <<x>> \in Seq(Nat) /\ x \in Nat
    BY <1>2
  <2>2. rxQueue' = rxQueue \o <<x>> /\ rxQueue' \in Seq(Nat)
    BY <1>1, <1>5, <2>1, AppendIsConcat, AppendProperties
  <2>3. OnTheWay' = A \o (rxQueue \o <<x>>)
    BY <1>3, <2>2 DEF OnTheWay
  <2>4. A \o (rxQueue \o <<x>>) = (A \o rxQueue) \o <<x>>
    <3>1. A \in Seq(Nat)
      BY <1>4
    <3> HIDE DEF A, x
    <3> QED
      BY <1>1, <2>1, <3>1, ConcatAssociative
  <2>5. OnTheWay' = Append(OnTheWay, x)
    BY <1>4, <2>1, <2>3, <2>4, AppendIsConcat DEF OnTheWay
  <2>6. Arrived' = Arrived + 1
    BY <1>1, <1>5 DEF Arrived
  <2>7. ReceiveTypeOK'
    BY <1>1, <1>5, <2>2 DEF OnRxDone, OrderInv, ReceiveTypeOK
  <2>8. /\ Increasing(Append(OnTheWay, x)) /\ UpTo(Append(OnTheWay, x), Arrived + 1)
        /\ Len(Append(OnTheWay, x)) = Len(OnTheWay) + 1
    BY <1>2, <1>4, OneMore DEF OrderInv
  <2>9. Len(OnTheWay) = framesRx - missed
    BY DEF OrderInv
  <2>10. Len(OnTheWay') = framesRx' - missed'
    BY <1>1, <1>3, <1>5, <2>5, <2>8, <2>9
  <2>11. Increasing(OnTheWay') /\ UpTo(OnTheWay', Arrived')
    BY <2>5, <2>6, <2>8
  <2> QED
    BY <2>7, <2>10, <2>11 DEF OrderInv, Increasing, UpTo
<1>6. CASE framesDropped' = framesDropped + 1 /\ UNCHANGED <<rxQueue, framesRx>>
  <2>1. OnTheWay' = OnTheWay
    BY <1>3, <1>6 DEF OnTheWay
  <2>2. Arrived' = Arrived + 1
    BY <1>1, <1>6 DEF Arrived
  <2>3. ReceiveTypeOK'
    BY <1>1, <1>6 DEF OnRxDone, OrderInv, ReceiveTypeOK
  <2>4. \A i \in DOMAIN OnTheWay : OnTheWay[i] \in Nat /\ OnTheWay[i] <= Arrived
    BY <1>4, ElementOfSeq, LenProperties DEF OrderInv, UpTo
  <2>5. \A i \in DOMAIN OnTheWay : OnTheWay[i] <= Arrived + 1
    BY <1>2, <2>4
  <2>6. UpTo(OnTheWay, Arrived)'
    BY <2>1, <2>2, <2>5 DEF UpTo
  <2>7. Increasing(OnTheWay)'
    BY <2>1 DEF OrderInv, Increasing
  <2> QED
    BY <1>3, <1>6, <2>1, <2>3, <2>6, <2>7 DEF OrderInv
<1> QED
  BY <1>5, <1>6 DEF OnRxDone

LEMMA OrderTasks ==
    ASSUME OrderInv, RxTask \/ CANGetFrame \/ SetSink
    PROVE  OrderInv'
<1>1. /\ read \in Seq(Nat) /\ bridgeQueue \in Seq(Nat) /\ rxQueue \in Seq(Nat)
      /\ item \in Nat /\ <<item>> \in Seq(Nat) /\ missed \in Nat /\ framesRx \in Nat
      /\ framesDropped \in Nat
  BY DEF OrderInv, ReceiveTypeOK
<1> DEFINE B == read \o bridgeQueue
<1>2. B \in Seq(Nat)
  BY <1>1, ConcatProperties
<1>3. \A s \in Seq(Nat) : s \o <<>> = s
  BY ConcatEmptySeq
<1>4. CASE TaskTop \/ TaskTimesOut \/ SetSink
  <2>1. ReceiveTypeOK'
    BY <1>4 DEF TaskTop, TaskTimesOut, SetSink, counters, OrderInv, ReceiveTypeOK
  <2>2. InHand' = InHand
    BY <1>4 DEF TaskTop, TaskTimesOut, SetSink, InHand
  <2>3. OnTheWay' = OnTheWay /\ UNCHANGED <<framesRx, framesDropped, missed>>
    BY <1>4, <2>2 DEF TaskTop, TaskTimesOut, SetSink, counters, OnTheWay
  <2> QED
    BY <2>1, <2>3, SameFrames
<1>5. CASE TaskTakes
  <2>1. /\ Head(rxQueue) \in Nat /\ Tail(rxQueue) \in Seq(Nat) /\ <<Head(rxQueue)>> \in Seq(Nat)
        /\ rxQueue = <<Head(rxQueue)>> \o Tail(rxQueue)
    BY <1>1, <1>5, HeadAndTail DEF TaskTakes
  <2>2. InHand = <<>> /\ InHand' = <<Head(rxQueue)>> /\ rxQueue' = Tail(rxQueue)
        /\ UNCHANGED <<read, bridgeQueue, framesRx, framesDropped, missed, sink>>
    BY <1>5 DEF TaskTakes, InHand, counters
  <2>3. ReceiveTypeOK'
    BY <1>5, <2>1, <2>2 DEF TaskTakes, OrderInv, ReceiveTypeOK
  <2>4. OnTheWay = B \o rxQueue
    BY <1>2, <1>3, <2>2 DEF OnTheWay
  <2>5. OnTheWay' = (B \o <<Head(rxQueue)>>) \o Tail(rxQueue)
    BY <2>2 DEF OnTheWay
  <2>6. (B \o <<Head(rxQueue)>>) \o Tail(rxQueue) = B \o (<<Head(rxQueue)>> \o Tail(rxQueue))
    <3> HIDE DEF B
    <3> QED
      BY <1>2, <2>1, ConcatAssociative
  <2>7. OnTheWay' = OnTheWay
    BY <2>1, <2>4, <2>5, <2>6
  <2> QED
    BY <2>2, <2>3, <2>7, SameFrames
<1>6. CASE TaskDelivers
  <2>1. InHand = <<item>> /\ InHand' = <<>> /\ UNCHANGED <<read, rxQueue, framesRx, framesDropped>>
    BY <1>6 DEF TaskDelivers, InHand, counters
  <2>2. OnTheWay = (B \o <<item>>) \o rxQueue
    BY <2>1 DEF OnTheWay
  <2>3. CASE bridgeQueue' = Append(bridgeQueue, item) /\ missed' = missed
    <3>1. bridgeQueue' = bridgeQueue \o <<item>> /\ bridgeQueue' \in Seq(Nat)
      BY <1>1, <2>3, AppendIsConcat, AppendProperties
    <3>2. read \o (bridgeQueue \o <<item>>) = B \o <<item>>
      BY <1>1, ConcatAssociative
    <3>3. B \o <<item>> \in Seq(Nat)
      BY <1>1, <1>2, ConcatProperties
    <3>4. OnTheWay' = ((B \o <<item>>) \o <<>>) \o rxQueue
      BY <2>1, <3>1, <3>2 DEF OnTheWay
    <3>5. OnTheWay' = OnTheWay
      BY <1>3, <2>2, <3>3, <3>4
    <3>6. ReceiveTypeOK'
      BY <1>6, <2>1, <2>3, <3>1 DEF TaskDelivers, OrderInv, ReceiveTypeOK
    <3> QED
      BY <2>1, <2>3, <3>5, <3>6, SameFrames
  <2>4. CASE missed' = missed + 1 /\ bridgeQueue' = bridgeQueue
    <3>1. OnTheWay' = B \o rxQueue
      BY <1>2, <1>3, <2>1, <2>4 DEF OnTheWay
    <3>2. Arrived \in Nat /\ Arrived' = Arrived
      BY <1>1, <2>1 DEF Arrived
    <3>3. /\ Increasing(B \o rxQueue) /\ UpTo(B \o rxQueue, Arrived)
          /\ Len(B \o rxQueue) = Len(OnTheWay) - 1
      BY <1>1, <1>2, <2>2, <3>2, OneLost DEF OrderInv
    <3>4. Len(OnTheWay) = framesRx - missed
      BY DEF OrderInv
    <3>5. ReceiveTypeOK'
      BY <1>1, <1>6, <2>1, <2>4 DEF TaskDelivers, OrderInv, ReceiveTypeOK
    <3>6. Len(OnTheWay') = framesRx' - missed'
      BY <1>1, <2>1, <2>4, <3>1, <3>3, <3>4
    <3>7. Increasing(OnTheWay') /\ UpTo(OnTheWay', Arrived')
      BY <3>1, <3>2, <3>3
    <3> QED
      BY <3>5, <3>6, <3>7 DEF OrderInv, Increasing, UpTo
  <2> QED
    BY <1>6, <2>3, <2>4 DEF TaskDelivers
<1>7. CASE CANGetFrame
  <2> DEFINE x == Head(bridgeQueue)
             t == Tail(bridgeQueue)
  <2>1. /\ x \in Nat /\ t \in Seq(Nat) /\ <<x>> \in Seq(Nat) /\ bridgeQueue = <<x>> \o t
    BY <1>1, <1>7, HeadAndTail DEF CANGetFrame
  <2>2. /\ read' = Append(read, x) /\ bridgeQueue' = t
        /\ UNCHANGED <<sink, stage, item, rxQueue, framesRx, framesDropped, missed>>
    BY <1>7 DEF CANGetFrame, counters
  <2> HIDE DEF x, t
  <2>3. read' = read \o <<x>> /\ read' \in Seq(Nat)
    BY <1>1, <2>1, <2>2, AppendIsConcat, AppendProperties
  <2>4. (read \o <<x>>) \o t = read \o (<<x>> \o t)
    BY <1>1, <2>1, ConcatAssociative
  <2>5. read' \o bridgeQueue' = B
    BY <2>1, <2>2, <2>3, <2>4
  <2>6. InHand' = InHand
    BY <2>2 DEF InHand
  <2>7. OnTheWay' = OnTheWay
    BY <2>2, <2>5, <2>6 DEF OnTheWay
  <2>8. ReceiveTypeOK'
    BY <2>1, <2>2, <2>3 DEF OrderInv, ReceiveTypeOK
  <2> QED
    BY <2>2, <2>7, <2>8, SameFrames
<1> QED
  BY <1>4, <1>5, <1>6, <1>7 DEF RxTask

\* Received frames keep their order and come once, and none is missing that
\* no full queue dropped (twai_node.cpp:268-278, n2k_bridge.cpp:82), for any
\* lengths of both queues.
THEOREM AlwaysInOrderOnce == ReceiveSpec => []InOrderOnce
<1>1. ReceiveInit => OrderInv
  <2> SUFFICES ASSUME ReceiveInit PROVE OrderInv
    OBVIOUS
  <2>1. <<>> \in Seq(Nat) /\ Len(<<>>) = 0
    BY EmptySeq
  <2>2. OnTheWay = <<>>
    BY <2>1, ConcatEmptySeq DEF ReceiveInit, OnTheWay, InHand
  <2>3. ReceiveTypeOK
    BY <2>1 DEF ReceiveInit, ReceiveTypeOK
  <2>4. DOMAIN OnTheWay = {}
    BY <2>1, <2>2, LenProperties
  <2> QED
    BY <2>1, <2>2, <2>3, <2>4 DEF OrderInv, Increasing, UpTo, ReceiveInit
<1>2. OrderInv /\ [ReceiveNext]_allVars => OrderInv'
  <2>1. ASSUME OrderInv, UNCHANGED receiveVars PROVE OrderInv'
    <3>1. UNCHANGED <<sink, stage, item, rxQueue, bridgeQueue, framesRx, framesDropped, missed, read>>
      BY <2>1 DEF receiveVars, counters
    <3>2. OnTheWay' = OnTheWay /\ ReceiveTypeOK'
      BY <2>1, <3>1 DEF OnTheWay, InHand, OrderInv, ReceiveTypeOK
    <3> QED
      BY <2>1, <3>1, <3>2, SameFrames
  <2>2. Sending \/ UNCHANGED allVars => UNCHANGED receiveVars
    BY DEF Sending, allVars
  <2> QED
    BY <2>1, <2>2, OrderArrives, OrderTasks DEF ReceiveNext
<1>3. OrderInv => InOrderOnce
  BY DEF OrderInv, InOrderOnce, Increasing
<1> QED
  BY <1>1, <1>2, <1>3, PTL DEF ReceiveSpec

--------------------------------------------------------------------------------
(***************************************************************************)
(* Alerts: lemmas about the operators the model is built from.             *)
(***************************************************************************)

\* A set of numbers that is not empty has a lowest one.
LEMMA LowestExists ==
    ASSUME NEW S \in SUBSET Nat, S # {}
    PROVE  \E i \in S : \A j \in S : i <= j
<1> DEFINE R == OpToRel(<, Nat)
<1>1. IsWellFoundedOn(R, Nat)
  BY NatLessThanWellFounded
<1>2. \A x, y \in Nat : x < y => <<x, y>> \in R
  BY DEF OpToRel
<1> HIDE DEF R
<1>3. PICK i \in S : \A j \in S : ~(<<j, i>> \in R)
  BY <1>1, WFMin
<1>4. ASSUME NEW j \in S
      PROVE  i <= j
  <2>1. i \in Nat /\ j \in Nat
    OBVIOUS
  <2>2. ~(j < i)
    BY <1>2, <1>3, <2>1
  <2> QED
    BY <2>1, <2>2
<1> QED
  BY <1>4

\* The number that follows an occurrence; 255 is followed by 1.
Succ(o) == IF o = MaxOccurrence THEN 1 ELSE o + 1

LEMMA SuccTyped == \A o \in 0 .. MaxOccurrence : Succ(o) \in 1 .. MaxOccurrence
BY N2kAlertsAssumption DEF Succ

\* An alert of no level and no occurrence is one.
LEMMA NoneTyped == None \in Ids
BY N2kAlertsAssumption DEF None, Identity, Ids

\* What clearing an alert makes of its channel.
LEMMA ClearedFields ==
    ASSUME NEW c \in Alerts
    PROVE  /\ Cleared(c) \in Alerts
           /\ Cleared(c).active = FALSE /\ Cleared(c).acked = FALSE
           /\ Cleared(c).id = c.id /\ Cleared(c).clearId = c.id
           /\ Cleared(c).clearLeft = Repeats /\ Cleared(c).statusDue = TRUE
<1>1. Repeats \in 0 .. Repeats
  BY N2kAlertsAssumption
<1> QED
  BY <1>1 DEF Cleared, Alerts

\* What raising one makes of it.
LEMMA RaisedFields ==
    ASSUME NEW c \in Alerts, NEW level \in Levels \cup {Off}
    PROVE  /\ Raised(c, level) \in Alerts
           /\ Raised(c, level).active = TRUE /\ Raised(c, level).acked = FALSE
           /\ Raised(c, level).id.level = level
           /\ Raised(c, level).id.occurrence = Succ(c.id.occurrence)
           /\ Raised(c, level).clearId = c.clearId
           /\ Raised(c, level).clearLeft = c.clearLeft
           /\ Raised(c, level).statusDue = TRUE
<1> DEFINE id == Identity(level, Succ(c.id.occurrence))
<1>1. c.id.occurrence \in 0 .. MaxOccurrence
  BY DEF Alerts, Ids
<1>2. Succ(c.id.occurrence) \in 0 .. MaxOccurrence
  BY <1>1, SuccTyped, N2kAlertsAssumption
<1>3. id \in Ids /\ id.level = level /\ id.occurrence = Succ(c.id.occurrence)
  BY <1>2 DEF Ids, Identity
<1>4. Raised(c, level) = [c EXCEPT !.active = TRUE, !.id = id, !.acked = FALSE,
                                   !.textDue = TRUE, !.statusDue = TRUE]
  BY DEF Raised, Succ
<1> HIDE DEF id
<1> QED
  BY <1>3, <1>4 DEF Alerts

\* What the periods make of it.
LEMMA RepeatedFields ==
    ASSUME NEW c \in Alerts, NEW status \in BOOLEAN, NEW text \in BOOLEAN
    PROVE  /\ Repeated(c, status, text) \in Alerts
           /\ Repeated(c, status, text).active = c.active
           /\ Repeated(c, status, text).acked = c.acked
           /\ Repeated(c, status, text).id = c.id
           /\ Repeated(c, status, text).clearId = c.clearId
           /\ Repeated(c, status, text).clearLeft = c.clearLeft
           /\ Repeated(c, status, text).statusDue <=> c.statusDue \/ (status /\ (c.active \/ c.clearLeft > 0))
           /\ Repeated(c, status, text).textDue <=> c.textDue \/ (text /\ c.active)
<1> DEFINE sd == c.statusDue \/ (status /\ (c.active \/ c.clearLeft > 0))
           td == c.textDue \/ (text /\ c.active)
<1>1. Repeated(c, status, text) = [c EXCEPT !.statusDue = sd, !.textDue = td]
  BY DEF Repeated, Alerts
<1>2. sd \in BOOLEAN /\ td \in BOOLEAN
  OBVIOUS
<1> HIDE DEF sd, td
<1>3. /\ Repeated(c, status, text) \in Alerts
      /\ Repeated(c, status, text).active = c.active
      /\ Repeated(c, status, text).acked = c.acked
      /\ Repeated(c, status, text).id = c.id
      /\ Repeated(c, status, text).clearId = c.clearId
      /\ Repeated(c, status, text).clearLeft = c.clearLeft
      /\ Repeated(c, status, text).statusDue = sd
      /\ Repeated(c, status, text).textDue = td
  BY <1>1, <1>2 DEF Alerts
<1> QED
  BY <1>3 DEF sd, td

\* What sending what is due makes of it.
LEMMA SentFields ==
    ASSUME NEW c \in Alerts
    PROVE  /\ Sent(c) \in Alerts
           /\ Sent(c).active = c.active /\ Sent(c).acked = c.acked
           /\ Sent(c).id = c.id /\ Sent(c).clearId = c.clearId
           /\ Sent(c).statusDue = FALSE /\ Sent(c).textDue = FALSE
           /\ Sent(c).clearLeft = IF c.statusDue /\ c.clearLeft > 0
                                  THEN c.clearLeft - 1 ELSE c.clearLeft
<1> DEFINE left == IF c.statusDue /\ c.clearLeft > 0 THEN c.clearLeft - 1 ELSE c.clearLeft
<1>1. Sent(c) = [c EXCEPT !.textDue = FALSE, !.statusDue = FALSE, !.clearLeft = left]
  BY DEF Sent, Alerts
<1>2. left \in 0 .. Repeats
  BY N2kAlertsAssumption DEF Alerts
<1> HIDE DEF left
<1>3. /\ Sent(c) \in Alerts
      /\ Sent(c).active = c.active /\ Sent(c).acked = c.acked
      /\ Sent(c).id = c.id /\ Sent(c).clearId = c.clearId
      /\ Sent(c).statusDue = FALSE /\ Sent(c).textDue = FALSE
      /\ Sent(c).clearLeft = left
  BY <1>1, <1>2 DEF Alerts
<1> QED
  BY <1>3 DEF left

-----------------------------------------------------------------------------
(***************************************************************************)
(* A pass: what a channel becomes, and what the display hears of it.       *)
(***************************************************************************)

\* The alert is the one that is wanted with these inputs, if any is.
Agrees(i, inputs) == (ch[i].active <=> Want(i, inputs)) /\ (ch[i].active => ch[i].id.level = cfg[i])

\* Nothing is left to judge, by the inputs of the last tick.
Judgement == \A i \in Channels : Agrees(i, mask)

\* What judging makes of a channel.
LEMMA JudgedFields ==
    ASSUME AlertsTypeOK, NEW i \in Channels, NEW inputs \in SUBSET Channels
    PROVE  /\ Judged(i, inputs) \in Alerts
           /\ Judged(i, inputs).active <=> Want(i, inputs)
           /\ Judged(i, inputs).active => Judged(i, inputs).id.level = cfg[i]
           /\ Agrees(i, inputs) => Judged(i, inputs) = ch[i]
           /\ ~Agrees(i, inputs) =>
                 /\ ~Judged(i, inputs).acked /\ Judged(i, inputs).statusDue
                 /\ Judged(i, inputs).active => Judged(i, inputs).id.occurrence = Succ(ch[i].id.occurrence)
                 /\ ~Judged(i, inputs).active => Judged(i, inputs).id = ch[i].id
                 /\ ch[i].active => /\ Judged(i, inputs).clearId = ch[i].id
                                    /\ Judged(i, inputs).clearLeft = Repeats
                 /\ ~ch[i].active => /\ Judged(i, inputs).clearId = ch[i].clearId
                                     /\ Judged(i, inputs).clearLeft = ch[i].clearLeft
<1> DEFINE c == IF ch[i].active /\ (~Want(i, inputs) \/ ch[i].id.level # cfg[i])
                THEN Cleared(ch[i]) ELSE ch[i]
<1>1. ch[i] \in Alerts /\ cfg[i] \in Levels \cup {Off} /\ ch[i].active \in BOOLEAN
  BY DEF AlertsTypeOK, Alerts
<1>2. Judged(i, inputs) = IF ~c.active /\ Want(i, inputs) THEN Raised(c, cfg[i]) ELSE c
  BY DEF Judged
<1>3. CASE Agrees(i, inputs)
  <2>1. c = ch[i] /\ Judged(i, inputs) = ch[i]
    BY <1>2, <1>3 DEF Agrees
  <2> QED
    BY <1>1, <1>3, <2>1 DEF Agrees
<1>4. CASE ~Agrees(i, inputs) /\ ch[i].active
  <2>1. c = Cleared(ch[i])
    BY <1>4 DEF Agrees
  <2> HIDE DEF c
  <2>2. /\ c \in Alerts
        /\ c.active = FALSE /\ c.acked = FALSE
        /\ c.id = ch[i].id /\ c.clearId = ch[i].id
        /\ c.clearLeft = Repeats /\ c.statusDue = TRUE
    BY <1>1, <2>1, ClearedFields
  <2>3. CASE Want(i, inputs)
    <3>1. Judged(i, inputs) = Raised(c, cfg[i])
      BY <1>2, <2>2, <2>3
    <3>2. /\ Raised(c, cfg[i]) \in Alerts
          /\ Raised(c, cfg[i]).active = TRUE /\ Raised(c, cfg[i]).acked = FALSE
          /\ Raised(c, cfg[i]).id.level = cfg[i]
          /\ Raised(c, cfg[i]).id.occurrence = Succ(c.id.occurrence)
          /\ Raised(c, cfg[i]).clearId = c.clearId
          /\ Raised(c, cfg[i]).clearLeft = c.clearLeft
          /\ Raised(c, cfg[i]).statusDue = TRUE
      BY <1>1, <2>2, RaisedFields
    <3> QED
      BY <1>4, <2>2, <2>3, <3>1, <3>2
  <2>4. CASE ~Want(i, inputs)
    BY <1>2, <1>4, <2>2, <2>4
  <2> QED
    BY <2>3, <2>4
<1>5. CASE ~Agrees(i, inputs) /\ ~ch[i].active
  <2>1. c = ch[i] /\ Want(i, inputs)
    BY <1>5 DEF Agrees
  <2>2. Judged(i, inputs) = Raised(ch[i], cfg[i])
    BY <1>2, <1>5, <2>1
  <2>3. /\ Raised(ch[i], cfg[i]) \in Alerts
        /\ Raised(ch[i], cfg[i]).active = TRUE /\ Raised(ch[i], cfg[i]).acked = FALSE
        /\ Raised(ch[i], cfg[i]).id.level = cfg[i]
        /\ Raised(ch[i], cfg[i]).id.occurrence = Succ(ch[i].id.occurrence)
        /\ Raised(ch[i], cfg[i]).clearId = ch[i].clearId
        /\ Raised(ch[i], cfg[i]).clearLeft = ch[i].clearLeft
        /\ Raised(ch[i], cfg[i]).statusDue = TRUE
    BY <1>1, RaisedFields
  <2> QED
    BY <1>5, <2>1, <2>2, <2>3
<1> QED
  BY <1>3, <1>4, <1>5

\* A status period ends with this tick.
Period == statusAge = StatusPeriod - 1

\* The channel as it is when something is looked for to send.
Due(i, inputs, text) == Repeated(Judged(i, inputs), Period, text)

LEMMA DueFields ==
    ASSUME AlertsTypeOK, NEW i \in Channels, NEW inputs \in SUBSET Channels, NEW text \in BOOLEAN
    PROVE  /\ Due(i, inputs, text) \in Alerts
           /\ Due(i, inputs, text).active = Judged(i, inputs).active
           /\ Due(i, inputs, text).acked = Judged(i, inputs).acked
           /\ Due(i, inputs, text).id = Judged(i, inputs).id
           /\ Due(i, inputs, text).clearId = Judged(i, inputs).clearId
           /\ Due(i, inputs, text).clearLeft = Judged(i, inputs).clearLeft
           /\ Due(i, inputs, text).statusDue <=>
                 Judged(i, inputs).statusDue \/ (Period /\ (Judged(i, inputs).active \/ Judged(i, inputs).clearLeft > 0))
           /\ Due(i, inputs, text).textDue <=> Judged(i, inputs).textDue \/ (text /\ Judged(i, inputs).active)
<1>1. Judged(i, inputs) \in Alerts /\ Period \in BOOLEAN
  BY JudgedFields DEF Period
<1> HIDE DEF Period
<1> QED
  BY <1>1, RepeatedFields DEF Due

\* Losing frames costs what they are.
LEMMA Losses ==
    ASSUME AlertsTypeOK, NEW c, NEW gone \in SUBSET Frames(c)
    PROVE  /\ Cardinality(gone) \in Nat
           /\ gone # {} => Cardinality(gone) >= 1
<1>1. gone \subseteq {"normal", "active"}
  BY DEF Frames
<1>2. IsFiniteSet({"normal", "active"})
  <2>1. IsFiniteSet({"active"})
    BY FS_Singleton
  <2>2. {"normal", "active"} = {"active"} \cup {"normal"}
    OBVIOUS
  <2> QED
    BY <2>1, <2>2, FS_AddElement
<1>3. IsFiniteSet(gone)
  BY <1>1, <1>2, FS_Subset
<1>4. Cardinality(gone) \in Nat
  BY <1>3, FS_CardinalityType
<1>5. gone # {} => Cardinality(gone) # 0
  BY <1>3, FS_EmptySet
<1> QED
  BY <1>4, <1>5

\* One pass: every channel is judged; either nothing is due, or the lowest
\* channel with something due sends it, and some of its frames may be lost.
LEMMA TickShape ==
    ASSUME AlertsTypeOK, NEW inputs \in SUBSET Channels, Tick(inputs)
    PROVE  \E text \in BOOLEAN :
              /\ text => Period
              /\ \/ /\ \A i \in Channels : ~HasDue(Due(i, inputs, text)) /\ ch'[i] = Due(i, inputs, text)
                    /\ ch' \in [Channels -> Alerts]
                    /\ lost' = lost /\ shown' = shown
                 \/ \E first \in Channels : \E gone \in SUBSET Frames(Due(first, inputs, text)) :
                       /\ HasDue(Due(first, inputs, text))
                       /\ \A i \in Channels : HasDue(Due(i, inputs, text)) => first <= i
                       /\ lost' = lost + Cardinality(gone) /\ lost' <= MaxLost
                       /\ shown' = [shown EXCEPT ![first] =
                                      Heard(@, Due(first, inputs, text), Frames(Due(first, inputs, text)) \ gone)]
                       /\ ch' \in [Channels -> Alerts]
                       /\ ch'[first] = Sent(Due(first, inputs, text))
                       /\ \A i \in Channels \ {first} : ch'[i] = Due(i, inputs, text)
<1> DEFINE judgedAt(text) == [i \in Channels |-> Due(i, inputs, text)]
           dueAt(text) == {i \in Channels : HasDue(judgedAt(text)[i])}
           firstAt(text) == CHOOSE i \in dueAt(text) : \A j \in dueAt(text) : i <= j
<1>1. PICK text \in {FALSE, Period} :
        IF dueAt(text) = {}
        THEN ch' = judgedAt(text) /\ UNCHANGED <<shown, lost>>
        ELSE \E gone \in SUBSET Frames(judgedAt(text)[firstAt(text)]) :
             /\ lost + Cardinality(gone) <= MaxLost
             /\ lost' = lost + Cardinality(gone)
             /\ shown' = [shown EXCEPT ![firstAt(text)] =
                            Heard(@, judgedAt(text)[firstAt(text)],
                                  Frames(judgedAt(text)[firstAt(text)]) \ gone)]
             /\ ch' = [judgedAt(text) EXCEPT ![firstAt(text)] = Sent(@)]
  BY DEF Tick, Due, Period
<1>2. text \in BOOLEAN /\ (text => Period)
  BY <1>1 DEF Period
<1> DEFINE judged == judgedAt(text)
           first == firstAt(text)
<1>3. judged \in [Channels -> Alerts] /\ \A i \in Channels : judged[i] = Due(i, inputs, text)
  BY <1>2, DueFields
<1>4. CASE dueAt(text) = {}
  BY <1>1, <1>2, <1>3, <1>4
<1>5. CASE dueAt(text) # {}
  <2>1. dueAt(text) \in SUBSET Nat
    BY N2kAlertsAssumption
  <2>2. first \in dueAt(text) /\ \A j \in dueAt(text) : first <= j
    <3> HIDE DEF dueAt
    <3>1. \E i \in dueAt(text) : \A j \in dueAt(text) : i <= j
      BY <1>5, <2>1, LowestExists
    <3> QED
      BY <3>1
  <2>3. /\ first \in Channels /\ HasDue(Due(first, inputs, text))
        /\ \A i \in Channels : HasDue(Due(i, inputs, text)) => first <= i
    BY <1>3, <2>2
  <2>4. PICK gone \in SUBSET Frames(judged[first]) :
             /\ lost + Cardinality(gone) <= MaxLost
             /\ lost' = lost + Cardinality(gone)
             /\ shown' = [shown EXCEPT ![first] =
                            Heard(@, judged[first], Frames(judged[first]) \ gone)]
             /\ ch' = [judged EXCEPT ![first] = Sent(@)]
    BY <1>1, <1>5
  <2> HIDE DEF judged, first
  <2>5. /\ ch' \in [Channels -> Alerts]
        /\ ch'[first] = Sent(Due(first, inputs, text))
        /\ \A i \in Channels \ {first} : ch'[i] = Due(i, inputs, text)
    <3>1. Sent(judged[first]) \in Alerts
      BY <1>3, <2>3, SentFields
    <3> QED
      BY <1>3, <2>3, <2>4, <3>1
  <2>6. gone \in SUBSET Frames(Due(first, inputs, text)) /\ judged[first] = Due(first, inputs, text)
    BY <1>3, <2>3, <2>4
  <2> QED
    BY <1>2, <2>3, <2>4, <2>5, <2>6
<1> QED
  BY <1>4, <1>5

\* What a channel is after a pass, whether or not it was the one that sent.
LEMMA PassFields ==
    ASSUME AlertsTypeOK, NEW inputs \in SUBSET Channels, Tick(inputs), NEW i \in Channels
    PROVE  /\ ch'[i] \in Alerts
           /\ ch'[i].active = Judged(i, inputs).active
           /\ ch'[i].acked = Judged(i, inputs).acked
           /\ ch'[i].id = Judged(i, inputs).id
           /\ ch'[i].clearId = Judged(i, inputs).clearId
<1>1. PICK text \in BOOLEAN : ch'[i] \in {Due(i, inputs, text), Sent(Due(i, inputs, text))}
  BY TickShape
<1>2. /\ Due(i, inputs, text) \in Alerts
      /\ Due(i, inputs, text).active = Judged(i, inputs).active
      /\ Due(i, inputs, text).acked = Judged(i, inputs).acked
      /\ Due(i, inputs, text).id = Judged(i, inputs).id
      /\ Due(i, inputs, text).clearId = Judged(i, inputs).clearId
  BY DueFields
<1> QED
  BY <1>1, <1>2, SentFields

\* ... and what the display has been told of it: nothing new but an alert
\* that is active.
LEMMA PassHeard ==
    ASSUME AlertsTypeOK, NEW inputs \in SUBSET Channels, Tick(inputs), NEW i \in Channels
    PROVE  /\ \A id \in shown'[i] : id \in shown[i] \/ (ch'[i].active /\ id = ch'[i].id)
           /\ \A id \in shown[i] : id \in shown'[i] \/ id = ch'[i].clearId
           /\ shown' \in [Channels -> SUBSET Ids]
           /\ lost' \in 0 .. MaxLost /\ lost' >= lost
<1>1. PICK text \in BOOLEAN :
        /\ text => Period
        /\ \/ /\ \A j \in Channels : ~HasDue(Due(j, inputs, text)) /\ ch'[j] = Due(j, inputs, text)
              /\ ch' \in [Channels -> Alerts]
              /\ lost' = lost /\ shown' = shown
           \/ \E first \in Channels : \E gone \in SUBSET Frames(Due(first, inputs, text)) :
                 /\ HasDue(Due(first, inputs, text))
                 /\ \A j \in Channels : HasDue(Due(j, inputs, text)) => first <= j
                 /\ lost' = lost + Cardinality(gone) /\ lost' <= MaxLost
                 /\ shown' = [shown EXCEPT ![first] =
                                Heard(@, Due(first, inputs, text), Frames(Due(first, inputs, text)) \ gone)]
                 /\ ch' \in [Channels -> Alerts]
                 /\ ch'[first] = Sent(Due(first, inputs, text))
                 /\ \A j \in Channels \ {first} : ch'[j] = Due(j, inputs, text)
  BY TickShape
<1> USE DEF AlertsTypeOK
<1>2. CASE lost' = lost /\ shown' = shown
  BY <1>2, N2kAlertsAssumption
<1>3. ASSUME NEW first \in Channels, NEW gone \in SUBSET Frames(Due(first, inputs, text)),
             lost' = lost + Cardinality(gone), lost' <= MaxLost,
             shown' = [shown EXCEPT ![first] =
                         Heard(@, Due(first, inputs, text), Frames(Due(first, inputs, text)) \ gone)]
      PROVE  /\ \A id \in shown'[i] : id \in shown[i] \/ (ch'[i].active /\ id = ch'[i].id)
             /\ \A id \in shown[i] : id \in shown'[i] \/ id = ch'[i].clearId
             /\ shown' \in [Channels -> SUBSET Ids]
             /\ lost' \in 0 .. MaxLost /\ lost' >= lost
  <2>1. Cardinality(gone) \in Nat
    BY Losses
  <2>2. /\ Due(first, inputs, text) \in Alerts
        /\ Due(first, inputs, text).active = ch'[first].active
        /\ Due(first, inputs, text).id = ch'[first].id
        /\ Due(first, inputs, text).clearId = ch'[first].clearId
    BY DueFields, PassFields
  <2>3. ASSUME NEW id \in Heard(shown[first], Due(first, inputs, text), Frames(Due(first, inputs, text)) \ gone)
        PROVE  id \in shown[first] \/ (ch'[first].active /\ id = ch'[first].id)
    BY <2>2, <2>3 DEF Heard, Frames
  <2>4. ASSUME NEW id \in shown[first], id # ch'[first].clearId
        PROVE  id \in Heard(shown[first], Due(first, inputs, text), Frames(Due(first, inputs, text)) \ gone)
    BY <2>2, <2>4 DEF Heard
  <2>5. /\ \A id \in shown'[i] : id \in shown[i] \/ (ch'[i].active /\ id = ch'[i].id)
        /\ \A id \in shown[i] : id \in shown'[i] \/ id = ch'[i].clearId
    <3>1. CASE i = first
      BY <1>3, <2>3, <2>4, <3>1
    <3>2. CASE i # first
      BY <1>3, <3>2
    <3> QED
      BY <3>1, <3>2
  <2>6. Heard(shown[first], Due(first, inputs, text), Frames(Due(first, inputs, text)) \ gone) \in SUBSET Ids
    <3>1. shown[first] \subseteq Ids /\ ch'[first].id \in Ids
      BY <2>2 DEF Alerts
    <3> QED
      BY <2>3, <3>1
  <2>7. shown' \in [Channels -> SUBSET Ids]
    BY <1>3, <2>6
  <2>8. lost' \in 0 .. MaxLost /\ lost' >= lost
    <3>1. lost \in Nat /\ MaxLost \in Nat
      BY N2kAlertsAssumption
    <3> QED
      BY <1>3, <2>1, <3>1
  <2> QED
    BY <2>5, <2>7, <2>8
<1> QED
  BY <1>1, <1>2, <1>3

-----------------------------------------------------------------------------
(***************************************************************************)
(* Types.                                                                  *)
(***************************************************************************)

LEMMA AlertsTypeInit == AlertsInit => AlertsTypeOK
<1> SUFFICES ASSUME AlertsInit PROVE AlertsTypeOK
  OBVIOUS
<1>1. Fresh \in Alerts /\ Fresh.active = FALSE
  <2>1. 0 \in 0 .. Repeats
    BY N2kAlertsAssumption
  <2> QED
    BY <2>1, NoneTyped DEF Fresh, Alerts
<1>2. \A i \in Channels : ~ch[i].active
  BY <1>1 DEF AlertsInit
<1>3. ch \in [Channels -> Alerts]
  BY <1>1 DEF AlertsInit
<1>4. /\ edits \in 0 .. MaxEdits /\ statusAge \in 0 .. StatusPeriod - 1 /\ lost \in 0 .. MaxLost
  BY N2kAlertsAssumption DEF AlertsInit
<1>5. pending \in [Channels -> Levels \cup {Off}] /\ cfg = pending
  BY N2kAlertsAssumption DEF AlertsInit
<1> QED
  BY <1>2, <1>3, <1>4, <1>5 DEF AlertsInit, AlertsTypeOK

LEMMA TickTypes ==
    ASSUME AlertsTypeOK, NEW inputs \in SUBSET Channels, Tick(inputs)
    PROVE  AlertsTypeOK'
<1>1. ch' \in [Channels -> Alerts]
  BY TickShape
<1>2. \A i \in Channels : ch'[i].active => ch'[i].id.occurrence > 0
  <2> TAKE i \in Channels
  <2>1. ch'[i].active = Judged(i, inputs).active /\ ch'[i].id = Judged(i, inputs).id
    BY PassFields
  <2>2. CASE Agrees(i, inputs)
    <3>1. Judged(i, inputs) = ch[i]
      BY <2>2, JudgedFields
    <3> QED
      BY <2>1, <3>1 DEF AlertsTypeOK
  <2>3. CASE ~Agrees(i, inputs)
    <3>1. ch[i].id.occurrence \in 0 .. MaxOccurrence
      BY DEF AlertsTypeOK, Alerts, Ids
    <3>2. Succ(ch[i].id.occurrence) \in 1 .. MaxOccurrence
      BY <3>1, SuccTyped
    <3>3. Judged(i, inputs).active => Judged(i, inputs).id.occurrence = Succ(ch[i].id.occurrence)
      BY <2>3, JudgedFields
    <3> QED
      BY <2>1, <3>2, <3>3, N2kAlertsAssumption
  <2> QED
    BY <2>2, <2>3
<1>3. shown' \in [Channels -> SUBSET Ids]
  <2>1. CASE Channels = {}
    BY <2>1, TickShape DEF AlertsTypeOK
  <2>2. CASE Channels # {}
    BY <2>2, PassHeard
  <2> QED
    BY <2>1, <2>2
<1>4. lost' \in 0 .. MaxLost
  <2>1. CASE Channels = {}
    BY <2>1, TickShape DEF AlertsTypeOK
  <2>2. CASE Channels # {}
    BY <2>2, PassHeard
  <2> QED
    BY <2>1, <2>2
<1>5. statusAge' \in 0 .. StatusPeriod - 1
  <2>1. statusAge' = IF statusAge = StatusPeriod - 1 THEN 0 ELSE statusAge + 1
    BY DEF Tick
  <2> QED
    BY <2>1, N2kAlertsAssumption DEF AlertsTypeOK
<1>6. /\ at' \in {"parse", "config", "tick"} /\ acks' \subseteq acks /\ meant' \subseteq meant
      /\ mask' = inputs
      /\ UNCHANGED <<pending, flagging, cfgChanged, edits, cfg>>
  BY DEF Tick, cfgVars
<1>7. forgotten' \in [Channels -> SUBSET Ids]
  <2>1. \A i \in Channels : shown'[i] \subseteq Ids
    BY <1>3
  <2>2. forgotten' = [i \in Channels |->
                        ((forgotten[i] \cup Overwritten(i)) \ {ch'[i].id}) \cap shown'[i]]
    BY DEF Tick
  <2> QED
    BY <2>1, <2>2
<1> QED
  BY <1>1, <1>2, <1>3, <1>4, <1>5, <1>6, <1>7 DEF AlertsTypeOK

\* What a message whose text changed makes of the channels.
LEMMA SetConfigFields ==
    ASSUME AlertsTypeOK, SetConfig
    PROVE  /\ ch' \in [Channels -> Alerts]
           /\ \A i \in Channels :
                 /\ ch'[i].active = ch[i].active /\ ch'[i].acked = ch[i].acked
                 /\ ch'[i].id = ch[i].id /\ ch'[i].clearId = ch[i].clearId
                 /\ ch'[i].clearLeft = ch[i].clearLeft /\ ch'[i].statusDue = ch[i].statusDue
<1>1. PICK S \in SUBSET Edited :
        ch' = [i \in Channels |-> [ch[i] EXCEPT !.textDue = ch[i].textDue \/ i \in S]]
  BY DEF SetConfig
<1>2. ASSUME NEW i \in Channels, NEW due \in BOOLEAN
      PROVE  /\ [ch[i] EXCEPT !.textDue = due] \in Alerts
             /\ [ch[i] EXCEPT !.textDue = due].active = ch[i].active
             /\ [ch[i] EXCEPT !.textDue = due].acked = ch[i].acked
             /\ [ch[i] EXCEPT !.textDue = due].id = ch[i].id
             /\ [ch[i] EXCEPT !.textDue = due].clearId = ch[i].clearId
             /\ [ch[i] EXCEPT !.textDue = due].clearLeft = ch[i].clearLeft
             /\ [ch[i] EXCEPT !.textDue = due].statusDue = ch[i].statusDue
  BY DEF AlertsTypeOK, Alerts
<1>3. \A i \in Channels : (ch[i].textDue \/ i \in S) \in BOOLEAN
  BY DEF AlertsTypeOK, Alerts
<1> QED
  BY <1>1, <1>2, <1>3

\* What a response makes of them: its alert may become acknowledged.
LEMMA ResponseFields ==
    ASSUME AlertsTypeOK, NEW r \in acks, Response(r)
    PROVE  /\ ch' \in [Channels -> Alerts]
           /\ \A i \in Channels :
                 /\ ch'[i].active = ch[i].active
                 /\ ch'[i].id = ch[i].id /\ ch'[i].clearId = ch[i].clearId
                 /\ ch'[i].clearLeft = ch[i].clearLeft
           /\ \A i \in Channels \ {r.channel} : ch'[i] = ch[i]
           /\ \/ ch' = ch
              \/ /\ ch[r.channel].active /\ ch[r.channel].id = r.id /\ ~ch[r.channel].acked
                 /\ ch'[r.channel].acked /\ ch'[r.channel].statusDue
<1>1. r.channel \in Channels
  BY N2kAlertsAssumption DEF AlertsTypeOK
<1>2. CASE ch' = ch
  BY <1>2 DEF AlertsTypeOK
<1>3. CASE ch' # ch
  <2>1. /\ ch[r.channel].active /\ ch[r.channel].id = r.id /\ ~ch[r.channel].acked
        /\ ch' = [ch EXCEPT ![r.channel].acked = TRUE, ![r.channel].statusDue = TRUE]
    BY <1>3 DEF Response, Ours
  <2> DEFINE c == [ch[r.channel] EXCEPT !.acked = TRUE, !.statusDue = TRUE]
  <2>2. ch[r.channel] \in Alerts /\ ch \in [Channels -> Alerts]
    BY <1>1 DEF AlertsTypeOK
  <2>3. /\ c \in Alerts
        /\ c.active = ch[r.channel].active /\ c.id = ch[r.channel].id
        /\ c.clearId = ch[r.channel].clearId /\ c.clearLeft = ch[r.channel].clearLeft
        /\ c.acked = TRUE /\ c.statusDue = TRUE
    BY <2>2 DEF Alerts
  <2>4. ch' = [ch EXCEPT ![r.channel] = c]
    BY <1>1, <2>1, <2>2
  <2> HIDE DEF c
  <2>5. ch'[r.channel] = c /\ \A i \in Channels \ {r.channel} : ch'[i] = ch[i]
    BY <1>1, <2>2, <2>4
  <2>6. ch' \in [Channels -> Alerts]
    BY <1>1, <2>2, <2>3, <2>4
  <2> QED
    BY <2>1, <2>3, <2>5, <2>6
<1> QED
  BY <1>2, <1>3

LEMMA AlertsTypeStep == AlertsTypeOK /\ [AlertsNext]_alertVars => AlertsTypeOK'
<1> SUFFICES ASSUME AlertsTypeOK, [AlertsNext]_alertVars PROVE AlertsTypeOK'
  OBVIOUS
<1> USE DEF cfgVars, taskVars, busVars, ackVars
<1>2. ASSUME NEW i \in Edited, NEW level \in Choices, Store(i, level)
      PROVE  AlertsTypeOK'
  <2>1. pending' \in [Channels -> Levels \cup {Off}]
    BY <1>2, N2kAlertsAssumption DEF Store, AlertsTypeOK
  <2>2. edits' \in 0 .. MaxEdits
    BY <1>2, N2kAlertsAssumption DEF Store, AlertsTypeOK
  <2> QED
    BY <1>2, <2>1, <2>2, N2kAlertsAssumption DEF Store, AlertsTypeOK
<1>3. CASE RaiseFlag
  BY <1>3 DEF RaiseFlag, AlertsTypeOK
<1>4. CASE TakeFlag
  BY <1>4 DEF TakeFlag, AlertsTypeOK
<1>5. CASE SetConfig
  <2>1. /\ ch' \in [Channels -> Alerts]
        /\ \A i \in Channels : ch'[i].active = ch[i].active /\ ch'[i].id = ch[i].id
    BY <1>5, SetConfigFields
  <2>2. \A i \in Channels : ch'[i].active => ch'[i].id.occurrence > 0
    BY <2>1 DEF AlertsTypeOK
  <2> QED
    BY <1>5, <2>1, <2>2 DEF SetConfig, AlertsTypeOK
<1>6. ASSUME NEW inputs \in SUBSET Channels, Tick(inputs) PROVE AlertsTypeOK'
  BY <1>6, TickTypes
<1>7. ASSUME NEW i \in Acking, NEW id \in shown[i], Acknowledge(i, id) PROVE AlertsTypeOK'
  <2>1. i \in Channels /\ id \in Ids
    BY N2kAlertsAssumption DEF AlertsTypeOK
  <2> QED
    BY <1>7, <2>1 DEF Acknowledge, AlertsTypeOK
<1>8. ASSUME NEW r \in acks, Response(r) PROVE AlertsTypeOK'
  <2>1. /\ ch' \in [Channels -> Alerts]
        /\ \A i \in Channels : ch'[i].active = ch[i].active /\ ch'[i].id = ch[i].id
    BY <1>8, ResponseFields
  <2>2. \A i \in Channels : ch'[i].active => ch'[i].id.occurrence > 0
    BY <2>1 DEF AlertsTypeOK
  <2> QED
    BY <1>8, <2>1, <2>2 DEF Response, AlertsTypeOK
<1>9. CASE UNCHANGED alertVars
  BY <1>9 DEF alertVars, AlertsTypeOK
<1> QED
  BY <1>2, <1>3, <1>4, <1>5, <1>6, <1>7, <1>8, <1>9 DEF AlertsNext, Task

\* The types hold in every reachable state.
THEOREM AlertsTypeCorrect == AlertsSpec => []AlertsTypeOK
<1>1. AlertsInit => AlertsTypeOK
  BY AlertsTypeInit
<1>2. AlertsTypeOK /\ [AlertsNext]_alertVars => AlertsTypeOK'
  BY AlertsTypeStep
<1> QED
  BY <1>1, <1>2, PTL DEF AlertsSpec

-----------------------------------------------------------------------------
(***************************************************************************)
(* Nothing stale stays on the display.                                     *)
(***************************************************************************)

\* The display shows an alert of this channel that was cleared.
Stale(i) == ch[i].clearId \in shown[i] /\ ~(ch[i].active /\ ch[i].id = ch[i].clearId)

\* The display does not show the alert there is.
Missing(i) == ch[i].active /\ ch[i].id \notin shown[i]

\* A Normal that did not arrive was lost.
Owed == \A i \in Channels : Stale(i) => ch[i].clearLeft + lost >= Repeats

\* The display shows only the channel's alert, the one it cleared, and the
\* forgotten ones.
ShownOurs == \A i \in Channels : \A id \in shown[i] \ forgotten[i] :
                (ch[i].active /\ ch[i].id = id) \/ ch[i].clearId = id

\* The channel's alert is not forgotten.
Remembered == \A i \in Channels : ch[i].id \notin forgotten[i]

\* The invariant NoGhost follows from.
ShownInv ==
    /\ AlertsTypeOK
    /\ Owed
    /\ ShownOurs
    /\ Remembered

\* The channel's status is to be sent.
StatusDue(i, inputs) ==
    \/ Judged(i, inputs).statusDue
    \/ Period /\ (Judged(i, inputs).active \/ Judged(i, inputs).clearLeft > 0)

\* A channel that is due its status sends it, or one ahead of it sends.
LEMMA TickSends ==
    ASSUME AlertsTypeOK, NEW inputs \in SUBSET Channels, Tick(inputs), NEW i \in Channels
    PROVE  /\ \/ ~StatusDue(i, inputs) /\ ch'[i].clearLeft = Judged(i, inputs).clearLeft
              \/ /\ StatusDue(i, inputs)
                 /\ ch'[i].clearLeft = Judged(i, inputs).clearLeft /\ ch'[i].statusDue
                 /\ \E f \in Channels : /\ f <= i /\ ~HasDue(ch'[f])
                                        /\ HasDue(Judged(f, inputs)) \/ Period
              \/ /\ StatusDue(i, inputs)
                 /\ ch'[i].clearLeft = IF Judged(i, inputs).clearLeft > 0
                                       THEN Judged(i, inputs).clearLeft - 1 ELSE 0
                 /\ (Judged(i, inputs).clearLeft > 0 /\ Stale(i)') \/ Missing(i)' => lost' >= lost + 1
           /\ \A j \in Channels : HasDue(ch'[j]) => HasDue(Judged(j, inputs)) \/ Period
<1>1. PICK text \in BOOLEAN :
        /\ text => Period
        /\ \/ /\ \A j \in Channels : ~HasDue(Due(j, inputs, text)) /\ ch'[j] = Due(j, inputs, text)
              /\ ch' \in [Channels -> Alerts]
              /\ lost' = lost /\ shown' = shown
           \/ \E first \in Channels : \E gone \in SUBSET Frames(Due(first, inputs, text)) :
                 /\ HasDue(Due(first, inputs, text))
                 /\ \A j \in Channels : HasDue(Due(j, inputs, text)) => first <= j
                 /\ lost' = lost + Cardinality(gone) /\ lost' <= MaxLost
                 /\ shown' = [shown EXCEPT ![first] =
                                Heard(@, Due(first, inputs, text), Frames(Due(first, inputs, text)) \ gone)]
                 /\ ch' \in [Channels -> Alerts]
                 /\ ch'[first] = Sent(Due(first, inputs, text))
                 /\ \A j \in Channels \ {first} : ch'[j] = Due(j, inputs, text)
  BY TickShape
<1>2. ASSUME NEW j \in Channels
      PROVE  /\ Due(j, inputs, text) \in Alerts
             /\ Due(j, inputs, text).clearLeft = Judged(j, inputs).clearLeft
             /\ HasDue(Due(j, inputs, text)) => HasDue(Judged(j, inputs)) \/ Period
             /\ ~HasDue(Sent(Due(j, inputs, text)))
  <2>1. /\ Due(j, inputs, text) \in Alerts
        /\ Due(j, inputs, text).clearLeft = Judged(j, inputs).clearLeft
        /\ Due(j, inputs, text).statusDue => Judged(j, inputs).statusDue \/ Period
        /\ Due(j, inputs, text).textDue => Judged(j, inputs).textDue \/ text
    BY DueFields
  <2>2. text => Period
    BY <1>1
  <2>3. ~HasDue(Sent(Due(j, inputs, text)))
    BY <2>1, SentFields DEF HasDue
  <2> QED
    BY <2>1, <2>2, <2>3 DEF HasDue
<1>3. Due(i, inputs, text).statusDue <=> StatusDue(i, inputs)
  BY DueFields DEF StatusDue
<1>4. Judged(i, inputs).clearLeft \in Nat
  <2>1. Judged(i, inputs) \in Alerts
    BY JudgedFields
  <2> QED
    BY <2>1, N2kAlertsAssumption DEF Alerts
<1>5. CASE /\ \A j \in Channels : ~HasDue(Due(j, inputs, text)) /\ ch'[j] = Due(j, inputs, text)
           /\ lost' = lost /\ shown' = shown
  <2>1. ~StatusDue(i, inputs) /\ ch'[i].clearLeft = Judged(i, inputs).clearLeft
    BY <1>2, <1>3, <1>5 DEF HasDue
  <2> QED
    BY <1>5, <2>1
<1>6. ASSUME NEW first \in Channels, NEW gone \in SUBSET Frames(Due(first, inputs, text)),
             HasDue(Due(first, inputs, text)),
             \A j \in Channels : HasDue(Due(j, inputs, text)) => first <= j,
             lost' = lost + Cardinality(gone),
             shown' = [shown EXCEPT ![first] =
                         Heard(@, Due(first, inputs, text), Frames(Due(first, inputs, text)) \ gone)],
             ch'[first] = Sent(Due(first, inputs, text)),
             \A j \in Channels \ {first} : ch'[j] = Due(j, inputs, text)
      PROVE  /\ \/ ~StatusDue(i, inputs) /\ ch'[i].clearLeft = Judged(i, inputs).clearLeft
                \/ /\ StatusDue(i, inputs)
                   /\ ch'[i].clearLeft = Judged(i, inputs).clearLeft /\ ch'[i].statusDue
                   /\ \E f \in Channels : /\ f <= i /\ ~HasDue(ch'[f])
                                          /\ HasDue(Judged(f, inputs)) \/ Period
                \/ /\ StatusDue(i, inputs)
                   /\ ch'[i].clearLeft = IF Judged(i, inputs).clearLeft > 0
                                         THEN Judged(i, inputs).clearLeft - 1 ELSE 0
                   /\ (Judged(i, inputs).clearLeft > 0 /\ Stale(i)') \/ Missing(i)' => lost' >= lost + 1
             /\ \A j \in Channels : HasDue(ch'[j]) => HasDue(Judged(j, inputs)) \/ Period
  <2>1. \A j \in Channels : HasDue(ch'[j]) => HasDue(Judged(j, inputs)) \/ Period
    BY <1>2, <1>6
  <2>2. CASE i # first
    <3>1. ch'[i] = Due(i, inputs, text)
      BY <1>6, <2>2
    <3>2. ch'[i].clearLeft = Judged(i, inputs).clearLeft /\ (ch'[i].statusDue <=> StatusDue(i, inputs))
      BY <1>2, <1>3, <3>1
    <3>3. StatusDue(i, inputs) => first <= i /\ ~HasDue(ch'[first]) /\ (HasDue(Judged(first, inputs)) \/ Period)
      BY <1>2, <1>3, <1>6 DEF HasDue
    <3> QED
      BY <2>1, <3>2, <3>3
  <2>3. CASE i = first
    <3> DEFINE c == Due(i, inputs, text)
    <3>1. c \in Alerts /\ c.clearLeft = Judged(i, inputs).clearLeft /\ (c.statusDue <=> StatusDue(i, inputs))
      BY <1>2, <1>3
    <3>2. ch'[i] = Sent(c)
      BY <1>6, <2>3
    <3> HIDE DEF c
    <3>3. /\ ch'[i].active = c.active /\ ch'[i].id = c.id /\ ch'[i].clearId = c.clearId
          /\ ch'[i].clearLeft = IF c.statusDue /\ c.clearLeft > 0
                                THEN c.clearLeft - 1 ELSE c.clearLeft
      BY <3>1, <3>2, SentFields
    <3>4. CASE ~StatusDue(i, inputs)
      BY <2>1, <3>1, <3>3, <3>4
    <3>5. CASE StatusDue(i, inputs)
      <4>1. ASSUME c.clearLeft > 0, Stale(i)'
            PROVE  lost' >= lost + 1
        <5>1. gone \in SUBSET Frames(c)
          BY <2>3 DEF c
        <5>2. shown'[i] = Heard(shown[i], c, Frames(c) \ gone)
          BY <1>6, <2>3 DEF AlertsTypeOK, c
        <5>3. c.clearId \in Heard(shown[i], c, Frames(c) \ gone) /\ ~(c.active /\ c.id = c.clearId)
          BY <3>3, <4>1, <5>2 DEF Stale
        <5>4. "normal" \in Frames(c)
          BY <3>1, <3>5, <4>1 DEF Frames
        <5>5. "normal" \in gone
          BY <5>3, <5>4 DEF Heard, Frames
        <5>6. Cardinality(gone) \in Nat /\ Cardinality(gone) >= 1
          BY <5>1, <5>5, Losses
        <5>7. lost \in Nat
          BY N2kAlertsAssumption DEF AlertsTypeOK
        <5> QED
          BY <1>6, <5>6, <5>7
      <4>2. ch'[i].clearLeft = IF Judged(i, inputs).clearLeft > 0 THEN Judged(i, inputs).clearLeft - 1 ELSE 0
        BY <1>4, <3>1, <3>3, <3>5
      <4>3. ASSUME Missing(i)'
            PROVE  lost' >= lost + 1
        <5>1. gone \in SUBSET Frames(c)
          BY <2>3 DEF c
        <5>2. shown'[i] = Heard(shown[i], c, Frames(c) \ gone)
          BY <1>6, <2>3 DEF AlertsTypeOK, c
        <5>3. c.active /\ c.id \notin Heard(shown[i], c, Frames(c) \ gone)
          BY <3>3, <4>3, <5>2 DEF Missing
        <5>4. "active" \in Frames(c)
          BY <3>1, <3>5, <5>3 DEF Frames
        <5>5. "active" \in gone
          BY <5>3, <5>4 DEF Heard, Frames
        <5>6. Cardinality(gone) \in Nat /\ Cardinality(gone) >= 1
          BY <5>1, <5>5, Losses
        <5>7. lost \in Nat
          BY N2kAlertsAssumption DEF AlertsTypeOK
        <5> QED
          BY <1>6, <5>6, <5>7
      <4> QED
        BY <2>1, <3>1, <3>5, <4>1, <4>2, <4>3
    <3> QED
      BY <3>4, <3>5
  <2> QED
    BY <2>2, <2>3
<1> QED
  BY <1>1, <1>5, <1>6

\* What is stale after a pass was stale before, or the pass cleared it.
LEMMA TickStale ==
    ASSUME ShownInv, NEW inputs \in SUBSET Channels, Tick(inputs), NEW i \in Channels, Stale(i)'
    PROVE  /\ Agrees(i, inputs) => Stale(i)
           /\ Judged(i, inputs).clearLeft + lost >= Repeats
<1> USE DEF ShownInv
<1>1. /\ ch'[i].active = Judged(i, inputs).active
      /\ ch'[i].id = Judged(i, inputs).id
      /\ ch'[i].clearId = Judged(i, inputs).clearId
  BY PassFields
<1>2. ch'[i].clearId \in shown[i]
  BY PassHeard DEF Stale
<1>3. CASE Agrees(i, inputs)
  <2>1. Judged(i, inputs) = ch[i]
    BY <1>3, JudgedFields
  <2>2. Stale(i)
    BY <1>1, <1>2, <2>1 DEF Stale
  <2> QED
    BY <2>1, <2>2 DEF Owed
<1>4. CASE ~Agrees(i, inputs) /\ ch[i].active
  <2>1. Judged(i, inputs).clearLeft = Repeats
    BY <1>4, JudgedFields
  <2>2. lost \in Nat /\ Repeats \in Nat
    BY N2kAlertsAssumption DEF AlertsTypeOK
  <2> QED
    BY <1>4, <2>1, <2>2
<1>5. CASE ~Agrees(i, inputs) /\ ~ch[i].active
  <2>1. /\ Judged(i, inputs).clearId = ch[i].clearId
        /\ Judged(i, inputs).clearLeft = ch[i].clearLeft
    BY <1>5, JudgedFields
  <2>2. Stale(i)
    BY <1>1, <1>2, <1>5, <2>1 DEF Stale
  <2> QED
    BY <1>5, <2>1, <2>2 DEF Owed
<1> QED
  BY <1>3, <1>4, <1>5

\* A pass leaves no debt behind.
LEMMA TickOwes ==
    ASSUME ShownInv, NEW inputs \in SUBSET Channels, Tick(inputs), NEW i \in Channels, Stale(i)'
    PROVE  ch'[i].clearLeft + lost' >= Repeats
<1> DEFINE left == Judged(i, inputs).clearLeft
<1>1. /\ left \in Nat /\ Repeats \in Nat /\ lost \in Nat /\ lost' \in Nat /\ lost' >= lost
  <2>1. Judged(i, inputs) \in Alerts
    BY JudgedFields DEF ShownInv
  <2>2. lost' \in 0 .. MaxLost /\ lost' >= lost
    BY PassHeard DEF ShownInv
  <2> QED
    BY <2>1, <2>2, N2kAlertsAssumption DEF ShownInv, AlertsTypeOK, Alerts
<1>2. left + lost >= Repeats
  BY TickStale
<1>3. \/ ch'[i].clearLeft = left
      \/ /\ ch'[i].clearLeft = IF left > 0 THEN left - 1 ELSE 0
         /\ left > 0 => lost' >= lost + 1
  BY TickSends DEF ShownInv
<1> HIDE DEF left
<1> QED
  BY <1>1, <1>2, <1>3

\* What a pass forgets.
LEMMA PassForgets ==
    ASSUME AlertsTypeOK, NEW inputs \in SUBSET Channels, Tick(inputs), NEW i \in Channels
    PROVE  /\ ch'[i].id \notin forgotten'[i]
           /\ \A id \in shown'[i] \ forgotten'[i] :
                 \/ id = ch'[i].id
                 \/ /\ id \notin forgotten[i]
                    /\ id \in shown[i] /\ id = ch[i].clearId => id = ch'[i].clearId
<1>1. forgotten' = [j \in Channels |->
                      ((forgotten[j] \cup Overwritten(j)) \ {ch'[j].id}) \cap shown'[j]]
  BY DEF Tick
<1>2. forgotten'[i] = ((forgotten[i] \cup Overwritten(i)) \ {ch'[i].id}) \cap shown'[i]
  BY <1>1
<1>3. ch'[i].clearId # ch[i].clearId => Overwritten(i) = shown[i] \cap {ch[i].clearId}
  BY DEF Overwritten
<1> QED
  BY <1>2, <1>3

\* A pass keeps the invariant.
LEMMA TickShows ==
    ASSUME ShownInv, NEW inputs \in SUBSET Channels, Tick(inputs)
    PROVE  ShownInv'
<1>1. AlertsTypeOK'
  BY TickTypes DEF ShownInv
<1>2. Owed'
  BY TickOwes DEF Owed
<1>3. Remembered'
  BY PassForgets DEF Remembered, ShownInv
<1>4. ShownOurs'
  <2> SUFFICES ASSUME NEW i \in Channels, NEW id \in shown'[i] \ forgotten'[i]
               PROVE  (ch'[i].active /\ ch'[i].id = id) \/ ch'[i].clearId = id
    BY DEF ShownOurs
  <2>1. id \in shown[i] \/ (ch'[i].active /\ id = ch'[i].id)
    BY PassHeard DEF ShownInv
  <2>2. /\ ch'[i].active = Judged(i, inputs).active
        /\ ch'[i].id = Judged(i, inputs).id
        /\ ch'[i].clearId = Judged(i, inputs).clearId
    BY PassFields DEF ShownInv
  <2>3. \/ id = ch'[i].id
        \/ /\ id \notin forgotten[i]
           /\ id \in shown[i] /\ id = ch[i].clearId => id = ch'[i].clearId
    BY PassForgets DEF ShownInv
  <2>4. ch[i].id \notin forgotten[i]
    BY DEF ShownInv, Remembered
  <2>5. id \notin forgotten[i] /\ id \in shown[i] =>
            (ch[i].active /\ ch[i].id = id) \/ ch[i].clearId = id
    BY DEF ShownInv, ShownOurs
  <2>6. CASE id \in shown[i] /\ Agrees(i, inputs)
    <3>1. Judged(i, inputs) = ch[i]
      BY <2>6, JudgedFields DEF ShownInv
    <3> QED
      BY <2>2, <2>3, <2>4, <2>5, <2>6, <3>1
  <2>7. CASE id \in shown[i] /\ ~Agrees(i, inputs) /\ ch[i].active
    <3>1. /\ ~Judged(i, inputs).active => Judged(i, inputs).id = ch[i].id
          /\ Judged(i, inputs).clearId = ch[i].id
      BY <2>7, JudgedFields DEF ShownInv
    <3> QED
      BY <2>2, <2>3, <2>5, <2>7, <3>1
  <2>8. CASE id \in shown[i] /\ ~Agrees(i, inputs) /\ ~ch[i].active
    <3>1. Judged(i, inputs).active /\ Judged(i, inputs).clearId = ch[i].clearId
      BY <2>8, JudgedFields DEF ShownInv, Agrees
    <3> QED
      BY <2>2, <2>3, <2>5, <2>8, <3>1
  <2> QED
    BY <2>1, <2>6, <2>7, <2>8
<1> QED
  BY <1>1, <1>2, <1>3, <1>4 DEF ShownInv

\* So does every other step.
LEMMA ShownStep == ShownInv /\ [AlertsNext]_alertVars => ShownInv'
<1> SUFFICES ASSUME ShownInv, [AlertsNext]_alertVars PROVE ShownInv'
  OBVIOUS
<1> USE DEF cfgVars, taskVars, busVars, ackVars
<1>1. AlertsTypeOK'
  BY AlertsTypeStep DEF ShownInv
<1>2. ASSUME UNCHANGED <<shown, lost, forgotten>>,
             \A i \in Channels :
                /\ ch'[i].active = ch[i].active
                /\ ch'[i].id = ch[i].id /\ ch'[i].clearId = ch[i].clearId
                /\ ch'[i].clearLeft = ch[i].clearLeft
      PROVE  ShownInv'
  <2>1. \A i \in Channels : Stale(i)' <=> Stale(i)
    BY <1>2 DEF Stale
  <2>2. Owed'
    BY <1>2, <2>1 DEF ShownInv, Owed
  <2>3. ShownOurs' /\ Remembered'
    BY <1>2 DEF ShownInv, ShownOurs, Remembered
  <2> QED
    BY <1>1, <2>2, <2>3 DEF ShownInv
<1>3. ASSUME NEW i \in Edited, NEW level \in Choices, Store(i, level) PROVE ShownInv'
  BY <1>2, <1>3 DEF Store
<1>4. CASE RaiseFlag
  BY <1>2, <1>4 DEF RaiseFlag
<1>5. CASE TakeFlag
  BY <1>2, <1>5 DEF TakeFlag
<1>6. CASE SetConfig
  <2>1. UNCHANGED <<shown, lost, forgotten>>
    BY <1>6 DEF SetConfig
  <2> QED
    BY <1>2, <1>6, <2>1, SetConfigFields DEF ShownInv
<1>7. ASSUME NEW inputs \in SUBSET Channels, Tick(inputs) PROVE ShownInv'
  BY <1>7, TickShows
<1>8. ASSUME NEW i \in Acking, NEW id \in shown[i], Acknowledge(i, id) PROVE ShownInv'
  BY <1>2, <1>8 DEF Acknowledge
<1>9. ASSUME NEW r \in acks, Response(r) PROVE ShownInv'
  <2>1. UNCHANGED <<shown, lost, forgotten>>
    BY <1>9 DEF Response
  <2> QED
    BY <1>2, <1>9, <2>1, ResponseFields DEF ShownInv
<1>10. CASE UNCHANGED alertVars
  BY <1>2, <1>10 DEF alertVars
<1> QED
  BY <1>3, <1>4, <1>5, <1>6, <1>7, <1>8, <1>9, <1>10 DEF AlertsNext, Task

LEMMA ShownInit == AlertsInit => ShownInv
<1> SUFFICES ASSUME AlertsInit PROVE ShownInv
  OBVIOUS
<1>1. AlertsTypeOK
  BY AlertsTypeInit
<1>2. \A i \in Channels : shown[i] = {} /\ forgotten[i] = {}
  BY DEF AlertsInit
<1> QED
  BY <1>1, <1>2 DEF ShownInv, Owed, ShownOurs, Remembered, Stale

LEMMA ShownImplies == MaxLost < Repeats /\ ShownInv => NoGhost
<1> SUFFICES ASSUME MaxLost < Repeats, ShownInv,
                    NEW i \in Channels, NEW id \in shown[i] \ forgotten[i]
             PROVE  \/ ch[i].active /\ ch[i].id = id
                    \/ ch[i].clearLeft > 0 /\ ch[i].clearId = id
  BY DEF NoGhost
<1>1. (ch[i].active /\ ch[i].id = id) \/ ch[i].clearId = id
  BY DEF ShownInv, ShownOurs
<1>2. CASE Stale(i)
  <2>1. ch[i].clearLeft + lost >= Repeats
    BY <1>2 DEF ShownInv, Owed
  <2>2. ch[i].clearLeft \in Nat /\ lost \in 0 .. MaxLost /\ Repeats \in Nat /\ MaxLost \in Nat
    BY N2kAlertsAssumption DEF ShownInv, AlertsTypeOK, Alerts
  <2>3. ch[i].clearLeft > 0
    BY <2>1, <2>2
  <2> QED
    BY <1>1, <2>3
<1>3. CASE ~Stale(i)
  BY <1>1, <1>3 DEF Stale
<1> QED
  BY <1>2, <1>3

\* Whatever the display shows as active is active, or is still going to be
\* reported Normal, though frames were lost, fewer than the repeats
\* (docs/plans/21:33), and however fast inputs and settings change -- but for
\* an alert whose repeats a later clear of its channel overwrote
\* (n2k_alerts.c:90-99).
THEOREM NoGhostHolds ==
    ASSUME MaxLost < Repeats
    PROVE  AlertsSpec => []NoGhost
<1>1. AlertsInit => ShownInv
  BY ShownInit
<1>2. ShownInv /\ [AlertsNext]_alertVars => ShownInv'
  BY ShownStep
<1>3. ShownInv => NoGhost
  BY ShownImplies
<1> QED
  BY <1>1, <1>2, <1>3, PTL DEF AlertsSpec

-----------------------------------------------------------------------------
(***************************************************************************)
(* An acknowledgement is meant for the alert it acknowledges.              *)
(***************************************************************************)

\* The alert follows the one that was cleared; acknowledged is only an alert.
Numbered ==
    \A i \in Channels :
        /\ ch[i].active => ch[i].id.occurrence = Succ(ch[i].clearId.occurrence)
        /\ ~ch[i].active => ch[i].id = ch[i].clearId
        /\ ch[i].acked => ch[i].active

\* An acknowledgement on its way names the alert or the one that was cleared.
AcksNamed ==
    \A r \in acks :
        /\ r.id \in {ch[r.channel].id, ch[r.channel].clearId}
        /\ ch[r.channel].active /\ ch[r.channel].id = r.id => r.channel \in meant

AckInv == AlertsTypeOK /\ Numbered /\ AcksNamed /\ AckMeant

\* With three occurrences or more, neither the next nor the one after it is
\* the same.
LEMMA SuccDiffers ==
    ASSUME MaxOccurrence > 2, NEW o \in 0 .. MaxOccurrence
    PROVE  Succ(o) # o /\ Succ(Succ(o)) # o
BY N2kAlertsAssumption DEF Succ

\* What a pass makes of an alert that changes: it was never named before.
LEMMA TickNames ==
    ASSUME MaxOccurrence > 2, AlertsTypeOK, Numbered,
           NEW inputs \in SUBSET Channels, Tick(inputs),
           NEW i \in Channels, NEW id \in {ch[i].id, ch[i].clearId}, ~Agrees(i, inputs), ch'[i].active
    PROVE  ch'[i].id # id
<1>1. ch'[i].active = Judged(i, inputs).active /\ ch'[i].id = Judged(i, inputs).id
  BY PassFields
<1>2. ch'[i].id.occurrence = Succ(ch[i].id.occurrence)
  BY <1>1, JudgedFields
<1>3. ch[i].id.occurrence \in 0 .. MaxOccurrence /\ ch[i].clearId.occurrence \in 0 .. MaxOccurrence
  BY DEF AlertsTypeOK, Alerts, Ids
<1>4. ch'[i].id # ch[i].id
  BY <1>2, <1>3, SuccDiffers
<1>5. ch'[i].id # ch[i].clearId
  <2>1. CASE ch[i].active
    <3>1. ch[i].id.occurrence = Succ(ch[i].clearId.occurrence)
      BY <2>1 DEF Numbered
    <3> QED
      BY <1>2, <1>3, <3>1, SuccDiffers
  <2>2. CASE ~ch[i].active
    BY <1>4, <2>2 DEF Numbered
  <2> QED
    BY <2>1, <2>2
<1> QED
  BY <1>4, <1>5

LEMMA TickAcks ==
    ASSUME MaxOccurrence > 2, AckInv, NEW inputs \in SUBSET Channels, Tick(inputs)
    PROVE  Numbered' /\ AcksNamed' /\ AckMeant'
<1> USE DEF AckInv
<1>1. /\ meant' = {i \in meant : ch'[i].id = ch[i].id /\ ch'[i].active}
      /\ acks' = {r \in acks : r.id \in {ch'[r.channel].id, ch'[r.channel].clearId}}
  BY DEF Tick
<1>2. ASSUME NEW i \in Channels
      PROVE  /\ ch'[i].active = Judged(i, inputs).active /\ ch'[i].acked = Judged(i, inputs).acked
             /\ ch'[i].id = Judged(i, inputs).id /\ ch'[i].clearId = Judged(i, inputs).clearId
             /\ Agrees(i, inputs) => Judged(i, inputs) = ch[i]
             /\ ~Agrees(i, inputs) =>
                   /\ ~Judged(i, inputs).acked
                   /\ Judged(i, inputs).active => Judged(i, inputs).id.occurrence = Succ(ch[i].id.occurrence)
                   /\ ~Judged(i, inputs).active => Judged(i, inputs).id = ch[i].id
                   /\ ch[i].active => Judged(i, inputs).clearId = ch[i].id
                   /\ ~ch[i].active => Judged(i, inputs).clearId = ch[i].clearId
             /\ ~Agrees(i, inputs) /\ ~ch[i].active => Judged(i, inputs).active
  <2>1. ~Agrees(i, inputs) /\ ~ch[i].active => Judged(i, inputs).active
    BY JudgedFields DEF Agrees
  <2> QED
    BY <2>1, PassFields, JudgedFields
<1>3. Numbered'
  <2> SUFFICES ASSUME NEW i \in Channels
               PROVE  /\ ch'[i].active => ch'[i].id.occurrence = Succ(ch'[i].clearId.occurrence)
                      /\ ~ch'[i].active => ch'[i].id = ch'[i].clearId
                      /\ ch'[i].acked => ch'[i].active
    BY DEF Numbered, Succ
  <2>1. /\ ch[i].active => ch[i].id.occurrence = Succ(ch[i].clearId.occurrence)
        /\ ~ch[i].active => ch[i].id = ch[i].clearId
        /\ ch[i].acked => ch[i].active
    BY DEF Numbered
  <2>2. CASE Agrees(i, inputs)
    BY <1>2, <2>1, <2>2
  <2>3. CASE ~Agrees(i, inputs)
    BY <1>2, <2>1, <2>3
  <2> QED
    BY <2>2, <2>3
<1>4. AcksNamed'
  <2> SUFFICES ASSUME NEW r \in acks', ch'[r.channel].active, ch'[r.channel].id = r.id
               PROVE  r.channel \in meant'
    BY <1>1 DEF AcksNamed
  <2> DEFINE k == r.channel
  <2>1. r \in acks /\ k \in Channels /\ r.id \in {ch[k].id, ch[k].clearId}
    BY <1>1, N2kAlertsAssumption DEF AlertsTypeOK, AcksNamed
  <2>2. Agrees(k, inputs)
    BY <2>1, TickNames
  <2>3. ch'[k].active = ch[k].active /\ ch'[k].id = ch[k].id
    BY <1>2, <2>1, <2>2
  <2>4. k \in meant
    BY <2>1, <2>3 DEF AcksNamed
  <2> QED
    BY <1>1, <2>3, <2>4
<1>5. AckMeant'
  <2> SUFFICES ASSUME NEW i \in Channels, ch'[i].acked PROVE i \in meant'
    BY DEF AckMeant
  <2>1. Judged(i, inputs) = ch[i]
    BY <1>2
  <2>2. i \in meant /\ ch[i].active
    BY <1>2, <2>1 DEF AckMeant, Numbered
  <2> QED
    BY <1>1, <1>2, <2>1, <2>2
<1> QED
  BY <1>3, <1>4, <1>5

LEMMA AckStep ==
    MaxOccurrence > 2 /\ AckInv /\ [AlertsNext]_alertVars => AckInv'
<1> SUFFICES ASSUME MaxOccurrence > 2, AckInv, [AlertsNext]_alertVars
             PROVE  AckInv'
  OBVIOUS
<1> USE DEF cfgVars, taskVars, busVars, ackVars
<1>1. AlertsTypeOK'
  BY AlertsTypeStep DEF AckInv
<1>2. ASSUME UNCHANGED <<ch, acks, meant>> PROVE AckInv'
  BY <1>1, <1>2 DEF AckInv, Numbered, AcksNamed, AckMeant, Succ
<1>4. ASSUME NEW i \in Edited, NEW level \in Choices, Store(i, level) PROVE AckInv'
  BY <1>2, <1>4 DEF Store
<1>5. CASE RaiseFlag
  BY <1>2, <1>5 DEF RaiseFlag
<1>6. CASE TakeFlag
  BY <1>2, <1>6 DEF TakeFlag
<1>7. CASE SetConfig
  <2>1. \A i \in Channels :
          /\ ch'[i].active = ch[i].active /\ ch'[i].acked = ch[i].acked
          /\ ch'[i].id = ch[i].id /\ ch'[i].clearId = ch[i].clearId
    BY <1>7, SetConfigFields DEF AckInv
  <2>2. acks' = acks /\ meant' = meant
    BY <1>7 DEF SetConfig
  <2>3. \A r \in acks : r.channel \in Channels
    BY N2kAlertsAssumption DEF AckInv, AlertsTypeOK
  <2>4. Numbered'
    BY <2>1 DEF AckInv, Numbered, Succ
  <2>5. AcksNamed'
    BY <2>1, <2>2, <2>3 DEF AckInv, AcksNamed
  <2>6. AckMeant'
    BY <2>1, <2>2 DEF AckInv, AckMeant
  <2> QED
    BY <1>1, <2>4, <2>5, <2>6 DEF AckInv
<1>8. ASSUME NEW inputs \in SUBSET Channels, Tick(inputs) PROVE AckInv'
  BY <1>1, <1>8, TickAcks DEF AckInv
<1>9. ASSUME NEW i \in Acking, NEW id \in shown[i], Acknowledge(i, id) PROVE AckInv'
  <2>1. /\ acks' = {[channel |-> i, id |-> id]} /\ ch' = ch
        /\ meant' = IF ch[i].active /\ ch[i].id = id THEN meant \cup {i} ELSE meant
    BY <1>9 DEF Acknowledge
  <2>2. id \in {ch[i].id, ch[i].clearId}
    BY <1>9 DEF Acknowledge
  <2>3. Numbered'
    BY <2>1 DEF AckInv, Numbered, Succ
  <2>4. AcksNamed'
    BY <2>1, <2>2 DEF AcksNamed
  <2>5. AckMeant'
    BY <2>1 DEF AckInv, AckMeant
  <2> QED
    BY <1>1, <2>3, <2>4, <2>5 DEF AckInv
<1>10. ASSUME NEW r \in acks, Response(r) PROVE AckInv'
  <2> DEFINE k == r.channel
  <2>1. /\ \A i \in Channels :
              /\ ch'[i].active = ch[i].active
              /\ ch'[i].id = ch[i].id /\ ch'[i].clearId = ch[i].clearId
        /\ \A i \in Channels \ {k} : ch'[i] = ch[i]
        /\ ch' = ch \/ (ch[k].active /\ ch[k].id = r.id)
    BY <1>10, ResponseFields DEF AckInv
  <2>2. acks' \subseteq acks /\ meant' = meant
    BY <1>10 DEF Response
  <2>3. \A q \in acks : q.channel \in Channels
    BY N2kAlertsAssumption DEF AckInv, AlertsTypeOK
  <2>4. ch' = ch \/ (k \in meant /\ ch[k].active)
    BY <2>1 DEF AckInv, AcksNamed
  <2>5. Numbered'
    <3> SUFFICES ASSUME NEW i \in Channels
                 PROVE  /\ ch'[i].active =>
                              ch'[i].id.occurrence = Succ(ch'[i].clearId.occurrence)
                        /\ ~ch'[i].active => ch'[i].id = ch'[i].clearId
                        /\ ch'[i].acked => ch'[i].active
      BY DEF Numbered, Succ
    <3>1. /\ ch[i].active => ch[i].id.occurrence = Succ(ch[i].clearId.occurrence)
          /\ ~ch[i].active => ch[i].id = ch[i].clearId
          /\ ch[i].acked => ch[i].active
      BY DEF AckInv, Numbered
    <3>2. CASE i = k
      BY <2>1, <2>4, <3>1, <3>2
    <3>3. CASE i # k
      BY <2>1, <3>1, <3>3
    <3> QED
      BY <3>2, <3>3
  <2>6. AcksNamed'
    BY <2>1, <2>2, <2>3 DEF AckInv, AcksNamed
  <2>7. AckMeant'
    BY <2>1, <2>2, <2>4 DEF AckInv, AckMeant
  <2> QED
    BY <1>1, <2>5, <2>6, <2>7 DEF AckInv
<1>11. CASE UNCHANGED alertVars
  BY <1>2, <1>11 DEF alertVars
<1> QED
  BY <1>4, <1>5, <1>6, <1>7, <1>8, <1>9, <1>10, <1>11 DEF AlertsNext, Task

LEMMA AckInit == AlertsInit => AckInv
<1> SUFFICES ASSUME AlertsInit PROVE AckInv
  OBVIOUS
<1>1. AlertsTypeOK
  BY AlertsTypeInit
<1>2. \A i \in Channels : ch[i] = Fresh
  BY DEF AlertsInit
<1>3. Numbered /\ AckMeant
  BY <1>2 DEF Numbered, AckMeant, Fresh
<1>4. AcksNamed
  BY DEF AlertsInit, AcksNamed
<1> QED
  BY <1>1, <1>3, <1>4 DEF AckInv

\* "A late acknowledge of an earlier trip doesn't acknowledge the new one"
\* (docs/plans/21:28-30): an alert is acknowledged only by a response that was
\* sent while it was the one raised.
THEOREM AckMeantHolds ==
    ASSUME MaxOccurrence > 2
    PROVE  AlertsSpec => []AckMeant
<1>1. AlertsInit => AckInv
  BY AckInit
<1>2. AckInv /\ [AlertsNext]_alertVars => AckInv'
  BY AckStep
<1>3. AckInv => AckMeant
  BY DEF AckInv
<1> QED
  BY <1>1, <1>2, <1>3, PTL DEF AlertsSpec

-----------------------------------------------------------------------------
(***************************************************************************)
(* The display is right in time.                                           *)
(***************************************************************************)

\* How many status periods ended since an input or a stored setting changed,
\* once the settings had been taken over.
VARIABLE quiet

\* Stored settings are on their way to the task.
Underway == flagging \/ cfgChanged \/ at = "config"

Elapsed == Period /\ ~Underway /\ \E inputs \in SUBSET Channels : Tick(inputs)

Counting == quiet' = IF Change THEN 0 ELSE IF Elapsed THEN quiet + 1 ELSE quiet

\* The alerts with the periods counted: quiet only watches.
TimedNext == AlertsNext /\ Counting

TimedSpec == AlertsInit /\ quiet = 0 /\ [][TimedNext]_<<alertVars, quiet>>

\* What the code's numbers amount to (n2k_alerts.h: 8 channels, 3 Normals,
\* 100 ticks to a status period): every channel gets its turn within a status
\* period, and a Normal is sent more often than the bus loses frames.
BusAssumption ==
    /\ IsFiniteSet(Channels)
    /\ Cardinality(Channels) + Cardinality(Acking) <= StatusPeriod
    /\ MaxLost < Repeats

\* When two status periods more than frames are lost have passed since the
\* last change, the display shows exactly the alarms there are (and those
\* forgotten).
RightInTime == quiet >= MaxLost + 2 => \A i \in Channels : Right(i)

\* Judging changes nothing.
Steady(inputs) == \A i \in Channels : Agrees(i, inputs)

\* Periods count only when the settings have been taken over and judged.
CountedJudged ==
    /\ cfg # pending => Underway
    /\ Underway => quiet = 0
    /\ quiet > 0 => Judgement

DueUpTo(i) == {j \in Channels : j <= i /\ HasDue(ch[j])}
Unacked == {j \in Acking : ch[j].active /\ ~ch[j].acked}

\* How many ticks it takes, at most, until the channel gets its turn.
Ahead(i) == Cardinality(DueUpTo(i)) + Cardinality(Unacked)

\* The channel's status goes out before the period ends.
Soon(i) == ch[i].statusDue /\ Ahead(i) <= StatusPeriod - 1 - statusAge

\* Every status period one Normal is sent; the last one to count is due, and
\* its turn comes before the period ends.
Paced ==
    \A i \in Channels : Stale(i) =>
        /\ quiet <= Repeats - ch[i].clearLeft + 1
        /\ quiet = Repeats - ch[i].clearLeft + 1 => Soon(i)

\* Every status period an active alert is sent, or what was sent was lost.
Told ==
    \A i \in Channels : Missing(i) =>
        /\ quiet <= lost + 1
        /\ quiet = lost + 1 => Soon(i)

\* The invariant RightInTime follows from.
TimedInv ==
    /\ ShownInv
    /\ AckInv
    /\ quiet \in Nat
    /\ CountedJudged
    /\ Paced
    /\ Told

\* Taking one out of a set, at least.
LEMMA Fewer ==
    ASSUME NEW D, IsFiniteSet(D), NEW f \in D, NEW E \in SUBSET (D \ {f})
    PROVE  /\ Cardinality(E) \in Nat /\ Cardinality(D) \in Nat
           /\ Cardinality(E) <= Cardinality(D) - 1
<1>1. IsFiniteSet(D \ {f}) /\ Cardinality(D \ {f}) = Cardinality(D) - 1
  BY FS_RemoveElement
<1>2. IsFiniteSet(E) /\ Cardinality(E) <= Cardinality(D \ {f})
  BY <1>1, FS_Subset
<1> QED
  BY <1>1, <1>2, FS_CardinalityType

\* Adding one to a set, at most.
LEMMA OneMoreMember ==
    ASSUME NEW D, IsFiniteSet(D), NEW k, NEW E \in SUBSET (D \cup {k})
    PROVE  /\ Cardinality(E) \in Nat /\ Cardinality(D) \in Nat
           /\ Cardinality(E) <= Cardinality(D) + 1
<1>1. IsFiniteSet(D \cup {k}) /\ Cardinality(D) \in Nat
  BY FS_AddElement, FS_CardinalityType
<1>2. Cardinality(D \cup {k}) <= Cardinality(D) + 1 /\ Cardinality(D \cup {k}) \in Nat
  BY <1>1, FS_AddElement, FS_CardinalityType
<1>3. IsFiniteSet(E) /\ Cardinality(E) <= Cardinality(D \cup {k})
  BY <1>1, FS_Subset
<1> QED
  BY <1>1, <1>2, <1>3, FS_CardinalityType

\* Those ahead can be counted.
LEMMA AheadCounted ==
    ASSUME BusAssumption, NEW i \in Channels
    PROVE  /\ IsFiniteSet(DueUpTo(i)) /\ IsFiniteSet(Unacked) /\ IsFiniteSet(Acking)
           /\ Cardinality(DueUpTo(i)) \in Nat /\ Cardinality(Unacked) \in Nat
           /\ Cardinality(Acking) \in Nat /\ Cardinality(Channels) \in Nat
           /\ Cardinality(Unacked) <= Cardinality(Acking)
           /\ Ahead(i) \in Nat
<1>1. IsFiniteSet(Channels) /\ Acking \subseteq Channels
  BY N2kAlertsAssumption DEF BusAssumption
<1>2. IsFiniteSet(Acking)
  BY <1>1, FS_Subset
<1>3. Unacked \subseteq Acking /\ DueUpTo(i) \subseteq Channels
  BY DEF Unacked, DueUpTo
<1>4. IsFiniteSet(DueUpTo(i)) /\ IsFiniteSet(Unacked)
  BY <1>1, <1>2, <1>3, FS_Subset
<1>5. Cardinality(Unacked) <= Cardinality(Acking)
  BY <1>2, <1>3, FS_Subset
<1> QED
  BY <1>1, <1>2, <1>4, <1>5, FS_CardinalityType DEF Ahead

\* A pass judges everything.
LEMMA TickJudges ==
    ASSUME AlertsTypeOK, NEW inputs \in SUBSET Channels, Tick(inputs)
    PROVE  Judgement'
<1> SUFFICES ASSUME NEW i \in Channels PROVE Agrees(i, mask)'
  BY DEF Judgement
<1>1. cfg' = cfg /\ mask' = inputs
  BY DEF Tick
<1>2. ch'[i].active = Judged(i, inputs).active /\ ch'[i].id = Judged(i, inputs).id
  BY PassFields
<1>3. /\ Judged(i, inputs).active <=> Want(i, inputs)
      /\ Judged(i, inputs).active => Judged(i, inputs).id.level = cfg[i]
  BY JudgedFields
<1>4. Want(i, mask)' <=> Want(i, inputs)
  BY <1>1 DEF Want
<1> QED
  BY <1>1, <1>2, <1>3, <1>4 DEF Agrees

\* A pass that does not send the channel's status sends something ahead of it.
LEMMA TickPaces ==
    ASSUME BusAssumption, AlertsTypeOK, NEW inputs \in SUBSET Channels, Tick(inputs),
           NEW i \in Channels,
           NEW f \in Channels, f <= i, ~HasDue(ch'[f]), HasDue(Judged(f, inputs)) \/ Period,
           \A j \in Channels : HasDue(ch'[j]) => HasDue(Judged(j, inputs)) \/ Period
    PROVE  /\ Ahead(i)' \in Nat /\ Ahead(i)' <= StatusPeriod - 1
           /\ Steady(inputs) /\ ~Period => Ahead(i)' <= Ahead(i) - 1
<1>1. DueUpTo(i)' \in SUBSET (Channels \ {f})
  BY DEF DueUpTo
<1>2. IsFiniteSet(Channels)
  BY DEF BusAssumption
<1>3. /\ Cardinality(DueUpTo(i)') \in Nat /\ Cardinality(Channels) \in Nat
      /\ Cardinality(DueUpTo(i)') <= Cardinality(Channels) - 1
  <2> DEFINE E == DueUpTo(i)'
  <2>1. E \in SUBSET (Channels \ {f})
    BY <1>1
  <2> HIDE DEF E
  <2>2. /\ Cardinality(E) \in Nat /\ Cardinality(Channels) \in Nat
        /\ Cardinality(E) <= Cardinality(Channels) - 1
    BY <1>2, <2>1, Fewer
  <2> QED
    BY <2>2 DEF E
<1>4. /\ Cardinality(Unacked') \in Nat /\ Cardinality(Acking) \in Nat
      /\ Cardinality(Unacked') <= Cardinality(Acking)
  <2> DEFINE U == Unacked'
  <2>1. U \subseteq Acking /\ IsFiniteSet(Acking)
    BY AheadCounted DEF Unacked
  <2> HIDE DEF U
  <2>2. IsFiniteSet(U) /\ Cardinality(U) <= Cardinality(Acking)
    BY <2>1, FS_Subset
  <2>3. Cardinality(U) \in Nat /\ Cardinality(Acking) \in Nat
    BY <2>1, <2>2, FS_CardinalityType
  <2> QED
    BY <2>2, <2>3 DEF U
<1>5. Ahead(i)' = Cardinality(DueUpTo(i)') + Cardinality(Unacked')
  BY DEF Ahead
<1>6. Ahead(i)' \in Nat /\ Ahead(i)' <= StatusPeriod - 1
  BY <1>3, <1>4, <1>5, N2kAlertsAssumption DEF BusAssumption
<1>7. ASSUME Steady(inputs), ~Period
      PROVE  Ahead(i)' <= Ahead(i) - 1
  <2>1. \A j \in Channels : Judged(j, inputs) = ch[j]
    BY <1>7, JudgedFields DEF Steady
  <2>2. f \in DueUpTo(i) /\ DueUpTo(i)' \subseteq DueUpTo(i) \ {f}
    BY <1>7, <2>1 DEF DueUpTo
  <2>3. \A j \in Channels : ch'[j].active = ch[j].active /\ ch'[j].acked = ch[j].acked
    BY <2>1, PassFields
  <2>4. Unacked' = Unacked
    BY <2>3, N2kAlertsAssumption DEF Unacked
  <2>5. IsFiniteSet(DueUpTo(i)) /\ Cardinality(Unacked) \in Nat
    BY AheadCounted
  <2>6. /\ Cardinality(DueUpTo(i)) \in Nat
        /\ Cardinality(DueUpTo(i)') <= Cardinality(DueUpTo(i)) - 1
    <3> DEFINE E == DueUpTo(i)'
               D == DueUpTo(i)
    <3>1. IsFiniteSet(D) /\ f \in D /\ E \in SUBSET (D \ {f})
      BY <2>2, <2>5
    <3> HIDE DEF D, E
    <3>2. Cardinality(D) \in Nat /\ Cardinality(E) <= Cardinality(D) - 1
      BY <3>1, Fewer
    <3> QED
      BY <3>2 DEF D, E
  <2>7. Ahead(i) = Cardinality(DueUpTo(i)) + Cardinality(Unacked)
    BY DEF Ahead
  <2> QED
    BY <1>3, <1>5, <2>4, <2>5, <2>6, <2>7
<1> QED
  BY <1>6, <1>7

\* A response makes one more channel due, and one fewer unacknowledged.
LEMMA ResponseAhead ==
    ASSUME BusAssumption, AlertsTypeOK, NEW r \in acks, Response(r), NEW i \in Channels
    PROVE  Ahead(i)' \in Nat /\ Ahead(i) \in Nat /\ Ahead(i)' <= Ahead(i)
<1> DEFINE k == r.channel
           D == DueUpTo(i)
           E == DueUpTo(i)'
           U == Unacked
           V == Unacked'
<1>1. k \in Acking /\ k \in Channels
  BY N2kAlertsAssumption DEF AlertsTypeOK
<1>2. IsFiniteSet(D) /\ IsFiniteSet(U) /\ Ahead(i) \in Nat
  BY AheadCounted
<1>3. Ahead(i) = Cardinality(D) + Cardinality(U) /\ Ahead(i)' = Cardinality(E) + Cardinality(V)
  BY DEF Ahead
<1>4. CASE ch' = ch
  <2>1. D = E /\ U = V
    BY <1>4 DEF DueUpTo, Unacked
  <2> QED
    BY <1>2, <1>3, <2>1
<1>5. CASE ch' # ch
  <2>1. /\ ch[k].active /\ ~ch[k].acked /\ ch'[k].acked
        /\ \A j \in Channels \ {k} : ch'[j] = ch[j]
    BY <1>5, ResponseFields
  <2>2. E \in SUBSET (D \cup {k})
    BY <2>1 DEF DueUpTo
  <2>3. k \in U /\ V \in SUBSET (U \ {k})
    BY <1>1, <2>1, N2kAlertsAssumption DEF Unacked
  <2> HIDE DEF D, E, U, V
  <2>4. Cardinality(E) \in Nat /\ Cardinality(D) \in Nat /\ Cardinality(E) <= Cardinality(D) + 1
    BY <1>2, <2>2, OneMoreMember
  <2>5. Cardinality(V) \in Nat /\ Cardinality(U) \in Nat /\ Cardinality(V) <= Cardinality(U) - 1
    BY <1>2, <2>3, Fewer
  <2> QED
    BY <1>2, <1>3, <2>4, <2>5
<1> QED
  BY <1>4, <1>5

\* What a pass counts.
LEMMA TickCounts ==
    ASSUME quiet \in Nat, Counting, NEW inputs \in SUBSET Channels, Tick(inputs)
    PROVE  \/ quiet' = 0
           \/ /\ inputs = mask
              /\ quiet' = IF Period /\ ~Underway THEN quiet + 1 ELSE quiet
<1>1. mask' = inputs /\ pending' = pending
  BY DEF Tick, cfgVars
<1>2. ~Change => inputs = mask
  BY <1>1 DEF Change
<1>3. Elapsed <=> Period /\ ~Underway
  BY DEF Elapsed
<1> QED
  BY <1>2, <1>3 DEF Counting

\* A count that goes on finds everything judged, or is the first one.
LEMMA CountedSteady ==
    ASSUME TimedInv, NEW inputs \in SUBSET Channels, inputs = mask, quiet > 0
    PROVE  Steady(inputs)
BY DEF TimedInv, CountedJudged, Judgement, Steady

\* A channel that is due within the period is sent before the period ends.
LEMMA SoonEnough ==
    ASSUME BusAssumption, NEW i \in Channels, Soon(i), statusAge \in Nat
    PROVE  ~Period
<1>1. i \in DueUpTo(i)
  BY N2kAlertsAssumption DEF Soon, DueUpTo, HasDue
<1>2. Cardinality(DueUpTo(i)) \in Nat \ {0} /\ Cardinality(Unacked) \in Nat
  BY <1>1, AheadCounted, FS_EmptySet
<1>3. Ahead(i) \in Nat /\ Ahead(i) >= 1
  BY <1>2 DEF Ahead
<1>4. Ahead(i) <= StatusPeriod - 1 - statusAge /\ StatusPeriod \in Nat
  BY N2kAlertsAssumption DEF Soon
<1> QED
  BY <1>3, <1>4 DEF Period

\* A pass that does not send what is due sends something ahead of it.
LEMMA SoonKept ==
    ASSUME BusAssumption, AlertsTypeOK, NEW inputs \in SUBSET Channels, Tick(inputs),
           NEW i \in Channels, ch'[i].statusDue,
           NEW f \in Channels, f <= i, ~HasDue(ch'[f]), HasDue(Judged(f, inputs)) \/ Period,
           \A j \in Channels : HasDue(ch'[j]) => HasDue(Judged(j, inputs)) \/ Period,
           Period \/ (Steady(inputs) /\ Soon(i))
    PROVE  Soon(i)'
<1>1. /\ Ahead(i)' \in Nat /\ Ahead(i)' <= StatusPeriod - 1
      /\ Steady(inputs) /\ ~Period => Ahead(i)' <= Ahead(i) - 1
  BY TickPaces
<1>2. statusAge' = IF Period THEN 0 ELSE statusAge + 1
  BY DEF Tick, Period
<1>3. StatusPeriod \in Nat /\ statusAge \in Nat /\ Ahead(i) \in Nat
  BY N2kAlertsAssumption, AheadCounted DEF AlertsTypeOK
<1>4. CASE Period
  BY <1>1, <1>2, <1>3, <1>4 DEF Soon
<1>5. CASE ~Period
  <2>1. Ahead(i)' <= Ahead(i) - 1 /\ Ahead(i) <= StatusPeriod - 1 - statusAge
    BY <1>1, <1>5 DEF Soon
  <2> QED
    BY <1>1, <1>2, <1>3, <1>5, <2>1 DEF Soon
<1> QED
  BY <1>4, <1>5

\* Whatever a bound the count keeps, a pass keeps it; it reaches the bound only
\* at the end of a period, or before the channel's turn.
LEMMA CountKept ==
    ASSUME BusAssumption, TimedInv, Counting, NEW inputs \in SUBSET Channels, Tick(inputs),
           NEW i \in Channels, NEW bound \in Nat \ {0},
           quiet > 0 /\ Steady(inputs) => quiet <= bound /\ (quiet = bound => Soon(i))
    PROVE  /\ quiet' \in Nat /\ quiet' <= bound
           /\ quiet' = bound => Period \/ (quiet > 0 /\ Steady(inputs) /\ Soon(i))
<1>1. quiet \in Nat /\ statusAge \in Nat
  BY N2kAlertsAssumption DEF TimedInv, ShownInv, AlertsTypeOK
<1>2. CASE quiet' = 0
  BY <1>2
<1>3. CASE inputs = mask /\ quiet' = IF Period /\ ~Underway THEN quiet + 1 ELSE quiet
  <2>1. quiet > 0 => Steady(inputs)
    BY <1>3, CountedSteady
  <2>2. Soon(i) => ~Period
    BY <1>1, SoonEnough
  <2>3. CASE quiet = 0
    BY <1>3, <2>3
  <2>4. CASE quiet > 0
    <3>1. Steady(inputs) /\ quiet <= bound /\ (quiet = bound => Soon(i))
      BY <2>1, <2>4
    <3>2. CASE Period
      <4>1. quiet # bound
        BY <2>2, <3>1, <3>2
      <4> QED
        BY <1>1, <1>3, <3>1, <3>2, <4>1
    <3>3. CASE ~Period
      BY <1>1, <1>3, <2>4, <3>1, <3>3
    <3> QED
      BY <3>2, <3>3
  <2> QED
    BY <1>1, <2>3, <2>4
<1> QED
  BY <1>1, <1>2, <1>3, TickCounts

\* A pass keeps the pace of the Normals.
LEMMA TickPaced ==
    ASSUME BusAssumption, TimedInv, Counting, NEW inputs \in SUBSET Channels, Tick(inputs),
           NEW i \in Channels, Stale(i)'
    PROVE  /\ quiet' <= Repeats - ch'[i].clearLeft + 1
           /\ quiet' = Repeats - ch'[i].clearLeft + 1 => Soon(i)'
<1> DEFINE left == Judged(i, inputs).clearLeft
           bound == Repeats - left + 1
<1>1. AlertsTypeOK /\ ShownInv
  BY DEF TimedInv, ShownInv
<1>2. left \in 0 .. Repeats /\ Repeats \in Nat
  <2>1. Judged(i, inputs) \in Alerts
    BY <1>1, JudgedFields
  <2> QED
    BY <2>1, N2kAlertsAssumption DEF Alerts
<1>3. left > 0
  <2>1. left + lost >= Repeats
    BY <1>1, TickStale
  <2>2. lost \in 0 .. MaxLost /\ MaxLost \in Nat /\ MaxLost < Repeats
    BY <1>1, N2kAlertsAssumption DEF AlertsTypeOK, BusAssumption
  <2> QED
    BY <1>2, <2>1, <2>2
<1>4. bound \in Nat \ {0}
  BY <1>2
<1>5. Steady(inputs) => Judged(i, inputs) = ch[i] /\ Stale(i)
  BY <1>1, JudgedFields, TickStale DEF Steady
<1>6. quiet > 0 /\ Steady(inputs) => quiet <= bound /\ (quiet = bound => Soon(i))
  BY <1>5 DEF TimedInv, Paced
<1>7. /\ quiet' \in Nat /\ quiet' <= bound
      /\ quiet' = bound => Period \/ (quiet > 0 /\ Steady(inputs) /\ Soon(i))
  <2> HIDE DEF bound
  <2> QED
    BY <1>4, <1>6, CountKept
<1>8. StatusDue(i, inputs) <=> Judged(i, inputs).statusDue \/ Period
  BY <1>3 DEF StatusDue
<1>9. CASE ~StatusDue(i, inputs) /\ ch'[i].clearLeft = left
  <2>1. quiet' # bound
    BY <1>5, <1>7, <1>8, <1>9 DEF Soon
  <2> QED
    BY <1>7, <1>9, <2>1
<1>10. CASE /\ ch'[i].clearLeft = left /\ ch'[i].statusDue
            /\ \E f \in Channels : /\ f <= i /\ ~HasDue(ch'[f])
                                   /\ HasDue(Judged(f, inputs)) \/ Period
            /\ \A j \in Channels : HasDue(ch'[j]) => HasDue(Judged(j, inputs)) \/ Period
  <2>1. Period \/ (Steady(inputs) /\ Soon(i)) => Soon(i)'
    BY <1>1, <1>10, SoonKept
  <2> QED
    BY <1>7, <1>10, <2>1
<1>11. CASE ch'[i].clearLeft = IF left > 0 THEN left - 1 ELSE 0
  <2>1. ch'[i].clearLeft = left - 1
    BY <1>3, <1>11
  <2> HIDE DEF left
  <2> QED
    BY <1>2, <1>7, <2>1
<1> QED
  BY <1>1, <1>9, <1>10, <1>11, TickSends

\* What is missing after a pass was missing before, or was raised by it.
LEMMA TickMissing ==
    ASSUME MaxOccurrence > 2, AckInv, NEW inputs \in SUBSET Channels, Tick(inputs),
           NEW i \in Channels, Missing(i)'
    PROVE  /\ Judged(i, inputs).active
           /\ Agrees(i, inputs) => Missing(i) /\ Judged(i, inputs) = ch[i]
<1>1. /\ ch'[i].active = Judged(i, inputs).active
      /\ ch'[i].id = Judged(i, inputs).id
      /\ ch'[i].clearId = Judged(i, inputs).clearId
  BY PassFields DEF AckInv
<1>2. Judged(i, inputs).active /\ Judged(i, inputs).id \notin shown'[i]
  BY <1>1 DEF Missing
<1>3. ASSUME Agrees(i, inputs)
      PROVE  Missing(i) /\ Judged(i, inputs) = ch[i]
  <2>1. Judged(i, inputs) = ch[i]
    BY <1>3, JudgedFields DEF AckInv
  <2>2. ch[i].clearId.occurrence \in 0 .. MaxOccurrence
    BY DEF AckInv, AlertsTypeOK, Alerts, Ids
  <2>3. ch[i].id # ch[i].clearId
    BY <1>2, <2>1, <2>2, SuccDiffers DEF AckInv, Numbered
  <2>4. ch[i].id \notin shown[i]
    BY <1>1, <1>2, <2>1, <2>3, PassHeard DEF AckInv
  <2> QED
    BY <1>2, <2>1, <2>4 DEF Missing
<1> QED
  BY <1>2, <1>3

\* A pass tells the display of an alert, or the frame was lost.
LEMMA TickTells ==
    ASSUME BusAssumption, MaxOccurrence > 2, TimedInv, Counting,
           NEW inputs \in SUBSET Channels, Tick(inputs), NEW i \in Channels, Missing(i)'
    PROVE  /\ quiet' <= lost' + 1
           /\ quiet' = lost' + 1 => Soon(i)'
<1> DEFINE bound == lost + 1
<1>1. AlertsTypeOK /\ AckInv
  BY DEF TimedInv, ShownInv
<1>2. lost \in Nat /\ lost' \in Nat /\ lost' >= lost
  <2>1. lost' \in 0 .. MaxLost /\ lost' >= lost
    BY <1>1, PassHeard
  <2> QED
    BY <1>1, <2>1, N2kAlertsAssumption DEF AlertsTypeOK
<1>3. /\ Judged(i, inputs).active
      /\ Steady(inputs) => Missing(i) /\ Judged(i, inputs) = ch[i]
  BY <1>1, TickMissing DEF Steady
<1>4. bound \in Nat \ {0}
  BY <1>2
<1>5. quiet > 0 /\ Steady(inputs) => quiet <= bound /\ (quiet = bound => Soon(i))
  BY <1>3 DEF TimedInv, Told
<1>6. /\ quiet' \in Nat /\ quiet' <= bound
      /\ quiet' = bound => Period \/ (quiet > 0 /\ Steady(inputs) /\ Soon(i))
  <2> HIDE DEF bound
  <2> QED
    BY <1>4, <1>5, CountKept
<1>7. StatusDue(i, inputs) <=> Judged(i, inputs).statusDue \/ Period
  BY <1>3 DEF StatusDue
<1>8. quiet' <= lost' + 1 /\ (quiet' = lost' + 1 => quiet' = bound)
  <2>1. \A l, m, q \in Nat : m >= l /\ q <= l + 1 => q <= m + 1 /\ (q = m + 1 => q = l + 1)
    OBVIOUS
  <2> QED
    BY <1>2, <1>6, <2>1
<1>9. CASE ~StatusDue(i, inputs)
  <2>1. quiet' # bound
    BY <1>3, <1>6, <1>7, <1>9 DEF Soon
  <2> QED
    BY <1>8, <2>1
<1>10. CASE /\ ch'[i].statusDue
            /\ \E f \in Channels : /\ f <= i /\ ~HasDue(ch'[f])
                                   /\ HasDue(Judged(f, inputs)) \/ Period
            /\ \A j \in Channels : HasDue(ch'[j]) => HasDue(Judged(j, inputs)) \/ Period
  <2>1. Period \/ (Steady(inputs) /\ Soon(i)) => Soon(i)'
    BY <1>1, <1>10, SoonKept
  <2> QED
    BY <1>6, <1>8, <2>1
<1>11. CASE lost' >= lost + 1
  <2>1. \A l, m, q \in Nat : m >= l + 1 /\ q <= l + 1 => q # m + 1
    OBVIOUS
  <2> QED
    BY <1>2, <1>6, <1>8, <1>11, <2>1
<1> QED
  BY <1>1, <1>9, <1>10, <1>11, TickSends

\* Where nothing has been counted, nothing is asked of the pace.
LEMMA NothingCounted ==
    ASSUME ShownInv', AckInv', quiet' = 0, (cfg # pending => Underway)'
    PROVE  TimedInv'
<1>1. AlertsTypeOK'
  BY DEF ShownInv
<1>2. CountedJudged'
  BY DEF CountedJudged
<1>3. Paced'
  <2> SUFFICES ASSUME NEW i \in Channels
               PROVE  0 <= Repeats - ch'[i].clearLeft + 1 /\ 0 # Repeats - ch'[i].clearLeft + 1
    BY DEF Paced
  <2>1. ch'[i].clearLeft \in 0 .. Repeats /\ Repeats \in Nat
    BY <1>1, N2kAlertsAssumption DEF AlertsTypeOK, Alerts
  <2> QED
    BY <2>1
<1>4. Told'
  <2>1. lost' \in 0 .. MaxLost /\ MaxLost \in Nat
    BY <1>1, N2kAlertsAssumption DEF AlertsTypeOK
  <2>2. \A l, m : m \in Nat /\ l \in 0 .. m => 0 <= l + 1 /\ 0 # l + 1
    OBVIOUS
  <2>3. quiet' <= lost' + 1 /\ quiet' # lost' + 1
    BY <2>1, <2>2
  <2> QED
    BY <2>3 DEF Told
<1> QED
  BY <1>2, <1>3, <1>4 DEF TimedInv

LEMMA TimedStep ==
    ASSUME BusAssumption, MaxOccurrence > 2, TimedInv, [TimedNext]_<<alertVars, quiet>>
    PROVE  TimedInv'
<1> USE DEF cfgVars, taskVars, busVars, ackVars
<1>1. ShownInv /\ AckInv /\ AlertsTypeOK /\ quiet \in Nat /\ CountedJudged
  BY DEF TimedInv, ShownInv
<1>2. [AlertsNext]_alertVars
  BY DEF TimedNext, alertVars
<1>3. ShownInv' /\ AckInv'
  BY <1>1, <1>2, ShownStep, AckStep
<1>4. ASSUME NEW inputs \in SUBSET Channels, Tick(inputs), Counting PROVE TimedInv'
  <2>1. Judgement'
    BY <1>1, <1>4, TickJudges
  <2>2. /\ UNCHANGED <<pending, flagging, cfgChanged, cfg>>
        /\ at \in {"tick", "parse"} /\ at' = "parse"
    BY <1>4 DEF Tick
  <2>3. (Underway' <=> Underway) /\ (cfg # pending => Underway) /\ (Underway => quiet = 0)
    BY <1>1, <2>2 DEF Underway, CountedJudged
  <2>4. quiet' \in Nat /\ (Underway => quiet' = 0)
    BY <1>1, <1>4, <2>3, TickCounts
  <2>5. CountedJudged'
    BY <2>1, <2>2, <2>3, <2>4 DEF CountedJudged
  <2>6. Paced' /\ Told'
    BY <1>4, TickPaced, TickTells DEF Paced, Told
  <2> QED
    BY <1>3, <2>4, <2>5, <2>6 DEF TimedInv
<1>5. ASSUME UNCHANGED <<mask, pending, flagging, cfgChanged, at, cfg, statusAge, shown, lost, quiet>>,
             \A i \in Channels :
                /\ ch'[i].active = ch[i].active
                /\ ch'[i].id = ch[i].id /\ ch'[i].clearId = ch[i].clearId
                /\ ch'[i].clearLeft = ch[i].clearLeft
                /\ ch[i].statusDue => ch'[i].statusDue,
             \A i \in Channels : Ahead(i) \in Nat /\ Ahead(i)' \in Nat /\ Ahead(i)' <= Ahead(i)
      PROVE  TimedInv'
  <2>1. \A i \in Channels : (Stale(i)' <=> Stale(i)) /\ (Missing(i)' <=> Missing(i))
    BY <1>5 DEF Stale, Missing
  <2>2. \A i \in Channels : Soon(i) => Soon(i)'
    <3>1. StatusPeriod \in Nat /\ statusAge \in Nat
      BY <1>1, N2kAlertsAssumption DEF AlertsTypeOK
    <3> QED
      BY <1>5, <3>1 DEF Soon
  <2>3. CountedJudged'
    BY <1>1, <1>5 DEF CountedJudged, Underway, Judgement, Agrees, Want
  <2>4. Paced' /\ Told'
    BY <1>5, <2>1, <2>2 DEF TimedInv, Paced, Told
  <2> QED
    BY <1>1, <1>3, <1>5, <2>3, <2>4 DEF TimedInv
<1>6. CASE AlertsNext /\ Counting
  <2>1. CASE \E inputs \in SUBSET Channels : Tick(inputs)
    BY <1>4, <1>6, <2>1
  <2>2. CASE ~\E inputs \in SUBSET Channels : Tick(inputs)
    <3>1. quiet' = IF Change THEN 0 ELSE quiet
      BY <1>6, <2>2 DEF Counting, Elapsed
    <3>2. ASSUME NEW i \in Edited, NEW level \in Choices, Store(i, level) PROVE TimedInv'
      <4>1. i \in Channels /\ pending'[i] # pending[i] /\ flagging'
        BY <1>1, <3>2, N2kAlertsAssumption DEF Store, AlertsTypeOK
      <4>2. quiet' = 0
        BY <3>1, <4>1 DEF Change
      <4> QED
        BY <1>3, <4>1, <4>2, NothingCounted DEF Underway
    <3>3. ASSUME Underway, (cfg # pending => Underway)' PROVE TimedInv'
      <4>1. quiet' = 0
        BY <1>1, <3>1, <3>3 DEF CountedJudged
      <4> QED
        BY <1>3, <3>3, <4>1, NothingCounted
    <3>4. CASE RaiseFlag
      BY <3>3, <3>4 DEF RaiseFlag, Underway
    <3>5. CASE TakeFlag
      BY <3>3, <3>5 DEF TakeFlag, Underway
    <3>6. CASE SetConfig
      BY <3>3, <3>6 DEF SetConfig, Underway
    <3>7. ASSUME NEW i \in Acking, NEW id \in shown[i], Acknowledge(i, id) PROVE TimedInv'
      <4>1. /\ UNCHANGED <<mask, pending, flagging, cfgChanged, at, cfg, ch, statusAge, shown, lost>>
            /\ quiet' = quiet
        BY <3>1, <3>7 DEF Acknowledge, Change
      <4>2. \A j \in Channels : Ahead(j)' = Ahead(j) /\ Ahead(j) \in Nat
        BY <4>1, AheadCounted DEF Ahead, DueUpTo, Unacked
      <4> QED
        BY <1>5, <4>1, <4>2
    <3>8. ASSUME NEW r \in acks, Response(r) PROVE TimedInv'
      <4>1. /\ UNCHANGED <<mask, pending, flagging, cfgChanged, at, cfg, statusAge, shown, lost>>
            /\ quiet' = quiet
        BY <3>1, <3>8 DEF Response, Change
      <4>2. \A i \in Channels :
              /\ ch'[i].active = ch[i].active
              /\ ch'[i].id = ch[i].id /\ ch'[i].clearId = ch[i].clearId
              /\ ch'[i].clearLeft = ch[i].clearLeft
              /\ ch[i].statusDue => ch'[i].statusDue
        BY <1>1, <3>8, ResponseFields
      <4>3. \A i \in Channels : Ahead(i) \in Nat /\ Ahead(i)' \in Nat /\ Ahead(i)' <= Ahead(i)
        BY <1>1, <3>8, ResponseAhead
      <4> QED
        BY <1>5, <4>1, <4>2, <4>3
    <3> QED
      BY <1>6, <2>2, <3>2, <3>4, <3>5, <3>6, <3>7, <3>8 DEF AlertsNext, Task
  <2> QED
    BY <2>1, <2>2
<1>7. CASE UNCHANGED <<alertVars, quiet>>
  <2>1. UNCHANGED <<mask, pending, flagging, cfgChanged, at, cfg, ch, statusAge, shown, lost, quiet>>
    BY <1>7 DEF alertVars
  <2>2. \A j \in Channels : Ahead(j)' = Ahead(j) /\ Ahead(j) \in Nat
    BY <2>1, AheadCounted DEF Ahead, DueUpTo, Unacked
  <2> QED
    BY <1>5, <2>1, <2>2
<1> QED
  BY <1>6, <1>7 DEF TimedNext

LEMMA TimedInit == BusAssumption /\ AlertsInit /\ quiet = 0 => TimedInv
<1> SUFFICES ASSUME AlertsInit, quiet = 0 PROVE TimedInv
  OBVIOUS
<1>1. ShownInv /\ AckInv /\ AlertsTypeOK
  BY ShownInit, AckInit, AlertsTypeInit
<1>2. CountedJudged
  BY DEF AlertsInit, CountedJudged, Underway
<1>3. \A i \in Channels : ~Stale(i) /\ ~Missing(i)
  BY DEF AlertsInit, Stale, Missing, Fresh
<1> QED
  BY <1>1, <1>2, <1>3 DEF TimedInv, Paced, Told

LEMMA TimedImplies == BusAssumption /\ TimedInv => RightInTime
<1> SUFFICES ASSUME BusAssumption, TimedInv, quiet >= MaxLost + 2, NEW i \in Channels
             PROVE  Right(i)
  BY DEF RightInTime
<1>1. /\ lost \in Nat /\ lost <= MaxLost /\ MaxLost \in Nat /\ quiet \in Nat
      /\ ch[i].clearLeft \in Nat /\ Repeats \in Nat
  BY N2kAlertsAssumption DEF TimedInv, ShownInv, AlertsTypeOK, Alerts
<1>2. cfg = pending /\ Judgement
  BY <1>1 DEF TimedInv, CountedJudged
<1>3. ~Missing(i)
  BY <1>1 DEF TimedInv, Told
<1>4. ~Stale(i)
  <2> SUFFICES ASSUME Stale(i) PROVE FALSE
    OBVIOUS
  <2>1. ch[i].clearLeft + lost >= Repeats /\ quiet <= Repeats - ch[i].clearLeft + 1
    BY DEF TimedInv, ShownInv, Owed, Paced
  <2> QED
    BY <1>1, <2>1
<1>5. ch[i].active <=> pending[i] # Off /\ i \in mask
  BY <1>2 DEF Judgement, Agrees, Want
<1>6. \A id \in shown[i] \ forgotten[i] : ch[i].active /\ ch[i].id = id
  BY <1>4 DEF TimedInv, ShownInv, ShownOurs, Stale
<1>7. ch[i].active => ch[i].id \in shown[i] \ forgotten[i]
  BY <1>3 DEF Missing, TimedInv, ShownInv, Remembered
<1>8. CASE ch[i].active
  <2>1. shown[i] \ forgotten[i] = {ch[i].id}
    BY <1>6, <1>7, <1>8
  <2> QED
    BY <1>5, <1>8, <2>1 DEF Right
<1>9. CASE ~ch[i].active
  <2>1. shown[i] \ forgotten[i] = {}
    BY <1>6, <1>9
  <2> QED
    BY <1>5, <1>9, <2>1 DEF Right
<1> QED
  BY <1>8, <1>9

\* What DisplayRight promises eventually comes within two status periods more
\* than frames are lost, whatever changed before and however fast: an active
\* alert's status is sent every period (n2k_alerts.c:134-136), and once is
\* enough when it arrives.
THEOREM RightInTimeHolds ==
    ASSUME BusAssumption, MaxOccurrence > 2
    PROVE  TimedSpec => []RightInTime
<1>1. AlertsInit /\ quiet = 0 => TimedInv
  BY TimedInit
<1>2. TimedInv /\ [TimedNext]_<<alertVars, quiet>> => TimedInv'
  BY TimedStep
<1>3. TimedInv => RightInTime
  BY TimedImplies
<1> QED
  BY <1>1, <1>2, <1>3, PTL DEF TimedSpec

================================================================================
