------------------------------- MODULE TwaiNode -------------------------------
(***************************************************************************)
(* The transmit side of the CAN node.  The driver keeps a pointer to every *)
(* frame it has not sent yet, so TwaiNode::transmit() puts each frame in a *)
(* slot of its own until the driver's interrupt hands the slot back.  At a *)
(* bus-off the driver drops the frame in the controller and hands nothing  *)
(* back; transmit() takes such slots back when the driver turns out idle.  *)
(* A refused frame stays in the buffer of the NMEA 2000 library, which     *)
(* offers it again.  Only n2k_task sends (n2k_bridge.cpp:191-230).         *)
(*                                                                         *)
(* Frames are numbered in the order they are given to the library.         *)
(***************************************************************************)
EXTENDS Naturals, Sequences

CONSTANTS
    MaxTxSlots,    \* kMaxTxSlots
    QueueDepth,    \* tx_queue_depth of the driver
    BufferSize,    \* frames the library's send buffer takes
    MaxFrames      \* bound: frames sent in all

ASSUME TwaiAssumption ==
    /\ MaxTxSlots \in Nat \ {0}
    /\ QueueDepth \in Nat
    /\ BufferSize \in Nat
    /\ MaxFrames \in Nat

\* tx_slot_count_: one per queued frame and one for the controller, capped.
SlotCount == IF QueueDepth + 1 < MaxTxSlots THEN QueueDepth + 1 ELSE MaxTxSlots

Slots == 1 .. SlotCount

VARIABLES
    content,    \* tx_slots_: the frame each slot holds, 0 for none yet
    inUse,      \* tx_in_use_
    held,       \* the slots the driver points at, the one being sent first
    bus,        \* the controller: on the bus, off, or recovering
    given,      \* frames given to the library so far
    accepted,   \* frames the driver has accepted
    done,       \* frames sent, or dropped at a bus-off
    pc,         \* where transmit() is
    slot,       \* transmit()'s idx
    recoverPending,   \* recover_pending_
    rxAt        \* where rx_task is: "take" or "recover"

driverVars == <<held, bus>>
frameVars  == <<given, accepted, done>>
txVars     == <<pc, slot>>
rxVars     == <<recoverPending, rxAt>>
vars       == <<content, inUse, driverVars, frameVars, txVars, rxVars>>

\* __builtin_ctz() of a mask.
Lowest(s, S) == s \in S /\ \A r \in S : s <= r

\* The library takes a frame (tNMEA2000::SendMsg): at most BufferSize wait.
Give ==
    /\ given < MaxFrames
    /\ given - accepted < BufferSize
    /\ pc = "idle"
    /\ given' = given + 1
    /\ UNCHANGED <<content, inUse, driverVars, accepted, done, txVars, rxVars>>

(***************************************************************************)
(* TwaiNode::transmit(), step by step: interrupts come in between.         *)
(***************************************************************************)
\* Mutant: with no slot free, __builtin_ctz() of nothing.
TransmitLookUnchecked ==
    /\ pc = "idle"
    /\ accepted < given
    /\ \/ inUse = Slots /\ slot' = SlotCount + 1
       \/ \E s \in Slots : Lowest(s, Slots \ inUse) /\ slot' = s
    /\ pc' = "fill"
    /\ UNCHANGED <<content, inUse, driverVars, frameVars, rxVars>>

TransmitLook ==
    /\ pc = "idle"
    /\ accepted < given
    /\ \/ inUse = Slots /\ pc' = "drain" /\ UNCHANGED slot
       \/ \E s \in Slots : Lowest(s, Slots \ inUse) /\ slot' = s /\ pc' = "fill"
    /\ UNCHANGED <<content, inUse, driverVars, frameVars, rxVars>>

\* Mutant: reclaims whatever the driver holds.
TransmitDrainAnyway ==
    /\ pc = "drain"
    /\ pc' = "reclaim"
    /\ UNCHANGED <<content, inUse, driverVars, frameVars, slot, rxVars>>

\* twai_node_transmit_wait_all_done(node, 0): idle, or an error right away.
TransmitDrain ==
    /\ pc = "drain"
    /\ pc' = IF held = <<>> /\ bus = "on" THEN "reclaim" ELSE "idle"
    /\ UNCHANGED <<content, inUse, driverVars, frameVars, slot, rxVars>>

TransmitReclaim ==
    /\ pc = "reclaim"
    /\ inUse' = {}
    /\ slot' = 1
    /\ pc' = "fill"
    /\ UNCHANGED <<content, driverVars, frameVars, rxVars>>

TransmitFill ==
    /\ pc = "fill"
    /\ content' = [content EXCEPT ![slot] = accepted + 1]
    /\ pc' = "mark"
    /\ UNCHANGED <<inUse, driverVars, frameVars, slot, rxVars>>

TransmitMark ==
    /\ pc = "mark"
    /\ inUse' = inUse \cup {slot}
    /\ pc' = "hand"
    /\ UNCHANGED <<content, driverVars, frameVars, slot, rxVars>>

\* What twai_node_transmit(node, frame, 0) takes: one frame in the controller
\* and QueueDepth behind it, and nothing while the bus is off.
DriverTakes == bus = "on" /\ Len(held) <= QueueDepth

TransmitHand ==
    /\ pc = "hand"
    /\ \/ /\ DriverTakes
          /\ held' = Append(held, slot)
          /\ accepted' = accepted + 1
          /\ pc' = "idle"
       \/ /\ ~DriverTakes
          /\ pc' = "unmark"
          /\ UNCHANGED <<held, accepted>>
    /\ UNCHANGED <<content, inUse, bus, given, done, slot, rxVars>>

\* Refused: the driver kept nothing.
TransmitUnmark ==
    /\ pc = "unmark"
    /\ inUse' = inUse \ {slot}
    /\ pc' = "idle"
    /\ UNCHANGED <<content, driverVars, frameVars, slot, rxVars>>

(***************************************************************************)
(* The interrupts.                                                         *)
(***************************************************************************)
OnTxDone ==
    /\ bus = "on"
    /\ held # <<>>
    /\ inUse' = inUse \ {Head(held)}
    /\ held' = Tail(held)
    /\ done' = done + 1
    /\ UNCHANGED <<content, bus, given, accepted, txVars, rxVars>>

\* The frame in the controller is dropped and its slot not handed back.
BusOff ==
    /\ bus = "on"
    /\ bus' = "off"
    /\ IF held = <<>>
       THEN UNCHANGED <<held, done>>
       ELSE held' = Tail(held) /\ done' = done + 1
    /\ recoverPending' = TRUE
    /\ UNCHANGED <<content, inUse, given, accepted, txVars, rxAt>>

(***************************************************************************)
(* rx_task asks for the recovery; the controller takes its time over it.   *)
(***************************************************************************)
\* Mutant: clears the flag after it has recovered.
RecoverThenClear ==
    \/ /\ rxAt = "take" /\ recoverPending
       /\ rxAt' = "recover"
       /\ bus' = IF bus = "off" THEN "recovering" ELSE bus
       /\ UNCHANGED <<content, inUse, held, frameVars, txVars, recoverPending>>
    \/ /\ rxAt = "recover"
       /\ rxAt' = "take"
       /\ recoverPending' = FALSE
       /\ UNCHANGED <<content, inUse, driverVars, frameVars, txVars>>

Recover ==
    \/ /\ rxAt = "take" /\ recoverPending
       /\ rxAt' = "recover"
       /\ recoverPending' = FALSE
       /\ UNCHANGED <<content, inUse, driverVars, frameVars, txVars>>
    \/ /\ rxAt = "recover"
       /\ rxAt' = "take"
       /\ bus' = IF bus = "off" THEN "recovering" ELSE bus
       /\ UNCHANGED <<content, inUse, held, frameVars, txVars, recoverPending>>

BusRecovered ==
    /\ bus = "recovering"
    /\ bus' = "on"
    /\ UNCHANGED <<content, inUse, held, frameVars, txVars, rxVars>>

\* acquire() has run: every slot is free and the node is on the bus.
Init ==
    /\ content = [s \in Slots |-> 0]
    /\ inUse = {}
    /\ held = <<>>
    /\ bus = "on"
    /\ given = 0
    /\ accepted = 0
    /\ done = 0
    /\ pc = "idle"
    /\ slot = 1
    /\ recoverPending = FALSE
    /\ rxAt = "take"

Transmit ==
    \/ TransmitLook
    \/ TransmitDrain
    \/ TransmitReclaim
    \/ TransmitFill
    \/ TransmitMark
    \/ TransmitHand
    \/ TransmitUnmark

Next ==
    \/ Give
    \/ Transmit
    \/ OnTxDone
    \/ BusOff
    \/ Recover
    \/ BusRecovered

Spec == Init /\ [][Next]_vars

(***************************************************************************)
(* Both tasks get to run, a controller on the bus gets its frame sent (some*)
(* other node acknowledges it), and one asked to recover does.             *)
(***************************************************************************)
FairSpec ==
    /\ Spec
    /\ WF_vars(Transmit)
    /\ WF_vars(OnTxDone)
    /\ WF_vars(Recover)
    /\ WF_vars(BusRecovered)

-----------------------------------------------------------------------------
(***************************************************************************)
(* Properties.                                                             *)
(***************************************************************************)

Places == {"idle", "drain", "reclaim", "fill", "mark", "hand", "unmark"}

\* The types of all variables.
TypeOK ==
    /\ content \in [Slots -> Nat]
    /\ inUse \in SUBSET Slots
    /\ held \in Seq(Slots)
    /\ bus \in {"on", "off", "recovering"}
    /\ given \in Nat
    /\ accepted \in Nat
    /\ done \in Nat
    /\ pc \in Places
    /\ slot \in Slots
    /\ recoverPending \in BOOLEAN
    /\ rxAt \in {"take", "recover"}

\* What the driver will send is what it was given: reading through its
\* pointers it finds the frames it accepted, in order, none missing, none
\* twice and none overwritten while it waits (twai_node.cpp:205-209; a lost
\* frame would break a whole fast-packet message, n2k_bridge.cpp:92-95).
FramesIntact ==
    /\ accepted = done + Len(held)
    /\ \A k \in 1 .. Len(held) : content[held[k]] = done + k

\* Unless the bus goes off again and again, every frame the library took is
\* sent in the end and the node stays on the bus: slots lost at a bus-off come
\* back, and no bus-off is left without a recovery.  In CanReceive, that is
\* although rx_task also waits for frames, of which none arrives off the bus
\* (twai_node.cpp:336-348).
AllSent == []<><<BusOff>>_vars \/ <>[](done = given /\ bus = "on")
=============================================================================
