------------------------------ MODULE CanReceive ------------------------------
(***************************************************************************)
(* The CAN node with its receive side.  A frame that arrives is put in     *)
(* rx_queue_ by the interrupt; rx_task takes it out and hands it to the    *)
(* sink, which puts it in the NMEA 2000 bridge's own queue without waiting;*)
(* n2k_task reads it there.  A full queue drops the frame in both places,  *)
(* the first counts it.                                                    *)
(*                                                                         *)
(* rx_task is also the task that recovers from a bus-off, between two      *)
(* waits for a frame, and a node that is off the bus receives nothing.     *)
(*                                                                         *)
(* Frames are numbered in the order they arrive.                           *)
(***************************************************************************)
EXTENDS TwaiNode

CONSTANTS
    RxDepth,       \* rx_queue_depth
    BridgeDepth,   \* length of EsposN2k::queue_
    MaxArrivals    \* bound: frames received in all

ASSUME ReceiveAssumption ==
    /\ RxDepth \in Nat \ {0}
    /\ BridgeDepth \in Nat \ {0}
    /\ MaxArrivals \in Nat

VARIABLES
    sink,           \* sink_ is set
    stage,          \* rx_task: at the loop's top, waiting, delivering
    item,           \* rx_task's item
    rxQueue,        \* rx_queue_
    bridgeQueue,    \* EsposN2k::queue_
    framesRx,       \* frames_rx_
    framesDropped,  \* frames_dropped_
    missed,         \* frames without a sink, or without room in its queue
    read            \* the frames tNMEA2000 has read, in order

counters    == <<framesRx, framesDropped>>
receiveVars == <<sink, stage, item, rxQueue, bridgeQueue, counters, missed, read>>
allVars     == <<vars, receiveVars>>

Arrived == framesRx + framesDropped

-----------------------------------------------------------------------------
(***************************************************************************)
(* The interrupt.                                                          *)
(***************************************************************************)
\* Mutant: makes room by throwing the oldest frame away.
OnRxDoneOverwrite ==
    /\ bus = "on"
    /\ Arrived < MaxArrivals
    /\ rxQueue' = Append(IF Len(rxQueue) < RxDepth THEN rxQueue ELSE Tail(rxQueue), Arrived + 1)
    /\ framesRx' = framesRx + 1
    /\ UNCHANGED <<vars, sink, stage, item, bridgeQueue, framesDropped, missed, read>>

OnRxDone ==
    /\ bus = "on"
    /\ Arrived < MaxArrivals
    /\ \/ /\ Len(rxQueue) < RxDepth
          /\ rxQueue' = Append(rxQueue, Arrived + 1)
          /\ framesRx' = framesRx + 1
          /\ UNCHANGED framesDropped
       \/ /\ Len(rxQueue) = RxDepth
          /\ framesDropped' = framesDropped + 1
          /\ UNCHANGED <<rxQueue, framesRx>>
    /\ UNCHANGED <<vars, sink, stage, item, bridgeQueue, missed, read>>

(***************************************************************************)
(* rx_task: one turn of its loop.                                          *)
(***************************************************************************)
\* recover_pending_ is looked at once, before the wait.
TaskTop ==
    /\ stage = "top"
    /\ \/ /\ Recover
          /\ stage' = IF rxAt = "recover" THEN "wait" ELSE "top"
       \/ /\ rxAt = "take" /\ ~recoverPending
          /\ stage' = "wait"
          /\ UNCHANGED vars
    /\ UNCHANGED <<sink, item, rxQueue, bridgeQueue, counters, missed, read>>

TaskTakes ==
    /\ stage = "wait"
    /\ rxQueue # <<>>
    /\ item' = Head(rxQueue)
    /\ rxQueue' = Tail(rxQueue)
    /\ stage' = "deliver"
    /\ UNCHANGED <<vars, sink, bridgeQueue, counters, missed, read>>

\* Mutant: waits for a frame for ever.
TaskWaitsOn == FALSE /\ UNCHANGED allVars

\* 100 ms without a frame: back to the top.
TaskTimesOut ==
    /\ stage = "wait"
    /\ rxQueue = <<>>
    /\ stage' = "top"
    /\ UNCHANGED <<vars, sink, item, rxQueue, bridgeQueue, counters, missed, read>>

\* The sink: xQueueSend() that does not wait, its result not looked at.
TaskDelivers ==
    /\ stage = "deliver"
    /\ \/ /\ sink /\ Len(bridgeQueue) < BridgeDepth
          /\ bridgeQueue' = Append(bridgeQueue, item)
          /\ UNCHANGED missed
       \/ /\ ~sink \/ Len(bridgeQueue) = BridgeDepth
          /\ missed' = missed + 1
          /\ UNCHANGED bridgeQueue
    /\ stage' = "top"
    /\ UNCHANGED <<vars, sink, item, rxQueue, counters, read>>

RxTask == TaskTop \/ TaskTakes \/ TaskTimesOut \/ TaskDelivers

\* tNMEA2000::ParseMessages() reads through CANGetFrame(), in n2k_task.
CANGetFrame ==
    /\ bridgeQueue # <<>>
    /\ read' = Append(read, Head(bridgeQueue))
    /\ bridgeQueue' = Tail(bridgeQueue)
    /\ UNCHANGED <<vars, sink, stage, item, rxQueue, counters, missed>>

\* TwaiReceiver::start(), the node up: from here EsposN2k takes frames.
SetSink ==
    /\ ~sink
    /\ sink' = TRUE
    /\ UNCHANGED <<vars, stage, item, rxQueue, bridgeQueue, counters, missed, read>>

\* What the transmit side does without rx_task; CANOpen() comes first.
Sending ==
    /\ \/ sink /\ Give
       \/ Transmit
       \/ OnTxDone
       \/ BusOff
       \/ BusRecovered
    /\ UNCHANGED receiveVars

\* acquire() has run, set_sink() has not; nothing has arrived.
ReceiveInit ==
    /\ Init
    /\ sink = FALSE
    /\ stage = "top"
    /\ item = 0
    /\ rxQueue = <<>>
    /\ bridgeQueue = <<>>
    /\ framesRx = 0
    /\ framesDropped = 0
    /\ missed = 0
    /\ read = <<>>

ReceiveNext ==
    \/ SetSink
    \/ Sending
    \/ OnRxDone
    \/ RxTask
    \/ CANGetFrame

ReceiveSpec == ReceiveInit /\ [][ReceiveNext]_allVars

(***************************************************************************)
(* As TwaiNode!FairSpec, with rx_task's loop in place of Recover; n2k_task *)
(* reads every 10 ms.                                                      *)
(***************************************************************************)
ReceiveFairSpec ==
    /\ ReceiveSpec
    /\ WF_allVars(Transmit /\ UNCHANGED receiveVars)
    /\ WF_allVars(OnTxDone /\ UNCHANGED receiveVars)
    /\ WF_allVars(BusRecovered /\ UNCHANGED receiveVars)
    /\ WF_allVars(RxTask)
    /\ WF_allVars(CANGetFrame)

-----------------------------------------------------------------------------
(***************************************************************************)
(* Properties.                                                             *)
(***************************************************************************)
\* The types of the receive side's variables.
ReceiveTypeOK ==
    /\ sink \in BOOLEAN
    /\ stage \in {"top", "wait", "deliver"}
    /\ item \in Nat
    /\ rxQueue \in Seq(Nat)
    /\ bridgeQueue \in Seq(Nat)
    /\ framesRx \in Nat
    /\ framesDropped \in Nat
    /\ missed \in Nat
    /\ read \in Seq(Nat)

InHand == IF stage = "deliver" THEN <<item>> ELSE <<>>

\* Everything received that is still known, oldest first.
OnTheWay == read \o bridgeQueue \o InHand \o rxQueue

\* A fast-packet message is put together from frames in order and given up at
\* a gap: through both queues, the interrupt and two tasks, frames keep their
\* order and come once, and no frame is missing that was not dropped at a full
\* queue -- by the interrupt, counted (twai_node.cpp:269-278), or by the sink
\* (n2k_bridge.cpp:82), counted by nobody -- or delivered before there was a
\* sink.
InOrderOnce ==
    /\ \A i, j \in DOMAIN OnTheWay : i < j => OnTheWay[i] < OnTheWay[j]
    /\ Len(OnTheWay) = framesRx - missed
=============================================================================
