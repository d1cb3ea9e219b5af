---------------------------- MODULE FrameQueues ----------------------------
(***************************************************************************)
(* The frame path of the lwIP build (USE_LWIP == 1): RF24Ethernet.cpp.     *)
(*                                                                         *)
(*   radio --> tick() --> RXQueue --> lwIP input                           *)
(*   lwIP  --> netif_output --> TXQueue --> tick() --> radio               *)
(*                                                                         *)
(* Two threads may run lwIP: the sketch's loop thread, in tick() and in    *)
(* the client calls, and the tcpip thread of platforms that have one       *)
(* (ESP32).  The core lock lets one of them in at a time; whoever is in    *)
(* may call netif_output.  tick() drains TXQueue WITHOUT the lock, so      *)
(* netif_output and sendQueuedFrame run against each other on the ring.    *)
(*                                                                         *)
(* A frame is a model value; only its size class matters.  The copy into a *)
(* slot is split in two steps, so that a frame caught half written is seen *)
(* as Torn.                                                                *)
(***************************************************************************)
EXTENDS Integers, Sequences

CONSTANTS Frames,         \* frames on the air and from lwIP
          ShortFrames,    \* those of at most 28 bytes
          LongFrames,     \* those above MAX_FRAME_SIZE
          Torn, NoFrame,  \* a half written slot; an empty one
          MaxTxQueue,     \* MAX_TX_QUEUE
          TxWraps,        \* how often the slots fit in the range of the counters
          MaxRxQueue,     \* MAX_RX_QUEUE
          HasTcpipThread  \* lwIP has a thread of its own; useCoreLocking

ASSUME QueueAssumption ==
  /\ MaxTxQueue \in Nat \ {0}
  /\ TxWraps \in Nat \ {0, 1}
  /\ MaxRxQueue \in Nat \ {0}
  /\ HasTcpipThread \in BOOLEAN
  /\ ShortFrames \subseteq Frames
  /\ LongFrames \subseteq Frames
  /\ Torn \notin Frames
  /\ NoFrame \notin Frames
  /\ Torn # NoFrame

VARIABLES
  nRead, nWrite,      \* TXQueue counters
  txData,             \* TXQueue slots
  lastSent,           \* what sendFrameToRadio was given last
  rxRead, rxWrite,    \* RXQueue indices
  rxData,             \* RXQueue slots
  lastInput,          \* what lwIP was given last
  loopPc,             \* where the loop thread is
  sendSlot,           \* sendQueuedFrame's slot
  inCore,             \* threads that run lwIP code
  output              \* netif_output calls in progress, per thread

txVars   == <<nRead, nWrite, txData, lastSent, sendSlot>>
rxVars   == <<rxRead, rxWrite, rxData, lastInput>>
vars     == <<nRead, nWrite, txData, lastSent, rxRead, rxWrite, rxData,
              lastInput, loopPc, sendSlot, inCore, output>>

Threads == IF HasTcpipThread THEN {"loop", "tcpip"} ELSE {"loop"}

\* Where the loop thread can be, and where it then runs lwIP code.
CorePcs == {"api", "checkTimeouts", "input"}
LoopPcs == CorePcs \cup {"idle", "received", "readRx", "haveInput",
                         "send", "radio", "sent"}

\* The counters have 32 bits: 2^32 is a multiple of MAX_TX_QUEUE.
Width == MaxTxQueue * TxWraps
Bump(n) == (n + 1) % Width
Slot(n) == n % MaxTxQueue
Ahead(m, n) == (m - n) % Width    \* unsigned difference
TxUsed == Ahead(nWrite, nRead)

Idle == [pc |-> "none", slot |-> 0, frame |-> NoFrame]

-----------------------------------------------------------------------------
(* netif_init. *)
Init ==
  /\ nRead = 0 /\ nWrite = 0
  /\ txData = [s \in 0 .. MaxTxQueue - 1 |-> NoFrame]
  /\ rxRead = 0 /\ rxWrite = 0
  /\ rxData = [s \in 0 .. MaxRxQueue - 1 |-> NoFrame]
  /\ lastSent = NoFrame /\ lastInput = NoFrame
  /\ loopPc = "idle"
  /\ sendSlot = 0
  /\ inCore = {}
  /\ output = [t \in Threads |-> Idle]

-----------------------------------------------------------------------------
(* The core lock. *)

Acquire_Unlocked(t) == inCore' = inCore \cup {t}

Acquire(t) == inCore = {} /\ inCore' = {t}
Release(t) == output[t].pc = "none" /\ inCore' = inCore \ {t}

LoopMove(from, to) == loopPc = from /\ loopPc' = to

\* A client call (connect, write, stop) made by the sketch outside tick().
ApiEnter ==
  /\ LoopMove("idle", "api") /\ Acquire("loop")
  /\ UNCHANGED <<txVars, rxVars, output>>

ApiLeave ==
  /\ LoopMove("api", "idle") /\ Release("loop")
  /\ UNCHANGED <<txVars, rxVars, output>>

TcpipEnter ==
  /\ HasTcpipThread /\ Acquire("tcpip")
  /\ UNCHANGED <<txVars, rxVars, loopPc, output>>

TcpipLeave ==
  /\ "tcpip" \in inCore /\ Release("tcpip")
  /\ UNCHANGED <<txVars, rxVars, loopPc, output>>

-----------------------------------------------------------------------------
(* netif_output.  ERR_IF (frame too long) and ERR_MEM (ring full) return   *)
(* before anything is written: they change no state.                       *)

OutputBegin_OneMore(t, f) ==
  /\ t \in inCore /\ output[t].pc = "none"
  /\ f \notin LongFrames
  /\ TxUsed <= MaxTxQueue
  /\ output' = [output EXCEPT ![t] = [pc |-> "copy", slot |-> Slot(nWrite), frame |-> f]]
  /\ txData' = [txData EXCEPT ![Slot(nWrite)] = Torn]
  /\ UNCHANGED <<nRead, nWrite, lastSent, sendSlot, rxVars, loopPc, inCore>>

OutputBegin(t, f) ==
  /\ t \in inCore /\ output[t].pc = "none"
  /\ f \notin LongFrames
  /\ TxUsed < MaxTxQueue
  /\ output' = [output EXCEPT ![t] = [pc |-> "copy", slot |-> Slot(nWrite), frame |-> f]]
  /\ txData' = [txData EXCEPT ![Slot(nWrite)] = Torn]
  /\ UNCHANGED <<nRead, nWrite, lastSent, sendSlot, rxVars, loopPc, inCore>>

\* pbuf_copy_partial, padding and length are complete.
OutputCopied(t) ==
  /\ output[t].pc = "copy"
  /\ txData' = [txData EXCEPT ![output[t].slot] = output[t].frame]
  /\ output' = [output EXCEPT ![t].pc = "publish"]
  /\ UNCHANGED <<nRead, nWrite, lastSent, sendSlot, rxVars, loopPc, inCore>>

\* Behind the barrier.
OutputPublish(t) ==
  /\ output[t].pc = "publish"
  /\ nWrite' = Bump(nWrite)
  /\ output' = [output EXCEPT ![t] = Idle]
  /\ UNCHANGED <<nRead, txData, lastSent, sendSlot, rxVars, loopPc, inCore>>

-----------------------------------------------------------------------------
(* tick(): one frame in, lwIP's timers, one frame to lwIP, one frame out.  *)

RxNext_PastEnd(n) == (n + 1) % (MaxRxQueue + 1)

RxNext(n) == (n + 1) % MaxRxQueue

\* RF24Network hands over at most MAX_PAYLOAD_SIZE bytes, MAX_FRAME_SIZE here.
Arrivals == (Frames \ LongFrames) \cup {NoFrame}

TickReceive_Overwrites(f) ==
  /\ LoopMove("idle", "received")
  /\ IF f \in Frames \ ShortFrames
       THEN /\ rxData' = [rxData EXCEPT ![rxWrite] = f]
            /\ rxWrite' = RxNext(rxWrite)
       ELSE UNCHANGED <<rxData, rxWrite>>
  /\ UNCHANGED <<txVars, rxRead, lastInput, inCore, output>>

\* mesh.update() may leave one frame; EthRX_Handler queues it unless full.
TickReceive(f) ==
  /\ LoopMove("idle", "received")
  /\ IF f \in Frames \ ShortFrames /\ RxNext(rxWrite) # rxRead
       THEN /\ rxData' = [rxData EXCEPT ![rxWrite] = f]
            /\ rxWrite' = RxNext(rxWrite)
       ELSE UNCHANGED <<rxData, rxWrite>>
  /\ UNCHANGED <<txVars, rxRead, lastInput, inCore, output>>

TimeoutsEnter ==
  /\ LoopMove("received", "checkTimeouts") /\ Acquire("loop")
  /\ UNCHANGED <<txVars, rxVars, output>>

TimeoutsLeave_SkipsInput ==
  /\ LoopMove("checkTimeouts", "send") /\ Release("loop")
  /\ UNCHANGED <<txVars, rxVars, output>>

TimeoutsLeave ==
  /\ LoopMove("checkTimeouts", "readRx") /\ Release("loop")
  /\ UNCHANGED <<txVars, rxVars, output>>

\* readRXQueue with a pbuf: the frame leaves the ring.
ReadRx ==
  /\ LoopMove("readRx", "haveInput")
  /\ rxRead # rxWrite
  /\ lastInput' = rxData[rxRead]
  /\ rxRead' = RxNext(rxRead)
  /\ UNCHANGED <<txVars, rxWrite, rxData, inCore, output>>

\* Nothing queued, or no pbuf to be had: the frame stays.
ReadRxNothing ==
  /\ LoopMove("readRx", "send")
  /\ UNCHANGED <<txVars, rxVars, inCore, output>>

InputEnter ==
  /\ LoopMove("haveInput", "input") /\ Acquire("loop")
  /\ UNCHANGED <<txVars, rxVars, output>>

InputLeave ==
  /\ LoopMove("input", "send") /\ Release("loop")
  /\ UNCHANGED <<txVars, rxVars, output>>

SendNothing ==
  /\ LoopMove("send", "idle")
  /\ nRead = nWrite
  /\ UNCHANGED <<txVars, rxVars, inCore, output>>

SendBegin ==
  /\ LoopMove("send", "radio")
  /\ nRead # nWrite
  /\ sendSlot' = Slot(nRead)
  /\ UNCHANGED <<nRead, nWrite, txData, lastSent, rxVars, inCore, output>>

\* sendFrameToRadio; whether the radio delivers it is not the queue's concern.
SendRadio ==
  /\ LoopMove("radio", "sent")
  /\ lastSent' = txData[sendSlot]
  /\ UNCHANGED <<nRead, nWrite, txData, sendSlot, rxVars, inCore, output>>

SendEnd ==
  /\ LoopMove("sent", "idle")
  /\ nRead' = Bump(nRead)
  /\ UNCHANGED <<nWrite, txData, lastSent, sendSlot, rxVars, inCore, output>>

-----------------------------------------------------------------------------
OutputSteps(t) == OutputCopied(t) \/ OutputPublish(t)

TickSteps == \/ TimeoutsEnter \/ TimeoutsLeave \/ ReadRx \/ ReadRxNothing
             \/ InputEnter \/ InputLeave
             \/ SendNothing \/ SendBegin \/ SendRadio \/ SendEnd

Next == \/ ApiEnter \/ ApiLeave \/ TcpipEnter \/ TcpipLeave
        \/ \E f \in Arrivals : TickReceive(f)
        \/ TickSteps
        \/ \E t \in Threads : OutputSteps(t) \/ \E f \in Frames : OutputBegin(t, f)

(* The sketch calls tick() again and again; a thread that runs lwIP code   *)
(* leaves it again after finitely many frames, and the lock goes to the    *)
(* loop thread if it keeps asking; pbuf_alloc does not fail for ever.      *)
Fairness ==
  /\ SF_vars(\E f \in Arrivals : TickReceive(f))
  /\ SF_vars(TimeoutsEnter) /\ SF_vars(InputEnter) /\ SF_vars(ReadRx)
  /\ SF_vars(ApiLeave \/ TcpipLeave \/ TimeoutsLeave \/ InputLeave)
  /\ WF_vars(TickSteps)
  /\ \A t \in Threads : WF_vars(OutputSteps(t))

Spec == Init /\ [][Next]_vars

FairSpec == Spec /\ Fairness

-----------------------------------------------------------------------------
(* Properties. *)

Slots(n) == 0 .. n - 1

\* Every variable has its type.
TypeOK ==
  /\ nRead \in Slots(Width) /\ nWrite \in Slots(Width)
  /\ txData \in [Slots(MaxTxQueue) -> Frames \cup {Torn, NoFrame}]
  /\ lastSent \in Frames \cup {Torn, NoFrame}
  /\ rxRead \in Slots(MaxRxQueue) /\ rxWrite \in Slots(MaxRxQueue)
  /\ rxData \in [Slots(MaxRxQueue) -> Frames \cup {NoFrame}]
  /\ lastInput \in Frames \cup {NoFrame}
  /\ loopPc \in LoopPcs
  /\ sendSlot \in Slots(MaxTxQueue)
  /\ inCore \subseteq Threads
  /\ output \in [Threads -> [pc : {"none", "copy", "publish"},
                            slot : Slots(MaxTxQueue),
                            frame : Frames \cup {NoFrame}]]

(* netif_output never writes the slot that tick() is handing to the radio, *)
(* and never two threads write at a time: the barriers and the free-running*)
(* counters make the lock-free ring safe.                                  *)
SlotsDisjoint ==
  /\ \A t \in Threads : output[t].pc # "none" /\ loopPc \in {"radio", "sent"}
                          => output[t].slot # sendSlot
  /\ \A t, u \in Threads : output[t].pc # "none" /\ output[u].pc # "none" => t = u

\* Why SlotsDisjoint holds; inductive.
RingInv ==
  /\ TypeOK
  /\ \A t, u \in inCore : t = u
  /\ loopPc \in CorePcs <=> "loop" \in inCore
  /\ TxUsed <= MaxTxQueue
  /\ \A t \in Threads : output[t].pc # "none" => /\ t \in inCore
                                                /\ output[t].slot = Slot(nWrite)
                                                /\ TxUsed < MaxTxQueue
  /\ loopPc \in {"radio", "sent"} => sendSlot = Slot(nRead) /\ nRead # nWrite

\* The queues as sequences, oldest frame first.
TxContents ==
  [i \in 1 .. TxUsed |-> txData[Slot((nRead + i - 1) % Width)]]
RxContents ==
  [i \in 1 .. (rxWrite - rxRead) % MaxRxQueue |-> rxData[(rxRead + i - 1) % MaxRxQueue]]

Tx == INSTANCE BoundedFifo
        WITH Items <- Frames, Capacity <- MaxTxQueue, last <- lastSent,
             queue <- IF loopPc = "sent" THEN Tail(TxContents) ELSE TxContents

Rx == INSTANCE BoundedFifo
        WITH Items <- Frames, Capacity <- MaxRxQueue - 1, last <- lastInput,
             queue <- RxContents

(* Every frame netif_output took with ERR_OK reaches the radio at most     *)
(* once, whole and in order, also when the 32-bit counters wrap.           *)
TxIsFifo == Tx!Safe

(* "Queue is full, keep the unread frame and drop this one": a frame in    *)
(* RXQueue is neither overwritten nor delivered twice nor out of order.    *)
RxIsFifo == Rx!Safe

(* What was accepted does get sent, and what was received does get to lwIP: *)
(* the lock, a busy lwIP and pbuf failures delay tick(), they never starve  *)
(* either queue.                                                            *)
FramesAreServed == Tx!Served /\ Rx!Served

=============================================================================
