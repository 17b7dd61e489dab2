--------------------------- MODULE SerialTransmit ---------------------------
(***************************************************************************)
(* Writing to a serial device by DMA (serial.c): threads queue their data  *)
(* and start the DMA if it rests, its interrupt takes the next from the    *)
(* queue.  An item of the queue is known by the thread that pushed it.     *)
(* The queue is that of DataQueue; a push that has to wait is one that     *)
(* comes later.                                                            *)
(***************************************************************************)
EXTENDS Naturals, Sequences

CONSTANTS Threads, QueueSize, None

SerialTransmitAssumption == QueueSize \in Nat \ {0} /\ None \notin Threads

VARIABLES data_queue,
          activated,
          dma,       \* what the DMA transmits, or None
          pc,        \* [Threads -> Stages]
          overtaken  \* history: a thread has transmitted what did not head the queue

vars == <<data_queue, activated, dma, pc, overtaken>>

\* pushed: about to look at activated.  start: about to start the DMA.
Stages == {"out", "pushed", "start"}

Init ==
  /\ data_queue = << >> /\ activated = FALSE /\ dma = None
  /\ pc = [t \in Threads |-> "out"]
  /\ overtaken = FALSE

\* _serial_dma_tx
Push(t) ==
  /\ pc[t] = "out" /\ Len(data_queue) < QueueSize
  /\ data_queue' = Append(data_queue, t)
  /\ pc' = [pc EXCEPT ![t] = "pushed"]
  /\ UNCHANGED <<activated, dma, overtaken>>

Heads(t) == data_queue # << >> /\ Head(data_queue) = t

\* It looks for a transfer in progress with interrupts locked out,
Look(t) ==
  /\ pc[t] = "pushed"
  /\ activated' = TRUE
  /\ pc' = [pc EXCEPT ![t] = IF activated THEN "out" ELSE "start"]
  /\ UNCHANGED <<data_queue, dma, overtaken>>

\* and transmits its own data, whatever heads the queue by now.
Start(t) ==
  /\ pc[t] = "start"
  /\ dma' = t
  /\ overtaken' = (overtaken \/ ~Heads(t))
  /\ pc' = [pc EXCEPT ![t] = "out"]
  /\ UNCHANGED <<data_queue, activated>>

\* Mutant: the DMA stays activated when there is nothing left.
DmaDone_StaysActive ==
  /\ dma # None
  /\ LET rest == IF data_queue = << >> THEN << >> ELSE Tail(data_queue)
     IN  /\ data_queue' = rest
         /\ dma' = IF rest = << >> THEN None ELSE Head(rest)
  /\ UNCHANGED <<activated, pc, overtaken>>

\* Mutant: what was transmitted stays in the queue.
DmaDone_Unpopped ==
  /\ dma # None
  /\ LET rest == data_queue
     IN  /\ data_queue' = (IF rest = << >> THEN << >> ELSE Tail(rest))
         /\ dma' = IF rest = << >> THEN None ELSE Head(rest)
         /\ activated' = (rest # << >>)
  /\ UNCHANGED <<pc, overtaken>>

\* rt_hw_serial_isr with RT_SERIAL_EVENT_TX_DMADONE
DmaDone ==
  /\ dma # None
  /\ LET rest == IF data_queue = << >> THEN << >> ELSE Tail(data_queue)
     IN  /\ data_queue' = rest
         /\ dma' = IF rest = << >> THEN None ELSE Head(rest)
         /\ activated' = (rest # << >>)
  /\ UNCHANGED <<pc, overtaken>>

Next == (\E t \in Threads : Push(t) \/ Look(t) \/ Start(t)) \/ DmaDone

Spec == Init /\ [][Next]_vars

-----------------------------------------------------------------------------
TypeOK ==
  /\ data_queue \in Seq(Threads) /\ Len(data_queue) <= QueueSize
  /\ activated \in BOOLEAN /\ dma \in Threads \cup {None}
  /\ pc \in [Threads -> Stages] /\ overtaken \in BOOLEAN

(* What is queued will be transmitted: the DMA is at work or a thread is   *)
(* about to look and start it, and only one does.  What it transmits heads *)
(* the queue, so that each item is transmitted once and in order, unless a *)
(* thread came to start the DMA when its own data was not at the head any  *)
(* more or not yet (serial.c:507-522, :1217-1227).                         *)
TransmitsHead ==
  /\ data_queue # << >> => activated \/ \E t \in Threads : pc[t] = "pushed"
  /\ activated => dma # None \/ \E t \in Threads : pc[t] = "start"
  /\ \A t, u \in Threads : pc[t] = "start" /\ pc[u] = "start" => t = u
  /\ dma # None /\ ~overtaken => Heads(dma)
-----------------------------------------------------------------------------
(* The inductive invariant behind it: the DMA is at work only if it was    *)
(* claimed, and rests while who has claimed it is about to start it.       *)
DmaClaimed ==
  /\ dma # None => activated
  /\ \A t \in Threads : pc[t] = "start" => activated /\ dma = None

Inv == TypeOK /\ TransmitsHead /\ DmaClaimed
=============================================================================
