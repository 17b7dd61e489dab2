---------------------------- MODULE MessageQueue ----------------------------
(***************************************************************************)
(* Message queues (ipc.c 1780-2325): blocks linked from a head to a tail,  *)
(* free blocks on a stack, and threads that wait to receive.  A message is *)
(* copied into its block and out of it with interrupts enabled, while the  *)
(* block is in neither list: a send and a receive take two regions each.   *)
(***************************************************************************)
EXTENDS Ipc, FiniteSets

CONSTANTS Receivers,  \* parent.suspend_thread
          Flag,       \* "FIFO" or "PRIO"
          Prio,       \* [Threads -> Nat]
          Size,       \* mq->max_msgs
          Mails,      \* the contents of messages
          None        \* no message, no time

QueueAssumption ==
  /\ Receivers \in Lists
  /\ Flag \in {"FIFO", "PRIO"}
  /\ Prio \in [Threads -> Nat]
  /\ Size \in Nat \ {0}
  /\ None \notin Mails /\ None \notin WaitTimes

Blocks == 1..Size
NULL == 0

VARIABLES next,      \* [Blocks -> Blocks \cup {NULL}], msg->next
          content,   \* [Blocks -> Mails \cup {None}], what follows the header
          head,      \* mq->msg_queue_head
          tail,      \* mq->msg_queue_tail
          free,      \* mq->msg_queue_free
          entry,     \* mq->entry
          call,      \* [Threads -> Calls], the call a thread is inside of
          received   \* the message rt_mq_recv took off last

blockVars == <<next, content, head, tail, free, entry, received>>
mqVars == <<blockVars, call>>
vars == <<ipcVars, mqVars>>

(* op    none: outside.  wait: rt_mq_recv has blocked.  send, urgent: a    *)
(*       free block has been taken.  recv: a message has been taken off.   *)
(* time  of a waiting call.  block, mail: what the other calls have.       *)
Calls == [op : {"none", "wait", "send", "urgent", "recv"},
          time : WaitTimes \cup {None}, block : Blocks \cup {NULL}, mail : Mails \cup {None}]

NoCall == [op |-> "none", time |-> None, block |-> NULL, mail |-> None]

Live == ~fault /\ teardown[Receivers] = "live"

\* rt_mq_init pushes the blocks on the free list one by one.
Init ==
  /\ IpcInit
  /\ next = [b \in Blocks |-> b - 1]
  /\ content = [b \in Blocks |-> None]
  /\ head = NULL /\ tail = NULL /\ free = Size
  /\ entry = 0
  /\ call = [t \in Threads |-> NoCall]
  /\ received = None

Idle(t) == Live /\ call[t] = NoCall

\* t has been resumed in rt_mq_recv and may run on.
Woken(t) == call[t].op = "wait" /\ stat[t] = "ready" /\ error[t] = "EOK"

\* The blocks linked by the pointers nx from b on; after Size blocks the list
\* is taken to end.
LinkedBy(nx, b) ==
  LET After(c) == IF c = NULL THEN NULL ELSE nx[c]
      at[i \in 0..Size] == IF i = 0 THEN b ELSE After(at[i - 1])
  IN  [i \in 1..Cardinality({j \in 0..(Size - 1) : at[j] # NULL}) |-> at[i - 1]]

LinkedFrom(b) == LinkedBy(next, b)

-----------------------------------------------------------------------------
\* The new message m in block b becomes the last: the second half of rt_mq_send,
LinkLast(b, m) ==
  /\ content' = [content EXCEPT ![b] = m]
  /\ next' = [c \in Blocks |-> IF c = b THEN NULL
                               ELSE IF c = tail THEN b ELSE next[c]]
  /\ tail' = b
  /\ head' = IF head = NULL THEN b ELSE head
  /\ entry' = entry + 1

\* or the first: of rt_mq_urgent.
LinkFirst(b, m) ==
  /\ content' = [content EXCEPT ![b] = m]
  /\ next' = [next EXCEPT ![b] = head]
  /\ head' = b
  /\ tail' = IF tail = NULL THEN b ELSE tail
  /\ entry' = entry + 1

Link(b, m, op) == IF op = "send" THEN LinkLast(b, m) ELSE LinkFirst(b, m)

\* Mutant: a receiver is only woken when the queue was empty.
WakeReceiver_WhenEmpty ==
  IF suspend_thread[Receivers] # << >> /\ entry = 0
  THEN ListResume(Receivers) ELSE UNCHANGED ipcVars

WakeReceiver == ResumeFirst(Receivers)

\* rt_mq_send or rt_mq_urgent takes a block; when none is free it changes nothing.
SendTakes(t, m, op) ==
  /\ Idle(t)
  /\ free # NULL
  /\ free' = next[free]
  /\ call' = [call EXCEPT ![t] = [NoCall EXCEPT !.op = op, !.block = free, !.mail = m]]
  /\ UNCHANGED <<ipcVars, next, content, head, tail, entry, received>>

SendLinks(t) ==
  /\ ~fault
  /\ call[t].op \in {"send", "urgent"}
  /\ Link(call[t].block, call[t].mail, call[t].op)
  /\ WakeReceiver
  /\ call' = [call EXCEPT ![t] = NoCall]
  /\ UNCHANGED <<free, received>>

\* The same from an interrupt, which no thread comes between.
InterruptSends(m, op) ==
  /\ Live
  /\ free # NULL
  /\ free' = next[free]
  /\ Link(free, m, op)
  /\ WakeReceiver
  /\ UNCHANGED <<received, call>>

-----------------------------------------------------------------------------
\* Mutant: the tail is left on the block that is taken off.
TakeOff_KeepsTail(t) ==
  /\ head' = next[head]
  /\ entry' = entry - 1
  /\ received' = content[head]
  /\ call' = [call EXCEPT ![t] = [NoCall EXCEPT !.op = "recv", !.block = head,
                                                !.mail = content[head]]]
  /\ UNCHANGED <<next, content, free, tail>>

TakeOff(t) ==
  /\ head' = next[head]
  /\ tail' = IF tail = head THEN NULL ELSE tail
  /\ entry' = entry - 1
  /\ received' = content[head]
  /\ call' = [call EXCEPT ![t] = [NoCall EXCEPT !.op = "recv", !.block = head,
                                                !.mail = content[head]]]
  /\ UNCHANGED <<next, content, free>>

\* rt_mq_recv finds a message; without one and without time it changes nothing.
Recv(t) ==
  /\ Idle(t)
  /\ entry > 0
  /\ TakeOff(t)
  /\ UNCHANGED ipcVars

Block(t, time) ==
  /\ ListSuspend(Receivers, t, Flag, Prio, time)
  /\ call' = [call EXCEPT ![t] = [NoCall EXCEPT !.op = "wait", !.time = time]]
  /\ UNCHANGED blockVars

RecvBlocks(t) ==
  /\ Idle(t)
  /\ entry = 0
  /\ \E time \in Times \ {"zero"} : Block(t, time)

\* A woken receiver finds a message,
RecvWoken(t) ==
  /\ ~fault /\ Woken(t)
  /\ entry > 0
  /\ TakeOff(t)
  /\ UNCHANGED ipcVars

\* or does not and goes back to sleep, or has no time left.
RecvRetries(t) ==
  /\ ~fault /\ Woken(t)
  /\ entry = 0
  /\ \E left \in LeftOf(call[t].time) :
       IF left = "zero"
       THEN /\ call' = [call EXCEPT ![t] = NoCall]
            /\ error' = [error EXCEPT ![t] = "ETIMEOUT"]
            /\ UNCHANGED <<stat, thread_timer, suspend_thread, teardown, fault, blockVars>>
       ELSE Block(t, left)

RecvReturnsError(t) ==
  /\ ~fault
  /\ call[t].op = "wait" /\ stat[t] = "ready" /\ error[t] # "EOK"
  /\ call' = [call EXCEPT ![t] = NoCall]
  /\ UNCHANGED <<ipcVars, blockVars>>

\* The message has been copied, its block is freed.
RecvFrees(t) ==
  /\ ~fault
  /\ call[t].op = "recv"
  /\ next' = [next EXCEPT ![call[t].block] = free]
  /\ free' = call[t].block
  /\ call' = [call EXCEPT ![t] = NoCall]
  /\ UNCHANGED <<ipcVars, content, head, tail, entry, received>>

-----------------------------------------------------------------------------
\* Mutant: the whole pool is freed again, as rt_mq_init does.
Reset_FreesThePool ==
  /\ Live
  /\ ListResumeAll(Receivers)
  /\ next' = [b \in Blocks |-> b - 1]
  /\ free' = Size
  /\ head' = NULL /\ tail' = NULL
  /\ entry' = 0
  /\ UNCHANGED <<content, call, received>>

(* rt_mq_control(RT_IPC_CMD_RESET) pushes the queued blocks on the free    *)
(* list from the head on.                                                  *)
Reset ==
  /\ Live
  /\ ListResumeAll(Receivers)
  /\ LET q == LinkedFrom(head)
         Before(b) == IF b = q[1] THEN free
                      ELSE q[(CHOOSE i \in 2..Len(q) : q[i] = b) - 1]
     IN  /\ next' = [b \in Blocks |-> IF b \in Elements(q) THEN Before(b) ELSE next[b]]
         /\ free' = IF q = << >> THEN free ELSE q[Len(q)]
  /\ head' = NULL /\ tail' = NULL
  /\ entry' = 0
  /\ UNCHANGED <<content, call, received>>

(* rt_mq_detach and rt_mq_delete.  A call that has a block in hand, or was *)
(* woken and has not run yet, would go on with the memory of the queue, so *)
(* callers delete it only when there is none.                              *)
Delete ==
  /\ ~fault
  /\ \A t \in Threads : call[t].op \in {"none", "wait"} /\ ~Woken(t)
  /\ BeginTeardown(Receivers)
  /\ UNCHANGED mqVars

DeleteStep == TeardownStep(Receivers) /\ UNCHANGED mqVars

Timeout(t) == ThreadTimeout(t) /\ UNCHANGED mqVars

Next ==
  \/ \E m \in Mails, op \in {"send", "urgent"} :
       InterruptSends(m, op) \/ \E t \in Threads : SendTakes(t, m, op)
  \/ \E t \in Threads : \/ SendLinks(t)
                        \/ Recv(t) \/ RecvBlocks(t) \/ RecvWoken(t) \/ RecvRetries(t)
                        \/ RecvReturnsError(t) \/ RecvFrees(t) \/ Timeout(t)
  \/ Reset
  \/ Delete \/ DeleteStep

Spec == Init /\ [][Next]_vars

-----------------------------------------------------------------------------
TypeOK ==
  /\ IpcTypeOK
  /\ next \in [Blocks -> Blocks \cup {NULL}]
  /\ content \in [Blocks -> Mails \cup {None}]
  /\ {head, tail, free} \subseteq Blocks \cup {NULL}
  /\ entry \in 0..Size
  /\ call \in [Threads -> Calls]
  /\ received \in Mails \cup {None}

\* The blocks that calls have in hand.
InHand == {t \in Threads : call[t].block # NULL}

(* Every block is in exactly one place, the queue, the free list or the    *)
(* hands of one call, and none is lost: the first regions of two calls     *)
(* never get the same block, and no reset frees a block in use.  head,     *)
(* tail and entry describe one queue (ipc.c:1982-1997, :2006-2021,         *)
(* :2234-2255, :2297-2311).                                                *)
BlocksInOnePlace ==
  LET q == LinkedFrom(head)
      f == LinkedFrom(free)
  IN  /\ Elements(q) \cap Elements(f) = {}
      /\ \A t \in InHand : call[t].block \notin Elements(q) \cup Elements(f)
      /\ \A t, u \in InHand : call[t].block = call[u].block => t = u
      /\ Len(q) + Len(f) + Cardinality(InHand) = Size
      /\ entry = Len(q) /\ tail = IF q = << >> THEN NULL ELSE q[Len(q)]

(* The message a receiver copies with interrupts enabled is the one it     *)
(* took off the queue (ipc.c:2245-2248).                                   *)
CopyIntact ==
  \A t \in Threads : call[t].op = "recv" => content[call[t].block] = call[t].mail

(* No receiver sleeps beside a message that is not meant for another one   *)
(* already woken (ipc.c:2163-2232, :2024-2034).                            *)
NoneStranded ==
  suspend_thread[Receivers] # << >> => entry <= Cardinality({t \in Threads : Woken(t)})

-----------------------------------------------------------------------------
Abstract == INSTANCE BoundedQueue
              WITH queue <- [i \in 1..Len(LinkedFrom(head)) |-> content[LinkedFrom(head)[i]]]

(* Messages are received once each, in the order they were linked, urgent  *)
(* ones first and the last of those before the others.                     *)
ImplementsQueue == Abstract!Spec

-----------------------------------------------------------------------------
(* The inductive invariant behind BlocksInOnePlace, CopyIntact and         *)
(* NoneStranded.  The queue and the free list end in a null pointer and    *)
(* reach no block twice; only a call between its two regions has a block,  *)
(* and it runs; who waits has no answer yet; and from the start of a       *)
(* deletion on nobody has a block or is woken to go on.                    *)
IsChain(nx, q, b) ==
  /\ q \in Seq(Blocks) /\ NoRepeat(q)
  /\ b = IF q = << >> THEN NULL ELSE q[1]
  /\ \A i \in 1..Len(q) : nx[q[i]] = IF i = Len(q) THEN NULL ELSE q[i + 1]

ListsEnd ==
  /\ IsChain(next, LinkedFrom(head), head)
  /\ IsChain(next, LinkedFrom(free), free)

CallsWait ==
  /\ \A t \in Threads : call[t].op = "none" => call[t] = NoCall
  /\ \A t \in Threads : call[t].op # "wait" => stat[t] = "ready"
  /\ \A t \in Threads : call[t].block = NULL <=> call[t].op \in {"none", "wait"}
  /\ \A t \in Threads : call[t].op \in {"send", "urgent"} => call[t].mail \in Mails
  /\ \A t \in Elements(suspend_thread[Receivers]) : call[t].op = "wait" /\ error[t] = "EOK"
  /\ teardown[Receivers] # "live" =>
       \A t \in Threads : call[t].op \in {"none", "wait"} /\ ~Woken(t)

Inv ==
  /\ TypeOK
  /\ IpcInv
  /\ ListsEnd
  /\ BlocksInOnePlace
  /\ CopyIntact
  /\ NoneStranded
  /\ CallsWait
=============================================================================
