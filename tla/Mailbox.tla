------------------------------ MODULE Mailbox ------------------------------
(***************************************************************************)
(* Mailboxes (ipc.c 1293-1757): a ring of mails, a list of threads that    *)
(* wait to receive and one of threads that wait for room.  A wake-up is    *)
(* only a hint: the woken call tests again, with what is left of its time, *)
(* and another thread or an interrupt may have been faster.                *)
(***************************************************************************)
EXTENDS Ipc, FiniteSets

CONSTANTS Receivers,  \* parent.suspend_thread
          Senders,    \* suspend_sender_thread
          Flag,       \* "FIFO" or "PRIO"
          Prio,       \* [Threads -> Nat]
          Size,       \* mb->size
          Mails,
          None        \* no mail, no time

MailboxAssumption ==
  /\ Receivers # Senders /\ {Receivers, Senders} \subseteq Lists
  /\ Flag \in {"FIFO", "PRIO"}
  /\ Prio \in [Threads -> Nat]
  /\ Size \in Nat \ {0}
  /\ None \notin Mails /\ None \notin WaitTimes

VARIABLES msg_pool,    \* [Slots -> Mails \cup {None}]
          entry,       \* the mails in the pool
          in_offset,
          out_offset,
          call,        \* [Threads -> Calls], the call a thread has blocked in
          received     \* the mail rt_mb_recv returned last

mbVars == <<msg_pool, entry, in_offset, out_offset, call, received>>
vars == <<ipcVars, mbVars>>

Slots == 0..(Size - 1)

Calls == [op : {"none", "send", "recv"}, mail : Mails \cup {None}, time : WaitTimes \cup {None}]

NoCall == [op |-> "none", mail |-> None, time |-> None]

Live == ~fault /\ teardown[Receivers] = "live"

Init ==
  /\ IpcInit
  /\ msg_pool = [i \in Slots |-> None]
  /\ entry = 0 /\ in_offset = 0 /\ out_offset = 0
  /\ call = [t \in Threads |-> NoCall]
  /\ received = None

Idle(t) == Live /\ call[t] = NoCall

\* t has been resumed in its call op and may run on.
Woken(t, op) == call[t].op = op /\ stat[t] = "ready" /\ error[t] = "EOK"

-----------------------------------------------------------------------------
NextOffset(offset) == IF offset + 1 >= Size THEN 0 ELSE offset + 1

\* The end of rt_mb_send_wait, with room in the pool.
Store(m) ==
  /\ msg_pool' = [msg_pool EXCEPT ![in_offset] = m]
  /\ in_offset' = NextOffset(in_offset)
  /\ entry' = entry + 1
  /\ ResumeFirst(Receivers)
  /\ UNCHANGED <<out_offset, received>>

\* Mutant: a sender is only woken when the mailbox was full.
Fetch_WakesWhenFull ==
  /\ received' = msg_pool[out_offset]
  /\ out_offset' = NextOffset(out_offset)
  /\ entry' = entry - 1
  /\ IF entry = Size THEN ResumeFirst(Senders) ELSE UNCHANGED ipcVars
  /\ UNCHANGED <<msg_pool, in_offset>>

\* The end of rt_mb_recv, with a mail in the pool.
Fetch ==
  /\ received' = msg_pool[out_offset]
  /\ out_offset' = NextOffset(out_offset)
  /\ entry' = entry - 1
  /\ ResumeFirst(Senders)
  /\ UNCHANGED <<msg_pool, in_offset>>

\* rt_mb_send_wait with room, by a thread outside its calls or by an interrupt;
\* with a full pool and no time to wait it changes nothing.
Send(m) ==
  /\ Live
  /\ entry < Size
  /\ Store(m)
  /\ UNCHANGED call

Block(t, l, request) ==
  /\ ListSuspend(l, t, Flag, Prio, request.time)
  /\ call' = [call EXCEPT ![t] = request]
  /\ UNCHANGED <<msg_pool, entry, in_offset, out_offset, received>>

SendBlocks(t, m) ==
  /\ Idle(t)
  /\ entry = Size
  /\ \E time \in Times \ {"zero"} :
       Block(t, Senders, [op |-> "send", mail |-> m, time |-> time])

\* Mutant: the woken sender does not look at the mailbox again.
SendCompletes_Untested(t) ==
  /\ ~fault /\ Woken(t, "send")
  /\ Store(call[t].mail)
  /\ call' = [call EXCEPT ![t] = NoCall]

\* A woken sender finds room,
SendCompletes(t) ==
  /\ ~fault /\ Woken(t, "send")
  /\ entry < Size
  /\ Store(call[t].mail)
  /\ call' = [call EXCEPT ![t] = NoCall]

\* or does not and goes back to sleep, or has no time left.
SendRetries(t) ==
  /\ ~fault /\ Woken(t, "send")
  /\ entry = Size
  /\ \E left \in LeftOf(call[t].time) :
       IF left = "zero"
       THEN /\ call' = [call EXCEPT ![t] = NoCall]
            /\ UNCHANGED <<ipcVars, msg_pool, entry, in_offset, out_offset, received>>
       ELSE Block(t, Senders, [call[t] EXCEPT !.time = left])

-----------------------------------------------------------------------------
\* rt_mb_recv finds a mail; an empty mailbox and no time to wait change nothing.
Recv(t) ==
  /\ Idle(t)
  /\ entry > 0
  /\ Fetch
  /\ UNCHANGED call

RecvBlocks(t) ==
  /\ Idle(t)
  /\ entry = 0
  /\ \E time \in Times \ {"zero"} :
       Block(t, Receivers, [op |-> "recv", mail |-> None, time |-> time])

RecvCompletes(t) ==
  /\ ~fault /\ Woken(t, "recv")
  /\ entry > 0
  /\ Fetch
  /\ call' = [call EXCEPT ![t] = NoCall]

RecvRetries(t) ==
  /\ ~fault /\ Woken(t, "recv")
  /\ entry = 0
  /\ \E left \in LeftOf(call[t].time) :
       IF left = "zero"
       THEN /\ call' = [call EXCEPT ![t] = NoCall]
            /\ error' = [error EXCEPT ![t] = "ETIMEOUT"]
            /\ UNCHANGED <<stat, thread_timer, suspend_thread, teardown, fault,
                           msg_pool, entry, in_offset, out_offset, received>>
       ELSE Block(t, Receivers, [call[t] EXCEPT !.time = left])

\* Either call returns the error number it was woken with.
ReturnsError(t) ==
  /\ ~fault
  /\ call[t] # NoCall /\ stat[t] = "ready" /\ error[t] # "EOK"
  /\ call' = [call EXCEPT ![t] = NoCall]
  /\ UNCHANGED <<ipcVars, msg_pool, entry, in_offset, out_offset, received>>

-----------------------------------------------------------------------------
\* rt_mb_control(RT_IPC_CMD_RESET)
Reset ==
  /\ Live
  /\ LET own == {Receivers, Senders}
         woken == UNION {Elements(suspend_thread[l]) : l \in own}
     IN  /\ stat' = [t \in Threads |-> IF t \in woken THEN "ready" ELSE stat[t]]
         /\ error' = [t \in Threads |-> IF t \in woken THEN "ERROR" ELSE error[t]]
         /\ thread_timer' = [t \in Threads |-> t \notin woken /\ thread_timer[t]]
         /\ suspend_thread' = [l \in Lists |-> IF l \in own THEN << >> ELSE suspend_thread[l]]
  /\ entry' = 0 /\ in_offset' = 0 /\ out_offset' = 0
  /\ UNCHANGED <<teardown, fault, msg_pool, call, received>>

(* rt_mb_detach and rt_mb_delete: the receivers, then the senders.  A call *)
(* that was woken and has not run yet would go on with the memory of the   *)
(* mailbox, so callers delete it only when there is none.                  *)
Delete ==
  /\ ~fault
  /\ \A t \in Threads : ~Woken(t, "send") /\ ~Woken(t, "recv")
  /\ BeginTeardown(Receivers)
  /\ UNCHANGED mbVars

DeleteSenders ==
  /\ ~fault
  /\ teardown[Receivers] = "drained"
  /\ BeginTeardown(Senders)
  /\ UNCHANGED mbVars

\* Mutant: the threads that wait for room are forgotten.
DeleteStep_ReceiversOnly ==
  /\ TeardownStep(Receivers) \/ (~fault /\ teardown[Senders] = "test"
       /\ teardown' = [teardown EXCEPT ![Senders] = "drained"]
       /\ UNCHANGED <<stat, error, thread_timer, suspend_thread, fault>>)
  /\ UNCHANGED mbVars

DeleteStep == (TeardownStep(Receivers) \/ TeardownStep(Senders)) /\ UNCHANGED mbVars

Timeout(t) == ThreadTimeout(t) /\ UNCHANGED mbVars

Next ==
  \/ \E m \in Mails : Send(m) \/ \E t \in Threads : SendBlocks(t, m)
  \/ \E t \in Threads : \/ SendCompletes(t) \/ SendRetries(t)
                        \/ Recv(t) \/ RecvBlocks(t) \/ RecvCompletes(t) \/ RecvRetries(t)
                        \/ ReturnsError(t) \/ Timeout(t)
  \/ Reset
  \/ Delete \/ DeleteSenders \/ DeleteStep

Spec == Init /\ [][Next]_vars

-----------------------------------------------------------------------------
TypeOK ==
  /\ IpcTypeOK
  /\ msg_pool \in [Slots -> Mails \cup {None}]
  /\ entry \in 0..Size
  /\ in_offset \in Slots /\ out_offset \in Slots
  /\ call \in [Threads -> Calls]
  /\ received \in Mails \cup {None}

(* Nobody sleeps beside what it waits for: while threads wait for room,    *)
(* each free slot has a sender already woken for it, and while threads     *)
(* wait for mail, each mail has a receiver, although a woken call may find *)
(* that another was faster and sleep again (ipc.c:1467-1528, :1540-1550,   *)
(* :1615-1676, :1690-1702).                                                *)
NoneStranded ==
  /\ suspend_thread[Senders] # << >> =>
       Size - entry <= Cardinality({t \in Threads : Woken(t, "send")})
  /\ suspend_thread[Receivers] # << >> =>
       entry <= Cardinality({t \in Threads : Woken(t, "recv")})

(* A deletion that has returned left nobody in the mailbox: no thread      *)
(* sleeps in its lists and no call goes on with its memory (ipc.c:1338-    *)
(* 1340, :1415-1418).                                                      *)
DrainedWhenDeleted ==
  teardown[Senders] = "drained" =>
    \A t \in Threads : stat[t] = "ready" /\ (call[t] # NoCall => error[t] # "EOK")

-----------------------------------------------------------------------------
(* The ring as a queue: entry mails from out_offset on.                    *)
queueBar == [i \in 1..entry |-> msg_pool[(out_offset + i - 1) % Size]]

Abstract == INSTANCE BoundedQueue WITH queue <- queueBar

(* Mails are received once each, in the order they were sent, whatever     *)
(* blocks, retries, times out or resets in between.                        *)
ImplementsQueue == Abstract!SpecInOrder
-----------------------------------------------------------------------------
(* The inductive invariant behind NoneStranded, DrainedWhenDeleted and     *)
(* ImplementsQueue: who waits is inside the call of its list and has no    *)
(* answer yet; from the start of a deletion on nobody is woken to go on    *)
(* and the lists are emptied one after the other; and the next mail goes   *)
(* behind the last one of the ring.                                        *)
CallsWait ==
  /\ \A t \in Threads : call[t].op = "none" => call[t] = NoCall /\ stat[t] = "ready"
  /\ \A t \in Threads : call[t].op = "send" => call[t].mail \in Mails
  /\ \A t \in Elements(suspend_thread[Senders]) : call[t].op = "send" /\ error[t] = "EOK"
  /\ \A t \in Elements(suspend_thread[Receivers]) : call[t].op = "recv" /\ error[t] = "EOK"

ListsEmptied ==
  /\ \A l \in {Receivers, Senders} : teardown[l] = "drained" => suspend_thread[l] = << >>
  /\ teardown[Senders] # "live" => teardown[Receivers] = "drained"
  /\ teardown[Receivers] # "live" =>
       \A t \in Threads : ~Woken(t, "send") /\ ~Woken(t, "recv")

OffsetsAgree == in_offset = (out_offset + entry) % Size

Inv ==
  /\ TypeOK
  /\ IpcInv
  /\ NoneStranded
  /\ CallsWait
  /\ ListsEmptied
  /\ OffsetsAgree
=============================================================================
