----------------------------- MODULE DataQueue -----------------------------
(***************************************************************************)
(* Data queues (dataqueue.c): a ring of items between two 16-bit indices   *)
(* that are subtracted as integers, a list of threads that wait to push    *)
(* and one of threads that wait to pop.  A pop wakes a pusher only below   *)
(* the low water mark; a call that waits again waits its whole time again. *)
(***************************************************************************)
EXTENDS Ipc, FiniteSets

CONSTANTS Pushers,   \* suspended_push_list
          Poppers,   \* suspended_pop_list
          Size,      \* queue->size
          Lwm,       \* queue->lwm
          IndexMod,  \* the width of the indices, 2^16 in the code
          Mails,     \* the items
          None       \* no item, no time

\* The indices wrap at a multiple of the size: the queues that are created
\* have 8 and 4 items (serial.c:674, audio.h:101).
DataQueueAssumption ==
  /\ Pushers # Poppers /\ {Pushers, Poppers} \subseteq Lists
  /\ Size \in Nat \ {0} /\ Lwm \in 0..(Size - 1)
  /\ IndexMod \in Nat /\ IndexMod > Size /\ IndexMod % Size = 0
  /\ None \notin Mails /\ None \notin WaitTimes

VARIABLES items,      \* [Slots -> Mails \cup {None}], queue->queue
          put_index,
          get_index,
          call,       \* [Threads -> Calls], the call a thread has blocked in
          received,   \* the item rt_data_queue_pop returned last
          overrun     \* history: an item was stored over one not yet popped

dqVars == <<items, put_index, get_index, call, received, overrun>>
vars == <<ipcVars, dqVars>>

Slots == 0..(Size - 1)

Calls == [op : {"none", "push", "pop"}, mail : Mails \cup {None}, time : WaitTimes \cup {None}]

NoCall == [op |-> "none", mail |-> None, time |-> None]

Init ==
  /\ IpcInit
  /\ items = [i \in Slots |-> None]
  /\ put_index = 0 /\ get_index = 0
  /\ call = [t \in Threads |-> NoCall]
  /\ received = None
  /\ overrun = FALSE

\* The operands are promoted to int: the difference is negative once put_index has wrapped.
Full == put_index - get_index = Size
Empty == get_index = put_index

\* The number of items, which the code does not compute.
Count == (put_index - get_index) % IndexMod

Usable == ~fault /\ ~overrun

\* rt_data_queue_reset locks the scheduler: only interrupts run meanwhile.
ThreadsRun == Usable /\ teardown[Poppers] = "live"

Idle(t) == ThreadsRun /\ call[t] = NoCall

\* t has been resumed in its call op and may run on.
Woken(t, op) == call[t].op = op /\ stat[t] = "ready" /\ error[t] = "EOK"

Return(t) == call' = [call EXCEPT ![t] = NoCall]

-----------------------------------------------------------------------------
\* The end of rt_data_queue_push, with the queue not found full.
Store(m) ==
  /\ items' = [items EXCEPT ![put_index % Size] = m]
  /\ put_index' = (put_index + 1) % IndexMod
  /\ overrun' = (Count >= Size)
  /\ ResumeFirst(Poppers)
  /\ UNCHANGED <<get_index, received>>

\* Mutant: the item taken is still counted against the mark.
Fetch_OneTooFew ==
  /\ received' = items[get_index % Size]
  /\ get_index' = (get_index + 1) % IndexMod
  /\ IF put_index - get_index <= Lwm THEN ResumeFirst(Pushers) ELSE UNCHANGED ipcVars
  /\ UNCHANGED <<items, put_index, overrun>>

\* The end of rt_data_queue_pop, with the queue not empty.
Fetch ==
  /\ received' = items[get_index % Size]
  /\ get_index' = (get_index + 1) % IndexMod
  /\ IF put_index - get_index' <= Lwm THEN ResumeFirst(Pushers) ELSE UNCHANGED ipcVars
  /\ UNCHANGED <<items, put_index, overrun>>

\* rt_data_queue_push by a thread, or by an interrupt even while the queue is reset.
Push(m) == Usable /\ ~Full /\ Store(m) /\ UNCHANGED call

Pop == Usable /\ ~Empty /\ Fetch /\ UNCHANGED call

\* Both calls append the thread to their list, whatever its priority.
Block(t, l, request) ==
  /\ ListSuspend(l, t, "FIFO", [u \in Threads |-> 0], request.time)
  /\ call' = [call EXCEPT ![t] = request]
  /\ UNCHANGED <<items, put_index, get_index, received, overrun>>

PushBlocks(t, m) ==
  /\ Idle(t) /\ Full
  /\ \E time \in Times \ {"zero"} :
       Block(t, Pushers, [op |-> "push", mail |-> m, time |-> time])

PopBlocks(t) ==
  /\ Idle(t) /\ Empty
  /\ \E time \in Times \ {"zero"} :
       Block(t, Poppers, [op |-> "pop", mail |-> None, time |-> time])

\* Mutant: a woken pusher does not look at the queue again.
PushWoken_Untested(t) ==
  /\ ThreadsRun /\ Woken(t, "push")
  /\ Store(call[t].mail) /\ Return(t)

\* A woken call tests again, and waits again as long as the first time.
PushWoken(t) ==
  /\ ThreadsRun /\ Woken(t, "push")
  /\ IF Full THEN Block(t, Pushers, call[t]) ELSE Store(call[t].mail) /\ Return(t)

PopWoken(t) ==
  /\ ThreadsRun /\ Woken(t, "pop")
  /\ IF Empty THEN Block(t, Poppers, call[t]) ELSE Fetch /\ Return(t)

\* Either call returns the error number it was woken with.
ReturnsError(t) ==
  /\ ThreadsRun
  /\ call[t] # NoCall /\ stat[t] = "ready" /\ error[t] # "EOK"
  /\ Return(t)
  /\ UNCHANGED <<ipcVars, items, put_index, get_index, received, overrun>>

-----------------------------------------------------------------------------
\* rt_data_queue_reset resumes the poppers, then the pushers; the items stay.
Reset == ThreadsRun /\ BeginTeardown(Poppers) /\ UNCHANGED dqVars

ResetPushers ==
  /\ Usable
  /\ teardown[Poppers] = "drained" /\ teardown[Pushers] = "live"
  /\ BeginTeardown(Pushers)
  /\ UNCHANGED dqVars

ResetStep == Usable /\ (TeardownStep(Poppers) \/ TeardownStep(Pushers)) /\ UNCHANGED dqVars

\* rt_exit_critical
ResetReturns ==
  /\ Usable
  /\ teardown[Pushers] = "drained"
  /\ teardown' = [teardown EXCEPT ![Poppers] = "live", ![Pushers] = "live"]
  /\ UNCHANGED <<stat, error, thread_timer, suspend_thread, fault, dqVars>>

Timeout(t) == Usable /\ ThreadTimeout(t) /\ UNCHANGED dqVars

Next ==
  \/ \E m \in Mails : Push(m) \/ \E t \in Threads : PushBlocks(t, m)
  \/ Pop
  \/ \E t \in Threads : \/ PopBlocks(t) \/ PushWoken(t) \/ PopWoken(t)
                        \/ ReturnsError(t) \/ Timeout(t)
  \/ Reset \/ ResetPushers \/ ResetStep \/ ResetReturns

Spec == Init /\ [][Next]_vars

-----------------------------------------------------------------------------
TypeOK ==
  /\ IpcTypeOK
  /\ items \in [Slots -> Mails \cup {None}]
  /\ {put_index, get_index} \subseteq 0..(IndexMod - 1)
  /\ call \in [Threads -> Calls]
  /\ received \in Mails \cup {None}
  /\ overrun \in BOOLEAN

(* Nobody sleeps beside what it waits for.  A pusher sleeps until the      *)
(* queue has drained to the low water mark, and from there on each item    *)
(* taken has woken one more; each item has a popper woken for it           *)
(* (dataqueue.c:112-126, :203-219).                                        *)
NoneStranded ==
  Usable =>
    /\ suspend_thread[Pushers] # << >> =>
         Count + Cardinality({t \in Threads : Woken(t, "push")}) > Lwm
    /\ suspend_thread[Poppers] # << >> =>
         Count <= Cardinality({t \in Threads : Woken(t, "pop")})

-----------------------------------------------------------------------------
queueBar == [i \in 1..Count |-> items[(get_index + i - 1) % Size]]

Abstract == INSTANCE BoundedQueue WITH queue <- queueBar

(* Items are popped once each, in the order they were pushed, whatever     *)
(* blocks, retries, times out or resets in between, and none is lost as    *)
(* long as put_index has not wrapped before get_index has: only then is a  *)
(* full queue not found full (dataqueue.c:66, :107-109, :198-201).         *)
ImplementsQueue ==
  /\ Abstract!Init
  /\ [][IF overrun' THEN overrun \/ put_index < get_index
        ELSE Abstract!NextInOrder \/ UNCHANGED <<queueBar, received>>]_vars
-----------------------------------------------------------------------------
(* The inductive invariant behind both: who waits is inside the call of    *)
(* its list and has no answer yet, and the queue holds at most Size items  *)
(* as long as nothing was overrun.                                         *)
CallsWait ==
  /\ \A t \in Threads : call[t].op = "none" => call[t] = NoCall /\ stat[t] = "ready"
  /\ \A t \in Threads : call[t].op = "push" => call[t].mail \in Mails
  /\ \A t \in Elements(suspend_thread[Pushers]) : call[t].op = "push" /\ error[t] = "EOK"
  /\ \A t \in Elements(suspend_thread[Poppers]) : call[t].op = "pop" /\ error[t] = "EOK"

CountKept == ~overrun => Count <= Size

Inv ==
  /\ TypeOK
  /\ IpcInv
  /\ NoneStranded
  /\ CallsWait
  /\ CountKept
=============================================================================
