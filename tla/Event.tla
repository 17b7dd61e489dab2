------------------------------- MODULE Event -------------------------------
(***************************************************************************)
(* Event sets (ipc.c 914-1276): threads wait for all or for any of some    *)
(* events, and may clear what they receive.  rt_event_send serves the      *)
(* waiters in the order of the list, each with what the ones before left.  *)
(***************************************************************************)
EXTENDS Ipc

CONSTANTS Event,  \* the event object, which also names its list
          Flag,   \* "FIFO" or "PRIO"
          Prio,   \* [Threads -> Nat]
          Events  \* the bits of a set

EventAssumption ==
  /\ Event \in Lists
  /\ Flag \in {"FIFO", "PRIO"}
  /\ Prio \in [Threads -> Nat]

Sets == (SUBSET Events) \ {{}}

\* RT_EVENT_FLAG_AND or RT_EVENT_FLAG_OR, with or without RT_EVENT_FLAG_CLEAR
Options == [all : BOOLEAN, clear : BOOLEAN]

VARIABLES set,         \* event->set
          event_set,   \* [Threads -> SUBSET Events], thread->event_set while it is in use
          event_info,  \* [Threads -> Options], thread->event_info
          asked        \* [Threads -> SUBSET Events], the argument of the call, {} outside one

eventVars == <<set, event_set, event_info, asked>>
vars == <<ipcVars, eventVars>>

Waiters == suspend_thread[Event]
Live == ~fault /\ teardown[Event] = "live"

AnyOption == [all |-> FALSE, clear |-> FALSE]

Init ==
  /\ IpcInit
  /\ set = {}
  /\ event_set = [t \in Threads |-> {}]
  /\ event_info = [t \in Threads |-> AnyOption]
  /\ asked = [t \in Threads |-> {}]

\* Does the set s satisfy a request for wanted?
Satisfies(s, wanted, option) ==
  IF option.all THEN wanted \subseteq s ELSE wanted \cap s # {}

\* Mutant: a thread gets the whole set.
Got_Unmasked(s, t) == IF event_info[t].all THEN event_set[t] ELSE s

\* What t receives of the set s.
Got(s, t) == IF event_info[t].all THEN event_set[t] ELSE event_set[t] \cap s

\* rt_event_send gives t what it receives and takes it out of the list.
Resume(before, t) ==
  LET got == Got(before.set, t)
  IN  [set   |-> IF event_info[t].clear THEN before.set \ got ELSE before.set,
       woken |-> before.woken \cup {t},
       got   |-> [before.got EXCEPT ![t] = got],
       left  |-> Unlink(before.left, t)]

\* Mutant: the walk ends with the first thread it wakes.
Serve_FirstOnly(before, t) ==
  IF before.woken = {} /\ Satisfies(before.set, event_set[t], event_info[t])
  THEN Resume(before, t) ELSE before

Serve(before, t) ==
  IF Satisfies(before.set, event_set[t], event_info[t]) THEN Resume(before, t) ELSE before

\* Mutant: every waiter is shown the set as it was before the walk.
Walk_SameSet(q, s) ==
  LET w[i \in 0..Len(q)] ==
        IF i = 0 THEN [set |-> s, woken |-> {}, got |-> event_set, left |-> q]
        ELSE LET after == Serve([w[i - 1] EXCEPT !.set = s], q[i])
             IN  [after EXCEPT !.set = @ \cap w[i - 1].set]
  IN  w[Len(q)]

(* The walk of rt_event_send over the list q from the set s: what the set  *)
(* is after the first i waiters, which of them are woken with what, and    *)
(* who is left in the list.                                                *)
Walk(q, s) ==
  LET w[i \in 0..Len(q)] ==
        IF i = 0 THEN [set |-> s, woken |-> {}, got |-> event_set, left |-> q]
        ELSE Serve(w[i - 1], q[i])
  IN  w[Len(q)]

\* rt_event_send, by a thread outside rt_event_recv or by an interrupt.
Send(s) ==
  /\ Live
  /\ LET after == Walk(Waiters, set \cup s)
     IN  /\ set' = after.set
         /\ event_set' = after.got
         /\ stat' = [t \in Threads |-> IF t \in after.woken THEN "ready" ELSE stat[t]]
         /\ thread_timer' = [t \in Threads |-> t \notin after.woken /\ thread_timer[t]]
         /\ suspend_thread' = [suspend_thread EXCEPT ![Event] = after.left]
  /\ UNCHANGED <<error, teardown, fault, event_info, asked>>

\* rt_event_recv finds its events.
RecvAtOnce(t, wanted, option) ==
  /\ Live /\ asked[t] = {}
  /\ Satisfies(set, wanted, option)
  /\ error' = [error EXCEPT ![t] = "EOK"]
  /\ set' = IF option.clear THEN set \ wanted ELSE set
  /\ UNCHANGED <<stat, thread_timer, suspend_thread, teardown, fault,
                 event_set, event_info, asked>>

\* It does not, and the caller does not wait.
RecvFails(t, wanted, option) ==
  /\ Live /\ asked[t] = {}
  /\ ~Satisfies(set, wanted, option)
  /\ "zero" \in Times
  /\ error' = [error EXCEPT ![t] = "ETIMEOUT"]
  /\ UNCHANGED <<stat, thread_timer, suspend_thread, teardown, fault, eventVars>>

\* It does not, and the caller suspends.
RecvBlocks(t, wanted, option) ==
  /\ Live /\ asked[t] = {}
  /\ ~Satisfies(set, wanted, option)
  /\ \E time \in Times \ {"zero"} : ListSuspend(Event, t, Flag, Prio, time)
  /\ event_set' = [event_set EXCEPT ![t] = wanted]
  /\ event_info' = [event_info EXCEPT ![t] = option]
  /\ asked' = [asked EXCEPT ![t] = wanted]
  /\ UNCHANGED set

(* rt_schedule returned, and the caller is given thread->event_set.  What  *)
(* stays in the thread is not read again and is forgotten here.            *)
RecvReturns(t) ==
  /\ ~fault
  /\ asked[t] # {}
  /\ stat[t] = "ready"
  /\ event_set' = [event_set EXCEPT ![t] = {}]
  /\ event_info' = [event_info EXCEPT ![t] = AnyOption]
  /\ asked' = [asked EXCEPT ![t] = {}]
  /\ UNCHANGED <<ipcVars, set>>

\* rt_event_control(RT_IPC_CMD_RESET)
Reset ==
  /\ Live
  /\ ListResumeAll(Event)
  /\ set' = {}
  /\ UNCHANGED <<event_set, event_info, asked>>

\* rt_event_detach and rt_event_delete
Delete == ~fault /\ BeginTeardown(Event) /\ UNCHANGED eventVars

DeleteStep == TeardownStep(Event) /\ UNCHANGED eventVars

Timeout(t) == ThreadTimeout(t) /\ UNCHANGED eventVars

Next ==
  \/ \E s \in Sets : Send(s)
  \/ \E t \in Threads, wanted \in Sets, option \in Options :
       \/ RecvAtOnce(t, wanted, option)
       \/ RecvFails(t, wanted, option)
       \/ RecvBlocks(t, wanted, option)
  \/ \E t \in Threads : RecvReturns(t) \/ Timeout(t)
  \/ Reset
  \/ Delete
  \/ DeleteStep

Spec == Init /\ [][Next]_vars

-----------------------------------------------------------------------------
TypeOK ==
  /\ IpcTypeOK
  /\ set \subseteq Events
  /\ event_set \in [Threads -> SUBSET Events]
  /\ event_info \in [Threads -> Options]
  /\ asked \in [Threads -> SUBSET Events]

(* Nobody sleeps through the events it waits for: after every send, clear, *)
(* timeout and reset no waiter's condition holds (ipc.c:1056-1099).        *)
NoneMissed ==
  \A t \in Elements(Waiters) : ~Satisfies(set, event_set[t], event_info[t])

\* A send has answered the call of t, which has not returned yet.
Answered(t) == asked[t] # {} /\ stat[t] = "ready" /\ error[t] = "EOK"

(* A woken call returns what it asked for: all of it, or some of it and    *)
(* nothing else (ipc.c:1063-1081, :1227).                                  *)
AnswersFit ==
  \A t \in Threads : Answered(t) =>
    IF event_info[t].all THEN event_set[t] = asked[t]
    ELSE event_set[t] # {} /\ event_set[t] \subseteq asked[t]

\* The calls this step answers, and those among them that clear what they receive.
Newly == {t \in Threads : ~Answered(t) /\ Answered(t)'}

(* No event is lost or received twice: a bit that goes away has been given *)
(* to exactly one receiver that clears, a bit that stays has been given to *)
(* none that does, and nobody receives a bit that was not there            *)
(* (ipc.c:1049, :1076, :1090-1091).                                        *)
ClearedOnce ==
  [][\A s \in Sets : Send(s) =>
       /\ \A t \in Newly : event_set'[t] \subseteq set \cup s
       /\ \A e \in set \cup s :
            LET takers == {t \in Newly : event_info[t].clear /\ e \in event_set'[t]}
            IN  /\ \A t, u \in takers : t = u
                /\ e \in set' <=> takers = {}]_vars

-----------------------------------------------------------------------------
(* The inductive invariant behind NoneMissed and AnswersFit: a thread that *)
(* waits is inside a call, and still has the set it asked for and no       *)
(* answer.                                                                 *)
CallsWait ==
  /\ \A t \in Threads : asked[t] = {} => stat[t] = "ready"
  /\ \A t \in Elements(Waiters) : event_set[t] = asked[t] /\ error[t] = "EOK"

Inv ==
  /\ TypeOK
  /\ IpcInv
  /\ NoneMissed
  /\ AnswersFit
  /\ CallsWait
=============================================================================
