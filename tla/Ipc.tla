-------------------------------- MODULE Ipc --------------------------------
(***************************************************************************)
(* What every blocking object of the kernel is built from (ipc.c 60-184,   *)
(* thread.c 657-771): the lists of suspended threads, the thread's stat,   *)
(* its error number and its timer.  Each region the code runs with         *)
(* interrupts disabled is one step; between two such regions any other     *)
(* thread and the tick interrupt may run.  Which of the ready threads runs *)
(* is left open here and is the subject of Scheduler.                      *)
(*                                                                         *)
(* Time is abstract: a thread timer is armed or not, and an armed one may  *)
(* expire at any moment.                                                   *)
(***************************************************************************)
EXTENDS Integers, Sequences, RtList

CONSTANTS Threads,   \* the threads that call the object
          Lists,     \* the lists of suspended threads of the modelled objects
          Times      \* the waiting times callers pass, a subset of WaitTimes

WaitTimes == {"zero", "finite", "forever"}

ASSUME TimesAssumption == Times \subseteq WaitTimes

VARIABLES stat,            \* [Threads -> {"ready", "suspend"}], ready covers running
          error,           \* [Threads -> Errors], thread->error
          thread_timer,    \* [Threads -> BOOLEAN], the thread timer is activated
          suspend_thread,  \* [Lists -> Seq(Threads)], the head is resumed first
          teardown,        \* [Lists -> Teardown], progress of detach/delete
          fault            \* a list head was taken for a thread, the system is lost

ipcVars == <<stat, error, thread_timer, suspend_thread, teardown, fault>>

Errors == {"EOK", "ERROR", "ETIMEOUT", "EFULL"}

(* live: in service.  test: rt_ipc_list_resume_all is about to test for an *)
(* empty list.  resume: it found the list nonempty.  drained: it returned. *)
Teardown == {"live", "test", "resume", "drained"}

IpcInit ==
  /\ stat = [t \in Threads |-> "ready"]
  /\ error = [t \in Threads |-> "EOK"]
  /\ thread_timer = [t \in Threads |-> FALSE]
  /\ suspend_thread = [l \in Lists |-> << >>]
  /\ teardown = [l \in Lists |-> "live"]
  /\ fault = FALSE

-----------------------------------------------------------------------------
\* RT_IPC_FLAG_PRIO: before the first thread of lower priority (a larger number).
PrioPosition(q, t, prio) ==
  CHOOSE i \in 1..(Len(q) + 1) :
    /\ \A j \in 1..(i - 1) : prio[q[j]] <= prio[t]
    /\ i <= Len(q) => prio[t] < prio[q[i]]

\* Mutants of Enqueue: the flag is not consulted; the new thread goes first.
Enqueue_NoFlag(q, t, flag, prio) == Append(q, t)
Enqueue_Lifo(q, t, flag, prio) == <<t>> \o q

Enqueue(q, t, flag, prio) ==
  IF flag = "FIFO" THEN Append(q, t) ELSE InsertAt(q, PrioPosition(q, t, prio), t)

-----------------------------------------------------------------------------
\* Mutant: the timer is started before rt_thread_suspend, which stops it.
ListSuspend_TimerFirst(l, t, flag, prio, time) ==
  /\ stat' = [stat EXCEPT ![t] = "suspend"]
  /\ error' = [error EXCEPT ![t] = "EOK"]
  /\ thread_timer' = [thread_timer EXCEPT ![t] = FALSE]
  /\ suspend_thread' = [suspend_thread EXCEPT ![l] = Enqueue(@, t, flag, prio)]
  /\ UNCHANGED <<teardown, fault>>

(* The running thread t suspends on l and, for a finite time, starts its   *)
(* timer; rt_thread_suspend has just stopped the previous one.             *)
ListSuspend(l, t, flag, prio, time) ==
  /\ stat' = [stat EXCEPT ![t] = "suspend"]
  /\ error' = [error EXCEPT ![t] = "EOK"]
  /\ thread_timer' = [thread_timer EXCEPT ![t] = (time = "finite")]
  /\ suspend_thread' = [suspend_thread EXCEPT ![l] = Enqueue(@, t, flag, prio)]
  /\ UNCHANGED <<teardown, fault>>

\* Mutant: the resumed thread's timer keeps running.
ListResume_TimerRuns(l) ==
  LET t == Head(suspend_thread[l])
  IN  /\ stat' = [stat EXCEPT ![t] = "ready"]
      /\ suspend_thread' = [suspend_thread EXCEPT ![l] = Tail(@)]
      /\ UNCHANGED <<error, thread_timer, teardown, fault>>

\* rt_ipc_list_resume: the first thread of a nonempty list.
ListResume(l) ==
  LET t == Head(suspend_thread[l])
  IN  /\ stat' = [stat EXCEPT ![t] = "ready"]
      /\ thread_timer' = [thread_timer EXCEPT ![t] = FALSE]
      /\ suspend_thread' = [suspend_thread EXCEPT ![l] = Tail(@)]
      /\ UNCHANGED <<error, teardown, fault>>

ResumeFirst(l) == IF suspend_thread[l] # << >> THEN ListResume(l) ELSE UNCHANGED ipcVars

\* What may be left of a waiting time when the caller runs again.
LeftOf(time) == IF time = "finite" THEN {"finite", "zero"} ELSE {time}

\* rt_ipc_list_resume_all called with interrupts already disabled.
ListResumeAll(l) ==
  LET woken == Elements(suspend_thread[l])
  IN  /\ stat' = [t \in Threads |-> IF t \in woken THEN "ready" ELSE stat[t]]
      /\ error' = [t \in Threads |-> IF t \in woken THEN "ERROR" ELSE error[t]]
      /\ thread_timer' = [t \in Threads |-> t \notin woken /\ thread_timer[t]]
      /\ suspend_thread' = [suspend_thread EXCEPT ![l] = << >>]
      /\ UNCHANGED <<teardown, fault>>

\* Mutant: the thread is made ready without leaving the list.
ThreadTimeout_StaysLinked(t) ==
  /\ ~fault
  /\ thread_timer[t]
  /\ stat' = [stat EXCEPT ![t] = "ready"]
  /\ error' = [error EXCEPT ![t] = "ETIMEOUT"]
  /\ thread_timer' = [thread_timer EXCEPT ![t] = FALSE]
  /\ UNCHANGED <<suspend_thread, teardown, fault>>

\* The tick interrupt runs rt_thread_timeout for t, whose timer is one-shot.
ThreadTimeout(t) ==
  /\ ~fault
  /\ thread_timer[t]
  /\ stat' = [stat EXCEPT ![t] = "ready"]
  /\ error' = [error EXCEPT ![t] = "ETIMEOUT"]
  /\ thread_timer' = [thread_timer EXCEPT ![t] = FALSE]
  /\ suspend_thread' = [l \in Lists |-> Unlink(suspend_thread[l], t)]
  /\ UNCHANGED <<teardown, fault>>

-----------------------------------------------------------------------------
(* rt_ipc_list_resume_all as detach and delete call it, with interrupts    *)
(* enabled: the emptiness test of the loop is a step of its own, and the   *)
(* region that resumes list->next does not repeat it.                      *)
BeginTeardown(l) ==
  /\ teardown[l] = "live"
  /\ teardown' = [teardown EXCEPT ![l] = "test"]
  /\ UNCHANGED <<stat, error, thread_timer, suspend_thread, fault>>

TeardownTest(l) ==
  /\ ~fault
  /\ teardown[l] = "test"
  /\ teardown' = [teardown EXCEPT
                    ![l] = IF suspend_thread[l] = << >> THEN "drained" ELSE "resume"]
  /\ UNCHANGED <<stat, error, thread_timer, suspend_thread, fault>>

TeardownResume(l) ==
  /\ ~fault
  /\ teardown[l] = "resume"
  /\ teardown' = [teardown EXCEPT ![l] = "test"]
  /\ IF suspend_thread[l] = << >>
     THEN /\ fault' = TRUE
          /\ UNCHANGED <<stat, error, thread_timer, suspend_thread>>
     ELSE LET t == Head(suspend_thread[l])
          IN  /\ stat' = [stat EXCEPT ![t] = "ready"]
              /\ error' = [error EXCEPT ![t] = "ERROR"]
              /\ thread_timer' = [thread_timer EXCEPT ![t] = FALSE]
              /\ suspend_thread' = [suspend_thread EXCEPT ![l] = Tail(@)]
              /\ UNCHANGED fault

TeardownStep(l) == TeardownTest(l) \/ TeardownResume(l)

-----------------------------------------------------------------------------
IpcTypeOK ==
  /\ stat \in [Threads -> {"ready", "suspend"}]
  /\ error \in [Threads -> Errors]
  /\ thread_timer \in [Threads -> BOOLEAN]
  /\ suspend_thread \in [Lists -> Seq(Threads)]
  /\ teardown \in [Lists -> Teardown]
  /\ fault \in BOOLEAN

Waiting(t) == \E l \in Lists : t \in Elements(suspend_thread[l])

\* No thread is linked twice, in one list or in two.
LinkedOnce ==
  /\ \A l \in Lists : NoRepeat(suspend_thread[l])
  /\ \A k, l \in Lists :
       k # l => Elements(suspend_thread[k]) \cap Elements(suspend_thread[l]) = {}

(* Exactly the suspended threads wait on a list, so none is stranded and   *)
(* no ready thread can be resumed a second time (thread.c:686, :716).      *)
SuspendedIffWaiting == \A t \in Threads : (stat[t] = "suspend") <=> Waiting(t)

(* rt_thread_timeout asserts that the thread whose timer expires is        *)
(* suspended (thread.c:757): no wake-up leaves the timer armed.            *)
ArmedOnlyWhileSuspended == \A t \in Threads : thread_timer[t] => stat[t] = "suspend"

IpcInv ==
  /\ IpcTypeOK
  /\ LinkedOnce
  /\ SuspendedIffWaiting
  /\ ArmedOnlyWhileSuspended
=============================================================================
