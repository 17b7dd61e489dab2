----------------------------- MODULE WorkQueue -----------------------------
(***************************************************************************)
(* A work queue (workqueue.c): a list of works, the worker thread that     *)
(* takes them off and runs them, threads that submit and cancel works, and *)
(* the timers of delayed works, which submit them from the tick interrupt. *)
(* A region with interrupts disabled is one step.                          *)
(***************************************************************************)
EXTENDS RtList

CONSTANTS Threads,  \* the threads that use the queue, the worker is none of them
          Works,
          Delayed,  \* the works initialised with rt_delayed_work_init
          None

WorkQueueAssumption == Delayed \subseteq Works /\ None \notin Works

VARIABLES work_list,
          work_current,
          pending,     \* the works with RT_WORK_STATE_PENDING
          submitting,  \* the works with RT_WORK_STATE_SUBMITTING
          timed,       \* the works whose timer is an initialised object, it is then armed too
          attached,    \* the delayed works with workqueue # RT_NULL
          worker,      \* Stages, what the worker is about to do
          pc,          \* [Threads -> PC], what each thread is about to do
          arg,         \* [Threads -> Works \cup {None}], the work that is about
          broken,      \* Ways, how the queue has been corrupted
          unlinked,    \* history: pending works that rt_workqueue_cancel_all_work took off
          missed       \* history: the worker went to sleep beside a work

vars == <<work_list, work_current, pending, submitting, timed, attached,
          worker, pc, arg, broken, unlinked, missed>>

(* test: look at the list.  suspend: it was empty.  asleep: suspended.     *)
(* take: take the first work.  run: inside work_func.  ack: release the    *)
(* threads that wait for the end of the work.                              *)
Stages == {"test", "suspend", "asleep", "take", "run", "ack"}

(* run: outside.  resume: rt_thread_resume on the worker.  sync: waiting   *)
(* in rt_workqueue_cancel_work_sync.  submit, arm: submitting a delayed    *)
(* work that is attached now, at once or by its timer.  The others are the *)
(* steps of rt_workqueue_cancel_work on a delayed work.                    *)
PC == {"run", "resume", "sync", "submit", "arm", "pending?", "submitting?", "stop", "detach"}

(* head: the list head was taken for a work.  recursion: cancelling a      *)
(* queued delayed work calls itself.  assert: the timer was detached or    *)
(* initialised twice.  null: a work was submitted to no queue, another     *)
(* thread had detached it meanwhile.                                       *)
Ways == {"no", "head", "recursion", "assert", "null"}

Init ==
  /\ work_list = << >> /\ work_current = None
  /\ pending = {} /\ submitting = {} /\ timed = {} /\ attached = {}
  /\ worker = "test"
  /\ pc = [t \in Threads |-> "run"]
  /\ arg = [t \in Threads |-> None]
  /\ broken = "no"
  /\ unlinked = {} /\ missed = FALSE

Queued(w) == w \in Elements(work_list)

Sound == broken = "no"
Free(t) == Sound /\ pc[t] = "run"

Goto(t, label, w) ==
  /\ pc' = [pc EXCEPT ![t] = label]
  /\ arg' = [arg EXCEPT ![t] = w]

\* What delayed works have, and what the worker does.
timerVars == <<submitting, timed, attached>>
workerVars == <<worker, work_current, missed>>

-----------------------------------------------------------------------------
\* The worker looks at the list in one step
WorkerTests ==
  /\ Sound /\ worker = "test"
  /\ worker' = IF work_list = << >> THEN "suspend" ELSE "take"
  /\ UNCHANGED <<work_list, work_current, pending, timerVars, pc, arg, broken, unlinked, missed>>

\* and suspends itself in another.
WorkerSuspends ==
  /\ Sound /\ worker = "suspend"
  /\ worker' = "asleep"
  /\ missed' = (work_list # << >>)
  /\ UNCHANGED <<work_list, work_current, pending, timerVars, pc, arg, broken, unlinked>>

\* Mutant: the work keeps its flag.
WorkerTakes_StaysPending ==
  /\ Sound /\ worker = "take"
  /\ IF work_list = << >>
     THEN broken' = "head" /\ UNCHANGED <<work_list, work_current, pending, unlinked, worker>>
     ELSE /\ work_current' = Head(work_list)
          /\ work_list' = Tail(work_list)
          /\ worker' = "run"
          /\ UNCHANGED <<broken, pending, unlinked>>
  /\ UNCHANGED <<timerVars, pc, arg, missed>>

\* It does not look again before it takes the list's first entry for a work.
WorkerTakes ==
  /\ Sound /\ worker = "take"
  /\ IF work_list = << >>
     THEN broken' = "head" /\ UNCHANGED <<work_list, work_current, pending, unlinked, worker>>
     ELSE LET w == Head(work_list)
          IN  /\ work_current' = w
              /\ work_list' = Tail(work_list)
              /\ pending' = pending \ {w}
              /\ unlinked' = unlinked \ {w}
              /\ worker' = "run"
              /\ UNCHANGED broken
  /\ UNCHANGED <<timerVars, pc, arg, missed>>

\* work_func has returned.
WorkerDone ==
  /\ Sound /\ worker = "run"
  /\ work_current' = None
  /\ worker' = "ack"
  /\ UNCHANGED <<work_list, pending, timerVars, pc, arg, broken, unlinked, missed>>

(* _workqueue_work_completion releases the semaphore until nobody waits    *)
(* and takes the unit that is then left, so that its value stays 0.        *)
WorkerAcks ==
  /\ Sound /\ worker = "ack"
  /\ worker' = "test"
  /\ pc' = [t \in Threads |-> IF pc[t] = "sync" THEN "run" ELSE pc[t]]
  /\ arg' = [t \in Threads |-> IF pc[t] = "sync" THEN None ELSE arg[t]]
  /\ UNCHANGED <<work_list, work_current, pending, timerVars, broken, unlinked, missed>>

\* rt_thread_resume does nothing to a worker that is not suspended.
ResumeWorker ==
  /\ worker' = IF worker = "asleep" THEN "take" ELSE worker
  /\ missed' = (missed /\ worker # "asleep")

-----------------------------------------------------------------------------
\* The region of _workqueue_submit_work, when it accepts the work.
Accept(w) ==
  /\ work_list' = Append(Unlink(work_list, w), w)
  /\ pending' = pending \cup {w}
  /\ unlinked' = unlinked \ {w}

Busy(w) == w \in pending \/ work_current = w

\* Mutant: the worker is not resumed.
SubmitFor_NoResume(t, w) ==
  IF Busy(w)
  THEN Goto(t, "run", None) /\ UNCHANGED <<work_list, pending, unlinked>>
  ELSE Accept(w) /\ Goto(t, "run", None)

\* _workqueue_submit_work for t, which then returns or goes on to resume the worker.
SubmitFor(t, w) ==
  IF Busy(w)
  THEN Goto(t, "run", None) /\ UNCHANGED <<work_list, pending, unlinked>>
  ELSE /\ Accept(w)
       /\ Goto(t, IF work_current = None THEN "resume" ELSE "run", None)

Submit(t, w) ==
  /\ Free(t) /\ w \notin Delayed
  /\ SubmitFor(t, w)
  /\ UNCHANGED <<timerVars, workerVars, broken>>

\* rt_workqueue_critical_work, which leaves the flag alone.
CriticalWork(t, w) ==
  /\ Free(t) /\ w \notin Delayed
  /\ work_current # w
  /\ work_list' = Append(Unlink(work_list, w), w)
  /\ Goto(t, IF work_current = None THEN "resume" ELSE "run", None)
  /\ UNCHANGED <<pending, unlinked, timerVars, workerVars, broken>>

Resumes(t) ==
  /\ Sound /\ pc[t] = "resume"
  /\ ResumeWorker
  /\ Goto(t, "run", None)
  /\ UNCHANGED <<work_list, work_current, pending, timerVars, broken, unlinked>>

\* _workqueue_cancel_work; while the work runs it changes nothing.
Cancel(t, w) ==
  /\ Free(t) /\ w \notin Delayed
  /\ work_current # w
  /\ work_list' = Unlink(work_list, w)
  /\ pending' = pending \ {w}
  /\ unlinked' = unlinked \ {w}
  /\ UNCHANGED <<timerVars, workerVars, pc, arg, broken>>

(* rt_workqueue_cancel_work_sync.  It takes the semaphore with interrupts  *)
(* disabled: the flag is cleared at once, and the context switch that is   *)
(* pended takes place when it enables them.                                *)
CancelSync(t, w) ==
  /\ Free(t)
  /\ pending' = pending \ {w}
  /\ unlinked' = unlinked \ {w}
  /\ IF work_current = w
     THEN Goto(t, "sync", w) /\ UNCHANGED work_list
     ELSE work_list' = Unlink(work_list, w) /\ UNCHANGED <<pc, arg>>
  /\ UNCHANGED <<timerVars, workerVars, broken>>

\* rt_workqueue_cancel_all_work, which leaves the flags alone.
CancelAll(t) ==
  /\ Free(t)
  /\ work_list' = << >>
  /\ unlinked' = pending
  /\ UNCHANGED <<pending, timerVars, workerVars, pc, arg, broken>>

-----------------------------------------------------------------------------
(* Delayed works.  A call to submit or to cancel one that is attached goes *)
(* through the steps of _workqueue_cancel_delayed_work first.              *)
CancelDelayed(t, w) ==
  /\ Free(t) /\ w \in Delayed \cap attached
  /\ Goto(t, "pending?", w)
  /\ UNCHANGED <<work_list, pending, unlinked, timerVars, workerVars, broken>>

\* For a pending delayed work rt_workqueue_cancel_work leads back to the same test.
CancelSeesPending(t) ==
  /\ Sound /\ pc[t] = "pending?"
  /\ IF arg[t] \in pending
     THEN broken' = "recursion" /\ UNCHANGED <<pc, arg>>
     ELSE Goto(t, "submitting?", arg[t]) /\ UNCHANGED broken
  /\ UNCHANGED <<work_list, pending, unlinked, timerVars, workerVars>>

CancelSeesSubmitting(t) ==
  /\ Sound /\ pc[t] = "submitting?"
  /\ Goto(t, IF arg[t] \in submitting THEN "stop" ELSE "detach", arg[t])
  /\ UNCHANGED <<work_list, pending, unlinked, timerVars, workerVars, broken>>

\* rt_timer_detach asserts that the timer is an object: it may have fired meanwhile.
CancelStopsTimer(t) ==
  /\ Sound /\ pc[t] = "stop"
  /\ LET w == arg[t]
     IN  IF w \in timed
         THEN /\ timed' = timed \ {w} /\ submitting' = submitting \ {w}
              /\ Goto(t, "detach", w)
              /\ UNCHANGED broken
         ELSE broken' = "assert" /\ UNCHANGED <<timed, submitting, pc, arg>>
  /\ UNCHANGED <<work_list, pending, unlinked, attached, workerVars>>

CancelDetaches(t) ==
  /\ Sound /\ pc[t] = "detach"
  /\ attached' = attached \ {arg[t]}
  /\ pending' = pending \ {arg[t]}
  /\ unlinked' = unlinked \ {arg[t]}
  /\ Goto(t, "run", None)
  /\ UNCHANGED <<work_list, submitting, timed, workerVars, broken>>

(* rt_workqueue_submit_work of a delayed work that is not attached, with   *)
(* no delay or by its timer: it attaches the work first.                   *)
SubmitDelayed(t, w, at_once) ==
  /\ Free(t) /\ w \in Delayed \ attached
  /\ attached' = attached \cup {w}
  /\ Goto(t, IF at_once THEN "submit" ELSE "arm", w)
  /\ UNCHANGED <<work_list, pending, unlinked, submitting, timed, workerVars, broken>>

\* A pending work is refused before the queue is looked at, which may be gone.
Astray(w) == w \notin attached \cup pending

SubmitsAttached(t, w) ==
  /\ Sound /\ pc[t] = "submit" /\ arg[t] = w
  /\ IF Astray(w)
     THEN broken' = "null" /\ UNCHANGED <<work_list, pending, unlinked, pc, arg>>
     ELSE SubmitFor(t, w) /\ UNCHANGED broken
  /\ UNCHANGED <<timerVars, workerVars>>

(* It initialises the timer and starts it, which nobody cancels in between; *)
(* rt_timer_init asserts that the timer is no object yet.                  *)
ArmsTimer(t, w) ==
  /\ Sound /\ pc[t] = "arm" /\ arg[t] = w
  /\ submitting' = submitting \cup {w}
  /\ timed' = timed \cup {w}
  /\ broken' = IF w \in timed THEN "assert" ELSE "no"
  /\ Goto(t, "run", None)
  /\ UNCHANGED <<work_list, pending, unlinked, attached, workerVars>>

\* The tick interrupt runs _delayed_work_timeout_handler.
TimerFires(w) ==
  /\ Sound /\ w \in timed
  /\ timed' = timed \ {w} /\ submitting' = submitting \ {w}
  /\ broken' = IF Astray(w) THEN "null" ELSE "no"
  /\ IF w \notin attached \/ Busy(w)
     THEN UNCHANGED <<work_list, pending, unlinked, worker, missed>>
     ELSE /\ Accept(w)
          /\ IF work_current = None THEN ResumeWorker ELSE UNCHANGED <<worker, missed>>
  /\ UNCHANGED <<attached, work_current, pc, arg>>

WorkerStep == WorkerTests \/ WorkerSuspends \/ WorkerTakes \/ WorkerDone \/ WorkerAcks

Next ==
  \/ WorkerStep
  \/ \E t \in Threads : \/ Resumes(t) \/ CancelAll(t)
                        \/ CancelSeesPending(t) \/ CancelSeesSubmitting(t)
                        \/ CancelStopsTimer(t) \/ CancelDetaches(t)
  \/ \E w \in Works : TimerFires(w)
  \/ \E t \in Threads, w \in Works :
       \/ Submit(t, w) \/ CriticalWork(t, w) \/ Cancel(t, w) \/ CancelSync(t, w)
       \/ CancelDelayed(t, w) \/ (\E at_once \in BOOLEAN : SubmitDelayed(t, w, at_once))
       \/ SubmitsAttached(t, w) \/ ArmsTimer(t, w)

Spec == Init /\ [][Next]_vars

-----------------------------------------------------------------------------
TypeOK ==
  /\ work_list \in Seq(Works)
  /\ work_current \in Works \cup {None}
  /\ pending \cup submitting \cup timed \cup unlinked \subseteq Works
  /\ attached \subseteq Delayed
  /\ worker \in Stages
  /\ pc \in [Threads -> PC]
  /\ arg \in [Threads -> Works \cup {None}]
  /\ broken \in Ways
  /\ missed \in BOOLEAN

(* A work is in the list once, and one that is refused as pending is in    *)
(* the list, whoever submits, cancels, runs or times out meanwhile, unless *)
(* rt_workqueue_cancel_all_work took it off.  A thread that waits for the  *)
(* end of a work is still to be told of it, however many wait              *)
(* (workqueue.c:73, :93-109, :360-369, :381-385).                          *)
PendingMeansQueued ==
  /\ NoRepeat(work_list)
  /\ \A w \in pending \ unlinked : Queued(w)
  /\ work_current # None <=> worker = "run"
  /\ \A t \in Threads : pc[t] = "sync" => worker \in {"run", "ack"}

(* The worker does not sleep beside a work that nobody is about to wake it *)
(* for, but in one case: the work came between its look at the list and    *)
(* its suspension.  Then the work waits until another is submitted         *)
(* (workqueue.c:61-64, :112-118).                                          *)
NoWorkStranded ==
  worker = "asleep" /\ work_list # << >> =>
    missed \/ \E t \in Threads : pc[t] = "resume"

-----------------------------------------------------------------------------
\* Together they are inductive as they stand.
Inv == TypeOK /\ PendingMeansQueued /\ NoWorkStranded
=============================================================================
