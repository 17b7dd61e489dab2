----------------------------- MODULE Semaphore -----------------------------
(***************************************************************************)
(* A kernel semaphore (ipc.c 189-514): a count and a list of waiters.  A   *)
(* release with a waiter hands the count over directly: the waiter returns *)
(* with RT_EOK and the count does not move.                                *)
(***************************************************************************)
EXTENDS Ipc

CONSTANTS Sem,        \* the semaphore, which also names its list
          Flag,       \* "FIFO" or "PRIO", parent.parent.flag
          Prio,       \* [Threads -> Nat], initial priorities, 0 is the highest
          NewPrios,   \* [Threads -> SUBSET Nat], the priorities a thread is given later
          InitValue,  \* the count rt_sem_init stores
          ValueMod,   \* the width of value: 2^16 in the code
          MaxValue    \* callers stop releasing at this count, a bound of the model

ASSUME SemAssumption ==
  /\ Lists = {Sem}
  /\ Flag \in {"FIFO", "PRIO"}
  /\ Prio \in [Threads -> Nat]
  /\ NewPrios \in [Threads -> SUBSET Nat]
  /\ ValueMod \in Nat \ {0}
  /\ InitValue \in 0..(ValueMod - 1)
  /\ MaxValue \in 0..ValueMod

VARIABLES value,             \* sem->value
          pc,                \* [Threads -> PC], where each thread is in rt_sem_take
          ret,               \* [Threads -> Errors], what the last rt_sem_take returned
          current_priority,  \* [Threads -> Nat], thread->current_priority
          shuffled,          \* history: the priority of a waiter changed, the list not yet empty since
          precedes           \* history: pairs of waiters, the first came later with a higher priority

\* timed, forever: suspended by rt_sem_take with such a time, or not yet back from it.
PC == {"idle", "timed", "forever"}

orderVars == <<current_priority, shuffled, precedes>>
semVars == <<value, pc, ret, orderVars>>
vars == <<ipcVars, semVars>>

Waiters == suspend_thread[Sem]
Live == ~fault /\ teardown[Sem] = "live"

\* What is remembered of the waiters that are left when others leave the list.
SomeLeave ==
  /\ shuffled' = (shuffled /\ Waiters' # << >>)
  /\ precedes' = {p \in precedes : {p[1], p[2]} \subseteq Elements(Waiters')}
  /\ UNCHANGED current_priority

Init ==
  /\ IpcInit
  /\ value = InitValue
  /\ pc = [t \in Threads |-> "idle"]
  /\ ret = [t \in Threads |-> "EOK"]
  /\ current_priority = Prio
  /\ shuffled = FALSE
  /\ precedes = {}

\* Mutant: the count is not tested.
TakeAvailable_Unchecked(t) ==
  /\ Live /\ pc[t] = "idle"
  /\ value' = value - 1
  /\ ret' = [ret EXCEPT ![t] = "EOK"]
  /\ UNCHANGED <<ipcVars, pc, orderVars>>

TakeAvailable(t) ==
  /\ Live /\ pc[t] = "idle"
  /\ value > 0
  /\ value' = value - 1
  /\ ret' = [ret EXCEPT ![t] = "EOK"]
  /\ UNCHANGED <<ipcVars, pc, orderVars>>

\* rt_sem_take with time = 0, rt_sem_trytake
TakeFails(t) ==
  /\ Live /\ pc[t] = "idle"
  /\ value = 0
  /\ "zero" \in Times
  /\ ret' = [ret EXCEPT ![t] = "ETIMEOUT"]
  /\ UNCHANGED <<ipcVars, value, pc, orderVars>>

TakeBlocks(t) ==
  /\ Live /\ pc[t] = "idle"
  /\ value = 0
  /\ \E time \in Times \ {"zero"} :
       /\ ListSuspend(Sem, t, Flag, current_priority, time)
       /\ pc' = [pc EXCEPT ![t] = IF time = "finite" THEN "timed" ELSE "forever"]
  /\ precedes' = precedes \cup
                 {<<t, u>> : u \in {w \in Elements(Waiters) :
                                     current_priority[t] < current_priority[w]}}
  /\ UNCHANGED <<value, ret, current_priority, shuffled>>

\* Mutant: the error number of the wake-up is not looked at.
TakeReturns_AlwaysOk(t) ==
  /\ ~fault
  /\ pc[t] # "idle"
  /\ stat[t] = "ready"
  /\ pc' = [pc EXCEPT ![t] = "idle"]
  /\ ret' = [ret EXCEPT ![t] = "EOK"]
  /\ UNCHANGED <<ipcVars, value, orderVars>>

\* rt_schedule returned: the thread was resumed and reports its error number.
TakeReturns(t) ==
  /\ ~fault
  /\ pc[t] # "idle"
  /\ stat[t] = "ready"
  /\ pc' = [pc EXCEPT ![t] = "idle"]
  /\ ret' = [ret EXCEPT ![t] = error[t]]
  /\ UNCHANGED <<ipcVars, value, orderVars>>

\* Mutant: the count is increased for a waiter too.
Release_CountsAnyway ==
  /\ Live
  /\ value < MaxValue
  /\ value' = (value + 1) % ValueMod
  /\ IF Waiters # << >> THEN ListResume(Sem) ELSE UNCHANGED ipcVars
  /\ SomeLeave
  /\ UNCHANGED <<pc, ret>>

\* rt_sem_release, by a thread outside rt_sem_take or by an interrupt.
Release ==
  /\ Live
  /\ value < MaxValue
  /\ IF Waiters # << >>
     THEN ListResume(Sem) /\ UNCHANGED value
     ELSE /\ value' = (value + 1) % ValueMod
          /\ UNCHANGED ipcVars
  /\ SomeLeave
  /\ UNCHANGED <<pc, ret>>

\* rt_sem_control(RT_IPC_CMD_RESET), one region with interrupts disabled.
Reset(v) ==
  /\ Live
  /\ ListResumeAll(Sem)
  /\ value' = v % ValueMod
  /\ SomeLeave
  /\ UNCHANGED <<pc, ret>>

(* A thread gets another priority: rt_thread_control (thread.c:572-613) or *)
(* a mutex it holds (ipc.c:724).  One that waits stays where it stands.    *)
ChangePriority(t, p) ==
  /\ ~fault
  /\ current_priority' = [current_priority EXCEPT ![t] = p]
  /\ shuffled' = (shuffled \/ (t \in Elements(Waiters) /\ p # current_priority[t]))
  /\ UNCHANGED <<ipcVars, value, pc, ret, precedes>>

\* rt_sem_detach and rt_sem_delete: no call begins on the semaphore after that.
Delete == ~fault /\ BeginTeardown(Sem) /\ UNCHANGED semVars

DeleteStep == TeardownStep(Sem) /\ SomeLeave /\ UNCHANGED <<value, pc, ret>>

Timeout(t) == ThreadTimeout(t) /\ SomeLeave /\ UNCHANGED <<value, pc, ret>>

Next ==
  \/ \E t \in Threads : \/ TakeAvailable(t) \/ TakeFails(t) \/ TakeBlocks(t)
                        \/ TakeReturns(t) \/ Timeout(t)
                        \/ \E p \in NewPrios[t] : ChangePriority(t, p)
  \/ Release
  \/ \E v \in 0..MaxValue : Reset(v)
  \/ Delete
  \/ DeleteStep

Spec == Init /\ [][Next]_vars

(* The tick interrupt is never masked for good, so every armed timer       *)
(* expires in the end: rt_timer_check runs all expired timers each tick.   *)
FairSpec == Spec /\ \A t \in Threads : WF_vars(Timeout(t))

-----------------------------------------------------------------------------
TypeOK ==
  /\ IpcTypeOK
  /\ value \in 0..(ValueMod - 1)
  /\ pc \in [Threads -> PC]
  /\ ret \in [Threads -> Errors]
  /\ current_priority \in [Threads -> Nat]
  /\ shuffled \in BOOLEAN
  /\ precedes \subseteq Threads \X Threads

(* A thread never sleeps on a semaphore that could be taken: whatever      *)
(* timeouts, resets and releases do, units and waiters exclude each other  *)
(* (rt_sem_take tests value, rt_sem_release tests the list: ipc.c:341,     *)
(* :453).                                                                  *)
NoUnitWhileWaiting == value > 0 => Waiters = << >>

(* A wake-up, whoever makes it, leaves no other trace of the wait: the     *)
(* thread is out of the list and its timer is stopped, so neither a later  *)
(* release nor a late tick can reach it (thread.c:727-730, :763-767).      *)
CleanWakeup == SuspendedIffWaiting /\ ArmedOnlyWhileSuspended

(* With RT_IPC_FLAG_PRIO a unit never goes past a waiter that came later   *)
(* but was then the more urgent of the two, whatever timeouts took out of  *)
(* the list and whatever priorities changed since (ipc.c:92-117).  It goes *)
(* to a waiter of the highest priority, unless a waiter's priority was     *)
(* changed: the code leaves such a thread where it stands (thread.c:597,   *)
(* ipc.c:724), and the order stays wrong until the list is empty.          *)
HighestPriorityFirst ==
  [][\A t \in Threads :
       stat[t] = "suspend" /\ stat'[t] = "ready" /\ error'[t] = "EOK" =>
         \A u \in Elements(Waiters') :
           /\ <<u, t>> \notin precedes
           /\ ~shuffled => current_priority[t] <= current_priority[u]]_vars

(* rt_sem_take with a finite time cannot sleep for ever: its timer is      *)
(* armed after the suspension that stops timers (ipc.c:374-391).           *)
TimedTakeWakes == \A t \in Threads : (pc[t] = "timed") ~> (stat[t] = "ready")

\* Nobody that arrives later goes before t or before a thread ahead of t.
FirstComeFirstServed(t) ==
  \/ Flag = "FIFO"
  \/ /\ \A u \in Threads : current_priority[t] <= current_priority[u]
     /\ \A i, j \in 1..Len(Waiters) :
          i < j /\ Waiters[j] = t => current_priority[Waiters[i]] = current_priority[t]

(* A waiter that in the end no other thread may overtake, because the list *)
(* is FIFO or because none has a higher priority and no thread of a lower  *)
(* one stands ahead of it, is resumed as long as units keep arriving       *)
(* (ipc.c:89, :95-117, :453-458).                                          *)
NoStarvation ==
  []<><<Release>>_vars =>
    \A t \in Threads : <>[]FirstComeFirstServed(t) =>
      ((pc[t] = "forever") ~> (stat[t] = "ready"))

(* Teardown never resumes a thread that is not there: the object resumed   *)
(* is a thread (the assertion of thread.c:712).                            *)
ResumesOnlyThreads == ~fault

-----------------------------------------------------------------------------
\* The inductive invariant behind the safety properties.
CallsMatchStat == \A t \in Threads : pc[t] = "idle" => stat[t] = "ready"

\* No thread stands in q before one that precedes it in r.
InPrecedence(q, r) ==
  \A i, j \in 1..Len(q) : i < j => <<q[j], q[i]>> \notin r

WaitersOrdered ==
  /\ \A p \in precedes : {p[1], p[2]} \subseteq Elements(Waiters)
  /\ Flag = "PRIO" => /\ InPrecedence(Waiters, precedes)
                      /\ ~shuffled => OrderedBy(Waiters, current_priority)

Inv ==
  /\ TypeOK
  /\ IpcInv
  /\ NoUnitWhileWaiting
  /\ CallsMatchStat
  /\ WaitersOrdered

\* With no timed wait nothing empties the list between the test and the resume.
TestStaysTrue ==
  "finite" \notin Times =>
    /\ \A t \in Threads : ~thread_timer[t]
    /\ teardown[Sem] = "resume" => Waiters # << >>
    /\ ~fault

-----------------------------------------------------------------------------
(* The code as an implementation of CountingSemaphore: a waiter resumed    *)
(* with RT_EOK has been granted a unit, any other has been refused.        *)
phaseBar ==
  [t \in Threads |-> IF pc[t] = "idle" THEN "idle"
                     ELSE IF stat[t] = "suspend" THEN "asking"
                     ELSE IF error[t] = "EOK" THEN "granted" ELSE "refused"]

Abstract == INSTANCE CountingSemaphore
              WITH units <- value, phase <- phaseBar, answer <- ret

ImplementsCountingSemaphore == Abstract!Spec

\* Why a wake-up tells whether a unit came with it: only waiters that are given up
\* get another error number, and a wait begins with none.
ErrorsTell ==
  /\ \A t \in Threads : error[t] # "EFULL"
  /\ \A t \in Elements(Waiters) : error[t] = "EOK"
=============================================================================
