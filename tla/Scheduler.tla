----------------------------- MODULE Scheduler -----------------------------
(***************************************************************************)
(* Threads and the scheduler of one processor (scheduler.c 162-940,        *)
(* thread.c 80-771, idle.c 149-229): the ready table and its bitmap, the   *)
(* life of a thread from rt_thread_init to the idle thread that frees it,  *)
(* and the interrupts that preempt any of it.                              *)
(*                                                                         *)
(* Only the current thread takes steps; an interrupt may come between any  *)
(* two of them.  A region with interrupts disabled is one step, and so is  *)
(* an interrupt handler.                                                   *)
(***************************************************************************)
EXTENDS Integers, Sequences, RtList

CONSTANTS Threads,   \* the thread objects, the idle thread among them
          Idle,      \* tidle
          Main,      \* the thread that runs first
          InitPrio,  \* [Threads -> Nat], init_priority, 0 is the highest
          Static,    \* threads initialised with rt_thread_init and no cleanup
          InitTick,  \* the time slice of every thread
          NewPrios,  \* priorities given with RT_THREAD_CTRL_CHANGE_PRIORITY
          MaxNest,   \* deepest rt_enter_critical, a bound of the model
          CallSets,  \* each a set of the calls an application may make
          None

AllCalls == {"block", "timed", "wake", "irq", "suspend", "resume", "delete", "exit",
             "lock", "priority"}

ASSUME SchedulerAssumption ==
  /\ Idle \in Threads /\ Main \in Threads \ {Idle} /\ None \notin Threads
  /\ InitPrio \in [Threads -> Nat]
  /\ NewPrios \subseteq Nat
  /\ \A t \in Threads : InitPrio[t] <= InitPrio[Idle]
  /\ Static \subseteq Threads \ {Idle}
  /\ InitTick \in Nat \ {0} /\ MaxNest \in Nat
  /\ CallSets \subseteq SUBSET AllCalls

(* The state only touched with interrupts disabled, a record so that the   *)
(* functions of the kernel compose as they call each other:                *)
(*   stat       [Threads -> Stats], "none" for memory that holds no thread *)
(*   prio       [Threads -> Nat], current_priority                         *)
(*   table      [Prios -> Seq(Threads)], rt_thread_priority_table          *)
(*   group      the set of bits of rt_thread_ready_priority_group          *)
(*   current    rt_current_thread                                          *)
(*   lock_nest  rt_scheduler_lock_nest                                     *)
(*   waiting    the threads linked in the list of some kernel object       *)
(*   defunct    rt_thread_defunct                                          *)
(*   broken     a thread was linked in a second list, or the head of an    *)
(*              empty queue was taken for one: the lists are lost          *)
VARIABLES k,
          thread_timer,    \* [Threads -> BOOLEAN], the thread timer is activated
          remaining_tick,  \* [Threads -> 0..InitTick]
          pc,              \* [Threads -> PC], the kernel call a thread is inside of
          arg,             \* the thread that call is about
          overtaken,       \* history: another step undid what an open call had established
          calls            \* what the application does, one of CallSets

vars == <<k, thread_timer, remaining_tick, pc, arg>>

Prios == {InitPrio[t] : t \in Threads} \cup NewPrios

Stats == {"none", "init", "ready", "suspend", "running", "close"}

(* run: outside the kernel.  schedule: about to call rt_schedule.  The     *)
(* others: about to run the next region of a call that takes several.      *)
PC == {"run", "schedule", "suspend", "resume", "insert", "detach", "close", "defunct", "free"}

-----------------------------------------------------------------------------
InTable(s, t) == \E p \in Prios : t \in Elements(s.table[p])

InDefunct(s, t) == t \in Elements(s.defunct)

Linked(s, t) == InTable(s, t) \/ t \in s.waiting \/ InDefunct(s, t)

\* rt_list_remove on the thread's node, whichever list that is in.
Unlinked(s, t) ==
  [s EXCEPT !.table = [p \in Prios |-> Unlink(s.table[p], t)],
            !.waiting = @ \ {t},
            !.defunct = Unlink(@, t)]

\* rt_schedule_insert_thread
Insert(s, t) ==
  IF t = s.current
  THEN [s EXCEPT !.stat[t] = "running"]
  ELSE [s EXCEPT !.stat[t] = "ready",
                 !.table[s.prio[t]] = Append(@, t),
                 !.group = @ \cup {s.prio[t]},
                 !.broken = @ \/ Linked(s, t)]

\* rt_schedule_remove_thread
Remove(s, t) ==
  LET u == Unlinked(s, t)
  IN  [u EXCEPT !.group = IF u.table[s.prio[t]] = << >> THEN @ \ {s.prio[t]} ELSE @]

\* The lowest bit set: __rt_ffs.
HighestReady(s) == CHOOSE p \in s.group : \A q \in s.group : p <= q

\* Mutants: the lock is not tested; an equal priority does not displace the thread.
Schedule_Unlocked(s) ==
  IF s.group = {} THEN s
  ELSE LET hp == HighestReady(s)
           goesOn == s.stat[s.current] = "running"
           to == IF goesOn /\ s.prio[s.current] < hp
                 THEN s.current ELSE Head(s.table[hp])
           left == IF to # s.current /\ goesOn
                   THEN Insert([s EXCEPT !.current = to], s.current)
                   ELSE [s EXCEPT !.current = to]
       IN  [Remove(left, to) EXCEPT !.stat[to] = "running"]

Schedule_NoRotation(s) ==
  IF s.lock_nest # 0 \/ s.group = {} THEN s
  ELSE LET hp == HighestReady(s)
           goesOn == s.stat[s.current] = "running"
           to == IF goesOn /\ s.prio[s.current] <= hp
                 THEN s.current ELSE Head(s.table[hp])
           left == IF to # s.current /\ goesOn
                   THEN Insert([s EXCEPT !.current = to], s.current)
                   ELSE [s EXCEPT !.current = to]
       IN  [Remove(left, to) EXCEPT !.stat[to] = "running"]

\* rt_schedule, with the context switch it makes or pends.
Schedule(s) ==
  IF s.lock_nest # 0 \/ s.group = {} THEN s
  ELSE LET hp == HighestReady(s)
           goesOn == s.stat[s.current] = "running"
           to == IF goesOn /\ s.prio[s.current] < hp
                 THEN s.current ELSE Head(s.table[hp])
           left == IF to # s.current /\ goesOn
                   THEN Insert([s EXCEPT !.current = to], s.current)
                   ELSE [s EXCEPT !.current = to]
       IN  IF s.table[hp] = << >> THEN [s EXCEPT !.broken = TRUE]
           ELSE [Remove(left, to) EXCEPT !.stat[to] = "running"]

-----------------------------------------------------------------------------
(* rt_system_scheduler_start has switched to Main; the idle thread is      *)
(* ready and the other threads have been initialised.                      *)
Init ==
  /\ k = [stat |-> [t \in Threads |-> IF t = Main THEN "running"
                                      ELSE IF t = Idle THEN "ready" ELSE "init"],
          prio |-> InitPrio,
          table |-> [p \in Prios |-> IF p = InitPrio[Idle] THEN <<Idle>> ELSE << >>],
          group |-> {InitPrio[Idle]},
          current |-> Main,
          lock_nest |-> 0,
          waiting |-> {},
          defunct |-> << >>,
          broken |-> FALSE]
  /\ thread_timer = [t \in Threads |-> FALSE]
  /\ remaining_tick = [t \in Threads |-> InitTick]
  /\ pc = [t \in Threads |-> "run"]
  /\ arg = [t \in Threads |-> None]
  /\ overtaken = FALSE
  /\ calls \in CallSets

Cur == k.current
Stat(t) == k.stat[t]

\* The current thread is outside the kernel and may make the call c.
MayCall(c) == ~k.broken /\ pc[Cur] = "run" /\ c \in calls

\* Calls that give up the processor are not made with the scheduler locked, nor by idle.
MayBlock(c) == MayCall(c) /\ Cur # Idle /\ k.lock_nest = 0 /\ Stat(Cur) = "running"

\* The current thread enters region r of a call about thread t.
Enter(r, t) == /\ pc' = [pc EXCEPT ![Cur] = r]
               /\ arg' = [arg EXCEPT ![Cur] = t]

\* The rt_schedule that ends a call or is one: rt_thread_yield.
DoSchedule ==
  /\ ~k.broken
  /\ pc[Cur] \in {"run", "schedule"}
  /\ k' = Schedule(k)
  /\ pc' = [pc EXCEPT ![Cur] = "run"]
  /\ UNCHANGED <<thread_timer, remaining_tick, arg>>

(* rt_thread_suspend on itself; then perhaps a place in the list of a      *)
(* kernel object, perhaps the thread timer: rt_thread_sleep and every      *)
(* blocking call.                                                          *)
Block(listed, timed) ==
  /\ MayBlock("block")
  /\ timed => "timed" \in calls
  /\ k' = [Remove(k, Cur) EXCEPT !.stat[Cur] = "suspend",
                                 !.waiting = IF listed THEN @ \cup {Cur} ELSE @]
  /\ thread_timer' = [thread_timer EXCEPT ![Cur] = timed]
  /\ Enter("schedule", None)
  /\ UNCHANGED remaining_tick

\* t suspended itself and is not back from that: what kernel objects and drivers wake.
Sleeps(t) == Stat(t) = "suspend" /\ pc[t] = "schedule"

\* rt_thread_resume with interrupts disabled, as every kernel object calls it.
Wake(t) ==
  /\ MayCall("wake")
  /\ Sleeps(t)
  /\ k' = Insert(Unlinked(k, t), t)
  /\ thread_timer' = [thread_timer EXCEPT ![t] = FALSE]
  /\ Enter("schedule", None)
  /\ UNCHANGED remaining_tick

(* rt_thread_startup makes the thread look suspended; the rest is the      *)
(* rt_thread_resume it calls, in its regions (ResumeRegion, ResumeInsert). *)
(* The test of stat there (thread.c:716) is made together with the write.  *)
Startup(t) ==
  /\ ~k.broken /\ pc[Cur] = "run"
  /\ Stat(t) = "init"
  /\ k' = [k EXCEPT !.prio[t] = InitPrio[t], !.stat[t] = "suspend"]
  /\ Enter("resume", t)
  /\ UNCHANGED <<thread_timer, remaining_tick>>

\* rt_thread_create in freed memory, rt_thread_init on a thread that is closed.
Create(t) ==
  /\ ~k.broken /\ pc[Cur] = "run"
  /\ Stat(t) = "none" \/ (t \in Static /\ Stat(t) = "close" /\ t # Cur)
  /\ k' = [k EXCEPT !.stat[t] = "init", !.prio[t] = InitPrio[t]]
  /\ thread_timer' = [thread_timer EXCEPT ![t] = FALSE]
  /\ remaining_tick' = [remaining_tick EXCEPT ![t] = InitTick]
  /\ pc' = [pc EXCEPT ![t] = "run"]
  /\ arg' = [arg EXCEPT ![t] = None]

\* Mutant: the thread is not handed to idle.
Exit_NotDefunct ==
  /\ MayBlock("exit")
  /\ k' = [Remove(k, Cur) EXCEPT !.stat[Cur] = "close"]
  /\ thread_timer' = [thread_timer EXCEPT ![Cur] = FALSE]
  /\ Enter("schedule", None)
  /\ UNCHANGED remaining_tick

\* rt_thread_exit, which the return of the thread's function leads to.
Exit ==
  /\ MayBlock("exit")
  /\ k' = [Remove(k, Cur) EXCEPT !.stat[Cur] = "close",
                                 !.defunct = IF Cur \in Static THEN @ ELSE <<Cur>> \o @]
  /\ thread_timer' = [thread_timer EXCEPT ![Cur] = FALSE]
  /\ Enter("schedule", None)
  /\ UNCHANGED remaining_tick

\* Mutant: the priority is set before the thread leaves its queue.
ChangePriority_SetFirst(t, p) ==
  /\ MayCall("priority") /\ t # Idle
  /\ Stat(t) \in {"ready", "running", "suspend"}
  /\ k' = IF Stat(t) = "ready"
          THEN Insert(Remove([k EXCEPT !.prio[t] = p], t), t)
          ELSE [k EXCEPT !.prio[t] = p]
  /\ UNCHANGED <<thread_timer, remaining_tick, pc, arg>>

\* RT_THREAD_CTRL_CHANGE_PRIORITY; no rt_schedule follows.
ChangePriority(t, p) ==
  /\ MayCall("priority") /\ t # Idle
  /\ Stat(t) \in {"ready", "running", "suspend"}
  /\ k' = IF Stat(t) = "ready"
          THEN Insert([Remove(k, t) EXCEPT !.prio[t] = p], t)
          ELSE [k EXCEPT !.prio[t] = p]
  /\ UNCHANGED <<thread_timer, remaining_tick, pc, arg>>

EnterCritical ==
  /\ MayCall("lock")
  /\ k.lock_nest < MaxNest
  /\ k' = [k EXCEPT !.lock_nest = @ + 1]
  /\ UNCHANGED <<thread_timer, remaining_tick, pc, arg>>

\* Mutant: nothing is scheduled after the unlock.
ExitCritical_NoSchedule ==
  /\ MayCall("lock")
  /\ k' = [k EXCEPT !.lock_nest = IF @ <= 1 THEN 0 ELSE @ - 1]
  /\ UNCHANGED <<thread_timer, remaining_tick, pc, arg>>

\* rt_exit_critical; an unbalanced call leaves the nest at 0.
ExitCritical ==
  /\ MayCall("lock")
  /\ k' = [k EXCEPT !.lock_nest = IF @ <= 1 THEN 0 ELSE @ - 1]
  /\ IF k.lock_nest <= 1 THEN Enter("schedule", None) ELSE UNCHANGED <<pc, arg>>
  /\ UNCHANGED <<thread_timer, remaining_tick>>

-----------------------------------------------------------------------------
(* The calls that take several regions when interrupts are enabled.        *)

\* rt_thread_suspend(t) has seen t ready.
SuspendOther(t) ==
  /\ MayCall("suspend")
  /\ t # Idle /\ t # Cur /\ Stat(t) = "ready"
  /\ Enter("suspend", t)
  /\ UNCHANGED <<k, thread_timer, remaining_tick>>

SuspendRegion ==
  /\ ~k.broken /\ pc[Cur] = "suspend"
  /\ LET t == arg[Cur]
     IN  /\ k' = [Remove(k, t) EXCEPT !.stat[t] = "suspend"]
         /\ thread_timer' = [thread_timer EXCEPT ![t] = FALSE]
  /\ Enter("run", None)
  /\ UNCHANGED remaining_tick

\* rt_thread_resume(t) has seen t suspended.
Resume(t) ==
  /\ MayCall("resume")
  /\ Stat(t) = "suspend"
  /\ Enter("resume", t)
  /\ UNCHANGED <<k, thread_timer, remaining_tick>>

\* Mutant: the thread is not taken out of the list it waits in.
ResumeRegion_StaysLinked ==
  /\ ~k.broken /\ pc[Cur] = "resume"
  /\ thread_timer' = [thread_timer EXCEPT ![arg[Cur]] = FALSE]
  /\ pc' = [pc EXCEPT ![Cur] = "insert"]
  /\ UNCHANGED <<k, remaining_tick, arg>>

ResumeRegion ==
  /\ ~k.broken /\ pc[Cur] = "resume"
  /\ k' = Unlinked(k, arg[Cur])
  /\ thread_timer' = [thread_timer EXCEPT ![arg[Cur]] = FALSE]
  /\ pc' = [pc EXCEPT ![Cur] = "insert"]
  /\ UNCHANGED <<remaining_tick, arg>>

ResumeInsert ==
  /\ ~k.broken /\ pc[Cur] = "insert"
  /\ k' = Insert(k, arg[Cur])
  /\ Enter("schedule", None)
  /\ UNCHANGED <<thread_timer, remaining_tick>>

\* rt_thread_delete or rt_thread_detach of another thread: out of the scheduler,
Delete(t) ==
  /\ MayCall("delete")
  /\ t \notin {Idle, Main, Cur}
  /\ Stat(t) \in {"init", "ready", "suspend"}
  /\ k' = IF Stat(t) = "init" THEN k ELSE Remove(k, t)
  /\ Enter("detach", t)
  /\ UNCHANGED <<thread_timer, remaining_tick>>

\* then its timer detached,
DeleteDetach ==
  /\ ~k.broken /\ pc[Cur] = "detach"
  /\ thread_timer' = [thread_timer EXCEPT ![arg[Cur]] = FALSE]
  /\ pc' = [pc EXCEPT ![Cur] = "close"]
  /\ UNCHANGED <<k, remaining_tick, arg>>

\* then its stat set,
DeleteClose ==
  /\ ~k.broken /\ pc[Cur] = "close"
  /\ k' = [k EXCEPT !.stat[arg[Cur]] = "close"]
  /\ pc' = [pc EXCEPT ![Cur] = "defunct"]
  /\ UNCHANGED <<thread_timer, remaining_tick, arg>>

\* and last its object handed to the idle thread.
DeleteDefunct ==
  /\ ~k.broken /\ pc[Cur] = "defunct"
  /\ LET t == arg[Cur]
     IN  k' = IF t \in Static THEN k
              ELSE [k EXCEPT !.defunct = <<t>> \o @, !.broken = @ \/ Linked(k, t)]
  /\ Enter("run", None)
  /\ UNCHANGED <<thread_timer, remaining_tick>>

\* Mutant: the thread to free stays in the list.
IdleTakes_StaysLinked ==
  /\ ~k.broken /\ Cur = Idle /\ pc[Idle] = "run"
  /\ k.defunct # << >>
  /\ k' = Schedule(k)
  /\ Enter("free", Head(k.defunct))
  /\ UNCHANGED <<thread_timer, remaining_tick>>

(* rt_thread_idle_excute takes a defunct thread out of the list; the       *)
(* rt_exit_critical it calls with interrupts disabled reschedules.  The    *)
(* branch for system objects (idle.c:193-205) is never taken: the threads  *)
(* of that kind, those in Static, have no cleanup and are not in the list. *)
IdleTakes ==
  /\ ~k.broken /\ Cur = Idle /\ pc[Idle] = "run"
  /\ k.defunct # << >>
  /\ k' = Schedule([k EXCEPT !.defunct = Tail(@)])
  /\ Enter("free", Head(k.defunct))
  /\ UNCHANGED <<thread_timer, remaining_tick>>

\* The stack and the thread object go back to the heap.
IdleFrees ==
  /\ ~k.broken /\ Cur = Idle /\ pc[Idle] = "free"
  /\ k' = [k EXCEPT !.stat[arg[Idle]] = "none"]
  /\ Enter("run", None)
  /\ UNCHANGED <<thread_timer, remaining_tick>>

-----------------------------------------------------------------------------
(* Interrupts.                                                             *)

\* rt_tick_increase: the time slice of the current thread.
Tick ==
  /\ ~k.broken
  /\ LET left == remaining_tick[Cur] - 1
     IN  /\ remaining_tick' = [remaining_tick EXCEPT ![Cur] = IF left = 0 THEN InitTick ELSE left]
         /\ k' = IF left = 0 THEN Schedule(k) ELSE k
  /\ UNCHANGED <<thread_timer, pc, arg>>

\* rt_timer_check runs rt_thread_timeout for t.
Timeout(t) ==
  /\ ~k.broken
  /\ thread_timer[t]
  /\ thread_timer' = [thread_timer EXCEPT ![t] = FALSE]
  /\ k' = Schedule(Insert(Unlinked(k, t), t))
  /\ UNCHANGED <<remaining_tick, pc, arg>>

\* A device interrupt resumes a thread: rt_thread_resume and rt_schedule.
IrqWake(t) ==
  /\ ~k.broken
  /\ "irq" \in calls
  /\ Sleeps(t)
  /\ thread_timer' = [thread_timer EXCEPT ![t] = FALSE]
  /\ k' = Schedule(Insert(Unlinked(k, t), t))
  /\ UNCHANGED <<remaining_tick, pc, arg>>

ThreadStep ==
  \/ DoSchedule \/ Exit \/ EnterCritical \/ ExitCritical
  \/ \E listed, timed \in BOOLEAN : Block(listed, timed)
  \/ \E t \in Threads : \/ Wake(t) \/ Startup(t) \/ Create(t)
                        \/ SuspendOther(t) \/ Resume(t) \/ Delete(t)
                        \/ \E p \in NewPrios : ChangePriority(t, p)
  \/ SuspendRegion \/ ResumeRegion \/ ResumeInsert
  \/ DeleteDetach \/ DeleteClose \/ DeleteDefunct
  \/ IdleTakes \/ IdleFrees

Interrupt == Tick \/ \E t \in Threads : Timeout(t) \/ IrqWake(t)

-----------------------------------------------------------------------------
Regions == {"suspend", "resume", "insert", "detach", "close", "defunct"}

(* What a call of several regions has established about the thread t it is *)
(* about, in a state s of the kernel with the timers tm.                   *)
Established(s, tm, region, t) ==
  /\ t \in Threads \ {Idle}
  /\ region = "suspend" => s.stat[t] \in {"ready", "running"}
  /\ region \in {"resume", "insert"} => s.stat[t] = "suspend"
  /\ region \in {"detach", "close"} => s.stat[t] \in {"init", "ready", "suspend"}
  /\ region = "defunct" => s.stat[t] = "close"
  /\ region \in {"insert", "detach", "close", "defunct"} => ~Linked(s, t)
  /\ region \in {"insert", "close"} => ~tm[t]

(* The call u is inside of can go on as it would alone: u has not been     *)
(* closed, and the thread the call is about is as its last region left it. *)
GoesOn(s, tm, p, a, u) ==
  /\ s.stat[u] \in {"ready", "running", "suspend"} /\ a[u] # u
  /\ Established(s, tm, p[u], a[u])
  /\ p[u] = "defunct" /\ p[Idle] = "free" => a[u] # a[Idle]

\* A step between two regions of u's call, by another thread or an interrupt, undoes that.
Overtakes ==
  \E u \in Threads :
    /\ pc[u] \in Regions /\ pc'[u] = pc[u]
    /\ GoesOn(k, thread_timer, pc, arg, u)
    /\ ~GoesOn(k', thread_timer', pc', arg', u)

Next ==
  /\ ThreadStep \/ Interrupt
  /\ overtaken' = (overtaken \/ Overtakes)
  /\ UNCHANGED calls

Spec == Init /\ [][Next]_<<vars, overtaken, calls>>

(* The tick interrupt keeps coming, and the idle thread, if it gets the    *)
(* processor again and again, gets through its calls and round its loop.   *)
IdleGoesOn == Cur = Idle /\ pc[Idle] # "run" /\ ThreadStep

FairSpec == Spec /\ WF_vars(Tick) /\ SF_vars(IdleTakes) /\ SF_vars(IdleGoesOn)

-----------------------------------------------------------------------------
KState ==
  [stat : [Threads -> Stats], prio : [Threads -> Prios], table : [Prios -> Seq(Threads)],
   group : SUBSET Prios, current : Threads, lock_nest : 0..MaxNest,
   waiting : SUBSET Threads, defunct : Seq(Threads), broken : BOOLEAN]

TypeOK ==
  /\ k \in KState
  /\ thread_timer \in [Threads -> BOOLEAN]
  /\ remaining_tick \in [Threads -> 1..InitTick]
  /\ pc \in [Threads -> PC]
  /\ arg \in [Threads -> Threads \cup {None}]
  /\ \A t \in Threads : pc[t] \in Regions \cup {"free"} => arg[t] \in Threads
  /\ overtaken \in BOOLEAN
  /\ calls \in CallSets

(* The bitmap says exactly which queues of the ready table have threads,   *)
(* whatever suspends, resumes, deletes or re-prioritises them: a stale bit *)
(* makes rt_schedule switch to a list head, a missing one starves a queue  *)
(* (scheduler.c:717, :800-810, thread.c:577-596).                          *)
GroupMatchesTable == k.group = {p \in Prios : k.table[p] # << >>}

\* rt_thread_delete has taken t out of the scheduler and not yet closed it.
BeingDeleted(t) == \E u \in Threads : arg[u] = t /\ pc[u] \in {"detach", "close"}

(* The ready threads are the ones in the table, each once, in the queue of *)
(* its current priority and in no other list (scheduler.c:707).            *)
ReadyInOneQueue ==
  /\ \A t \in Threads : /\ InTable(k, t) => Stat(t) = "ready"
                        /\ Stat(t) = "ready" => InTable(k, t) \/ BeingDeleted(t)
  /\ \A p \in Prios : \A i \in 1..Len(k.table[p]) :
       LET t == k.table[p][i]
       IN  /\ k.prio[t] = p /\ t \notin k.waiting /\ ~InDefunct(k, t)
           /\ \A j \in 1..Len(k.table[p]) : k.table[p][j] = t => i = j

\* With the scheduler unlocked and no rt_schedule pending, no ready thread is
\* above the current one.
HighestIsCurrent ==
  k.lock_nest = 0 /\ pc[Cur] # "schedule" =>
    /\ Stat(Cur) = "running"
    /\ \A t \in Threads : InTable(k, t) => k.prio[Cur] <= k.prio[t]

(* The scheduler is preemptive: whichever thread or interrupt makes        *)
(* another ready, unlocks or gives up the processor, the highest priority  *)
(* runs next.  Only a change of priority, which does not schedule, can     *)
(* leave a better thread waiting (scheduler.c:411-523, thread.c:595).      *)
HighestRuns ==
  /\ HighestIsCurrent
  /\ [][(/\ HighestIsCurrent /\ ~overtaken'
         /\ ~(\E t \in Threads, p \in NewPrios : ChangePriority(t, p)))
          => HighestIsCurrent']_vars

(* With the types, for the runs: what rt_schedule takes on trust, for as   *)
(* long as no call is overtaken between two of its regions.                *)
ReadyTableConsistent ==
  TypeOK /\ (~overtaken => GroupMatchesTable /\ ReadyInOneQueue)

(* A thread that is closed, freed or not started can never run again: it   *)
(* is not current once the processor is given away, no queue and no object *)
(* holds it and no timer can make it ready (thread.c:89-108, :439-458).    *)
DeadStayDead ==
  \A t \in Threads :
    Stat(t) \in {"none", "init", "close"} =>
      /\ ~InTable(k, t) /\ t \notin k.waiting /\ ~thread_timer[t]
      /\ t = Cur => Stat(t) = "close" /\ pc[t] = "schedule"
      /\ InDefunct(k, t) => Stat(t) = "close"

\* That is so unless a call was overtaken, as a deletion can be by the thread's timer.
DeadIsUnreachable == ~overtaken => DeadStayDead

(* A thread's list node is in one list at a time, and a bit of the bitmap  *)
(* is not left behind, through every preemption between the regions of     *)
(* rt_thread_resume, startup, suspend and delete, unless one of those      *)
(* calls was overtaken: somebody else resumed, suspended, closed or linked *)
(* the very thread it was about before its next region ran (thread.c:716,  *)
(* :728, :736).                                                            *)
BrokenOnlyIfOvertaken == k.broken => overtaken

(* While the scheduler is locked the processor is not given away, neither  *)
(* by calls nor by interrupts (scheduler.c:421, :866).                     *)
LockedKeepsProcessor == [][k.lock_nest > 0 /\ k'.lock_nest > 0 => k'.current = Cur]_vars

(* Threads of one priority take turns: a ready one runs in the end even if *)
(* the others never block (scheduler.c:434, clock.c:86-94).                *)
EqualsTakeTurns ==
  \A t \in Threads \ {Idle} : (Stat(t) = "ready") ~> (Cur = t \/ Stat(t) # "ready")

(* The memory of every thread that ended comes back once threads stop      *)
(* ending and provided the idle thread gets to run; the defunct list is    *)
(* last-in-first-out, so a steady supply of them may hold one back         *)
(* (idle.c:153-228, thread.c:107).                                         *)
DefunctReclaimed ==
  []<>(Cur = Idle) /\ <>[][~Exit]_vars =>
    \A t \in Threads \ Static : (Stat(t) = "close") ~> (Stat(t) = "none")

-----------------------------------------------------------------------------
(* The inductive invariant.  It speaks of the states reached before a call *)
(* is overtaken.                                                           *)

\* The lists of a state, also of one between two functions of the kernel.
Consistent(s) ==
  /\ s \in KState
  /\ s.group = {p \in Prios : s.table[p] # << >>}
  /\ \A p \in Prios :
       /\ NoRepeat(s.table[p])
       /\ \A t \in Elements(s.table[p]) : s.prio[t] = p /\ s.stat[t] = "ready"
  /\ NoRepeat(s.defunct)
  /\ \A t \in Elements(s.defunct) : s.stat[t] = "close" /\ t \notin Static
  /\ \A t \in s.waiting : s.stat[t] = "suspend"

(* The rest is said of a state s of the kernel, with the timers tm, whose  *)
(* threads are at p in calls about the threads a.                          *)

\* Every ready thread is in the table, but for one that is being deleted.
ReadyInTable(s, p, a) ==
  \A t \in Threads :
    s.stat[t] = "ready" => \/ InTable(s, t)
                          \/ \E u \in Threads : a[u] = t /\ p[u] \in {"detach", "close"}

TimersOfSleepers(s, tm) == \A t \in Threads : tm[t] => s.stat[t] = "suspend"

\* Nothing but the current thread runs, and a current thread that does not is
\* about to give up the processor, with something left to run.
CurrentRuns(s, p) ==
  /\ \A t \in Threads : s.stat[t] = "running" => t = s.current
  /\ \/ s.stat[s.current] = "running"
     \/ /\ p[s.current] = "schedule" /\ s.lock_nest = 0
        /\ s.stat[s.current] \in {"suspend", "close"}
  /\ s.stat[Idle] \in {"ready", "running"}

\* Every call between two regions can go on.
RegionsHold(s, tm, p, a) ==
  \A u \in Threads : p[u] \in Regions => GoesOn(s, tm, p, a, u)

\* Only idle frees, a thread nothing refers to any more.
FreeHolds(s, p, a) ==
  \A t \in Threads :
    p[t] = "free" => /\ t = Idle /\ a[t] \in Threads \ Static
                     /\ s.stat[a[t]] = "close" /\ ~Linked(s, a[t])

Sound(s, tm, p, a) ==
  /\ Consistent(s) /\ ~s.broken
  /\ ReadyInTable(s, p, a) /\ TimersOfSleepers(s, tm) /\ CurrentRuns(s, p)
  /\ FreeHolds(s, p, a)

Inv ==
  /\ TypeOK
  /\ ~overtaken => /\ Sound(k, thread_timer, pc, arg)
                   /\ RegionsHold(k, thread_timer, pc, arg)
=============================================================================
