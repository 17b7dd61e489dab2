------------------------------- MODULE Timer -------------------------------
(***************************************************************************)
(* Timers (timer.c): a list ordered by the tick at which each timer runs   *)
(* out, which the tick interrupt walks.  Ticks wrap around, so two of them *)
(* are compared by whether their difference is below half the range.       *)
(* rt_timer_start and rt_timer_stop take several steps, the tick interrupt *)
(* comes between them.  Timers are hard ones and the skip list has one     *)
(* row, as rtconfig.h has it.                                              *)
(***************************************************************************)
EXTENDS Integers, Sequences, RtList

CONSTANTS Timers,
          Owned,    \* those that a thread starts and stops; interrupts do the others
          Ticks,    \* the init_tick of timers
          TickMod,  \* RT_TICK_MAX + 1
          MaxLate   \* the most ticks between rt_tick_get and the insertion

HALF == (TickMod - 1) \div 2   \* RT_TICK_MAX / 2

(* A timer that ran out while it was inserted is compared to one just      *)
(* started; a periodic timer of no ticks would keep the interrupt busy.    *)
ASSUME TimerAssumption ==
  /\ Owned \subseteq Timers
  /\ TickMod \in Nat \ {0} /\ MaxLate \in Nat
  /\ Ticks \subseteq 1..(HALF - MaxLate - 2)

VARIABLES tick,        \* rt_tick
          checking,    \* rt_timer_check runs
          timer_list,  \* rt_timer_list
          timer,       \* [Timers -> Fields]
          pc,          \* [Timers -> Steps], where the call of its owner is
          left,        \* history: the ticks until a started timer has to fire
          rearmed      \* history: the one-shot timers their own callback started

vars == <<tick, checking, timer_list, timer, pc, left, rearmed>>

Fields == [timeout_tick : 0..(TickMod - 1), init_tick : Ticks,
           periodic : BOOLEAN, activated : BOOLEAN]

(* idle; start: rt_timer_start has removed the timer, insert: and computed *)
(* its timeout_tick.  stop: rt_timer_stop has found the timer activated,   *)
(* clear: and removed it.  detached: not initialised.                      *)
Steps == {"idle", "start", "insert", "stop", "clear", "detached"}

Linked(t) == t \in Elements(timer_list)

\* The timers that may be used: no call of their owner is under way.
Free == {t \in Timers : pc[t] = "idle"}

New(i, p) == [timeout_tick |-> 0, init_tick |-> i, periodic |-> p, activated |-> FALSE]

Init ==
  /\ tick = 0 /\ checking = FALSE /\ timer_list = << >>
  /\ timer \in [Timers -> {New(i, p) : i \in Ticks, p \in BOOLEAN}]
  /\ pc = [t \in Timers |-> "idle"]
  /\ left = [t \in Timers |-> 0]
  /\ rearmed = {}

\* Mutant: ticks are compared as if they never wrapped.
Before_NoWrap(a, b) == a <= b

\* Tick a does not come after tick b.
Before(a, b) == (b - a) % TickMod < HALF

-----------------------------------------------------------------------------
(* What a region does to the state <<timer_list, timer, left, rearmed>>,   *)
(* as operators on records, for a callback and the interrupt do several    *)
(* of them in one step.                                                    *)
Now == [list |-> timer_list, timer |-> timer, left |-> left, rearmed |-> rearmed]

Becomes(s) ==
  /\ timer_list' = s.list /\ timer' = s.timer
  /\ left' = s.left /\ rearmed' = s.rearmed

Removed(s, t) == [s EXCEPT !.list = Unlink(@, t),
                           !.left[t] = 0, !.rearmed = @ \ {t}]

Deactivated(s, t) == [s EXCEPT !.timer[t].activated = FALSE]

Timed(s, t) ==
  [s EXCEPT !.timer[t].timeout_tick = (tick + s.timer[t].init_tick) % TickMod,
            !.left[t] = s.timer[t].init_tick]

\* The positions of the timers of s that run out later than t.
Later(s, t) ==
  {i \in 1..Len(s.list) : LET out == s.timer[s.list[i]].timeout_tick
                         IN  /\ out # s.timer[t].timeout_tick
                             /\ Before(s.timer[t].timeout_tick, out)}

\* Before the first timer that runs out later, after those of the same tick.
Position(s, t) ==
  CHOOSE i \in Later(s, t) \cup {Len(s.list) + 1} :
    \A j \in Later(s, t) \cup {Len(s.list) + 1} : i <= j

Inserted(s, t) ==
  [s EXCEPT !.list = InsertAt(@, Position(s, t), t), !.timer[t].activated = TRUE]

\* The whole of rt_timer_start and of rt_timer_stop where nothing interrupts them.
Started(s, t) == Inserted(Timed(Deactivated(Removed(s, t), t), t), t)

Stopped(s, t) == IF s.timer[t].activated THEN Deactivated(Removed(s, t), t) ELSE s

-----------------------------------------------------------------------------
(* rt_tick_increase, without the time slice that Scheduler models.  What   *)
(* follows up to CheckEnds runs in the interrupt.                          *)
TickIncreases ==
  /\ ~checking
  /\ \A t \in Timers : pc[t] = "insert" => left[t] > -MaxLate
  /\ tick' = (tick + 1) % TickMod
  /\ left' = [t \in Timers |-> IF Linked(t) \/ pc[t] = "insert" THEN left[t] - 1 ELSE left[t]]
  /\ checking' = TRUE
  /\ UNCHANGED <<timer_list, timer, pc, rearmed>>

IsDue(t) == Before(timer[t].timeout_tick, tick)

(* What the timeout function of t may do to timers, t among them: nothing, *)
(* start one or stop one.                                                  *)
Callbacks(s, t) == {s} \cup {Started(s, u) : u \in Free \cup {t}}
                       \cup {Stopped(s, u) : u \in Free \cup {t}}

\* Mutant: a one-shot timer that has fired keeps its flag.
Rearmed_StaysActive(s, t) ==
  IF s.timer[t].periodic /\ s.timer[t].activated THEN Started(s, t) ELSE s

\* A periodic timer is started again, unless its callback stopped it.
Rearmed(s, t) ==
  IF s.timer[t].periodic /\ s.timer[t].activated THEN Started(s, t)
  ELSE [Deactivated(s, t) EXCEPT !.rearmed = IF t \in Elements(s.list) THEN @ \cup {t} ELSE @]

CheckFires ==
  /\ checking /\ timer_list # << >>
  /\ LET t == Head(timer_list) IN
       /\ IsDue(t)
       /\ \E s \in Callbacks(Removed(Now, t), t) : Becomes(Rearmed(s, t))
  /\ UNCHANGED <<tick, checking, pc>>

CheckEnds ==
  /\ checking
  /\ timer_list # << >> => ~IsDue(Head(timer_list))
  /\ checking' = FALSE
  /\ UNCHANGED <<tick, timer_list, timer, pc, left, rearmed>>

-----------------------------------------------------------------------------
\* The owner of t is at step p of a call, goes on to q, and the state becomes s.
OwnerSteps(t, p, q, s) ==
  /\ t \in Owned /\ ~checking
  /\ pc[t] = p /\ pc' = [pc EXCEPT ![t] = q]
  /\ Becomes(s)
  /\ UNCHANGED <<tick, checking>>

StartRemoves(t) == OwnerSteps(t, "idle", "start", Deactivated(Removed(Now, t), t))

StartReadsTick(t) == OwnerSteps(t, "start", "insert", Timed(Now, t))

StartInserts(t) == OwnerSteps(t, "insert", "idle", Inserted(Now, t))

\* rt_timer_stop of a timer that is not activated changes nothing.
StopSees(t) == timer[t].activated /\ OwnerSteps(t, "idle", "stop", Now)

StopRemoves(t) == OwnerSteps(t, "stop", "clear", Removed(Now, t))

StopClears(t) == OwnerSteps(t, "clear", "idle", Deactivated(Now, t))

\* Another interrupt starts or stops a timer that no thread owns.
InterruptStarts(t) ==
  t \in Free \ Owned /\ ~checking /\ Becomes(Started(Now, t)) /\ UNCHANGED <<tick, checking, pc>>

InterruptStops(t) ==
  t \in Free \ Owned /\ ~checking /\ Becomes(Stopped(Now, t)) /\ UNCHANGED <<tick, checking, pc>>

(* rt_timer_control.  Its change of the flag is not atomic: callers make   *)
(* it when the timer does not run.                                         *)
Control(t) ==
  /\ t \in Free /\ ~checking
  /\ \/ \E i \in Ticks : timer' = [timer EXCEPT ![t].init_tick = i]
     \/ /\ ~Linked(t)
        /\ \E p \in BOOLEAN : timer' = [timer EXCEPT ![t].periodic = p]
  /\ UNCHANGED <<tick, checking, timer_list, pc, left, rearmed>>

\* rt_timer_detach and rt_timer_delete leave the flag as it is.
Detach(t) ==
  /\ t \in Free /\ ~checking
  /\ pc' = [pc EXCEPT ![t] = "detached"]
  /\ Becomes(Removed(Now, t))
  /\ UNCHANGED <<tick, checking>>

\* rt_timer_init and rt_timer_create.
InitTimer(t) ==
  /\ pc[t] = "detached" /\ ~checking
  /\ pc' = [pc EXCEPT ![t] = "idle"]
  /\ \E i \in Ticks, p \in BOOLEAN : timer' = [timer EXCEPT ![t] = New(i, p)]
  /\ UNCHANGED <<tick, checking, timer_list, left, rearmed>>

Next ==
  \/ TickIncreases \/ CheckFires \/ CheckEnds
  \/ \E t \in Timers :
       \/ StartRemoves(t) \/ StartReadsTick(t) \/ StartInserts(t)
       \/ StopSees(t) \/ StopRemoves(t) \/ StopClears(t)
       \/ InterruptStarts(t) \/ InterruptStops(t)
       \/ Control(t) \/ Detach(t) \/ InitTimer(t)

Spec == Init /\ [][Next]_vars

-----------------------------------------------------------------------------
\* The types of the variables, and how late a timer can be (timer.c:57-105).
TypeOK ==
  /\ tick \in 0..(TickMod - 1) /\ checking \in BOOLEAN
  /\ timer_list \in Seq(Timers) /\ NoRepeat(timer_list)
  /\ timer \in [Timers -> Fields]
  /\ pc \in [Timers -> Steps]
  /\ \A t \in Timers : left[t] <= HALF /\ left[t] >= -MaxLate - 1
  /\ rearmed \subseteq Timers

(* A timer fires when the ticks it was started for have passed and not     *)
(* before, timers that run out earlier fire earlier, and the interrupt     *)
(* leaves none behind, whatever was started or stopped meanwhile and       *)
(* wherever the ticks wrap around (timer.c:343-366, :505-547).             *)
FiresOnTime ==
  [][/\ checking /\ checking' =>
          \A t \in Elements(timer_list) : left[Head(timer_list)] <= left[t]
     /\ checking /\ checking' => left[Head(timer_list)] <= 0
     /\ checking /\ ~checking' => \A t \in Elements(timer_list) : left[t] > 0]_vars

(* Between calls the flag that rt_timer_stop trusts says whether the timer *)
(* is in the list.  The one exception is a one-shot timer that its own     *)
(* callback started: rt_timer_check clears its flag, and rt_timer_stop     *)
(* refuses to stop it though it will fire (timer.c:430, :531-544).         *)
ActiveMeansLinked ==
  /\ TypeOK
  /\ ~checking => \A t \in Free : (Linked(t) /\ t \notin rearmed) = timer[t].activated

-----------------------------------------------------------------------------
(* The inductive invariant.  Its parts are said of the lists and timers s, *)
(* of the tick now and of the steps p of the owners.                       *)
State ==
  [list : Seq(Timers), timer : [Timers -> Fields],
   left : [Timers -> (-MaxLate - 1)..(HALF - MaxLate - 2)], rearmed : SUBSET Timers]

\* The timeout_tick of t is the tick at which nothing is left to wait for.
Tells(s, now, t) == s.timer[t].timeout_tick = (now + s.left[t]) % TickMod

KeepsTime(s, now, p) ==
  \A t \in Timers : t \in Elements(s.list) \/ p[t] = "insert" => Tells(s, now, t)

\* The list is in the order in which the timers fire.
InOrder(s) == NoRepeat(s.list) /\ OrderedBy(s.list, s.left)

\* A call that has removed a timer finds it removed.
CallsHold(s, p) ==
  /\ \A t \in Elements(s.list) : p[t] \in {"idle", "stop"}
  /\ \A t \in Timers : p[t] = "insert" => s.left[t] >= -MaxLate
  /\ s.rearmed \subseteq Elements(s.list)

FlagTells(s, t) == (t \in Elements(s.list) /\ t \notin s.rearmed) = s.timer[t].activated

Sound(s, now, p) ==
  s \in State /\ KeepsTime(s, now, p) /\ InOrder(s) /\ CallsHold(s, p)

\* Only the next interrupt can find a timer one tick later than it was inserted.
NotLate(s) == \A t \in Elements(s.list) : s.left[t] >= -MaxLate

Inv ==
  /\ tick \in 0..(TickMod - 1) /\ checking \in BOOLEAN /\ pc \in [Timers -> Steps]
  /\ Sound(Now, tick, pc)
  /\ \A t \in Free : FlagTells(Now, t)
  /\ ~checking => NotLate(Now)
=============================================================================
