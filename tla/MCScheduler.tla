---------------------------- MODULE MCScheduler ----------------------------
(* Instances of Scheduler for TLC. *)
EXTENDS Scheduler

CONSTANTS idle, main, a, b

MCThreads == {idle, main, a, b}

\* All distinct; changes of priority make some equal.
Distinct == [t \in Threads |-> CASE t = a -> 0 [] t = main -> 1 [] t = b -> 2 [] t = idle -> 3]

\* main above a and b, the two of one priority
MCInitPrio == [t \in Threads |-> IF t = idle THEN 3 ELSE IF t = main THEN 1 ELSE 2]
Equal == [t \in Threads |-> IF t = idle THEN 3 ELSE 1]

KernelCalls == {"block", "timed", "wake", "irq", "exit", "lock", "priority"}
ThreadCalls == {"block", "wake", "suspend", "resume", "delete", "exit"}

\* Threads that suspend, resume and delete each other while interrupts and timers wake them and
\* preempt the calls between their regions.
MixedCalls == {"block", "timed", "irq", "suspend", "resume", "delete"}

EitherCalls == {KernelCalls, ThreadCalls, MixedCalls}
TurnCalls == {{"block", "wake", "irq", "exit"}}
TimedDelete == {{"block", "timed", "delete"}}

NoPrios == {}
SomePrios == {1}
OneStatic == {b}
NoStatic == {}
=============================================================================
