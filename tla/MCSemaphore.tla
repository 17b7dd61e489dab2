----------------------------- MODULE MCSemaphore -----------------------------
(* Instances of Semaphore for TLC. *)
EXTENDS Semaphore, FiniteSets

CONSTANTS t1, t2, t3, sem

MCThreads == {t1, t2, t3}
MCLists == {sem}

\* Two threads share the highest priority, so that ties are met.
MCPrio ==
  [t \in Threads |-> IF t = t1 THEN 2 ELSE 1]

\* One of them falls below the third thread and rises again.
MCNewPrios ==
  [t \in Threads |-> IF t = t2 THEN {1, 3} ELSE {}]

AllTimes == {"zero", "finite", "forever"}
=============================================================================
