------------------------------ MODULE MCMutex ------------------------------
(* Instances of Mutex for TLC. *)
EXTENDS Mutex

CONSTANTS t1, t2, t3, ma, mb

MCThreads == {t1, t2, t3}
TwoMutexes == {ma, mb}

AllPrioFlags == [m \in Lists |-> "PRIO"]

\* t1 above t2 above t3
MCPrio == [t \in Threads |-> IF t = t1 THEN 1 ELSE IF t = t2 THEN 2 ELSE 3]

\* The threads above the lowest nest their mutexes.
UpperTwo == {t1, t2}

AllTimes == {"zero", "finite", "forever"}
=============================================================================
