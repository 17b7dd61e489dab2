------------------------------ MODULE MCTimer ------------------------------
(* Instances of Timer for TLC. *)
EXTENDS Timer, TLC

CONSTANTS t1, t2, t3

MCTimers == {t1, t2, t3}
MCOwned == {t1}
MCTicks == {1, 3}
MCSymmetry == Permutations(MCTimers \ MCOwned)

\* The timeout_tick of a timer that is neither linked nor on its way to be is never read.
MCView ==
  <<tick, checking, timer_list, pc, left, rearmed,
    [t \in Timers |-> IF Linked(t) \/ pc[t] = "insert" THEN timer[t]
                      ELSE [timer[t] EXCEPT !.timeout_tick = 0]]>>
=============================================================================
