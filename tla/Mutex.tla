------------------------------- MODULE Mutex -------------------------------
(***************************************************************************)
(* Recursive mutexes with priority inheritance (ipc.c 529-899).  A blocked *)
(* take raises the owner to the caller's priority, the last release gives  *)
(* the owner back the priority it had when it acquired the mutex and makes *)
(* the first waiter the new owner.                                         *)
(***************************************************************************)
EXTENDS Ipc

CONSTANTS Flag,      \* [Lists -> {"FIFO", "PRIO"}], a mutex names its list
          BasePrio,  \* [Threads -> Nat], priorities given at thread creation, 0 is the highest
          HoldMod,   \* the width of hold: 2^8 in the code
          MaxHold,   \* deepest recursive take, a bound of the model
          Nesters,   \* threads that may take a mutex while they own another
          None       \* RT_NULL

ASSUME MutexAssumption ==
  /\ Flag \in [Lists -> {"FIFO", "PRIO"}]
  /\ BasePrio \in [Threads -> 0..254]
  /\ HoldMod \in Nat /\ MaxHold \in 1..(HoldMod - 1)
  /\ Nesters \subseteq Threads
  /\ None \notin Threads /\ None \notin Lists

Mutexes == Lists
NoPrio == 255  \* 0xFF, the original_priority of a free mutex

VARIABLES value,              \* [Mutexes -> 0..1]
          owner,              \* [Mutexes -> Threads \cup {None}]
          original_priority,  \* [Mutexes -> 0..255]
          hold,               \* [Mutexes -> 0..HoldMod - 1]
          prio,               \* [Threads -> Nat], thread->current_priority
          wants,              \* the mutex whose rt_mutex_take has not returned, or None
          depth               \* takes that returned RT_EOK less releases: the caller's view

mutexVars == <<value, owner, original_priority, hold, prio, wants, depth>>
vars == <<ipcVars, mutexVars>>

Init ==
  /\ IpcInit
  /\ value = [m \in Mutexes |-> 1]
  /\ owner = [m \in Mutexes |-> None]
  /\ original_priority = [m \in Mutexes |-> NoPrio]
  /\ hold = [m \in Mutexes |-> 0]
  /\ prio = BasePrio
  /\ wants = [t \in Threads |-> None]
  /\ depth = [t \in Threads |-> [m \in Mutexes |-> 0]]

Waiters(m) == suspend_thread[m]

\* t can call rt_mutex_take or rt_mutex_release on m.
CanCall(t, m) == ~fault /\ teardown[m] = "live" /\ wants[t] = None

\* The callers' discipline the model is parameterised by.
MayTake(t, m) ==
  CanCall(t, m) /\ (t \in Nesters \/ \A k \in Mutexes \ {m} : owner[k] # t)

-----------------------------------------------------------------------------
TakeAgain(t, m) ==
  /\ MayTake(t, m)
  /\ owner[m] = t
  /\ depth[t][m] < MaxHold
  /\ error' = [error EXCEPT ![t] = "EOK"]
  /\ hold' = [hold EXCEPT ![m] = (@ + 1) % HoldMod]
  /\ depth' = [depth EXCEPT ![t][m] = @ + 1]
  /\ UNCHANGED <<stat, thread_timer, suspend_thread, teardown, fault,
                 value, owner, original_priority, prio, wants>>

\* Mutant: the mutex is not tested.
TakeFree_Unchecked(t, m) ==
  /\ MayTake(t, m)
  /\ owner[m] # t
  /\ error' = [error EXCEPT ![t] = "EOK"]
  /\ value' = [value EXCEPT ![m] = @ - 1]
  /\ owner' = [owner EXCEPT ![m] = t]
  /\ original_priority' = [original_priority EXCEPT ![m] = prio[t]]
  /\ hold' = [hold EXCEPT ![m] = (@ + 1) % HoldMod]
  /\ depth' = [depth EXCEPT ![t][m] = @ + 1]
  /\ UNCHANGED <<stat, thread_timer, suspend_thread, teardown, fault, prio, wants>>

TakeFree(t, m) ==
  /\ MayTake(t, m)
  /\ owner[m] # t
  /\ value[m] > 0
  /\ error' = [error EXCEPT ![t] = "EOK"]
  /\ value' = [value EXCEPT ![m] = @ - 1]
  /\ owner' = [owner EXCEPT ![m] = t]
  /\ original_priority' = [original_priority EXCEPT ![m] = prio[t]]
  /\ hold' = [hold EXCEPT ![m] = (@ + 1) % HoldMod]
  /\ depth' = [depth EXCEPT ![t][m] = @ + 1]
  /\ UNCHANGED <<stat, thread_timer, suspend_thread, teardown, fault, prio, wants>>

TakeFails(t, m) ==
  /\ MayTake(t, m)
  /\ owner[m] # t
  /\ value[m] = 0
  /\ "zero" \in Times
  /\ error' = [error EXCEPT ![t] = "ETIMEOUT"]
  /\ UNCHANGED <<stat, thread_timer, suspend_thread, teardown, fault, mutexVars>>

\* Mutant: the owner keeps its priority.
TakeBlocks_NoInheritance(t, m) ==
  /\ MayTake(t, m)
  /\ owner[m] # t
  /\ value[m] = 0
  /\ \E time \in Times \ {"zero"} : ListSuspend(m, t, Flag[m], prio, time)
  /\ wants' = [wants EXCEPT ![t] = m]
  /\ UNCHANGED <<value, owner, original_priority, hold, prio, depth>>

\* The owner inherits the caller's priority before the caller suspends.
TakeBlocks(t, m) ==
  /\ MayTake(t, m)
  /\ owner[m] # t
  /\ value[m] = 0
  /\ prio' = IF prio[t] < prio[owner[m]]
             THEN [prio EXCEPT ![owner[m]] = prio[t]] ELSE prio
  /\ \E time \in Times \ {"zero"} : ListSuspend(m, t, Flag[m], prio', time)
  /\ wants' = [wants EXCEPT ![t] = m]
  /\ UNCHANGED <<value, owner, original_priority, hold, depth>>

\* rt_schedule returned: with RT_EOK the mutex has been handed over.
TakeReturns(t) ==
  /\ ~fault
  /\ wants[t] # None
  /\ stat[t] = "ready"
  /\ wants' = [wants EXCEPT ![t] = None]
  /\ depth' = IF error[t] = "EOK"
              THEN [depth EXCEPT ![t][wants[t]] = @ + 1] ELSE depth
  /\ UNCHANGED <<ipcVars, value, owner, original_priority, hold, prio>>

-----------------------------------------------------------------------------
ReleaseRefused(t, m) ==
  /\ CanCall(t, m)
  /\ owner[m] # t
  /\ error' = [error EXCEPT ![t] = "ERROR"]
  /\ UNCHANGED <<stat, thread_timer, suspend_thread, teardown, fault, mutexVars>>

ReleaseInner(t, m) ==
  /\ CanCall(t, m)
  /\ owner[m] = t
  /\ (hold[m] - 1) % HoldMod # 0
  /\ hold' = [hold EXCEPT ![m] = (@ - 1) % HoldMod]
  /\ depth' = [depth EXCEPT ![t][m] = @ - 1]
  /\ UNCHANGED <<ipcVars, value, owner, original_priority, prio, wants>>

\* Mutant: the owner keeps the priority it inherited.
LastRelease_KeepsBoost(t, m) ==
  /\ CanCall(t, m)
  /\ owner[m] = t
  /\ (hold[m] - 1) % HoldMod = 0
  /\ depth' = [depth EXCEPT ![t][m] = @ - 1]
  /\ UNCHANGED <<prio, wants>>

\* The part of the last release common to both outcomes.
LastRelease(t, m) ==
  /\ CanCall(t, m)
  /\ owner[m] = t
  /\ (hold[m] - 1) % HoldMod = 0
  /\ prio' = [prio EXCEPT ![t] = original_priority[m]]
  /\ depth' = [depth EXCEPT ![t][m] = @ - 1]
  /\ UNCHANGED wants

\* Mutant: the new owner's hold is not set.
ReleaseToWaiter_NoHold(t, m) ==
  /\ LastRelease(t, m)
  /\ Waiters(m) # << >>
  /\ LET next == Head(Waiters(m))
     IN  /\ owner' = [owner EXCEPT ![m] = next]
         /\ original_priority' = [original_priority EXCEPT ![m] = prio'[next]]
  /\ hold' = [hold EXCEPT ![m] = 0]
  /\ ListResume(m)
  /\ UNCHANGED value

ReleaseToWaiter(t, m) ==
  /\ LastRelease(t, m)
  /\ Waiters(m) # << >>
  /\ LET next == Head(Waiters(m))
     IN  /\ owner' = [owner EXCEPT ![m] = next]
         /\ original_priority' = [original_priority EXCEPT ![m] = prio'[next]]
  /\ hold' = [hold EXCEPT ![m] = 1]
  /\ ListResume(m)
  /\ UNCHANGED value

\* Mutant: the owner of the freed mutex is not cleared.
ReleaseToNobody_KeepsOwner(t, m) ==
  /\ LastRelease(t, m)
  /\ Waiters(m) = << >>
  /\ value' = [value EXCEPT ![m] = @ + 1]
  /\ original_priority' = [original_priority EXCEPT ![m] = NoPrio]
  /\ hold' = [hold EXCEPT ![m] = 0]
  /\ UNCHANGED <<ipcVars, owner>>

ReleaseToNobody(t, m) ==
  /\ LastRelease(t, m)
  /\ Waiters(m) = << >>
  /\ value' = [value EXCEPT ![m] = @ + 1]
  /\ owner' = [owner EXCEPT ![m] = None]
  /\ original_priority' = [original_priority EXCEPT ![m] = NoPrio]
  /\ hold' = [hold EXCEPT ![m] = 0]
  /\ UNCHANGED ipcVars

\* rt_mutex_detach and rt_mutex_delete, by a thread that is not modelled further.
Delete(m) == ~fault /\ BeginTeardown(m) /\ UNCHANGED mutexVars

DeleteStep(m) == TeardownStep(m) /\ UNCHANGED mutexVars

Timeout(t) == ThreadTimeout(t) /\ UNCHANGED mutexVars

Next ==
  \/ \E t \in Threads, m \in Mutexes :
       \/ TakeAgain(t, m) \/ TakeFree(t, m) \/ TakeFails(t, m) \/ TakeBlocks(t, m)
       \/ ReleaseRefused(t, m) \/ ReleaseInner(t, m)
       \/ ReleaseToWaiter(t, m) \/ ReleaseToNobody(t, m)
  \/ \E t \in Threads : TakeReturns(t) \/ Timeout(t)
  \/ \E m \in Mutexes : Delete(m) \/ DeleteStep(m)

Spec == Init /\ [][Next]_vars

-----------------------------------------------------------------------------
TypeOK ==
  /\ IpcTypeOK
  /\ value \in [Mutexes -> 0..1]
  /\ owner \in [Mutexes -> Threads \cup {None}]
  /\ original_priority \in [Mutexes -> 0..NoPrio]
  /\ hold \in [Mutexes -> 0..(HoldMod - 1)]
  /\ prio \in [Threads -> 0..NoPrio]
  /\ wants \in [Threads -> Mutexes \cup {None}]
  /\ depth \in [Threads -> [Mutexes -> Nat]]

\* The mutex was handed to t, which has not run since.
Handed(t, m) == wants[t] = m /\ stat[t] = "ready" /\ error[t] = "EOK"

(* Mutual exclusion as the callers see it: a thread believes it holds a    *)
(* mutex exactly when the kernel says so, to the same depth.  A hand-over  *)
(* and the expiry of the new owner's timer cannot both win (ipc.c:851-857, *)
(* :754-760), so no mutex is owned by a thread whose take failed.          *)
OwnersAgree ==
  \A t \in Threads, m \in Mutexes :
    /\ depth[t][m] > 0 => owner[m] = t /\ hold[m] = depth[t][m]
    /\ owner[m] = t /\ depth[t][m] = 0 => Handed(t, m) /\ hold[m] = 1
    /\ Handed(t, m) => owner[m] = t

(* A free mutex is free in every field, and nobody waits for it            *)
(* (ipc.c:691-699, :863-868).                                              *)
FreeMeansFree ==
  \A m \in Mutexes :
    /\ (value[m] = 1) <=> (owner[m] = None)
    /\ (value[m] = 1) <=> (hold[m] = 0)
    /\ value[m] = 1 => Waiters(m) = << >> /\ original_priority[m] = NoPrio

OwnsNothing(t) == \A m \in Mutexes : owner[m] # t

(* A boost does not outlive the ownership that caused it: a thread that    *)
(* never nests has its own priority again when it owns nothing, whatever   *)
(* the others nest (ipc.c:720-727, :832-838).                              *)
PriorityRestored ==
  \A t \in Threads \ Nesters : OwnsNothing(t) => prio[t] = BasePrio[t]

(* The same of every thread: "change the owner thread to original          *)
(* priority" (ipc.c:832).                                                  *)
EveryPriorityRestored ==
  \A t \in Threads : OwnsNothing(t) => prio[t] = BasePrio[t]

(* No priority inversion on a priority-ordered mutex: an owner that does   *)
(* not nest runs at least at the priority of every thread that waits for   *)
(* the mutex and owns none itself (ipc.c:720-727, :852-853).               *)
OwnerInherits ==
  \A m \in Mutexes : \A t \in Elements(Waiters(m)) :
    Flag[m] = "PRIO" /\ OwnsNothing(t) /\ owner[m] \in Threads \ Nesters =>
      prio[owner[m]] <= prio[t]

-----------------------------------------------------------------------------
\* The inductive invariant behind OwnersAgree and FreeMeansFree.
WaitsForOne ==
  \A t \in Threads :
    /\ wants[t] = None => stat[t] = "ready"
    /\ \A m \in Mutexes : /\ t \in Elements(Waiters(m)) => wants[t] = m /\ owner[m] # t
                          /\ wants[t] = m => depth[t][m] = 0
                          /\ depth[t][m] <= MaxHold

\* No answer is ready for a thread that still waits.
WaitersUnanswered ==
  \A m \in Mutexes : \A t \in Elements(Waiters(m)) : error[t] = "EOK"

Inv ==
  /\ TypeOK
  /\ IpcInv
  /\ OwnersAgree
  /\ FreeMeansFree
  /\ WaitsForOne
  /\ WaitersUnanswered

\* What PriorityRestored rests on: a thread that does not nest owns one mutex at
\* most, which has kept the priority the thread was created with.
OwnsAtMostOne ==
  \A t \in Threads \ Nesters, k, m \in Mutexes :
    owner[k] = t /\ (owner[m] = t \/ wants[t] = m) => k = m

OriginalIsBase ==
  \A m \in Mutexes :
    owner[m] \in Threads \ Nesters => original_priority[m] = BasePrio[owner[m]]

RestoreInv ==
  /\ OwnsAtMostOne
  /\ OriginalIsBase
  /\ PriorityRestored

(* What OwnerInherits rests on when a mutex is handed over: ahead of a     *)
(* waiter that owns nothing are only threads of at least its priority.     *)
(* The list as a whole need not be ordered, for the priority of a waiter   *)
(* that owns another mutex may be raised after it has taken its place.     *)
Ownerless == {t \in Threads : OwnsNothing(t)}

Ranked(q, priority, S) ==
  \A i, j \in 1..Len(q) : i < j /\ q[j] \in S => priority[q[i]] <= priority[q[j]]

NoneOvertakes ==
  \A m \in Mutexes : Flag[m] = "PRIO" => Ranked(Waiters(m), prio, Ownerless)

InheritInv == OwnerInherits /\ NoneOvertakes
=============================================================================
