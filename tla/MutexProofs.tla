---------------------------- MODULE MutexProofs ----------------------------
(***************************************************************************)
(* Proofs about Mutex, for any number of threads and mutexes, any          *)
(* priorities, waiting times, list orders and depth of recursion below the *)
(* width of hold.                                                          *)
(***************************************************************************)
EXTENDS Mutex, IpcProofs

LEMMA ModSmall == \A n \in Nat : n < HoldMod => n % HoldMod = n
BY MutexAssumption

\* The shape of the variables, which every step below relies on.
Shape ==
  /\ value \in [Mutexes -> 0..1]
  /\ owner \in [Mutexes -> Threads \cup {None}]
  /\ original_priority \in [Mutexes -> 0..NoPrio]
  /\ hold \in [Mutexes -> 0..(HoldMod - 1)]
  /\ prio \in [Threads -> 0..NoPrio] /\ prio \in [Threads -> Nat]
  /\ wants \in [Threads -> Mutexes \cup {None}]
  /\ depth \in [Threads -> [Mutexes -> Nat]]
  /\ stat \in [Threads -> {"ready", "suspend"}]
  /\ error \in [Threads -> Errors]
  /\ suspend_thread \in [Mutexes -> Seq(Threads)]
  /\ MaxHold \in Nat /\ HoldMod \in Nat /\ MaxHold < HoldMod /\ 1 <= MaxHold
  /\ None \notin Threads /\ None \notin Mutexes

LEMMA InvShape == Inv => Shape
<1> SUFFICES ASSUME Inv PROVE Shape
  OBVIOUS
<1>1. prio \in [Threads -> 0..NoPrio] /\ prio \in [Threads -> Nat]
  <2>1. prio \in [Threads -> 0..NoPrio]
    BY DEF Inv, TypeOK
  <2> QED
    BY <2>1 DEF NoPrio
<1>2. suspend_thread \in [Mutexes -> Seq(Threads)]
  BY DEF Inv, TypeOK, IpcTypeOK, Mutexes
<1>3. MaxHold \in Nat /\ HoldMod \in Nat /\ MaxHold < HoldMod /\ 1 <= MaxHold
  BY MutexAssumption
<1> QED
  BY <1>1, <1>2, <1>3, MutexAssumption DEF Inv, TypeOK, IpcTypeOK, Mutexes, Shape

LEMMA WaitersSuspended ==
  ASSUME Inv, NEW m \in Mutexes, NEW t \in Elements(Waiters(m))
  PROVE  t \in Threads /\ stat[t] = "suspend"
<1>1. t \in Threads
  BY ElementOfSeq DEF Inv, IpcInv, IpcTypeOK, Waiters, Mutexes, Elements
<1> QED
  BY <1>1 DEF Inv, IpcInv, SuspendedIffWaiting, Waiting, Waiters, Mutexes

LEMMA InitInv == Init => Inv
<1> SUFFICES ASSUME Init PROVE Inv
  OBVIOUS
<1>1. IpcInit /\ IpcInv
  BY IpcInitInv DEF Init
<1>2. \A m \in Mutexes : Waiters(m) = << >> /\ Elements(Waiters(m)) = {}
  BY <1>1, EmptySeq DEF IpcInit, Waiters, Mutexes, Elements
<1>3. TypeOK
  BY <1>1, MutexAssumption DEF Init, TypeOK, IpcInv, NoPrio, Mutexes
<1>4. OwnersAgree /\ FreeMeansFree /\ WaitsForOne /\ WaitersUnanswered
  BY <1>1, <1>2, MutexAssumption
  DEF Init, IpcInit, OwnersAgree, Handed, FreeMeansFree, WaitsForOne, WaitersUnanswered, Mutexes
<1> QED
  BY <1>1, <1>3, <1>4 DEF Inv

(* One lemma per action: it keeps every part of the invariant but the last, *)
(* WaitersUnanswered, which is treated for all actions at once below.       *)
CoreInv ==
  /\ TypeOK
  /\ IpcInv
  /\ OwnersAgree
  /\ FreeMeansFree
  /\ WaitsForOne

LEMMA TakeAgainInv ==
  ASSUME Inv, NEW t \in Threads, NEW m \in Mutexes, TakeAgain(t, m)
  PROVE  CoreInv'
<1>s. Shape
  BY InvShape
<1>0. /\ owner[m] = t /\ wants[t] = None /\ depth[t][m] < MaxHold
      /\ error' = [error EXCEPT ![t] = "EOK"]
      /\ hold' = [hold EXCEPT ![m] = (hold[m] + 1) % HoldMod]
      /\ depth' = [depth EXCEPT ![t][m] = depth[t][m] + 1]
      /\ UNCHANGED <<stat, thread_timer, suspend_thread, teardown, fault,
                     value, owner, original_priority, prio, wants>>
  BY DEF TakeAgain, MayTake, CanCall
<1>1. hold[m] = depth[t][m] /\ depth[t][m] > 0 /\ depth[t][m] \in Nat
  BY <1>0, <1>s DEF Shape, Inv, OwnersAgree, Handed
<1>2. /\ hold'[m] = hold[m] + 1
      /\ hold[m] + 1 \in 1..(HoldMod - 1)
  <2>1. hold[m] + 1 \in Nat /\ hold[m] + 1 < HoldMod
    <3>1. /\ hold[m] \in Nat /\ hold[m] < MaxHold
          /\ MaxHold \in Nat /\ HoldMod \in Nat /\ MaxHold < HoldMod
      BY <1>0, <1>1, <1>s DEF Shape
    <3> QED
      BY <3>1
  <2>2. (hold[m] + 1) % HoldMod = hold[m] + 1
    BY <2>1, ModSmall
  <2>3. hold'[m] = hold[m] + 1
    BY <1>0, <1>s, <2>2 DEF Shape
  <2>4. hold[m] \in Nat /\ HoldMod \in Nat
    BY <1>1, <1>s DEF Shape
  <2> QED
    BY <2>1, <2>3, <2>4
<1>3. /\ \A k \in Mutexes : k # m => hold'[k] = hold[k]
      /\ \A u \in Threads, k \in Mutexes :
           depth'[u][k] = IF u = t /\ k = m THEN depth[t][m] + 1 ELSE depth[u][k]
      /\ hold' \in [Mutexes -> 0..(HoldMod - 1)]
      /\ depth' \in [Threads -> [Mutexes -> Nat]]
  BY <1>0, <1>1, <1>2, <1>s, SMTT(30) DEF Shape
<1>4. /\ error' \in [Threads -> Errors]
      /\ \A u \in Threads : u # t => error'[u] = error[u]
  BY <1>0, <1>s DEF Shape, Errors
<1>5. IpcInv'
  BY <1>0, <1>4 DEF Inv, IpcInv, IpcTypeOK, LinkedOnce, SuspendedIffWaiting,
                    ArmedOnlyWhileSuspended, Waiting
<1>6. TypeOK'
  BY <1>0, <1>3, <1>5 DEF Inv, TypeOK, IpcInv
<1>7. OwnersAgree'
  <2>1. \A u \in Threads, k \in Mutexes : Handed(u, k)' = Handed(u, k)
    BY <1>0, <1>4, <1>s DEF Handed, Shape
  <2>2. \A u \in Threads : u # t => depth'[u][m] = 0 /\ ~Handed(u, m)
    BY <1>0, <1>3, <1>s DEF Shape, Inv, OwnersAgree
  <2>3. ASSUME NEW u \in Threads, NEW k \in Mutexes, k # m
        PROVE  depth'[u][k] = depth[u][k] /\ hold'[k] = hold[k]
    BY <1>3, <2>3
  <2>4. depth'[t][m] = hold'[m] /\ depth'[t][m] > 0
    BY <1>1, <1>2, <1>3
  <2> QED
    BY <1>0, <2>1, <2>2, <2>3, <2>4 DEF Inv, OwnersAgree
<1>8. FreeMeansFree'
  <2>1. value[m] # 1 /\ hold'[m] # 0
    BY <1>0, <1>1, <1>2, <1>s DEF Shape, Inv, FreeMeansFree
  <2>2. UNCHANGED <<value, owner, original_priority, suspend_thread>>
    BY <1>0
  <2>3. \A k \in Mutexes : k # m => hold'[k] = hold[k]
    BY <1>3
  <2> QED
    BY <2>1, <2>2, <2>3, <1>0, <1>s, SMTT(30) DEF Shape, Inv, FreeMeansFree, Waiters
<1>9. WaitsForOne'
  <2>1. \A u \in Threads, k \in Mutexes : depth'[u][k] <= MaxHold
    BY <1>0, <1>1, <1>3, <1>s DEF Shape, Inv, WaitsForOne
  <2>2. \A u \in Threads, k \in Mutexes : wants[u] = k => depth'[u][k] = 0
    BY <1>0, <1>3, <1>s DEF Shape, Inv, WaitsForOne
  <2> QED
    BY <1>0, <2>1, <2>2 DEF Inv, WaitsForOne, Waiters
<1> QED
  BY <1>5, <1>6, <1>7, <1>8, <1>9 DEF CoreInv

LEMMA TakeFreeInv ==
  ASSUME Inv, NEW t \in Threads, NEW m \in Mutexes, TakeFree(t, m)
  PROVE  CoreInv'
<1>s. Shape
  BY InvShape
<1>0. /\ wants[t] = None /\ value[m] > 0
      /\ error' = [error EXCEPT ![t] = "EOK"]
      /\ value' = [value EXCEPT ![m] = value[m] - 1]
      /\ owner' = [owner EXCEPT ![m] = t]
      /\ original_priority' = [original_priority EXCEPT ![m] = prio[t]]
      /\ hold' = [hold EXCEPT ![m] = (hold[m] + 1) % HoldMod]
      /\ depth' = [depth EXCEPT ![t][m] = depth[t][m] + 1]
      /\ UNCHANGED <<stat, thread_timer, suspend_thread, teardown, fault, prio, wants>>
  BY DEF TakeFree, MayTake, CanCall
<1>1. /\ value[m] = 1 /\ owner[m] = None /\ hold[m] = 0
      /\ Waiters(m) = << >> /\ Elements(Waiters(m)) = {}
  <2>1. value[m] = 1
    BY <1>0, <1>s DEF Shape
  <2>2. Waiters(m) = << >> /\ owner[m] = None /\ hold[m] = 0
    BY <2>1 DEF Inv, FreeMeansFree
  <2> QED
    BY <2>1, <2>2, EmptySeq DEF Elements
<1>2. \A u \in Threads : depth[u][m] = 0 /\ ~Handed(u, m)
  BY <1>1, <1>s DEF Shape, Inv, OwnersAgree
<1>3. hold'[m] = 1 /\ value'[m] = 0 /\ owner'[m] = t
  <2>1. (hold[m] + 1) % HoldMod = 1
    BY <1>1, <1>s, ModSmall DEF Shape
  <2> QED
    BY <1>0, <1>1, <1>s, <2>1 DEF Shape
<1>4. /\ \A k \in Mutexes : k # m => /\ hold'[k] = hold[k] /\ value'[k] = value[k]
                                   /\ owner'[k] = owner[k]
                                   /\ original_priority'[k] = original_priority[k]
      /\ \A u \in Threads, k \in Mutexes :
           depth'[u][k] = IF u = t /\ k = m THEN 1 ELSE depth[u][k]
      /\ \A u \in Threads : u # t => error'[u] = error[u]
  BY <1>0, <1>2, <1>s, SMTT(30) DEF Shape
<1>5. /\ hold' \in [Mutexes -> 0..(HoldMod - 1)] /\ value' \in [Mutexes -> 0..1]
      /\ owner' \in [Mutexes -> Threads \cup {None}]
      /\ original_priority' \in [Mutexes -> 0..NoPrio]
      /\ depth' \in [Threads -> [Mutexes -> Nat]]
      /\ error' \in [Threads -> Errors]
  <2>1. hold' \in [Mutexes -> 0..(HoldMod - 1)] /\ value' \in [Mutexes -> 0..1]
    <3>1. 1 \in 0..(HoldMod - 1) /\ (hold[m] + 1) % HoldMod = 1 /\ value[m] - 1 = 0
      BY <1>1, <1>s, ModSmall DEF Shape
    <3>2. hold' = [hold EXCEPT ![m] = 1] /\ value' = [value EXCEPT ![m] = 0]
      BY <1>0, <3>1
    <3> QED
      BY <3>1, <3>2, <1>s DEF Shape
  <2>2. /\ owner' \in [Mutexes -> Threads \cup {None}]
        /\ original_priority' \in [Mutexes -> 0..NoPrio]
    BY <1>0, <1>s DEF Shape
  <2>3. depth' \in [Threads -> [Mutexes -> Nat]] /\ error' \in [Threads -> Errors]
    BY <1>0, <1>s DEF Shape, Errors
  <2> QED
    BY <2>1, <2>2, <2>3
<1>6. IpcInv'
  BY <1>0, <1>5 DEF Inv, IpcInv, IpcTypeOK, LinkedOnce, SuspendedIffWaiting,
                    ArmedOnlyWhileSuspended, Waiting
<1>7. TypeOK'
  BY <1>0, <1>5, <1>6 DEF Inv, TypeOK, IpcInv
<1>8. OwnersAgree'
  <2>1. ASSUME NEW u \in Threads, NEW k \in Mutexes
        PROVE  Handed(u, k)' <=> Handed(u, k)
    <3>1. CASE u = t
      BY <1>0, <1>s, <3>1 DEF Shape, Handed
    <3>2. CASE u # t
      <4>1. error'[u] = error[u]
        BY <1>4, <3>2
      <4> QED
        BY <1>0, <4>1 DEF Handed
    <3> QED
      BY <3>1, <3>2
  <2>2. ASSUME NEW u \in Threads, NEW k \in Mutexes, k # m
        PROVE  depth'[u][k] = depth[u][k] /\ owner'[k] = owner[k] /\ hold'[k] = hold[k]
    BY <1>4, <2>2
  <2>3. depth'[t][m] = 1 /\ \A u \in Threads : u # t => depth'[u][m] = 0
    BY <1>2, <1>4
  <2>4. \A u \in Threads : ~Handed(u, m)'
    BY <1>2, <2>1
  <2> QED
    BY <1>3, <2>1, <2>2, <2>3, <2>4 DEF Inv, OwnersAgree
<1>9. FreeMeansFree'
  <2>1. value'[m] # 1 /\ owner'[m] # None /\ hold'[m] # 0
    BY <1>3, <1>s DEF Shape
  <2> QED
    BY <1>0, <1>4, <2>1 DEF Inv, FreeMeansFree, Waiters
<1>10. WaitsForOne'
  <2>1. UNCHANGED <<stat, suspend_thread, wants>>
    BY <1>0
  <2>2. ASSUME NEW u \in Threads, NEW k \in Mutexes, u \in Elements(Waiters(k))
        PROVE  wants[u] = k /\ owner'[k] # u
    <3>1. wants[u] = k /\ owner[k] # u
      BY <2>2 DEF Inv, WaitsForOne
    <3>2. k # m
      BY <1>1, <2>2
    <3> QED
      BY <1>4, <3>1, <3>2
  <2>3. ASSUME NEW u \in Threads, NEW k \in Mutexes
        PROVE  (wants[u] = k => depth'[u][k] = 0) /\ depth'[u][k] <= MaxHold
    <3>1. (wants[u] = k => depth[u][k] = 0) /\ depth[u][k] <= MaxHold
      BY DEF Inv, WaitsForOne
    <3>2. CASE u = t /\ k = m
      <4>1. wants[t] # m
        BY <1>0, <1>s DEF Shape
      <4> QED
        BY <1>4, <1>s, <3>2, <4>1 DEF Shape
    <3>3. CASE ~(u = t /\ k = m)
      BY <1>4, <3>1, <3>3
    <3> QED
      BY <3>2, <3>3
  <2>4. \A u \in Threads : wants[u] = None => stat[u] = "ready"
    BY DEF Inv, WaitsForOne
  <2> QED
    BY <2>1, <2>2, <2>3, <2>4 DEF WaitsForOne, Waiters
<1> QED
  BY <1>6, <1>7, <1>8, <1>9, <1>10 DEF CoreInv

\* A call that is turned down leaves only an error number.
LEMMA RefusedInv ==
  ASSUME Inv, NEW t \in Threads, NEW m \in Mutexes, TakeFails(t, m) \/ ReleaseRefused(t, m)
  PROVE  CoreInv'
<1>s. Shape
  BY InvShape
<1>0. /\ wants[t] = None
      /\ \E e \in Errors : error' = [error EXCEPT ![t] = e]
      /\ UNCHANGED <<stat, thread_timer, suspend_thread, teardown, fault>>
      /\ UNCHANGED mutexVars
  BY DEF TakeFails, ReleaseRefused, MayTake, CanCall, Errors
<1>1. IpcInv'
  BY <1>0 DEF Inv, IpcInv, IpcTypeOK, LinkedOnce, SuspendedIffWaiting,
              ArmedOnlyWhileSuspended, Waiting
<1>2. TypeOK'
  BY <1>0, <1>1 DEF Inv, TypeOK, IpcInv, mutexVars
<1>3. OwnersAgree'
  BY <1>0, <1>s DEF Shape, Inv, OwnersAgree, Handed, mutexVars
<1>4. FreeMeansFree' /\ WaitsForOne'
  BY <1>0 DEF Inv, FreeMeansFree, WaitsForOne, Waiters, mutexVars
<1> QED
  BY <1>1, <1>2, <1>3, <1>4 DEF CoreInv

LEMMA TakeBlocksInv ==
  ASSUME Inv, NEW t \in Threads, NEW m \in Mutexes, TakeBlocks(t, m)
  PROVE  CoreInv'
<1>s. Shape
  BY InvShape
<1>1. PICK time \in Times \ {"zero"} : ListSuspend(m, t, Flag[m], prio', time)
  BY DEF TakeBlocks
<1>2. /\ wants[t] = None /\ value[m] = 0 /\ owner[m] # t
      /\ wants' = [wants EXCEPT ![t] = m]
      /\ prio' = IF prio[t] < prio[owner[m]]
                 THEN [prio EXCEPT ![owner[m]] = prio[t]] ELSE prio
      /\ UNCHANGED <<value, owner, original_priority, hold, depth>>
  BY DEF TakeBlocks, MayTake, CanCall
<1>3. prio' \in [Threads -> 0..NoPrio] /\ prio' \in [Threads -> Nat]
  BY <1>2, <1>s DEF Shape
<1>4. Flag[m] \in {"FIFO", "PRIO"} /\ stat[t] = "ready"
  BY <1>2, MutexAssumption DEF Inv, WaitsForOne, Mutexes
<1>5. IpcInv'
  BY <1>1, <1>3, <1>4, ListSuspendInv DEF Inv, Mutexes
<1>6. /\ Elements(Waiters(m)') = Elements(Waiters(m)) \cup {t}
      /\ \A k \in Mutexes : k # m => Waiters(k)' = Waiters(k)
  <2>1. t \notin Elements(Waiters(m)) /\ Waiters(m) \in Seq(Threads) /\ NoRepeat(Waiters(m))
    BY <1>4, <1>s, WaitersSuspended DEF Shape, Inv, IpcInv, LinkedOnce, Waiters, Mutexes
  <2>2. Elements(Enqueue(Waiters(m), t, Flag[m], prio')) = Elements(Waiters(m)) \cup {t}
    BY <1>3, <1>4, <2>1, EnqueueProperties
  <2> QED
    BY <1>1, <1>s, <2>2 DEF Shape, ListSuspend, Waiters, Mutexes
<1>7. /\ stat'[t] = "suspend" /\ wants'[t] = m
      /\ \A u \in Threads : u # t => /\ stat'[u] = stat[u] /\ error'[u] = error[u]
                                  /\ wants'[u] = wants[u]
      /\ wants' \in [Threads -> Mutexes \cup {None}]
  BY <1>1, <1>2, <1>s DEF ListSuspend, Shape
<1>8. depth[t][m] = 0
  BY <1>2, <1>s DEF Shape, Inv, OwnersAgree
<1>9. TypeOK'
  BY <1>2, <1>3, <1>5, <1>7 DEF Inv, TypeOK, IpcInv
<1>10. OwnersAgree'
  <2>1. \A k \in Mutexes : ~Handed(t, k) /\ ~Handed(t, k)'
    BY <1>2, <1>7, <1>s DEF Handed, Shape
  <2>2. \A u \in Threads, k \in Mutexes : Handed(u, k)' = Handed(u, k)
    BY <1>7, <2>1 DEF Handed
  <2> QED
    BY <1>2, <2>2 DEF Inv, OwnersAgree
<1>11. FreeMeansFree'
  BY <1>2, <1>6, <1>s DEF Shape, Inv, FreeMeansFree
<1>12. WaitsForOne'
  <2>1. \A u \in Threads : wants'[u] = None => stat'[u] = "ready"
    <3>1. \A u \in Threads : wants[u] = None => stat[u] = "ready"
      BY DEF Inv, WaitsForOne
    <3>2. m # None
      BY <1>s DEF Shape
    <3> QED
      BY <1>7, <3>1, <3>2
  <2>2. ASSUME NEW u \in Threads, NEW k \in Mutexes, u \in Elements(Waiters(k)')
        PROVE  wants'[u] = k /\ owner'[k] # u
    <3>1. CASE u = t
      <4>1. t \notin Elements(Waiters(k))
        BY <1>4, WaitersSuspended
      <4> QED
        BY <1>2, <1>6, <1>7, <2>2, <3>1, <4>1
    <3>2. CASE u # t
      BY <1>2, <1>6, <1>7, <2>2, <3>2 DEF Inv, WaitsForOne
    <3> QED
      BY <3>1, <3>2
  <2>3. \A u \in Threads, k \in Mutexes : wants'[u] = k => depth'[u][k] = 0
    BY <1>2, <1>7, <1>8 DEF Inv, WaitsForOne
  <2>4. \A u \in Threads, k \in Mutexes : depth'[u][k] <= MaxHold
    BY <1>2 DEF Inv, WaitsForOne
  <2> QED
    BY <2>1, <2>2, <2>3, <2>4 DEF WaitsForOne
<1> QED
  BY <1>5, <1>9, <1>10, <1>11, <1>12 DEF CoreInv

LEMMA TakeReturnsInv ==
  ASSUME Inv, NEW t \in Threads, TakeReturns(t)
  PROVE  CoreInv'
<1>s. Shape
  BY InvShape
<1>0. /\ wants[t] # None /\ stat[t] = "ready"
      /\ wants' = [wants EXCEPT ![t] = None]
      /\ depth' = IF error[t] = "EOK"
                  THEN [depth EXCEPT ![t][wants[t]] = depth[t][wants[t]] + 1] ELSE depth
      /\ UNCHANGED <<ipcVars, value, owner, original_priority, hold, prio>>
  BY DEF TakeReturns
<1>1. PICK m \in Mutexes : m = wants[t] /\ depth[t][m] = 0
  BY <1>0, <1>s DEF Shape, Inv, WaitsForOne
<1>2. IpcInv'
  BY <1>0, UnchangedInv DEF Inv
<1>3. (error[t] = "EOK") <=> (owner[m] = t)
  BY <1>0, <1>1 DEF Inv, OwnersAgree, Handed
<1>4. error[t] = "EOK" => hold[m] = 1
  BY <1>1, <1>3 DEF Inv, OwnersAgree
<1>5. UNCHANGED <<stat, error, suspend_thread>>
  BY <1>0 DEF ipcVars
<1>6. /\ \A u \in Threads, k \in Mutexes :
           depth'[u][k] = IF u = t /\ k = m /\ error[t] = "EOK" THEN 1 ELSE depth[u][k]
      /\ depth' \in [Threads -> [Mutexes -> Nat]]
  <2>1. depth \in [Threads -> [Mutexes -> Nat]]
    BY <1>s DEF Shape
  <2>2. CASE error[t] = "EOK"
    <3>1. depth' = [depth EXCEPT ![t] = [depth[t] EXCEPT ![m] = 1]]
      BY <1>0, <1>1, <2>2
    <3> QED
      BY <2>1, <2>2, <3>1
  <2>3. CASE error[t] # "EOK"
    BY <1>0, <2>1, <2>3
  <2> QED
    BY <2>2, <2>3
<1>7. /\ wants'[t] = None
      /\ \A u \in Threads : u # t => wants'[u] = wants[u]
      /\ wants' \in [Threads -> Mutexes \cup {None}]
  BY <1>0, <1>s DEF Shape
<1>8. TypeOK'
  BY <1>0, <1>2, <1>6, <1>7 DEF Inv, TypeOK, IpcInv
<1>9. OwnersAgree'
  <2>1. \A k \in Mutexes : ~Handed(t, k)' /\ (k # m => ~Handed(t, k))
    BY <1>1, <1>7, <1>s DEF Handed, Shape
  <2>2. \A u \in Threads, k \in Mutexes : u # t => Handed(u, k)' = Handed(u, k)
    BY <1>5, <1>7 DEF Handed
  <2> QED
    BY <1>0, <1>1, <1>3, <1>4, <1>6, <2>1, <2>2 DEF Inv, OwnersAgree
<1>10. FreeMeansFree'
  BY <1>0, <1>5 DEF Inv, FreeMeansFree, Waiters
<1>11. WaitsForOne'
  <2>1. \A k \in Mutexes : t \notin Elements(Waiters(k))
    BY <1>0, WaitersSuspended
  <2> QED
    BY <1>0, <1>1, <1>5, <1>6, <1>7, <1>s, <2>1, SMTT(30) DEF Shape, Inv, WaitsForOne, Waiters
<1> QED
  BY <1>2, <1>8, <1>9, <1>10, <1>11 DEF CoreInv
LEMMA ReleaseInnerInv ==
  ASSUME Inv, NEW t \in Threads, NEW m \in Mutexes, ReleaseInner(t, m)
  PROVE  CoreInv'
<1>s. Shape
  BY InvShape
<1>0. /\ owner[m] = t /\ wants[t] = None /\ (hold[m] - 1) % HoldMod # 0
      /\ hold' = [hold EXCEPT ![m] = (hold[m] - 1) % HoldMod]
      /\ depth' = [depth EXCEPT ![t][m] = depth[t][m] - 1]
      /\ UNCHANGED <<value, owner, original_priority, prio, wants>>
      /\ UNCHANGED ipcVars
  BY DEF ReleaseInner, CanCall
<1>1. hold[m] = depth[t][m] /\ depth[t][m] > 0 /\ depth[t][m] \in Nat
  BY <1>0, <1>s DEF Shape, Inv, OwnersAgree, Handed
<1>2. hold'[m] = hold[m] - 1 /\ hold[m] - 1 \in 1..(HoldMod - 1)
  <2>1. hold[m] - 1 \in Nat /\ hold[m] - 1 < HoldMod
    BY <1>1, <1>s DEF Shape
  <2>2. (hold[m] - 1) % HoldMod = hold[m] - 1
    BY <2>1, ModSmall
  <2>3. hold'[m] = hold[m] - 1
    BY <1>0, <1>s, <2>2 DEF Shape
  <2>4. hold[m] # 1 /\ HoldMod \in Nat
    BY <1>0, <1>s DEF Shape
  <2>5. hold[m] \in Nat
    BY <1>1
  <2> QED
    BY <2>1, <2>3, <2>4, <2>5
<1>3. /\ \A k \in Mutexes : k # m => hold'[k] = hold[k]
      /\ \A u \in Threads, k \in Mutexes :
           depth'[u][k] = IF u = t /\ k = m THEN depth[t][m] - 1 ELSE depth[u][k]
      /\ hold' \in [Mutexes -> 0..(HoldMod - 1)]
      /\ depth' \in [Threads -> [Mutexes -> Nat]]
  BY <1>0, <1>1, <1>2, <1>s DEF Shape
<1>4. IpcInv'
  BY <1>0, UnchangedInv DEF Inv
<1>5. UNCHANGED <<stat, error, suspend_thread>>
  BY <1>0 DEF ipcVars
<1>6. TypeOK'
  BY <1>0, <1>3, <1>4 DEF Inv, TypeOK, IpcInv
<1>7. OwnersAgree'
  <2>1. \A u \in Threads, k \in Mutexes : Handed(u, k)' = Handed(u, k)
    BY <1>0, <1>5 DEF Handed
  <2>2. \A u \in Threads : u # t => depth'[u][m] = 0 /\ ~Handed(u, m)
    BY <1>0, <1>3, <1>s DEF Shape, Inv, OwnersAgree
  <2>3. ASSUME NEW u \in Threads, NEW k \in Mutexes, k # m
        PROVE  depth'[u][k] = depth[u][k] /\ hold'[k] = hold[k]
    BY <1>3, <2>3
  <2>4. depth'[t][m] = hold'[m] /\ depth'[t][m] > 0
    BY <1>1, <1>2, <1>3
  <2> QED
    BY <1>0, <2>1, <2>2, <2>3, <2>4 DEF Inv, OwnersAgree
<1>8. FreeMeansFree'
  <2>1. value[m] # 1 /\ hold'[m] # 0
    BY <1>0, <1>1, <1>2, <1>s DEF Shape, Inv, FreeMeansFree
  <2>2. UNCHANGED <<value, owner, original_priority, suspend_thread>>
    BY <1>0, <1>5
  <2>3. \A k \in Mutexes : k # m => hold'[k] = hold[k]
    BY <1>3
  <2> QED
    BY <2>1, <2>2, <2>3, <1>0, <1>s DEF Shape, Inv, FreeMeansFree, Waiters
<1>9. WaitsForOne'
  <2>1. \A u \in Threads, k \in Mutexes : depth'[u][k] <= MaxHold
    <3>1. \A u \in Threads, k \in Mutexes : depth[u][k] <= MaxHold /\ depth[u][k] \in Nat
      BY <1>s DEF Shape, Inv, WaitsForOne
    <3>2. MaxHold \in Nat
      BY <1>s DEF Shape
    <3>3. depth[t][m] - 1 <= MaxHold
      BY <3>1, <3>2
    <3> QED
      BY <1>3, <3>1, <3>3
  <2>2. \A u \in Threads, k \in Mutexes : wants[u] = k => depth'[u][k] = 0
    BY <1>0, <1>3, <1>s DEF Shape, Inv, WaitsForOne
  <2> QED
    BY <1>0, <1>5, <2>1, <2>2 DEF Inv, WaitsForOne, Waiters
<1> QED
  BY <1>4, <1>6, <1>7, <1>8, <1>9 DEF CoreInv

\* What both outcomes of the last release have in common.
LEMMA LastReleaseFacts ==
  ASSUME Inv, NEW t \in Threads, NEW m \in Mutexes, LastRelease(t, m)
  PROVE  /\ owner[m] = t /\ wants[t] = None /\ UNCHANGED wants
         /\ depth[t][m] = 1 /\ value[m] = 0
         /\ prio' \in [Threads -> 0..NoPrio]
         /\ depth' \in [Threads -> [Mutexes -> Nat]]
         /\ \A u \in Threads, k \in Mutexes :
              depth'[u][k] = IF k = m THEN 0 ELSE depth[u][k]
<1>s. Shape
  BY InvShape
<1>0. /\ owner[m] = t /\ wants[t] = None /\ UNCHANGED wants
      /\ (hold[m] - 1) % HoldMod = 0
      /\ prio' = [prio EXCEPT ![t] = original_priority[m]]
      /\ depth' = [depth EXCEPT ![t][m] = depth[t][m] - 1]
  BY DEF LastRelease, CanCall
<1>1. hold[m] = depth[t][m] /\ depth[t][m] > 0 /\ depth[t][m] \in Nat
  BY <1>0, <1>s DEF Shape, Inv, OwnersAgree, Handed
<1>2. depth[t][m] = 1
  <2>1. hold[m] - 1 \in Nat /\ hold[m] - 1 < HoldMod
    BY <1>1, <1>s DEF Shape
  <2>2. (hold[m] - 1) % HoldMod = hold[m] - 1
    BY <2>1, ModSmall
  <2> QED
    BY <1>0, <1>1, <2>1, <2>2
<1>3. value[m] = 0
  BY <1>0, <1>s DEF Shape, Inv, FreeMeansFree
<1>4. \A u \in Threads : u # t => depth[u][m] = 0
  BY <1>0, <1>s DEF Shape, Inv, OwnersAgree
<1>5. prio' \in [Threads -> 0..NoPrio] /\ depth' \in [Threads -> [Mutexes -> Nat]]
  BY <1>0, <1>2, <1>s DEF Shape
<1>6. \A u \in Threads, k \in Mutexes : depth'[u][k] = IF k = m THEN 0 ELSE depth[u][k]
  BY <1>0, <1>2, <1>4, <1>s, SMTT(30) DEF Shape
<1> QED
  BY <1>0, <1>2, <1>3, <1>5, <1>6

LEMMA ReleaseToWaiterInv ==
  ASSUME Inv, NEW t \in Threads, NEW m \in Mutexes, ReleaseToWaiter(t, m)
  PROVE  CoreInv'
<1> DEFINE h == Head(Waiters(m))
<1>s. Shape
  BY InvShape
<1>l. LastRelease(t, m)
  BY DEF ReleaseToWaiter
<1>0. /\ owner[m] = t /\ wants[t] = None /\ UNCHANGED wants
      /\ depth[t][m] = 1 /\ value[m] = 0
      /\ prio' \in [Threads -> 0..NoPrio]
      /\ depth' \in [Threads -> [Mutexes -> Nat]]
      /\ \A u \in Threads, k \in Mutexes :
           depth'[u][k] = IF k = m THEN 0 ELSE depth[u][k]
  BY <1>l, LastReleaseFacts
<1>1. /\ Waiters(m) # << >>
      /\ owner' = [owner EXCEPT ![m] = h]
      /\ original_priority' = [original_priority EXCEPT ![m] = prio'[h]]
      /\ hold' = [hold EXCEPT ![m] = 1]
      /\ ListResume(m)
      /\ UNCHANGED value
  BY DEF ReleaseToWaiter
<1>2. /\ h \in Threads /\ h \in Elements(Waiters(m))
      /\ \A k \in Mutexes : Elements(Waiters(k)') = Elements(Waiters(k)) \ {h}
  <2>1. suspend_thread' = [suspend_thread EXCEPT ![m] = Tail(@)]
    BY <1>1 DEF ListResume
  <2> QED
    BY <1>1, <2>1, PopProperties DEF Inv, Waiters, Mutexes
<1>3. IpcInv'
  BY <1>1, ListResumeInv DEF Inv, Waiters, Mutexes
<1>4. stat[h] = "suspend" /\ wants[h] = m /\ h # t
  BY <1>0, <1>2, <1>s, WaitersSuspended DEF Shape, Inv, WaitsForOne
<1>5. stat' = [stat EXCEPT ![h] = "ready"] /\ UNCHANGED error
  BY <1>1 DEF ListResume, Waiters
<1>6. error[h] = "EOK"
  BY <1>2, <1>4 DEF Inv, WaitersUnanswered
<1> HIDE DEF h
<1>7. /\ \A k \in Mutexes : k # m => owner'[k] = owner[k] /\ hold'[k] = hold[k]
                                   /\ original_priority'[k] = original_priority[k]
                                   /\ Waiters(k)' = Waiters(k)
      /\ owner'[m] = h /\ hold'[m] = 1
      /\ stat'[h] = "ready" /\ \A u \in Threads : u # h => stat'[u] = stat[u]
      /\ owner' \in [Mutexes -> Threads \cup {None}]
      /\ original_priority' \in [Mutexes -> 0..NoPrio]
      /\ hold' \in [Mutexes -> 0..(HoldMod - 1)]
  <2>1. 1 \in 0..(HoldMod - 1) /\ prio'[h] \in 0..NoPrio
    BY <1>0, <1>2, <1>s DEF Shape
  <2>2. /\ owner' \in [Mutexes -> Threads \cup {None}]
        /\ original_priority' \in [Mutexes -> 0..NoPrio]
        /\ hold' \in [Mutexes -> 0..(HoldMod - 1)]
    BY <1>1, <1>2, <1>s, <2>1 DEF Shape
  <2>3. \A k \in Mutexes : k # m => Waiters(k)' = Waiters(k)
    BY <1>1, <1>s DEF Shape, ListResume, Waiters
  <2>4. stat'[h] = "ready" /\ \A u \in Threads : u # h => stat'[u] = stat[u]
    BY <1>2, <1>5, <1>s DEF Shape
  <2>5. /\ \A k \in Mutexes : k # m => /\ owner'[k] = owner[k] /\ hold'[k] = hold[k]
                                     /\ original_priority'[k] = original_priority[k]
        /\ owner'[m] = h /\ hold'[m] = 1
    BY <1>1, <1>s DEF Shape
  <2> QED
    BY <2>2, <2>3, <2>4, <2>5
<1>8. TypeOK'
  BY <1>0, <1>1, <1>3, <1>7 DEF Inv, TypeOK, IpcInv
<1>9. \A u \in Threads, k \in Mutexes :
        Handed(u, k)' <=> (Handed(u, k) \/ (u = h /\ k = m))
  BY <1>0, <1>4, <1>5, <1>6, <1>7 DEF Handed
<1>10. OwnersAgree'
  <2>1. \A u \in Threads : ~Handed(u, m)
    BY <1>0, <1>s DEF Shape, Inv, OwnersAgree, Handed
  <2>2. ASSUME NEW u \in Threads
        PROVE  /\ depth'[u][m] = 0
               /\ owner'[m] = u => Handed(u, m)' /\ hold'[m] = 1
               /\ Handed(u, m)' => owner'[m] = u
    BY <1>0, <1>7, <1>9, <2>1
  <2>3. ASSUME NEW u \in Threads, NEW k \in Mutexes, k # m
        PROVE  /\ depth'[u][k] = depth[u][k] /\ hold'[k] = hold[k] /\ owner'[k] = owner[k]
               /\ Handed(u, k)' <=> Handed(u, k)
    BY <1>0, <1>7, <1>9, <2>3
  <2> QED
    BY <2>2, <2>3 DEF Inv, OwnersAgree
<1>11. FreeMeansFree'
  <2>1. value'[m] # 1 /\ owner'[m] # None /\ hold'[m] # 0
    BY <1>0, <1>1, <1>2, <1>7, <1>s DEF Shape
  <2> QED
    BY <1>1, <1>7, <2>1 DEF Inv, FreeMeansFree
<1>12. WaitsForOne'
  <2>1. \A u \in Threads : wants'[u] = None => stat'[u] = "ready"
    BY <1>0, <1>7 DEF Inv, WaitsForOne
  <2>2. ASSUME NEW u \in Threads, NEW k \in Mutexes, u \in Elements(Waiters(k)')
        PROVE  wants'[u] = k /\ owner'[k] # u
    BY <1>0, <1>2, <1>7, <2>2 DEF Inv, WaitsForOne
  <2>3. \A u \in Threads, k \in Mutexes : wants'[u] = k => depth'[u][k] = 0
    BY <1>0 DEF Inv, WaitsForOne
  <2>4. \A u \in Threads, k \in Mutexes : depth'[u][k] <= MaxHold
    <3>1. \A u \in Threads, k \in Mutexes : depth[u][k] <= MaxHold
      BY DEF Inv, WaitsForOne
    <3>2. 0 <= MaxHold
      BY <1>s DEF Shape
    <3> QED
      BY <1>0, <3>1, <3>2
  <2> QED
    BY <2>1, <2>2, <2>3, <2>4 DEF WaitsForOne
<1> QED
  BY <1>3, <1>8, <1>10, <1>11, <1>12 DEF CoreInv
LEMMA ReleaseToNobodyInv ==
  ASSUME Inv, NEW t \in Threads, NEW m \in Mutexes, ReleaseToNobody(t, m)
  PROVE  CoreInv'
<1>s. Shape
  BY InvShape
<1>l. LastRelease(t, m)
  BY DEF ReleaseToNobody
<1>0. /\ owner[m] = t /\ wants[t] = None /\ UNCHANGED wants
      /\ depth[t][m] = 1 /\ value[m] = 0
      /\ prio' \in [Threads -> 0..NoPrio]
      /\ depth' \in [Threads -> [Mutexes -> Nat]]
      /\ \A u \in Threads, k \in Mutexes :
           depth'[u][k] = IF k = m THEN 0 ELSE depth[u][k]
  BY <1>l, LastReleaseFacts
<1>1. /\ Waiters(m) = << >>
      /\ value' = [value EXCEPT ![m] = value[m] + 1]
      /\ owner' = [owner EXCEPT ![m] = None]
      /\ original_priority' = [original_priority EXCEPT ![m] = NoPrio]
      /\ hold' = [hold EXCEPT ![m] = 0]
      /\ UNCHANGED ipcVars
  BY DEF ReleaseToNobody
<1>2. /\ \A k \in Mutexes : k # m => /\ value'[k] = value[k] /\ owner'[k] = owner[k]
                                   /\ hold'[k] = hold[k]
                                   /\ original_priority'[k] = original_priority[k]
      /\ value'[m] = 1 /\ owner'[m] = None /\ hold'[m] = 0 /\ original_priority'[m] = NoPrio
  BY <1>0, <1>1, <1>s DEF Shape
<1>3. /\ value' \in [Mutexes -> 0..1]
      /\ owner' \in [Mutexes -> Threads \cup {None}]
      /\ original_priority' \in [Mutexes -> 0..NoPrio]
      /\ hold' \in [Mutexes -> 0..(HoldMod - 1)]
  <2>1. NoPrio \in 0..NoPrio /\ 0 \in 0..(HoldMod - 1) /\ value[m] + 1 \in 0..1
    BY <1>0, <1>s DEF Shape, NoPrio
  <2> QED
    BY <1>1, <1>s, <2>1 DEF Shape
<1>4. IpcInv'
  BY <1>1, UnchangedInv DEF Inv
<1>5. UNCHANGED <<stat, error, suspend_thread>>
  BY <1>1 DEF ipcVars
<1>6. TypeOK'
  BY <1>0, <1>3, <1>4 DEF Inv, TypeOK, IpcInv
<1>7. OwnersAgree'
  <2>1. \A u \in Threads, k \in Mutexes : Handed(u, k)' <=> Handed(u, k)
    BY <1>0, <1>5 DEF Handed
  <2>2. \A u \in Threads : ~Handed(u, m)
    BY <1>0, <1>s DEF Shape, Inv, OwnersAgree, Handed
  <2>3. ASSUME NEW u \in Threads
        PROVE  depth'[u][m] = 0 /\ owner'[m] # u /\ ~Handed(u, m)'
    BY <1>0, <1>2, <1>s, <2>1, <2>2 DEF Shape
  <2>4. ASSUME NEW u \in Threads, NEW k \in Mutexes, k # m
        PROVE  /\ depth'[u][k] = depth[u][k] /\ hold'[k] = hold[k] /\ owner'[k] = owner[k]
               /\ Handed(u, k)' <=> Handed(u, k)
    BY <1>0, <1>2, <2>1, <2>4
  <2> QED
    BY <2>3, <2>4 DEF Inv, OwnersAgree
<1>8. FreeMeansFree'
  BY <1>1, <1>2, <1>5 DEF Inv, FreeMeansFree, Waiters
<1>9. WaitsForOne'
  <2>1. \A u \in Threads, k \in Mutexes : wants[u] = k => depth'[u][k] = 0
    BY <1>0 DEF Inv, WaitsForOne
  <2>2. \A u \in Threads, k \in Mutexes : depth'[u][k] <= MaxHold
    <3>1. \A u \in Threads, k \in Mutexes : depth[u][k] <= MaxHold
      BY DEF Inv, WaitsForOne
    <3>2. 0 <= MaxHold
      BY <1>s DEF Shape
    <3> QED
      BY <1>0, <3>1, <3>2
  <2>3. ASSUME NEW u \in Threads, NEW k \in Mutexes, u \in Elements(Waiters(k)')
        PROVE  wants'[u] = k /\ owner'[k] # u
    BY <1>0, <1>2, <1>5, <1>s, <2>3, SMTT(30) DEF Shape, Inv, WaitsForOne, Waiters
  <2>4. \A u \in Threads : wants'[u] = None => stat'[u] = "ready"
    BY <1>0, <1>5 DEF Inv, WaitsForOne
  <2> QED
    BY <1>0, <2>1, <2>2, <2>3, <2>4 DEF WaitsForOne
<1> QED
  BY <1>4, <1>6, <1>7, <1>8, <1>9 DEF CoreInv

(* A thread that leaves a list without the mutex: by an expired timer or by *)
(* the deletion of the mutex.                                               *)
LEMMA LeaveInv ==
  ASSUME Inv, NEW m \in Mutexes, NEW t \in Elements(Waiters(m)), IpcInv',
         UNCHANGED mutexVars,
         stat' = [stat EXCEPT ![t] = "ready"],
         \/ error' = [error EXCEPT ![t] = "ETIMEOUT"]
         \/ error' = [error EXCEPT ![t] = "ERROR"],
         \A k \in Mutexes : Elements(Waiters(k)') \subseteq Elements(Waiters(k)),
         \A k \in Mutexes : Waiters(k) = << >> => Waiters(k)' = << >>
  PROVE  CoreInv'
<1>s. Shape
  BY InvShape
<1>0. t \in Threads /\ stat[t] = "suspend"
  BY WaitersSuspended
<1>1. TypeOK'
  BY DEF Inv, TypeOK, IpcInv, mutexVars
<1>2. \A u \in Threads, k \in Mutexes : Handed(u, k)' <=> Handed(u, k)
  <2>1. \A k \in Mutexes : ~Handed(t, k) /\ ~Handed(t, k)'
    BY <1>0, <1>s DEF Handed, Shape
  <2>2. \A u \in Threads : u # t => stat'[u] = stat[u] /\ error'[u] = error[u]
    BY <1>s DEF Shape
  <2>3. wants' = wants
    BY DEF mutexVars
  <2> QED
    BY <2>1, <2>2, <2>3 DEF Handed
<1>3. OwnersAgree'
  BY <1>2 DEF Inv, OwnersAgree, mutexVars
<1>4. FreeMeansFree'
  BY DEF Inv, FreeMeansFree, mutexVars
<1>5. WaitsForOne'
  <2>1. \A u \in Threads : stat[u] = "ready" => stat'[u] = "ready"
    BY <1>0, <1>s DEF Shape
  <2> QED
    BY <2>1 DEF Inv, WaitsForOne, mutexVars
<1> QED
  BY <1>1, <1>3, <1>4, <1>5 DEF CoreInv

LEMMA TimeoutInv ==
  ASSUME Inv, NEW t \in Threads, Timeout(t)
  PROVE  CoreInv'
<1>1. /\ ThreadTimeout(t) /\ UNCHANGED mutexVars
      /\ stat' = [stat EXCEPT ![t] = "ready"]
      /\ error' = [error EXCEPT ![t] = "ETIMEOUT"]
      /\ thread_timer[t]
  BY DEF Timeout, ThreadTimeout
<1>2. IpcInv'
  BY <1>1, ThreadTimeoutInv DEF Inv
<1>3. PICK m \in Mutexes : t \in Elements(Waiters(m))
  BY <1>1 DEF Inv, IpcInv, ArmedOnlyWhileSuspended, SuspendedIffWaiting, Waiting, Waiters, Mutexes
<1>4. \A k \in Mutexes : Elements(Waiters(k)') \subseteq Elements(Waiters(k))
  BY <1>1, UnlinkProperties
  DEF ThreadTimeout, Inv, IpcInv, IpcTypeOK, LinkedOnce, Waiters, Mutexes
<1>5. \A k \in Mutexes : Waiters(k) = << >> => Waiters(k)' = << >>
  BY <1>1, EmptySeq DEF ThreadTimeout, Unlink, Elements, Waiters, Mutexes
<1> QED
  BY <1>1, <1>2, <1>3, <1>4, <1>5, LeaveInv

\* A step of a deletion that resumes nobody.
LEMMA QuietInv ==
  ASSUME Inv, IpcInv', UNCHANGED mutexVars, UNCHANGED <<stat, error, suspend_thread>>
  PROVE  CoreInv'
BY DEF Inv, CoreInv, TypeOK, IpcInv, OwnersAgree, Handed, FreeMeansFree, WaitsForOne, Waiters,
       mutexVars

LEMMA DeleteInv ==
  ASSUME Inv, NEW m \in Mutexes, Delete(m) \/ DeleteStep(m)
  PROVE  CoreInv'
<1>0. UNCHANGED mutexVars /\ (BeginTeardown(m) \/ TeardownStep(m))
  BY DEF Delete, DeleteStep
<1>1. IpcInv'
  BY <1>0, TeardownInv DEF Inv, Mutexes
<1>2. CASE UNCHANGED <<stat, error, suspend_thread>>
  BY <1>0, <1>1, <1>2, QuietInv
<1>3. CASE TeardownResume(m) /\ Waiters(m) # << >>
  <2> DEFINE t == Head(Waiters(m))
  <2>1. /\ stat' = [stat EXCEPT ![t] = "ready"]
        /\ error' = [error EXCEPT ![t] = "ERROR"]
        /\ suspend_thread' = [suspend_thread EXCEPT ![m] = Tail(@)]
    BY <1>3 DEF TeardownResume, Waiters
  <2>2. /\ t \in Elements(Waiters(m))
        /\ \A k \in Mutexes : Elements(Waiters(k)') = Elements(Waiters(k)) \ {t}
    BY <1>3, <2>1, PopProperties DEF Inv, Waiters, Mutexes
  <2>3. \A k \in Mutexes : Waiters(k) = << >> => Waiters(k)' = << >>
    BY <1>3, <2>1, InvShape DEF Shape, Waiters
  <2> HIDE DEF t
  <2> QED
    BY <1>0, <1>1, <2>1, <2>2, <2>3, LeaveInv
<1> QED
  BY <1>0, <1>2, <1>3
  DEF BeginTeardown, TeardownStep, TeardownTest, TeardownResume, Waiters

-----------------------------------------------------------------------------
(* An error number is only written for the running thread or for one that  *)
(* leaves its list.                                                        *)
LEMMA NextUnanswered ==
  ASSUME Inv, Next
  PROVE  WaitersUnanswered'
<1>s. Shape
  BY InvShape
<1>0. /\ \A m \in Mutexes : \A t \in Elements(Waiters(m)) :
           t \in Threads /\ error[t] = "EOK" /\ wants[t] = m /\ wants[t] # None
      /\ \A k, m \in Mutexes : k # m => Elements(Waiters(k)) \cap Elements(Waiters(m)) = {}
  BY <1>s, WaitersSuspended
  DEF Shape, Inv, WaitersUnanswered, WaitsForOne, IpcInv, LinkedOnce, Waiters, Mutexes
<1>1. ASSUME NEW t \in Threads, wants[t] = None, UNCHANGED suspend_thread,
             \E e \in Errors : error' = [error EXCEPT ![t] = e]
      PROVE  WaitersUnanswered'
  BY <1>0, <1>1, <1>s DEF Shape, WaitersUnanswered, Waiters
<1>2. ASSUME NEW t \in Threads, NEW m \in Mutexes,
             \/ TakeAgain(t, m) \/ TakeFree(t, m) \/ TakeFails(t, m) \/ ReleaseRefused(t, m)
      PROVE  WaitersUnanswered'
  BY <1>1, <1>2 DEF TakeAgain, TakeFree, TakeFails, ReleaseRefused, MayTake, CanCall, Errors
<1>3. ASSUME NEW t \in Threads, NEW m \in Mutexes, TakeBlocks(t, m)
      PROVE  WaitersUnanswered'
  <2>1. PICK time \in Times \ {"zero"} : ListSuspend(m, t, Flag[m], prio', time)
    BY <1>3 DEF TakeBlocks
  <2>2. error' = [error EXCEPT ![t] = "EOK"]
    BY <2>1 DEF ListSuspend
  <2>3. t \notin Elements(Waiters(m))
    BY <1>0, <1>3, <1>s DEF TakeBlocks, MayTake, CanCall, Shape
  <2>4. Waiters(m) \in Seq(Threads) /\ NoRepeat(Waiters(m)) /\ Flag[m] \in {"FIFO", "PRIO"}
    BY <1>s, MutexAssumption DEF Shape, Inv, IpcInv, LinkedOnce, Waiters, Mutexes
  <2>5. prio' \in [Threads -> Nat]
    BY <1>3, <1>s DEF TakeBlocks, Shape
  <2>6. Elements(Enqueue(Waiters(m), t, Flag[m], prio')) = Elements(Waiters(m)) \cup {t}
    BY <2>3, <2>4, <2>5, EnqueueProperties
  <2>7. \A k \in Mutexes : Elements(Waiters(k)') \subseteq Elements(Waiters(k)) \cup {t}
    BY <2>1, <2>6, <1>s DEF ListSuspend, Shape, Waiters, Mutexes
  <2> QED
    BY <1>0, <1>s, <2>2, <2>7 DEF WaitersUnanswered, Shape
<1>4. ASSUME UNCHANGED error,
             \A k \in Mutexes : Elements(Waiters(k)') \subseteq Elements(Waiters(k))
      PROVE  WaitersUnanswered'
  BY <1>0, <1>4 DEF WaitersUnanswered
<1>5. ASSUME UNCHANGED <<error, suspend_thread>> PROVE WaitersUnanswered'
  BY <1>4, <1>5 DEF Waiters
<1>6. ASSUME NEW t \in Threads,
             TakeReturns(t) \/ \E m \in Mutexes : ReleaseInner(t, m) \/ ReleaseToNobody(t, m)
      PROVE  WaitersUnanswered'
  BY <1>5, <1>6 DEF ReleaseInner, ReleaseToNobody, TakeReturns, ipcVars
<1>7. ASSUME NEW t \in Threads, NEW m \in Mutexes, ReleaseToWaiter(t, m)
      PROVE  WaitersUnanswered'
  <2>1. /\ Waiters(m) # << >> /\ UNCHANGED error
        /\ suspend_thread' = [suspend_thread EXCEPT ![m] = Tail(@)]
    BY <1>7 DEF ReleaseToWaiter, ListResume
  <2> QED
    BY <1>4, <2>1, PopProperties DEF Inv, Waiters, Mutexes
<1>8. ASSUME NEW t \in Threads, NEW m \in Mutexes,
             error' = [error EXCEPT ![t] = "ETIMEOUT"] \/ error' = [error EXCEPT ![t] = "ERROR"],
             \A k \in Mutexes : Elements(Waiters(k)') \subseteq Elements(Waiters(k)) \ {t}
      PROVE  WaitersUnanswered'
  BY <1>0, <1>8, <1>s DEF WaitersUnanswered, Shape
<1>9. ASSUME NEW t \in Threads, Timeout(t) PROVE WaitersUnanswered'
  <2>1. \A k \in Mutexes : Elements(Waiters(k)') \subseteq Elements(Waiters(k)) \ {t}
    BY <1>9, UnlinkProperties
    DEF Timeout, ThreadTimeout, Inv, IpcInv, IpcTypeOK, LinkedOnce, Waiters, Mutexes
  <2>2. error' = [error EXCEPT ![t] = "ETIMEOUT"]
    BY <1>9 DEF Timeout, ThreadTimeout
  <2> QED
    BY <1>0, <1>s, <2>1, <2>2 DEF WaitersUnanswered, Shape
<1>10. ASSUME NEW m \in Mutexes, Delete(m) \/ DeleteStep(m) PROVE WaitersUnanswered'
  <2>1. CASE UNCHANGED <<error, suspend_thread>>
    BY <1>5, <2>1
  <2>2. CASE TeardownResume(m) /\ Waiters(m) # << >>
    <3> DEFINE t == Head(Waiters(m))
    <3>1. /\ error' = [error EXCEPT ![t] = "ERROR"]
          /\ suspend_thread' = [suspend_thread EXCEPT ![m] = Tail(@)]
      BY <2>2 DEF TeardownResume, Waiters
    <3>2. /\ t \in Threads
          /\ \A k \in Mutexes : Elements(Waiters(k)') = Elements(Waiters(k)) \ {t}
      BY <2>2, <3>1, PopProperties DEF Inv, Waiters, Mutexes
    <3> HIDE DEF t
    <3> QED
      BY <1>8, <3>1, <3>2
  <2> QED
    BY <1>10, <2>1, <2>2
    DEF Delete, DeleteStep, BeginTeardown, TeardownStep, TeardownTest, TeardownResume, Waiters
<1>11. CASE \E t \in Threads, m \in Mutexes :
              \/ TakeAgain(t, m) \/ TakeFree(t, m) \/ TakeFails(t, m) \/ TakeBlocks(t, m)
              \/ ReleaseRefused(t, m) \/ ReleaseInner(t, m)
              \/ ReleaseToWaiter(t, m) \/ ReleaseToNobody(t, m)
  BY <1>2, <1>3, <1>6, <1>7, <1>11
<1>12. CASE \E t \in Threads : TakeReturns(t) \/ Timeout(t)
  BY <1>6, <1>9, <1>12
<1>13. CASE \E m \in Mutexes : Delete(m) \/ DeleteStep(m)
  BY <1>10, <1>13
<1> QED
  BY <1>11, <1>12, <1>13 DEF Next

LEMMA NextInv == Inv /\ [Next]_vars => Inv'
<1> SUFFICES ASSUME Inv, [Next]_vars PROVE Inv'
  OBVIOUS
<1>1. CASE Next
  <2>1. CoreInv'
    BY <1>1, TakeAgainInv, TakeFreeInv, RefusedInv, TakeBlocksInv, TakeReturnsInv,
       ReleaseInnerInv, ReleaseToWaiterInv, ReleaseToNobodyInv, TimeoutInv, DeleteInv DEF Next
  <2> QED
    BY <1>1, <2>1, NextUnanswered DEF CoreInv, Inv
<1>2. CASE UNCHANGED vars
  <2>1. CoreInv'
    BY <1>2, UnchangedInv, QuietInv DEF Inv, vars, ipcVars
  <2>2. WaitersUnanswered'
    BY <1>2 DEF Inv, vars, ipcVars, WaitersUnanswered, Waiters
  <2> QED
    BY <2>1, <2>2 DEF CoreInv, Inv
<1> QED
  BY <1>1, <1>2

THEOREM Invariance == Spec => []Inv
BY InitInv, NextInv, PTL DEF Spec

(* Every variable keeps its type: priorities stay in their byte and hold   *)
(* does not wrap below the assumed depth (struct rt_mutex, rtdef.h:671).   *)
THEOREM TypeCorrect == Spec => []TypeOK
<1>1. Inv => TypeOK
  BY DEF Inv
<1> QED
  BY <1>1, Invariance, PTL

(* Mutual exclusion: what a thread believes to hold is what the kernel     *)
(* records, also across hand-overs that race with timeouts and with the    *)
(* deletion of the mutex (ipc.c:653-778, :789-880).                        *)
THEOREM MutualExclusion == Spec => []OwnersAgree
<1>1. Inv => OwnersAgree
  BY DEF Inv
<1> QED
  BY <1>1, Invariance, PTL

(* A mutex that reads as free has no owner, no depth and no waiter         *)
(* (ipc.c:691-699, :863-868).                                              *)
THEOREM FreeMutexIsFree == Spec => []FreeMeansFree
<1>1. Inv => FreeMeansFree
  BY DEF Inv
<1> QED
  BY <1>1, Invariance, PTL

-----------------------------------------------------------------------------
(* The boost of a thread that does not nest ends with its ownership.       *)

LEMMA RestoreInit == Init => RestoreInv
BY MutexAssumption DEF Init, RestoreInv, OwnsAtMostOne, OriginalIsBase, PriorityRestored, Mutexes

LEMMA RestoreQuiet ==
  ASSUME RestoreInv, UNCHANGED <<owner, original_priority, prio>>,
         \A u \in Threads : wants'[u] \in {wants[u], None}
  PROVE  RestoreInv'
<1>1. OwnsAtMostOne'
  BY MutexAssumption DEF RestoreInv, OwnsAtMostOne, Mutexes
<1>2. OriginalIsBase' /\ PriorityRestored'
  BY DEF RestoreInv, OriginalIsBase, PriorityRestored, OwnsNothing
<1> QED
  BY <1>1, <1>2 DEF RestoreInv

LEMMA RestoreTakeFree ==
  ASSUME Inv, RestoreInv, NEW t \in Threads, NEW m \in Mutexes, TakeFree(t, m)
  PROVE  RestoreInv'
<1>s. Shape
  BY InvShape
<1>0. /\ wants[t] = None /\ UNCHANGED <<wants, prio>>
      /\ owner[m] = None
      /\ owner' = [owner EXCEPT ![m] = t]
      /\ original_priority' = [original_priority EXCEPT ![m] = prio[t]]
  BY <1>s DEF TakeFree, MayTake, CanCall, Inv, FreeMeansFree, Shape
<1>1. \A k \in Mutexes : owner'[k] = IF k = m THEN t ELSE owner[k]
  BY <1>0, <1>s DEF Shape
<1>2. t \notin Nesters => OwnsNothing(t) /\ prio[t] = BasePrio[t]
  <2>1. t \notin Nesters => OwnsNothing(t)
    BY <1>0, <1>s DEF TakeFree, MayTake, OwnsNothing, Shape
  <2> QED
    BY <2>1 DEF RestoreInv, PriorityRestored
<1>3. OwnsAtMostOne'
  BY <1>0, <1>1, <1>2, <1>s, SMTT(30) DEF RestoreInv, OwnsAtMostOne, OwnsNothing, Shape
<1>4. OriginalIsBase'
  BY <1>0, <1>1, <1>2, <1>s DEF RestoreInv, OriginalIsBase, Shape
<1>5. PriorityRestored'
  BY <1>0, <1>1, <1>s DEF RestoreInv, PriorityRestored, OwnsNothing, Shape
<1> QED
  BY <1>3, <1>4, <1>5 DEF RestoreInv

LEMMA RestoreTakeBlocks ==
  ASSUME Inv, RestoreInv, NEW t \in Threads, NEW m \in Mutexes, TakeBlocks(t, m)
  PROVE  RestoreInv'
<1>s. Shape
  BY InvShape
<1>0. /\ UNCHANGED <<owner, original_priority>>
      /\ wants' = [wants EXCEPT ![t] = m]
      /\ owner[m] # t
      /\ t \notin Nesters => \A k \in Mutexes \ {m} : owner[k] # t
  BY DEF TakeBlocks, MayTake
<1>1. owner[m] \in Threads
  BY <1>s DEF TakeBlocks, Inv, FreeMeansFree, Shape
<1>2. \A u \in Threads : u # owner[m] => prio'[u] = prio[u]
  BY <1>1, <1>s DEF TakeBlocks, Shape
<1>3. OwnsAtMostOne'
  BY <1>0, <1>s DEF RestoreInv, OwnsAtMostOne, Shape
<1>4. OriginalIsBase'
  BY <1>0 DEF RestoreInv, OriginalIsBase
<1>5. PriorityRestored'
  BY <1>0, <1>2 DEF RestoreInv, PriorityRestored, OwnsNothing
<1> QED
  BY <1>3, <1>4, <1>5 DEF RestoreInv

(* After the last release its caller has the priority it had when it took  *)
(* the mutex; every other thread keeps the one it has.                     *)
LEMMA RestoreLastRelease ==
  ASSUME Inv, RestoreInv, NEW t \in Threads, NEW m \in Mutexes, LastRelease(t, m)
  PROVE  /\ \A u \in Threads : u # t => prio'[u] = prio[u]
         /\ t \notin Nesters => prio'[t] = BasePrio[t]
<1>s. Shape
  BY InvShape
<1>1. owner[m] = t /\ prio' = [prio EXCEPT ![t] = original_priority[m]]
  BY DEF LastRelease
<1>2. t \notin Nesters => original_priority[m] = BasePrio[t]
  BY <1>1 DEF RestoreInv, OriginalIsBase
<1> QED
  BY <1>1, <1>2, <1>s DEF Shape

LEMMA RestoreToWaiter ==
  ASSUME Inv, RestoreInv, NEW t \in Threads, NEW m \in Mutexes, ReleaseToWaiter(t, m)
  PROVE  RestoreInv'
<1> DEFINE next == Head(Waiters(m))
<1>s. Shape
  BY InvShape
<1>r. /\ LastRelease(t, m) /\ owner[m] = t /\ UNCHANGED wants
      /\ owner' = [owner EXCEPT ![m] = next]
      /\ original_priority' = [original_priority EXCEPT ![m] = prio'[next]]
  BY DEF ReleaseToWaiter, LastRelease
<1>p. /\ \A u \in Threads : u # t => prio'[u] = prio[u]
      /\ t \notin Nesters => prio'[t] = BasePrio[t]
  BY <1>r, RestoreLastRelease
<1>n. next \in Elements(Waiters(m))
  <2>1. Waiters(m) # << >> /\ suspend_thread' = [suspend_thread EXCEPT ![m] = Tail(@)]
    BY DEF ReleaseToWaiter, ListResume
  <2> QED
    BY <2>1, PopProperties DEF Inv, Waiters, Mutexes
<1>w. next \in Threads /\ next # t /\ wants[next] = m
  BY <1>n, <1>r, WaitersSuspended DEF Inv, WaitsForOne
<1> HIDE DEF next
<1>1. \A k \in Mutexes : owner'[k] = IF k = m THEN next ELSE owner[k]
  BY <1>r, <1>s DEF Shape
<1>2. next \notin Nesters => OwnsNothing(next) /\ prio'[next] = BasePrio[next]
  <2>1. next \notin Nesters => OwnsNothing(next)
    BY <1>w, <1>r DEF RestoreInv, OwnsAtMostOne, OwnsNothing
  <2> QED
    BY <2>1, <1>w, <1>p DEF RestoreInv, PriorityRestored
<1>3. OwnsAtMostOne'
  BY <1>1, <1>2, <1>w, <1>r DEF RestoreInv, OwnsAtMostOne, OwnsNothing
<1>4. OriginalIsBase'
  BY <1>1, <1>2, <1>r, <1>s DEF RestoreInv, OriginalIsBase, Shape
<1>5. PriorityRestored'
  BY <1>1, <1>p, <1>r DEF RestoreInv, PriorityRestored, OwnsNothing
<1> QED
  BY <1>3, <1>4, <1>5 DEF RestoreInv

LEMMA RestoreToNobody ==
  ASSUME Inv, RestoreInv, NEW t \in Threads, NEW m \in Mutexes, ReleaseToNobody(t, m)
  PROVE  RestoreInv'
<1>s. Shape
  BY InvShape
<1>r. /\ LastRelease(t, m) /\ owner[m] = t /\ UNCHANGED wants
      /\ owner' = [owner EXCEPT ![m] = None]
      /\ original_priority' = [original_priority EXCEPT ![m] = NoPrio]
  BY DEF ReleaseToNobody, LastRelease
<1>p. /\ \A u \in Threads : u # t => prio'[u] = prio[u]
      /\ t \notin Nesters => prio'[t] = BasePrio[t]
  BY <1>r, RestoreLastRelease
<1>1. \A k \in Mutexes : owner'[k] = IF k = m THEN None ELSE owner[k]
  BY <1>r, <1>s DEF Shape
<1>3. OwnsAtMostOne'
  BY <1>1, <1>r, <1>s, SMTT(30) DEF RestoreInv, OwnsAtMostOne, Shape
<1>4. OriginalIsBase'
  BY <1>1, <1>r, <1>s DEF RestoreInv, OriginalIsBase, Shape
<1>5. PriorityRestored'
  BY <1>1, <1>p, <1>r DEF RestoreInv, PriorityRestored, OwnsNothing
<1> QED
  BY <1>3, <1>4, <1>5 DEF RestoreInv

LEMMA RestoreNext ==
  ASSUME Inv, RestoreInv, [Next]_vars
  PROVE  RestoreInv'
<1>s. Shape
  BY InvShape
<1>1. ASSUME NEW t \in Threads, NEW m \in Mutexes,
             TakeAgain(t, m) \/ TakeFails(t, m) \/ ReleaseRefused(t, m) \/ ReleaseInner(t, m)
      PROVE  RestoreInv'
  <2>1. UNCHANGED <<owner, original_priority, prio, wants>>
    BY <1>1 DEF TakeAgain, TakeFails, ReleaseRefused, ReleaseInner, mutexVars
  <2> QED
    BY <2>1, RestoreQuiet
<1>2. ASSUME NEW t \in Threads, TakeReturns(t) \/ Timeout(t)
      PROVE  RestoreInv'
  <2>1. UNCHANGED <<owner, original_priority, prio>>
    BY <1>2 DEF TakeReturns, Timeout, mutexVars
  <2>2. \A u \in Threads : wants'[u] \in {wants[u], None}
    BY <1>2, <1>s DEF TakeReturns, Timeout, mutexVars, Shape
  <2> QED
    BY <2>1, <2>2, RestoreQuiet
<1>3. ASSUME NEW m \in Mutexes, Delete(m) \/ DeleteStep(m)
      PROVE  RestoreInv'
  <2>1. UNCHANGED <<owner, original_priority, prio, wants>>
    BY <1>3 DEF Delete, DeleteStep, mutexVars
  <2> QED
    BY <2>1, RestoreQuiet
<1>4. CASE UNCHANGED vars
  <2>1. UNCHANGED <<owner, original_priority, prio, wants>>
    BY <1>4 DEF vars, mutexVars
  <2> QED
    BY <2>1, RestoreQuiet
<1> QED
  BY <1>1, <1>2, <1>3, <1>4, RestoreTakeFree, RestoreTakeBlocks, RestoreToWaiter, RestoreToNobody
  DEF Next

(* A thread that owns one mutex at a time has the priority it was created  *)
(* with whenever it owns none, however often it was boosted and whatever   *)
(* mutexes other threads nest (ipc.c:720-727, :832-838).                   *)
THEOREM BoostEnds == Spec => []PriorityRestored
<1>1. Init => Inv /\ RestoreInv
  BY InitInv, RestoreInit
<1>2. (Inv /\ RestoreInv) /\ [Next]_vars => (Inv /\ RestoreInv)'
  BY NextInv, RestoreNext
<1>3. RestoreInv => PriorityRestored
  BY DEF RestoreInv
<1> QED
  BY <1>1, <1>2, <1>3, PTL DEF Spec
-----------------------------------------------------------------------------
(* The owner of a priority-ordered mutex has the priority of its waiters.  *)

LEMMA RankedInsert ==
  ASSUME NEW q \in Seq(Threads), NEW priority \in [Threads -> Nat], NEW S, NEW t \in Threads,
         Ranked(q, priority, S), NEW i \in 1..(Len(q) + 1),
         \A j \in 1..(i - 1) : priority[q[j]] <= priority[t],
         i <= Len(q) => priority[t] <= priority[q[i]]
  PROVE  Ranked(InsertAt(q, i, t), priority, S)
<1> DEFINE r == InsertAt(q, i, t)
<1>0. /\ Len(q) \in Nat /\ priority[t] \in Nat
      /\ \A k \in 1..Len(q) : q[k] \in Threads /\ priority[q[k]] \in Nat
  BY ElementOfSeq, LenProperties
<1>1. Len(r) = Len(q) + 1
  BY InsertAtProperties
<1>2. \A k \in 1..(Len(q) + 1) :
        r[k] = IF k < i THEN q[k] ELSE IF k = i THEN t ELSE q[k - 1]
  BY DEF InsertAt
<1> HIDE DEF r
<1>3. ASSUME NEW k \in 1..Len(r), NEW m \in 1..Len(r), k < m, r[m] \in S
      PROVE  priority[r[k]] <= priority[r[m]]
  <2>1. CASE m < i
    <3>1. r[k] = q[k] /\ r[m] = q[m] /\ k \in 1..Len(q) /\ m \in 1..Len(q)
      BY <1>0, <1>1, <1>2, <1>3, <2>1
    <3> QED
      BY <1>3, <3>1 DEF Ranked
  <2>2. CASE m = i
    BY <1>0, <1>1, <1>2, <1>3, <2>2
  <2>3. CASE k < i /\ m > i
    <3>1. r[k] = q[k] /\ r[m] = q[m - 1] /\ k \in 1..Len(q) /\ m - 1 \in 1..Len(q) /\ k <= m - 1
      BY <1>0, <1>1, <1>2, <2>3
    <3>2. k < m - 1 => priority[q[k]] <= priority[q[m - 1]]
      BY <1>3, <3>1 DEF Ranked
    <3> QED
      BY <1>0, <3>1, <3>2
  <2>4. CASE k = i
    <3>1. r[k] = t /\ r[m] = q[m - 1] /\ m - 1 \in 1..Len(q) /\ i <= m - 1 /\ i \in 1..Len(q)
      BY <1>0, <1>1, <1>2, <1>3, <2>4
    <3>2. i < m - 1 => priority[q[i]] <= priority[q[m - 1]]
      BY <1>3, <3>1 DEF Ranked
    <3> QED
      BY <1>0, <3>1, <3>2
  <2>5. CASE k > i
    <3>1. /\ r[k] = q[k - 1] /\ r[m] = q[m - 1]
          /\ k - 1 \in 1..Len(q) /\ m - 1 \in 1..Len(q) /\ k - 1 < m - 1
      BY <1>0, <1>1, <1>2, <1>3, <2>5
    <3> QED
      BY <1>3, <3>1 DEF Ranked
  <2> QED
    BY <1>0, <1>1, <1>3, <2>1, <2>2, <2>3, <2>4, <2>5
<1>4. Ranked(r, priority, S)
  BY <1>3 DEF Ranked
<1> QED
  BY <1>4 DEF r

LEMMA RankedUnlink ==
  ASSUME NEW q \in Seq(Threads), NEW priority, NEW S, NEW t, Ranked(q, priority, S)
  PROVE  Ranked(Unlink(q, t), priority, S)
<1>0. Len(q) \in Nat /\ \A k \in 1..Len(q) : q[k] \in Threads
  BY ElementOfSeq, LenProperties
<1>1. CASE t \notin Elements(q)
  BY <1>1 DEF Unlink
<1>2. CASE t \in Elements(q)
  <2> DEFINE i == CHOOSE j \in 1..Len(q) : q[j] = t
             r == [k \in 1..(Len(q) - 1) |-> IF k < i THEN q[k] ELSE q[k + 1]]
  <2>1. i \in 1..Len(q)
    BY <1>2 DEF Elements
  <2>2. Unlink(q, t) = r
    BY <1>2 DEF Unlink
  <2> HIDE DEF i
  <2>3. \A k \in 1..(Len(q) - 1) : r[k] \in Threads
    BY <1>0, <2>1
  <2>4. Len(r) = Len(q) - 1
    BY <1>0, <2>1, <2>3, IsASeq, LenProperties
  <2>5. ASSUME NEW k \in 1..Len(r), NEW m \in 1..Len(r), k < m, r[m] \in S
        PROVE  priority[r[k]] <= priority[r[m]]
    <3> DEFINE a == IF k < i THEN k ELSE k + 1
               b == IF m < i THEN m ELSE m + 1
    <3>1. a \in 1..Len(q) /\ r[k] = q[a]
      BY <1>0, <2>1, <2>4
    <3>2. b \in 1..Len(q) /\ r[m] = q[b]
      BY <1>0, <2>1, <2>4
    <3>3. a < b
      BY <1>0, <2>1, <2>4, <2>5
    <3> HIDE DEF r, a, b
    <3>4. q[b] \in S
      BY <2>5, <3>2
    <3>5. priority[q[a]] <= priority[q[b]]
      BY <3>1, <3>2, <3>3, <3>4 DEF Ranked
    <3> QED
      BY <3>1, <3>2, <3>5
  <2> HIDE DEF r
  <2> QED
    BY <2>2, <2>5 DEF Ranked
<1> QED
  BY <1>1, <1>2

LEMMA RankedTail ==
  ASSUME NEW q \in Seq(Threads), NEW priority, NEW S, Ranked(q, priority, S), q # << >>
  PROVE  /\ Ranked(Tail(q), priority, S)
         /\ \A u \in Elements(Tail(q)) \cap S : priority[Head(q)] <= priority[u]
<1>1. /\ Len(q) \in Nat \ {0} /\ Head(q) = q[1]
      /\ Len(Tail(q)) = Len(q) - 1
      /\ \A k \in 1..Len(Tail(q)) : Tail(q)[k] = q[k + 1]
  BY HeadTailProperties, LenProperties, EmptySeq
<1> QED
  BY <1>1 DEF Ranked, Elements

\* Raising waiters that own something disturbs nothing.
LEMMA RankedRaised ==
  ASSUME NEW q \in Seq(Threads), NEW p \in [Threads -> Nat], NEW r \in [Threads -> Nat],
         NEW S, NEW T, Ranked(q, p, S),
         \A x \in Elements(q) : r[x] <= p[x] /\ (x \in T => x \in S /\ r[x] = p[x])
  PROVE  Ranked(q, r, T)
<1>0. /\ Len(q) \in Nat
      /\ \A k \in 1..Len(q) : /\ q[k] \in Elements(q)
                             /\ p[q[k]] \in Nat /\ r[q[k]] \in Nat
  BY ElementOfSeq, LenProperties DEF Elements
<1>1. ASSUME NEW i \in 1..Len(q), NEW j \in 1..Len(q), i < j, q[j] \in T
      PROVE  r[q[i]] <= r[q[j]]
  <2>1. p[q[i]] <= p[q[j]] /\ r[q[j]] = p[q[j]] /\ r[q[i]] <= p[q[i]]
    BY <1>0, <1>1 DEF Ranked
  <2> QED
    BY <1>0, <2>1
<1> QED
  BY <1>1 DEF Ranked

LEMMA InheritInit == Init => InheritInv
<1> SUFFICES ASSUME Init PROVE InheritInv
  OBVIOUS
<1>1. \A m \in Mutexes : Waiters(m) = << >> /\ Elements(Waiters(m)) = {}
  BY EmptySeq DEF Init, IpcInit, Waiters, Mutexes, Elements
<1> QED
  BY <1>1, EmptySeq DEF InheritInv, OwnerInherits, NoneOvertakes, Ranked

\* No waiter runs, so none owns more or has another priority after a release.
LEMMA WaitersDoNotCall ==
  ASSUME Inv, NEW t \in Threads, wants[t] = None, NEW m \in Mutexes
  PROVE  t \notin Elements(Waiters(m))
BY MutexAssumption DEF Inv, WaitsForOne, Mutexes

(* Threads leave the lists, nothing else that matters changes. *)
LEMMA InheritShrinks ==
  ASSUME Inv, InheritInv, UNCHANGED <<owner, prio>>,
         \A k \in Mutexes : \/ Waiters(k)' = Waiters(k)
                            \/ \E u \in Threads : Waiters(k)' = Unlink(Waiters(k), u)
                            \/ Waiters(k) # << >> /\ Waiters(k)' = Tail(Waiters(k))
  PROVE  InheritInv'
<1>1. Ownerless' = Ownerless /\ \A u \in Threads : OwnsNothing(u)' <=> OwnsNothing(u)
  BY DEF Ownerless, OwnsNothing
<1>2. ASSUME NEW k \in Mutexes
      PROVE  /\ Elements(Waiters(k)') \subseteq Elements(Waiters(k))
             /\ Flag[k] = "PRIO" => Ranked(Waiters(k)', prio, Ownerless)
             /\ Elements(Waiters(k)) \subseteq Threads
  <2>1. /\ Waiters(k) \in Seq(Threads) /\ NoRepeat(Waiters(k))
        /\ Flag[k] = "PRIO" => Ranked(Waiters(k), prio, Ownerless)
    BY DEF Inv, IpcInv, IpcTypeOK, LinkedOnce, Waiters, Mutexes, InheritInv, NoneOvertakes
  <2>0. Elements(Waiters(k)) \subseteq Threads
    BY <2>1, ElementOfSeq DEF Elements
  <2>2. CASE Waiters(k)' = Waiters(k)
    BY <2>0, <2>1, <2>2
  <2>3. ASSUME NEW u \in Threads, Waiters(k)' = Unlink(Waiters(k), u)
        PROVE  /\ Elements(Waiters(k)') \subseteq Elements(Waiters(k))
               /\ Flag[k] = "PRIO" => Ranked(Waiters(k)', prio, Ownerless)
    <3>1. Elements(Unlink(Waiters(k), u)) = Elements(Waiters(k)) \ {u}
      BY <2>1, UnlinkProperties
    <3>2. Flag[k] = "PRIO" => Ranked(Unlink(Waiters(k), u), prio, Ownerless)
      BY <2>1, RankedUnlink
    <3> QED
      BY <2>3, <3>1, <3>2
  <2>4. CASE Waiters(k) # << >> /\ Waiters(k)' = Tail(Waiters(k))
    <3>1. Elements(Tail(Waiters(k))) \subseteq Elements(Waiters(k))
      BY <2>1, <2>4, TailProperties
    <3>2. Flag[k] = "PRIO" => Ranked(Tail(Waiters(k)), prio, Ownerless)
      BY <2>1, <2>4, RankedTail
    <3> QED
      BY <2>0, <2>4, <3>1, <3>2
  <2> QED
    BY <2>0, <2>2, <2>3, <2>4
<1>3. NoneOvertakes'
  BY <1>1, <1>2 DEF NoneOvertakes
<1>4. OwnerInherits'
  <2>1. ASSUME NEW k \in Mutexes, NEW u \in Elements(Waiters(k)'), Flag[k] = "PRIO",
               OwnsNothing(u)', owner'[k] \in Threads \ Nesters
        PROVE  prio'[owner'[k]] <= prio'[u]
    <3>1. u \in Elements(Waiters(k)) /\ u \in Threads /\ OwnsNothing(u)
      BY <1>1, <1>2, <2>1
    <3>2. owner[k] \in Threads \ Nesters
      BY <2>1
    <3>3. prio[owner[k]] <= prio[u]
      BY <2>1, <3>1, <3>2 DEF InheritInv, OwnerInherits
    <3> QED
      BY <3>3
  <2> QED
    BY <2>1 DEF OwnerInherits
<1> QED
  BY <1>3, <1>4 DEF InheritInv

LEMMA InheritTakeFree ==
  ASSUME Inv, InheritInv, NEW t \in Threads, NEW m \in Mutexes, TakeFree(t, m)
  PROVE  InheritInv'
<1>s. Shape
  BY InvShape
<1>0. /\ UNCHANGED <<prio, suspend_thread>> /\ owner[m] = None /\ Waiters(m) = << >>
      /\ owner' = [owner EXCEPT ![m] = t]
  BY <1>s DEF TakeFree, Inv, FreeMeansFree, Shape
<1>1. \A k \in Mutexes : owner'[k] = IF k = m THEN t ELSE owner[k]
  BY <1>0, <1>s DEF Shape
<1>2. \A u \in Threads : OwnsNothing(u)' => OwnsNothing(u)
  BY <1>0, <1>1, <1>s DEF OwnsNothing, Shape
<1>3. \A k \in Mutexes : Waiters(k)' = Waiters(k)
  BY <1>0 DEF Waiters
<1>4. NoneOvertakes'
  <2>1. ASSUME NEW k \in Mutexes, Flag[k] = "PRIO"
        PROVE  Ranked(Waiters(k)', prio', Ownerless')
    <3>1. Ownerless' \subseteq Ownerless
      BY <1>2 DEF Ownerless
    <3>2. Ranked(Waiters(k), prio, Ownerless)
      BY <2>1 DEF InheritInv, NoneOvertakes
    <3> QED
      BY <1>0, <1>3, <3>1, <3>2 DEF Ranked
  <2> QED
    BY <2>1 DEF NoneOvertakes
<1>5. OwnerInherits'
  <2>1. Elements(Waiters(m)) = {}
    BY <1>0, EmptySeq DEF Elements
  <2>2. ASSUME NEW k \in Mutexes, NEW u \in Elements(Waiters(k)'), Flag[k] = "PRIO",
               OwnsNothing(u)', owner'[k] \in Threads \ Nesters
        PROVE  prio'[owner'[k]] <= prio'[u]
    <3>1. u \in Elements(Waiters(k)) /\ k # m /\ owner'[k] = owner[k]
      BY <1>1, <1>3, <2>1, <2>2
    <3>2. u \in Threads
      BY <3>1, WaitersSuspended
    <3> QED
      BY <1>0, <1>2, <2>2, <3>1, <3>2 DEF InheritInv, OwnerInherits
  <2> QED
    BY <2>2 DEF OwnerInherits
<1> QED
  BY <1>4, <1>5 DEF InheritInv

(* The owner is raised to the caller's priority before the caller takes    *)
(* its place behind all that are not below it.                             *)
LEMMA InheritTakeBlocks ==
  ASSUME Inv, InheritInv, NEW t \in Threads, NEW m \in Mutexes, TakeBlocks(t, m)
  PROVE  InheritInv'
<1> DEFINE q == Enqueue(Waiters(m), t, Flag[m], prio')
<1>s. Shape
  BY InvShape
<1>0. /\ UNCHANGED owner /\ wants[t] = None /\ owner[m] # t
      /\ prio' = IF prio[t] < prio[owner[m]]
                 THEN [prio EXCEPT ![owner[m]] = prio[t]] ELSE prio
      /\ suspend_thread' = [suspend_thread EXCEPT ![m] = q]
  BY DEF TakeBlocks, MayTake, CanCall, ListSuspend, Waiters
<1>1. owner[m] \in Threads
  BY <1>s DEF TakeBlocks, Inv, FreeMeansFree, Shape
<1>2. /\ prio' \in [Threads -> Nat] /\ prio'[t] = prio[t] /\ prio'[owner[m]] <= prio[t]
      /\ \A u \in Threads : /\ prio'[u] <= prio[u]
                            /\ u # owner[m] => prio'[u] = prio[u]
  <2>1. /\ \A u \in Threads : prio[u] \in Nat
        /\ prio' \in [Threads -> Nat]
    BY <1>0, <1>1, <1>s DEF Shape
  <2>2. CASE prio[t] < prio[owner[m]]
    BY <1>0, <1>1, <1>s, <2>1, <2>2 DEF Shape
  <2>3. CASE ~(prio[t] < prio[owner[m]])
    BY <1>0, <1>1, <1>s, <2>1, <2>3 DEF Shape
  <2> QED
    BY <2>1, <2>2, <2>3
<1>3. /\ Ownerless' = Ownerless
      /\ \A u \in Threads : OwnsNothing(u)' <=> OwnsNothing(u)
      /\ \A u \in Ownerless : prio'[u] = prio[u]
  BY <1>0, <1>1, <1>2 DEF Ownerless, OwnsNothing
<1>4. \A k \in Mutexes : /\ Waiters(k) \in Seq(Threads) /\ NoRepeat(Waiters(k))
                         /\ t \notin Elements(Waiters(k))
                         /\ \A u \in Elements(Waiters(k)) : u \in Threads
  BY <1>0, WaitersDoNotCall, WaitersSuspended
  DEF Inv, IpcInv, IpcTypeOK, LinkedOnce, Waiters, Mutexes
<1>5. \A k \in Mutexes : Flag[k] = "PRIO" => Ranked(Waiters(k), prio', Ownerless)
  <2>1. ASSUME NEW k \in Mutexes, Flag[k] = "PRIO"
        PROVE  Ranked(Waiters(k), prio', Ownerless)
    <3>1. Ranked(Waiters(k), prio, Ownerless)
      BY <2>1 DEF InheritInv, NoneOvertakes
    <3>2. \A x \in Elements(Waiters(k)) :
            prio'[x] <= prio[x] /\ (x \in Ownerless => x \in Ownerless /\ prio'[x] = prio[x])
      BY <1>2, <1>3, <1>4
    <3>3. prio \in [Threads -> Nat]
      BY <1>s DEF Shape
    <3> QED
      BY <1>2, <1>4, <3>1, <3>2, <3>3, RankedRaised
  <2> QED
    BY <2>1
<1>6. /\ Elements(q) = Elements(Waiters(m)) \cup {t}
      /\ Flag[m] = "PRIO" => Ranked(q, prio', Ownerless)
  <2>1. Flag[m] \in {"FIFO", "PRIO"}
    BY MutexAssumption DEF Mutexes
  <2>2. Elements(q) = Elements(Waiters(m)) \cup {t}
    BY <1>2, <1>4, <2>1, EnqueueProperties
  <2>3. ASSUME Flag[m] = "PRIO"
        PROVE  Ranked(q, prio', Ownerless)
    <3> DEFINE i == PrioPosition(Waiters(m), t, prio')
    <3>1. /\ i \in 1..(Len(Waiters(m)) + 1)
          /\ \A j \in 1..(i - 1) : prio'[Waiters(m)[j]] <= prio'[t]
          /\ i <= Len(Waiters(m)) => prio'[t] < prio'[Waiters(m)[i]]
      BY <1>2, <1>4, PrioPositionProperties
    <3>2. q = InsertAt(Waiters(m), i, t)
      BY <2>3 DEF Enqueue
    <3> HIDE DEF i, q
    <3>3. i <= Len(Waiters(m)) => prio'[t] <= prio'[Waiters(m)[i]]
      <4>1. ASSUME i <= Len(Waiters(m)) PROVE prio'[Waiters(m)[i]] \in Nat /\ prio'[t] \in Nat
        BY <1>2, <1>4, <3>1, <4>1, LenProperties, ElementOfSeq
      <4> QED
        BY <3>1, <4>1
    <3> QED
      BY <1>2, <1>4, <1>5, <2>3, <3>1, <3>2, <3>3, RankedInsert
  <2> QED
    BY <2>2, <2>3
<1> HIDE DEF q
<1>7. \A k \in Mutexes : Waiters(k)' = IF k = m THEN q ELSE Waiters(k)
  BY <1>0, <1>s DEF Shape, Waiters, Mutexes
<1>8. NoneOvertakes'
  BY <1>3, <1>5, <1>6, <1>7 DEF NoneOvertakes
<1>9. OwnerInherits'
  <2>1. ASSUME NEW k \in Mutexes, NEW u \in Elements(Waiters(k)'), Flag[k] = "PRIO",
               OwnsNothing(u)', owner'[k] \in Threads \ Nesters
        PROVE  prio'[owner'[k]] <= prio'[u]
    <3>1. CASE u \in Elements(Waiters(k))
      <4>1. u \in Threads /\ OwnsNothing(u) /\ u \in Ownerless /\ owner[k] \in Threads \ Nesters
        BY <1>0, <1>3, <1>4, <2>1, <3>1 DEF Ownerless
      <4>2. prio[owner[k]] <= prio[u]
        BY <2>1, <3>1, <4>1 DEF InheritInv, OwnerInherits
      <4>3. /\ prio'[owner[k]] <= prio[owner[k]] /\ prio'[u] = prio[u]
            /\ prio[owner[k]] \in Nat /\ prio[u] \in Nat /\ prio'[owner[k]] \in Nat
        BY <1>2, <1>3, <4>1, <1>s DEF Shape
      <4> QED
        BY <1>0, <4>2, <4>3
    <3>2. CASE u \notin Elements(Waiters(k))
      <4>1. k = m /\ u = t
        BY <1>6, <1>7, <2>1, <3>2
      <4> QED
        BY <1>0, <1>2, <4>1
    <3> QED
      BY <3>1, <3>2
  <2> QED
    BY <2>1 DEF OwnerInherits
<1> QED
  BY <1>8, <1>9 DEF InheritInv

(* The first waiter has at least the priority of those behind it.  The     *)
(* caller owned nothing else, if it does not nest, and waits for nothing.  *)
LEMMA InheritToWaiter ==
  ASSUME Inv, RestoreInv, InheritInv, NEW t \in Threads, NEW m \in Mutexes, ReleaseToWaiter(t, m)
  PROVE  InheritInv'
<1> DEFINE next == Head(Waiters(m))
<1>s. Shape
  BY InvShape
<1>r. /\ LastRelease(t, m) /\ owner[m] = t /\ wants[t] = None
      /\ owner' = [owner EXCEPT ![m] = next]
      /\ Waiters(m) # << >>
      /\ suspend_thread' = [suspend_thread EXCEPT ![m] = Tail(@)]
  BY DEF ReleaseToWaiter, LastRelease, CanCall, ListResume
<1>p. \A u \in Threads : u # t => prio'[u] = prio[u]
  BY <1>r, RestoreLastRelease
<1>n. /\ next \in Threads /\ next \in Elements(Waiters(m))
      /\ \A k \in Mutexes : Elements(Waiters(k)') = Elements(Waiters(k)) \ {next}
  BY <1>r, PopProperties DEF Inv, Waiters, Mutexes
<1>q. \A k \in Mutexes : Waiters(k)' = IF k = m THEN Tail(Waiters(k)) ELSE Waiters(k)
  BY <1>r, <1>s DEF Shape, Waiters, Mutexes
<1>t. \A k \in Mutexes : Waiters(k) \in Seq(Threads) /\ NoRepeat(Waiters(k))
  BY DEF Inv, IpcInv, IpcTypeOK, LinkedOnce, Waiters, Mutexes
<1>w. \A k \in Mutexes : \A u \in Elements(Waiters(k)) : u \in Threads /\ u # t
  BY <1>r, WaitersDoNotCall, WaitersSuspended
<1>1. \A k \in Mutexes : owner'[k] = IF k = m THEN next ELSE owner[k]
  BY <1>r, <1>s DEF Shape
<1>2. \A u \in Threads : u # t /\ OwnsNothing(u)' => OwnsNothing(u) /\ u # next
  BY <1>1, <1>r DEF OwnsNothing
<1>3. Flag[m] = "PRIO" =>
        \A u \in Elements(Waiters(m)') \cap Ownerless : prio[next] <= prio[u]
  <2>1. Waiters(m)' = Tail(Waiters(m))
    BY <1>q
  <2>2. Flag[m] = "PRIO" => Ranked(Waiters(m), prio, Ownerless)
    BY DEF InheritInv, NoneOvertakes
  <2>3. Flag[m] = "PRIO" =>
          \A u \in Elements(Tail(Waiters(m))) \cap Ownerless : prio[next] <= prio[u]
    BY <1>r, <1>t, <2>2, RankedTail
  <2> HIDE DEF next
  <2> QED
    BY <2>1, <2>3
<1>4. ASSUME NEW k \in Mutexes, Flag[k] = "PRIO"
      PROVE  Ranked(Waiters(k)', prio', Ownerless')
  <2>1. Ranked(Waiters(k), prio, Ownerless)
    BY <1>4 DEF InheritInv, NoneOvertakes
  <2>2. Ranked(Waiters(k)', prio, Ownerless)
    <3>1. CASE k = m
      BY <1>q, <1>r, <1>t, <2>1, <3>1, RankedTail
    <3>2. CASE k # m
      BY <1>q, <2>1, <3>2
    <3> QED
      BY <3>1, <3>2
  <2>3. /\ Waiters(k)' \in Seq(Threads)
        /\ \A u \in Elements(Waiters(k)') : u \in Threads /\ u # t
    <3>1. Waiters(k)' \in Seq(Threads)
      <4>1. Tail(Waiters(m)) \in Seq(Threads)
        BY <1>r, <1>t, TailProperties
      <4> QED
        BY <1>q, <1>t, <4>1
    <3> HIDE DEF next
    <3> QED
      BY <1>n, <1>w, <3>1
  <2>4. \A x \in Elements(Waiters(k)') :
          prio'[x] <= prio[x] /\ (x \in Ownerless' => x \in Ownerless /\ prio'[x] = prio[x])
    <3> HIDE DEF next
    <3> QED
      BY <1>2, <1>p, <1>s, <2>3 DEF Ownerless, Shape
  <2>5. prio \in [Threads -> Nat] /\ prio' \in [Threads -> Nat]
    <3>1. prio' \in [Threads -> 0..NoPrio] /\ 0..NoPrio \subseteq Nat
      BY <1>r, LastReleaseFacts DEF NoPrio
    <3>2. prio' \in [Threads -> Nat]
      BY <3>1
    <3> QED
      BY <1>s, <3>2 DEF Shape
  <2> QED
    BY <2>2, <2>3, <2>4, <2>5, RankedRaised
<1>5. NoneOvertakes'
  BY <1>4 DEF NoneOvertakes
<1> HIDE DEF next
<1>6. OwnerInherits'
  <2>1. ASSUME NEW k \in Mutexes, NEW u \in Elements(Waiters(k)'), Flag[k] = "PRIO",
               OwnsNothing(u)', owner'[k] \in Threads \ Nesters
        PROVE  prio'[owner'[k]] <= prio'[u]
    <3>1. /\ u \in Elements(Waiters(k)) /\ u \in Threads /\ u # t /\ u # next
          /\ OwnsNothing(u) /\ prio'[u] = prio[u]
      BY <1>2, <1>n, <1>p, <1>w, <2>1
    <3>2. CASE k = m
      <4>1. owner'[k] = next /\ next # t
        BY <1>1, <1>n, <1>w, <3>2
      <4> QED
        BY <1>3, <1>n, <1>p, <2>1, <3>1, <3>2, <4>1 DEF Ownerless
    <3>3. CASE k # m
      <4>1. owner'[k] = owner[k] /\ owner[k] # t
        BY <1>1, <1>r, <2>1, <3>3 DEF RestoreInv, OwnsAtMostOne
      <4> QED
        BY <1>p, <2>1, <3>1, <4>1 DEF InheritInv, OwnerInherits
    <3> QED
      BY <3>2, <3>3
  <2> QED
    BY <2>1 DEF OwnerInherits
<1> QED
  BY <1>5, <1>6 DEF InheritInv

LEMMA InheritToNobody ==
  ASSUME Inv, RestoreInv, InheritInv, NEW t \in Threads, NEW m \in Mutexes, ReleaseToNobody(t, m)
  PROVE  InheritInv'
<1>s. Shape
  BY InvShape
<1>r. /\ LastRelease(t, m) /\ owner[m] = t /\ wants[t] = None
      /\ owner' = [owner EXCEPT ![m] = None]
      /\ UNCHANGED suspend_thread
  BY DEF ReleaseToNobody, LastRelease, CanCall, ipcVars
<1>p. \A u \in Threads : u # t => prio'[u] = prio[u]
  BY <1>r, RestoreLastRelease
<1>q. \A k \in Mutexes : Waiters(k)' = Waiters(k) /\ Waiters(k) \in Seq(Threads)
  BY <1>r DEF Waiters, Inv, IpcInv, IpcTypeOK, Mutexes
<1>w. \A k \in Mutexes : \A u \in Elements(Waiters(k)) : u \in Threads /\ u # t
  BY <1>r, WaitersDoNotCall, WaitersSuspended
<1>1. \A k \in Mutexes : owner'[k] = IF k = m THEN None ELSE owner[k]
  BY <1>r, <1>s DEF Shape
<1>2. \A u \in Threads : u # t /\ OwnsNothing(u)' => OwnsNothing(u)
  BY <1>1, <1>r DEF OwnsNothing
<1>3. ASSUME NEW k \in Mutexes, Flag[k] = "PRIO"
      PROVE  Ranked(Waiters(k)', prio', Ownerless')
  <2>1. Ranked(Waiters(k), prio, Ownerless)
    BY <1>3 DEF InheritInv, NoneOvertakes
  <2>2. \A x \in Elements(Waiters(k)) :
          prio'[x] <= prio[x] /\ (x \in Ownerless' => x \in Ownerless /\ prio'[x] = prio[x])
    BY <1>2, <1>p, <1>s, <1>w DEF Ownerless, Shape
  <2>3. prio \in [Threads -> Nat] /\ prio' \in [Threads -> Nat]
    <3>1. prio' \in [Threads -> 0..NoPrio] /\ 0..NoPrio \subseteq Nat
      BY <1>r, LastReleaseFacts DEF NoPrio
    <3>2. prio' \in [Threads -> Nat]
      BY <3>1
    <3> QED
      BY <1>s, <3>2 DEF Shape
  <2>4. Ranked(Waiters(k), prio', Ownerless')
    BY <1>q, <2>1, <2>2, <2>3, RankedRaised
  <2> QED
    BY <1>q, <2>4
<1>4. NoneOvertakes'
  BY <1>3 DEF NoneOvertakes
<1>5. OwnerInherits'
  <2>1. ASSUME NEW k \in Mutexes, NEW u \in Elements(Waiters(k)'), Flag[k] = "PRIO",
               OwnsNothing(u)', owner'[k] \in Threads \ Nesters
        PROVE  prio'[owner'[k]] <= prio'[u]
    <3>1. /\ u \in Elements(Waiters(k)) /\ u \in Threads /\ u # t
          /\ OwnsNothing(u) /\ prio'[u] = prio[u]
      BY <1>2, <1>p, <1>q, <1>w, <2>1
    <3>2. k # m
      BY <1>1, <1>s, <2>1 DEF Shape
    <3>3. owner'[k] = owner[k] /\ owner[k] # t
      BY <1>1, <1>r, <2>1, <3>2 DEF RestoreInv, OwnsAtMostOne
    <3> QED
      BY <1>p, <2>1, <3>1, <3>3 DEF InheritInv, OwnerInherits
  <2> QED
    BY <2>1 DEF OwnerInherits
<1> QED
  BY <1>4, <1>5 DEF InheritInv

LEMMA InheritNext ==
  ASSUME Inv, RestoreInv, InheritInv, [Next]_vars
  PROVE  InheritInv'
<1>1. CASE UNCHANGED <<owner, prio, suspend_thread>>
  BY <1>1, InheritShrinks DEF Waiters
<1>2. ASSUME NEW t \in Threads, NEW m \in Mutexes,
             TakeAgain(t, m) \/ TakeFails(t, m) \/ ReleaseRefused(t, m) \/ ReleaseInner(t, m)
      PROVE  InheritInv'
  BY <1>1, <1>2 DEF TakeAgain, TakeFails, ReleaseRefused, ReleaseInner, mutexVars, ipcVars
<1>3. ASSUME NEW t \in Threads, TakeReturns(t) PROVE InheritInv'
  BY <1>1, <1>3 DEF TakeReturns, ipcVars
<1>4. ASSUME NEW t \in Threads, Timeout(t) PROVE InheritInv'
  <2>1. UNCHANGED <<owner, prio>>
        /\ \A k \in Mutexes : Waiters(k)' = Unlink(Waiters(k), t)
    BY <1>4 DEF Timeout, ThreadTimeout, mutexVars, Waiters, Mutexes
  <2> QED
    BY <2>1, InheritShrinks
<1>5. ASSUME NEW m \in Mutexes, Delete(m) \/ DeleteStep(m) PROVE InheritInv'
  <2>1. UNCHANGED <<owner, prio>>
    BY <1>5 DEF Delete, DeleteStep, mutexVars
  <2>2. \/ UNCHANGED suspend_thread
        \/ /\ suspend_thread[m] # << >>
           /\ suspend_thread' = [suspend_thread EXCEPT ![m] = Tail(@)]
    BY <1>5 DEF Delete, DeleteStep, BeginTeardown, TeardownStep, TeardownTest, TeardownResume
  <2>3. \A k \in Mutexes : \/ Waiters(k)' = Waiters(k)
                           \/ Waiters(k) # << >> /\ Waiters(k)' = Tail(Waiters(k))
    BY <2>2 DEF Waiters, Inv, IpcInv, IpcTypeOK, Mutexes
  <2> QED
    BY <2>1, <2>3, InheritShrinks
<1>6. CASE UNCHANGED vars
  BY <1>1, <1>6 DEF vars, mutexVars, ipcVars
<1> QED
  BY <1>2, <1>3, <1>4, <1>5, <1>6,
     InheritTakeFree, InheritTakeBlocks, InheritToWaiter, InheritToNobody
  DEF Next

(* No priority inversion: on a priority-ordered mutex an owner that does   *)
(* not nest runs at least at the priority of each waiter that owns nothing *)
(* itself, also after the mutex has been handed over, a wait has timed out *)
(* or a waiter has been boosted where it stands (ipc.c:720-727, :852-853). *)
THEOREM NoInversion == Spec => []OwnerInherits
<1>1. Init => Inv /\ RestoreInv /\ InheritInv
  BY InitInv, RestoreInit, InheritInit
<1>2. (Inv /\ RestoreInv /\ InheritInv) /\ [Next]_vars => (Inv /\ RestoreInv /\ InheritInv)'
  BY NextInv, RestoreNext, InheritNext
<1>3. InheritInv => OwnerInherits
  BY DEF InheritInv
<1> QED
  BY <1>1, <1>2, <1>3, PTL DEF Spec
=============================================================================
