-------------------------- MODULE SemaphoreProofs --------------------------
(***************************************************************************)
(* Proofs about Semaphore, for any number of threads, any priorities and   *)
(* changes of them, any initial count and width, and any waiting times.    *)
(***************************************************************************)
EXTENDS Semaphore, IpcProofs

LEMMA SemIsAList == Sem \in Lists /\ Lists = {Sem}
BY SemAssumption

-----------------------------------------------------------------------------
(* Lists in which nobody stands before a thread that precedes it.          *)

LEMMA TailInPrecedence ==
  ASSUME NEW S, NEW q \in Seq(S), q # << >>, NEW r, NEW r1 \in SUBSET r,
         InPrecedence(q, r)
  PROVE  /\ InPrecedence(Tail(q), r1)
         /\ \A u \in Elements(Tail(q)) : <<u, Head(q)>> \notin r
<1>1. /\ Len(q) \in Nat \ {0} /\ Head(q) = q[1]
      /\ Len(Tail(q)) = Len(q) - 1
      /\ \A k \in 1..Len(Tail(q)) : Tail(q)[k] = q[k + 1]
  BY HeadTailProperties, LenProperties, EmptySeq
<1> QED
  BY <1>1 DEF InPrecedence, Elements

LEMMA UnlinkInPrecedence ==
  ASSUME NEW S, NEW q \in Seq(S), NEW t, NEW r, NEW r1 \in SUBSET r,
         InPrecedence(q, r)
  PROVE  InPrecedence(Unlink(q, t), r1)
<1>0. Len(q) \in Nat /\ \A k \in 1..Len(q) : q[k] \in S
  BY ElementOfSeq, LenProperties
<1>1. CASE t \notin Elements(q)
  BY <1>1 DEF Unlink, InPrecedence
<1>2. CASE t \in Elements(q)
  <2> DEFINE i == CHOOSE j \in 1..Len(q) : q[j] = t
             w == [k \in 1..(Len(q) - 1) |-> IF k < i THEN q[k] ELSE q[k + 1]]
  <2>1. i \in 1..Len(q)
    BY <1>2 DEF Elements
  <2>2. Unlink(q, t) = w
    BY <1>2 DEF Unlink
  <2> HIDE DEF i
  <2>3. \A k \in 1..(Len(q) - 1) : w[k] \in S
    BY <1>0, <2>1
  <2>4. Len(w) = Len(q) - 1
    BY <1>0, <2>1, <2>3, IsASeq, LenProperties
  <2>5. ASSUME NEW k \in 1..Len(w), NEW m \in 1..Len(w), k < m
        PROVE  <<w[m], w[k]>> \notin r1
    <3>1. PICK a \in 1..Len(q) : w[k] = q[a] /\ (a = k \/ (a = k + 1 /\ ~(k < i)))
      BY <1>0, <2>1, <2>4
    <3>2. PICK b \in 1..Len(q) : w[m] = q[b] /\ (b = m + 1 \/ (b = m /\ m < i))
      BY <1>0, <2>1, <2>4
    <3>3. a < b
      BY <1>0, <2>1, <2>4, <2>5, <3>1, <3>2
    <3> QED
      BY <3>1, <3>2, <3>3 DEF InPrecedence
  <2> HIDE DEF w
  <2> QED
    BY <2>2, <2>5 DEF InPrecedence
<1> QED
  BY <1>1, <1>2

\* A new waiter goes before all those of lower priority and after nobody it precedes.
LEMMA EnqueueInPrecedence ==
  ASSUME NEW S, NEW q \in Seq(S), NEW prio \in [S -> Nat], NEW t \in S, NEW r,
         InPrecedence(q, r), t \notin Elements(q),
         \A p \in r : {p[1], p[2]} \subseteq Elements(q)
  PROVE  InPrecedence(Enqueue(q, t, "PRIO", prio),
                      r \cup {<<t, u>> : u \in {w \in Elements(q) : prio[t] < prio[w]}})
<1> DEFINE i == PrioPosition(q, t, prio)
           late == {<<t, u>> : u \in {w \in Elements(q) : prio[t] < prio[w]}}
           e == InsertAt(q, i, t)
<1>1. /\ i \in 1..(Len(q) + 1)
      /\ \A j \in 1..(i - 1) : prio[q[j]] <= prio[t]
  BY PrioPositionProperties
<1>2. Len(q) \in Nat /\ \A k \in 1..Len(q) : q[k] \in S /\ q[k] \in Elements(q)
  BY ElementOfSeq, LenProperties DEF Elements
<1> HIDE DEF i
<1>3. Len(e) = Len(q) + 1
  BY <1>1, InsertAtProperties
<1>4. \A k \in 1..(Len(q) + 1) :
        e[k] = IF k < i THEN q[k] ELSE IF k = i THEN t ELSE q[k - 1]
  BY DEF InsertAt
<1> HIDE DEF e
<1>5. \A u : <<u, t>> \notin r /\ <<t, u>> \notin r
  OBVIOUS
<1>6. \A u, v : <<u, v>> \in late => u = t /\ v \in Elements(q) /\ prio[t] < prio[v]
  OBVIOUS
<1> HIDE DEF late
<1>7. ASSUME NEW k \in 1..Len(e), NEW m \in 1..Len(e), k < m
      PROVE  <<e[m], e[k]>> \notin r /\ <<e[m], e[k]>> \notin late
  <2>1. CASE m < i
    <3>1. e[k] = q[k] /\ e[m] = q[m] /\ k \in 1..Len(q) /\ m \in 1..Len(q)
      BY <1>1, <1>2, <1>3, <1>4, <1>7, <2>1
    <3>2. <<q[m], q[k]>> \notin r
      BY <1>7, <3>1 DEF InPrecedence
    <3>3. q[m] # t
      BY <1>2, <3>1
    <3> QED
      BY <1>6, <3>1, <3>2, <3>3
  <2>2. CASE m = i
    <3>1. e[k] = q[k] /\ e[m] = t /\ k \in 1..Len(q) /\ prio[q[k]] <= prio[t]
      BY <1>1, <1>2, <1>3, <1>4, <1>7, <2>2
    <3>2. prio[q[k]] \in Nat /\ prio[t] \in Nat
      BY <1>2, <3>1
    <3> QED
      BY <1>5, <1>6, <3>1, <3>2
  <2>3. CASE k < i /\ m > i
    <3>1. e[k] = q[k] /\ e[m] = q[m - 1] /\ k \in 1..Len(q) /\ m - 1 \in 1..Len(q) /\ k < m - 1
      BY <1>1, <1>2, <1>3, <1>4, <2>3
    <3>2. <<q[m - 1], q[k]>> \notin r
      BY <3>1 DEF InPrecedence
    <3>3. q[m - 1] # t
      BY <1>2, <3>1
    <3> QED
      BY <1>6, <3>1, <3>2, <3>3
  <2>4. CASE k = i
    <3>1. e[k] = t /\ e[m] = q[m - 1] /\ m - 1 \in 1..Len(q)
      BY <1>1, <1>2, <1>3, <1>4, <1>7, <2>4
    <3> QED
      BY <1>2, <1>5, <1>6, <3>1
  <2>5. CASE k > i
    <3>1. e[k] = q[k - 1] /\ e[m] = q[m - 1] /\ k - 1 \in 1..Len(q) /\ m - 1 \in 1..Len(q)
          /\ k - 1 < m - 1
      BY <1>1, <1>2, <1>3, <1>4, <1>7, <2>5
    <3>2. <<q[m - 1], q[k - 1]>> \notin r
      BY <3>1 DEF InPrecedence
    <3>3. q[m - 1] # t
      BY <1>2, <3>1
    <3> QED
      BY <1>6, <3>1, <3>2, <3>3
  <2> QED
    BY <1>1, <1>2, <1>3, <1>7, <2>1, <2>2, <2>3, <2>4, <2>5
<1>8. InPrecedence(e, r \cup late)
  BY <1>7 DEF InPrecedence
<1> QED
  BY <1>8 DEF Enqueue, e, i, late

-----------------------------------------------------------------------------
(* The order of the list through the steps that change it.                 *)

LEMMA OrderUnchanged ==
  ASSUME WaitersOrdered, UNCHANGED <<suspend_thread, orderVars>>
  PROVE  WaitersOrdered'
BY DEF WaitersOrdered, orderVars, Waiters

LEMMA OrderWhenHeadLeaves ==
  ASSUME WaitersOrdered, Waiters \in Seq(Threads), Waiters # << >>, SomeLeave,
         Waiters' = Tail(Waiters), current_priority \in [Threads -> Nat]
  PROVE  WaitersOrdered'
<1>1. /\ precedes' \in SUBSET precedes /\ current_priority' = current_priority
      /\ \A p \in precedes' : {p[1], p[2]} \subseteq Elements(Waiters')
  BY DEF SomeLeave
<1>2. ~shuffled' => ~shuffled \/ Waiters' = << >>
  BY DEF SomeLeave
<1>3. ASSUME Flag = "PRIO" PROVE InPrecedence(Waiters', precedes')
  BY <1>1, <1>3, TailInPrecedence DEF WaitersOrdered
<1>4. ASSUME Flag = "PRIO", ~shuffled' PROVE OrderedBy(Waiters', current_priority')
  <2>1. \A x \in Threads : current_priority[x] \in Int
    OBVIOUS
  <2>2. CASE ~shuffled
    <3>1. OrderedBy(Waiters, current_priority)
      BY <1>4, <2>2 DEF WaitersOrdered
    <3>2. OrderedBy(Tail(Waiters), current_priority)
      BY <2>1, <3>1, TailOrdered
    <3> QED
      BY <1>1, <3>2
  <2>3. CASE Waiters' = << >>
    <3>1. Len(Waiters') = 0
      BY <2>3, EmptySeq
    <3> QED
      BY <3>1 DEF OrderedBy
  <2> QED
    BY <1>2, <1>4, <2>2, <2>3
<1> QED
  BY <1>1, <1>3, <1>4 DEF WaitersOrdered

LEMMA OrderWhenOneLeaves ==
  ASSUME WaitersOrdered, Waiters \in Seq(Threads), SomeLeave, NEW t,
         Waiters' = Unlink(Waiters, t), current_priority \in [Threads -> Nat]
  PROVE  WaitersOrdered'
<1>1. /\ precedes' \in SUBSET precedes /\ current_priority' = current_priority
      /\ \A p \in precedes' : {p[1], p[2]} \subseteq Elements(Waiters')
  BY DEF SomeLeave
<1>2. ~shuffled' => ~shuffled \/ Waiters' = << >>
  BY DEF SomeLeave
<1>3. ASSUME Flag = "PRIO" PROVE InPrecedence(Waiters', precedes')
  BY <1>1, <1>3, UnlinkInPrecedence DEF WaitersOrdered
<1>4. ASSUME Flag = "PRIO", ~shuffled' PROVE OrderedBy(Waiters', current_priority')
  <2>1. \A x \in Threads : current_priority[x] \in Int
    OBVIOUS
  <2>2. CASE ~shuffled
    BY <1>1, <1>4, <2>1, <2>2, UnlinkOrdered DEF WaitersOrdered
  <2>3. CASE Waiters' = << >>
    <3>1. Len(Waiters') = 0
      BY <2>3, EmptySeq
    <3> QED
      BY <3>1 DEF OrderedBy
  <2> QED
    BY <1>2, <1>4, <2>2, <2>3
<1> QED
  BY <1>1, <1>3, <1>4 DEF WaitersOrdered

LEMMA OrderWhenAllStayOrLeave ==
  ASSUME WaitersOrdered, SomeLeave, Waiters' = Waiters \/ Waiters' = << >>
  PROVE  WaitersOrdered'
<1>1. /\ precedes' \in SUBSET precedes /\ current_priority' = current_priority
      /\ \A p \in precedes' : {p[1], p[2]} \subseteq Elements(Waiters')
  BY DEF SomeLeave
<1>2. ~shuffled' => ~shuffled \/ Waiters' = << >>
  BY DEF SomeLeave
<1>3. CASE Waiters' = << >>
  BY <1>1, <1>3, EmptySeq DEF WaitersOrdered, InPrecedence, OrderedBy
<1>4. CASE Waiters' = Waiters
  <2>1. InPrecedence(Waiters, precedes) => InPrecedence(Waiters, precedes')
    BY <1>1 DEF InPrecedence
  <2> QED
    BY <1>1, <1>2, <1>3, <1>4, <2>1 DEF WaitersOrdered
<1> QED
  BY <1>3, <1>4

LEMMA EnqueueAddsOne ==
  ASSUME Waiters \in Seq(Threads), NoRepeat(Waiters), NEW t \in Threads,
         t \notin Elements(Waiters), current_priority \in [Threads -> Nat]
  PROVE  Elements(Enqueue(Waiters, t, Flag, current_priority)) = Elements(Waiters) \cup {t}
<1>1. Flag \in {"FIFO", "PRIO"}
  BY SemAssumption
<1> QED
  BY <1>1, EnqueueProperties

LEMMA OrderWhenOneComes ==
  ASSUME WaitersOrdered, Waiters \in Seq(Threads), NoRepeat(Waiters),
         NEW t \in Threads, t \notin Elements(Waiters),
         current_priority \in [Threads -> Nat],
         Waiters' = Enqueue(Waiters, t, Flag, current_priority),
         precedes' = precedes \cup {<<t, u>> : u \in {w \in Elements(Waiters) :
                                       current_priority[t] < current_priority[w]}},
         UNCHANGED <<current_priority, shuffled>>
  PROVE  WaitersOrdered'
<1>1. Elements(Waiters') = Elements(Waiters) \cup {t}
  BY EnqueueAddsOne
<1>2. \A p \in precedes : {p[1], p[2]} \subseteq Elements(Waiters)
  BY DEF WaitersOrdered
<1>3. ASSUME NEW p \in precedes' PROVE {p[1], p[2]} \subseteq Elements(Waiters')
  BY <1>1, <1>2, <1>3
<1>4. ASSUME Flag = "PRIO" PROVE InPrecedence(Waiters', precedes')
  BY <1>2, <1>4, EnqueueInPrecedence DEF WaitersOrdered
<1>5. ASSUME Flag = "PRIO", ~shuffled' PROVE OrderedBy(Waiters', current_priority')
  BY <1>5, EnqueueOrdered DEF WaitersOrdered
<1> QED
  BY <1>3, <1>4, <1>5 DEF WaitersOrdered

-----------------------------------------------------------------------------
LEMMA InitInv == Init => Inv
<1> SUFFICES ASSUME Init PROVE Inv
  OBVIOUS
<1>1. IpcInit /\ IpcInv
  BY IpcInitInv DEF Init
<1>2. Waiters = << >> /\ Len(Waiters) = 0
  BY <1>1, SemIsAList, EmptySeq DEF IpcInit, Waiters
<1>3. TypeOK
  BY <1>1, SemAssumption DEF Init, TypeOK, IpcInv, PC, Errors
<1>4. CallsMatchStat /\ WaitersOrdered
  BY <1>1, <1>2 DEF Init, IpcInit, CallsMatchStat, WaitersOrdered, OrderedBy, InPrecedence
<1> QED
  BY <1>1, <1>2, <1>3, <1>4 DEF Inv, NoUnitWhileWaiting

LEMMA NextInv == Inv /\ [Next]_vars => Inv'
<1> SUFFICES ASSUME Inv, [Next]_vars PROVE Inv'
  OBVIOUS
<1> USE SemIsAList, SemAssumption
<1>0. /\ suspend_thread[Sem] \in Seq(Threads)
      /\ value \in 0..(ValueMod - 1) /\ value \in Nat
      /\ stat \in [Threads -> {"ready", "suspend"}]
      /\ teardown \in [Lists -> Teardown]
      /\ pc \in [Threads -> PC] /\ ret \in [Threads -> Errors]
      /\ error \in [Threads -> Errors]
      /\ \A t \in Elements(Waiters) : stat[t] = "suspend"
      /\ current_priority \in [Threads -> Nat] /\ shuffled \in BOOLEAN
      /\ precedes \subseteq Threads \X Threads
      /\ Waiters \in Seq(Threads) /\ NoRepeat(Waiters) /\ WaitersOrdered
  BY DEF Inv, TypeOK, IpcTypeOK, IpcInv, SuspendedIffWaiting, Waiting, LinkedOnce, Waiters, Elements
<1>00. SomeLeave => /\ current_priority' \in [Threads -> Nat] /\ shuffled' \in BOOLEAN
                    /\ precedes' \subseteq Threads \X Threads
  BY <1>0 DEF SomeLeave
<1>000. UNCHANGED <<suspend_thread, orderVars>> =>
          /\ current_priority' \in [Threads -> Nat] /\ shuffled' \in BOOLEAN
          /\ precedes' \subseteq Threads \X Threads /\ WaitersOrdered'
  BY <1>0, OrderUnchanged DEF orderVars
<1>1. ASSUME NEW t \in Threads, TakeAvailable(t) PROVE Inv'
  <2>1. IpcInv'
    BY <1>1, UnchangedInv DEF TakeAvailable, Inv
  <2>2. value' \in 0..(ValueMod - 1) /\ Waiters' = << >>
    BY <1>0, <1>1 DEF TakeAvailable, ipcVars, Inv, NoUnitWhileWaiting, Waiters
  <2>3. ret' \in [Threads -> Errors]
    BY <1>0, <1>1 DEF TakeAvailable, Errors
  <2> QED
    BY <1>0, <1>000, <1>1, <2>1, <2>2, <2>3
    DEF TakeAvailable, ipcVars, Inv, TypeOK, IpcInv, NoUnitWhileWaiting, CallsMatchStat
<1>2. ASSUME NEW t \in Threads, TakeFails(t) PROVE Inv'
  <2>1. IpcInv'
    BY <1>2, UnchangedInv DEF TakeFails, Inv
  <2>2. ret' \in [Threads -> Errors]
    BY <1>0, <1>2 DEF TakeFails, Errors
  <2> QED
    BY <1>0, <1>000, <1>2, <2>1, <2>2
    DEF TakeFails, ipcVars, Inv, TypeOK, IpcInv, NoUnitWhileWaiting, CallsMatchStat, Waiters
<1>3. ASSUME NEW t \in Threads, TakeBlocks(t) PROVE Inv'
  <2>1. PICK time \in Times \ {"zero"} :
          /\ ListSuspend(Sem, t, Flag, current_priority, time)
          /\ pc' = [pc EXCEPT ![t] = IF time = "finite" THEN "timed" ELSE "forever"]
    BY <1>3 DEF TakeBlocks
  <2>2. /\ stat[t] = "ready" /\ value = 0 /\ teardown[Sem] = "live"
        /\ UNCHANGED <<value, ret, current_priority, shuffled>>
        /\ precedes' = precedes \cup {<<t, u>> : u \in {w \in Elements(Waiters) :
                                        current_priority[t] < current_priority[w]}}
    BY <1>3 DEF TakeBlocks, Live, Inv, CallsMatchStat
  <2>3. IpcInv'
    <3>1. Flag \in {"FIFO", "PRIO"} /\ current_priority \in [Threads -> Nat] /\ IpcInv
      BY <1>0 DEF Inv
    <3> QED
      BY <2>1, <2>2, <3>1, ListSuspendInv
  <2>4. pc' \in [Threads -> PC]
    BY <1>0, <2>1 DEF PC
  <2>5. Waiters' = Enqueue(Waiters, t, Flag, current_priority) /\ UNCHANGED <<teardown, fault>>
    BY <2>1 DEF ListSuspend, Waiters, Inv, IpcInv, IpcTypeOK
  <2>6. WaitersOrdered'
    BY <1>0, <2>2, <2>5, OrderWhenOneComes
  <2>9. precedes' \subseteq Threads \X Threads
    BY <1>0, <2>2 DEF Elements
  <2>7. CallsMatchStat'
    BY <1>0, <2>1 DEF ListSuspend, CallsMatchStat, Inv
  <2>8. NoUnitWhileWaiting'
    BY <2>2, <2>5 DEF NoUnitWhileWaiting
  <2> QED
    BY <1>0, <2>2, <2>3, <2>4, <2>6, <2>7, <2>8, <2>9 DEF Inv, TypeOK, IpcInv
<1>4. ASSUME NEW t \in Threads, TakeReturns(t) PROVE Inv'
  <2>1. IpcInv'
    BY <1>4, UnchangedInv DEF TakeReturns, Inv
  <2>2. pc' \in [Threads -> PC] /\ ret' \in [Threads -> Errors]
    BY <1>0, <1>4 DEF TakeReturns, PC
  <2>3. CallsMatchStat'
    BY <1>0, <1>4 DEF TakeReturns, CallsMatchStat, ipcVars, Inv
  <2> QED
    BY <1>0, <1>000, <1>4, <2>1, <2>2, <2>3
    DEF TakeReturns, ipcVars, Inv, TypeOK, IpcInv, NoUnitWhileWaiting, Waiters
<1>5. ASSUME NEW t \in Threads, Timeout(t) PROVE Inv'
  <2>1. IpcInv'
    BY <1>5, ThreadTimeoutInv DEF Timeout, Inv
  <2>2. /\ Waiters' = Unlink(Waiters, t)
        /\ stat' = [stat EXCEPT ![t] = "ready"]
        /\ SomeLeave /\ UNCHANGED <<teardown, value, pc, ret>>
    BY <1>5 DEF Timeout, ThreadTimeout, Waiters
  <2>3. Waiters = << >> => Waiters' = << >>
    BY <2>2, EmptySeq DEF Unlink, Elements
  <2>4. WaitersOrdered'
    BY <1>0, <2>2, OrderWhenOneLeaves
  <2> QED
    BY <1>0, <1>00, <2>1, <2>2, <2>3, <2>4
    DEF Inv, TypeOK, IpcInv, NoUnitWhileWaiting, CallsMatchStat
<1>6. ASSUME Release, Waiters # << >> PROVE Inv'
  <2>1. ListResume(Sem) /\ SomeLeave /\ UNCHANGED <<value, pc, ret>>
    BY <1>6 DEF Release
  <2>2. IpcInv'
    BY <1>6, <2>1, ListResumeInv DEF Inv, Waiters
  <2>3. /\ Waiters' = Tail(Waiters) /\ teardown' = teardown
        /\ stat' = [stat EXCEPT ![Head(Waiters)] = "ready"]
    BY <2>1 DEF ListResume, Waiters, Inv, IpcInv, IpcTypeOK
  <2>4. WaitersOrdered'
    BY <1>0, <1>6, <2>1, <2>3, OrderWhenHeadLeaves
  <2>5. NoUnitWhileWaiting'
    BY <1>6, <2>1, <2>3 DEF Inv, NoUnitWhileWaiting
  <2>6. CallsMatchStat'
    BY <1>0, <2>1, <2>3 DEF Inv, CallsMatchStat
  <2> QED
    BY <1>0, <1>00, <2>1, <2>2, <2>4, <2>5, <2>6 DEF Inv, TypeOK, IpcInv
<1>7. ASSUME Release, Waiters = << >> PROVE Inv'
  <2>1. value' = (value + 1) % ValueMod /\ SomeLeave /\ UNCHANGED <<ipcVars, pc, ret>>
    BY <1>7 DEF Release
  <2>2. value' \in 0..(ValueMod - 1)
    BY <1>0, <2>1
  <2>3. IpcInv'
    BY <2>1, UnchangedInv DEF Inv
  <2>4. Waiters' = Waiters /\ WaitersOrdered'
    BY <1>0, <2>1, OrderWhenAllStayOrLeave DEF ipcVars, Waiters
  <2> QED
    BY <1>0, <1>00, <1>7, <2>1, <2>2, <2>3, <2>4
    DEF ipcVars, Inv, TypeOK, IpcInv, NoUnitWhileWaiting, CallsMatchStat
<1>8. ASSUME NEW v \in 0..MaxValue, Reset(v) PROVE Inv'
  <2>1. ListResumeAll(Sem) /\ value' = v % ValueMod /\ SomeLeave /\ UNCHANGED <<pc, ret>>
    BY <1>8 DEF Reset
  <2>2. IpcInv'
    BY <2>1, ListResumeAllInv DEF Inv
  <2>3. value' \in 0..(ValueMod - 1)
    BY <2>1
  <2>4. /\ Waiters' = << >> /\ Len(Waiters') = 0 /\ teardown' = teardown
        /\ \A t \in Threads : stat[t] = "ready" => stat'[t] = "ready"
    BY <1>0, <2>1, EmptySeq DEF ListResumeAll, Waiters, Inv, IpcInv, IpcTypeOK
  <2>5. CallsMatchStat'
    BY <2>1, <2>4 DEF Inv, CallsMatchStat
  <2>6. WaitersOrdered'
    BY <1>0, <2>1, <2>4, OrderWhenAllStayOrLeave
  <2> QED
    BY <1>0, <1>00, <2>1, <2>2, <2>3, <2>4, <2>5, <2>6
    DEF Inv, TypeOK, IpcInv, NoUnitWhileWaiting
<1>9. ASSUME Delete PROVE Inv'
  <2>1. BeginTeardown(Sem) /\ UNCHANGED semVars
    BY <1>9 DEF Delete
  <2>2. IpcInv'
    BY <2>1, TeardownInv DEF Inv
  <2>3. teardown'[Sem] = "test" /\ UNCHANGED <<stat, suspend_thread>>
    BY <1>0, <2>1 DEF BeginTeardown
  <2> QED
    BY <1>0, <1>000, <2>1, <2>2, <2>3
    DEF semVars, Inv, TypeOK, IpcInv, NoUnitWhileWaiting, CallsMatchStat, Waiters
<1>10. ASSUME DeleteStep PROVE Inv'
  <2>1. TeardownStep(Sem) /\ SomeLeave /\ UNCHANGED <<value, pc, ret>>
    BY <1>10 DEF DeleteStep
  <2>2. IpcInv'
    BY <2>1, TeardownInv DEF Inv
  <2>3. CASE TeardownTest(Sem)
    <3>1. UNCHANGED <<stat, suspend_thread>> /\ Waiters' = Waiters
      BY <2>3 DEF TeardownTest, Waiters
    <3>2. WaitersOrdered'
      BY <1>0, <2>1, <3>1, OrderWhenAllStayOrLeave
    <3> QED
      BY <1>0, <1>00, <2>1, <2>2, <3>1, <3>2
      DEF Inv, TypeOK, IpcInv, NoUnitWhileWaiting, CallsMatchStat, Waiters
  <2>4. CASE TeardownResume(Sem)
    <3>2. CASE Waiters = << >>
      <4>1. UNCHANGED <<stat, suspend_thread>> /\ Waiters' = Waiters
        BY <2>4, <3>2 DEF TeardownResume, Waiters
      <4>2. WaitersOrdered'
        BY <1>0, <2>1, <4>1, OrderWhenAllStayOrLeave
      <4> QED
        BY <1>0, <1>00, <2>1, <2>2, <4>1, <4>2
        DEF Inv, TypeOK, IpcInv, NoUnitWhileWaiting, CallsMatchStat, Waiters
    <3>3. CASE Waiters # << >>
      <4>1. /\ Waiters' = Tail(Waiters)
            /\ stat' = [stat EXCEPT ![Head(Waiters)] = "ready"]
        BY <2>4, <3>3 DEF TeardownResume, Waiters, Inv, IpcInv, IpcTypeOK
      <4>2. WaitersOrdered'
        BY <1>0, <2>1, <3>3, <4>1, OrderWhenHeadLeaves
      <4>3. NoUnitWhileWaiting'
        BY <2>1, <3>3 DEF Inv, NoUnitWhileWaiting
      <4>4. CallsMatchStat'
        BY <1>0, <2>1, <4>1 DEF Inv, CallsMatchStat
      <4> QED
        BY <1>0, <1>00, <2>1, <2>2, <4>2, <4>3, <4>4 DEF Inv, TypeOK, IpcInv
    <3> QED
      BY <3>2, <3>3
  <2> QED
    BY <2>1, <2>3, <2>4 DEF TeardownStep
<1>11. ASSUME UNCHANGED vars PROVE Inv'
  <2>1. IpcInv'
    BY <1>11, UnchangedInv DEF vars, Inv
  <2> QED
    BY <1>0, <1>000, <1>11, <2>1
    DEF vars, ipcVars, semVars, Inv, TypeOK, IpcInv, NoUnitWhileWaiting, CallsMatchStat, Waiters
<1>12. ASSUME NEW t \in Threads, NEW p \in NewPrios[t], ChangePriority(t, p) PROVE Inv'
  <2>1. IpcInv'
    BY <1>12, UnchangedInv DEF ChangePriority, Inv
  <2>2. /\ current_priority' = [current_priority EXCEPT ![t] = p]
        /\ shuffled' = (shuffled \/ (t \in Elements(Waiters) /\ p # current_priority[t]))
        /\ UNCHANGED <<ipcVars, value, pc, ret, precedes>> /\ Waiters' = Waiters
    BY <1>12 DEF ChangePriority, ipcVars, Waiters
  <2>3. current_priority' \in [Threads -> Nat] /\ shuffled' \in BOOLEAN
    BY <1>0, <2>2
  <2>4. WaitersOrdered'
    <3>1. ASSUME ~shuffled' PROVE ~shuffled /\ \A u \in Elements(Waiters) :
                                     current_priority'[u] = current_priority[u]
      <4>1. \A u \in Elements(Waiters) : u \in Threads
        BY <1>0, ElementOfSeq DEF Elements
      <4> QED
        BY <1>0, <2>2, <3>1, <4>1
    <3>2. ASSUME ~shuffled', OrderedBy(Waiters, current_priority)
          PROVE  OrderedBy(Waiters, current_priority')
      BY <3>1, <3>2 DEF OrderedBy, Elements
    <3> QED
      BY <1>0, <2>2, <3>1, <3>2 DEF WaitersOrdered
  <2> QED
    BY <1>0, <2>1, <2>2, <2>3, <2>4
    DEF ipcVars, Inv, TypeOK, IpcInv, NoUnitWhileWaiting, CallsMatchStat
<1> QED
  BY <1>1, <1>2, <1>3, <1>4, <1>5, <1>6, <1>7, <1>8, <1>9, <1>10, <1>11, <1>12 DEF Next

THEOREM Invariance == Spec => []Inv
BY InitInv, NextInv, PTL DEF Spec

(* Every variable keeps its type, the count its sixteen bits in particular *)
(* (struct rt_semaphore, rtdef.h:661).                                     *)
THEOREM TypeCorrect == Spec => []TypeOK
<1>1. Inv => TypeOK
  BY DEF Inv
<1> QED
  BY <1>1, Invariance, PTL

(* No thread sleeps while the semaphore has a unit, whatever the order of  *)
(* takes, releases, expiries, resets and deletion (ipc.c:341, :453).       *)
THEOREM NoLostUnit == Spec => []NoUnitWhileWaiting
<1>1. Inv => NoUnitWhileWaiting
  BY DEF Inv
<1> QED
  BY <1>1, Invariance, PTL

(* A wake-up always unlinks the thread and stops its timer, so the         *)
(* assertion of rt_thread_timeout (thread.c:757) never fails.              *)
THEOREM WakeupsAreClean == Spec => []CleanWakeup
<1>1. Inv => CleanWakeup
  BY DEF Inv, IpcInv, CleanWakeup
<1> QED
  BY <1>1, Invariance, PTL

-----------------------------------------------------------------------------
(* Only release grants: a waiter that becomes ready with RT_EOK is the     *)
(* head of the list, and on a RT_IPC_FLAG_PRIO semaphore no waiter left    *)
(* precedes it or, unless one's priority was changed, has a higher         *)
(* priority (ipc.c:92-117, :456).                                          *)
LEMMA GrantStep ==
  ASSUME Inv, [Next]_vars, Flag = "PRIO", NEW t \in Threads,
         stat[t] = "suspend", stat'[t] = "ready", error'[t] = "EOK"
  PROVE  \A u \in Elements(Waiters') :
           /\ <<u, t>> \notin precedes
           /\ ~shuffled => current_priority[t] <= current_priority[u]
<1> USE SemIsAList
<1>0. /\ Waiters \in Seq(Threads) /\ InPrecedence(Waiters, precedes)
      /\ ~shuffled => OrderedBy(Waiters, current_priority)
      /\ current_priority \in [Threads -> Nat]
      /\ stat \in [Threads -> {"ready", "suspend"}] /\ error \in [Threads -> Errors]
      /\ suspend_thread \in [Lists -> Seq(Threads)]
  BY SemAssumption DEF Inv, TypeOK, IpcInv, IpcTypeOK, WaitersOrdered, Waiters
<1>1. CASE Release /\ Waiters # << >>
  <2>1. Waiters' = Tail(Waiters) /\ stat' = [stat EXCEPT ![Head(Waiters)] = "ready"]
    BY <1>0, <1>1 DEF Release, ListResume, Waiters
  <2>2. t = Head(Waiters)
    BY <1>0, <2>1
  <2> QED
    <3>1. \A x \in Threads : current_priority[x] \in Int
      BY <1>0
    <3>2. ASSUME ~shuffled
          PROVE  \A u \in Elements(Tail(Waiters)) :
                   current_priority[Head(Waiters)] <= current_priority[u]
      BY <1>0, <1>1, <3>1, <3>2, TailOrdered
    <3>3. precedes \in SUBSET precedes
      OBVIOUS
    <3>4. \A u \in Elements(Tail(Waiters)) : <<u, Head(Waiters)>> \notin precedes
      BY <1>0, <1>1, <3>3, TailInPrecedence
    <3> QED
      BY <2>1, <2>2, <3>2, <3>4
<1>2. CASE \E u \in Threads : TakeBlocks(u)
  BY <1>0, <1>2 DEF TakeBlocks, ListSuspend
<1>3. CASE \E u \in Threads : Timeout(u)
  BY <1>0, <1>3 DEF Timeout, ThreadTimeout
<1>4. CASE \E v \in 0..MaxValue : Reset(v)
  BY <1>0, <1>4 DEF Reset, ListResumeAll
<1>5. CASE DeleteStep
  BY <1>0, <1>5 DEF DeleteStep, TeardownStep, TeardownTest, TeardownResume
<1>6. CASE UNCHANGED stat
  BY <1>6
<1>7. \/ Release /\ Waiters # << >>
      \/ \E u \in Threads : TakeBlocks(u) \/ Timeout(u)
      \/ \E v \in 0..MaxValue : Reset(v)
      \/ DeleteStep
      \/ UNCHANGED stat
  BY DEF Next, vars, ipcVars, TakeAvailable, TakeFails, TakeReturns, Release, Delete,
         ChangePriority, BeginTeardown
<1> QED
  BY <1>1, <1>2, <1>3, <1>4, <1>5, <1>6, <1>7

(* On a RT_IPC_FLAG_PRIO semaphore no unit goes past a waiter that came    *)
(* later but more urgent, whatever priorities changed since; and it goes   *)
(* to a waiter of the highest priority, as long as no waiter's priority    *)
(* was changed where it stands (thread.c:597, ipc.c:724).                  *)
THEOREM GrantsByPriority == Flag = "PRIO" => (Spec => HighestPriorityFirst)
<1> SUFFICES ASSUME Flag = "PRIO" PROVE Spec => HighestPriorityFirst
  OBVIOUS
<1> DEFINE Grant == \A t \in Threads :
             stat[t] = "suspend" /\ stat'[t] = "ready" /\ error'[t] = "EOK" =>
               \A u \in Elements(Waiters') :
                 /\ <<u, t>> \notin precedes
                 /\ ~shuffled => current_priority[t] <= current_priority[u]
<1>1. Inv /\ [Next]_vars => [Grant]_vars
  BY GrantStep
<1> QED
  BY <1>1, Invariance, PTL DEF Spec, HighestPriorityFirst

-----------------------------------------------------------------------------
(* Deleting a semaphore is safe when no caller waits with a finite time:   *)
(* the list found nonempty is still nonempty when its head is resumed.     *)
THEOREM DeletionSafeWithoutTimedWaits ==
  "finite" \notin Times => (Spec => []ResumesOnlyThreads)
<1> SUFFICES ASSUME "finite" \notin Times PROVE Spec => []ResumesOnlyThreads
  OBVIOUS
<1> USE SemIsAList
<1>1. Init => TestStaysTrue
  BY DEF Init, IpcInit, TestStaysTrue
<1>2. Inv /\ TestStaysTrue /\ [Next]_vars => TestStaysTrue'
  <2> SUFFICES ASSUME Inv, TestStaysTrue, [Next]_vars PROVE TestStaysTrue'
    OBVIOUS
  <2>0. /\ \A t \in Threads : ~thread_timer[t]
        /\ teardown[Sem] = "resume" => Waiters # << >>
        /\ ~fault
        /\ Times \subseteq WaitTimes
        /\ thread_timer \in [Threads -> BOOLEAN]
        /\ teardown \in [Lists -> Teardown]
    BY TimesAssumption DEF TestStaysTrue, Inv, IpcInv, IpcTypeOK
  <2>1. CASE \E t \in Threads : TakeBlocks(t)
    <3>1. PICK t \in Threads, time \in Times \ {"zero"} :
                                  ListSuspend(Sem, t, Flag, current_priority, time)
      BY <2>1 DEF TakeBlocks
    <3>2. teardown[Sem] = "live"
      BY <2>1 DEF TakeBlocks, Live
    <3>3. time # "finite"
      OBVIOUS
    <3> QED
      BY <2>0, <3>1, <3>2, <3>3 DEF ListSuspend, TestStaysTrue
  <2>2. CASE \E t \in Threads : Timeout(t)
    BY <2>0, <2>2 DEF Timeout, ThreadTimeout
  <2>3. CASE Release /\ Waiters # << >>
    <3>1. Head(Waiters) \in Threads
      BY <2>3, HeadTailProperties DEF Waiters, Inv, IpcInv, IpcTypeOK
    <3> QED
      BY <2>0, <2>3, <3>1 DEF Release, Live, ListResume, TestStaysTrue
  <2>4. CASE \E v \in 0..MaxValue : Reset(v)
    BY <2>0, <2>4 DEF Reset, Live, ListResumeAll, TestStaysTrue
  <2>5. CASE DeleteStep
    BY <2>0, <2>5 DEF DeleteStep, TeardownStep, TeardownTest, TeardownResume, TestStaysTrue,
                      Waiters
  <2>6. CASE Delete
    BY <2>0, <2>6 DEF Delete, BeginTeardown, TestStaysTrue
  <2>7. CASE UNCHANGED ipcVars
    BY <2>0, <2>7 DEF ipcVars, TestStaysTrue, Waiters
  <2> QED
    BY <2>1, <2>2, <2>3, <2>4, <2>5, <2>6, <2>7
    DEF Next, vars, TakeAvailable, TakeFails, TakeReturns, Release, ChangePriority
<1>3. TestStaysTrue => ResumesOnlyThreads
  BY DEF TestStaysTrue, ResumesOnlyThreads
<1> QED
  BY <1>1, <1>2, <1>3, Invariance, PTL DEF Spec

-----------------------------------------------------------------------------
(* The code implements CountingSemaphore.                                  *)

LEMMA WaitersAreThreads ==
  ASSUME Inv
  PROVE  /\ Waiters \in Seq(Threads) /\ NoRepeat(Waiters)
         /\ \A t \in Elements(Waiters) : t \in Threads /\ stat[t] = "suspend" /\ pc[t] # "idle"
         /\ \A t \in Threads : stat[t] = "suspend" => t \in Elements(Waiters)
<1>1. Waiters \in Seq(Threads) /\ NoRepeat(Waiters)
  BY SemIsAList DEF Inv, IpcInv, IpcTypeOK, LinkedOnce, Waiters
<1>2. \A t \in Elements(Waiters) : t \in Threads
  BY <1>1, ElementOfSeq DEF Elements
<1>3. \A t \in Threads : stat[t] = "suspend" <=> t \in Elements(Waiters)
  BY SemIsAList DEF Inv, IpcInv, SuspendedIffWaiting, Waiting, Waiters
<1>4. \A t \in Elements(Waiters) : pc[t] # "idle"
  BY <1>2, <1>3 DEF Inv, CallsMatchStat
<1> QED
  BY <1>1, <1>2, <1>3, <1>4

LEMMA ErrorsTellInit == Init => ErrorsTell
BY SemIsAList, EmptySeq DEF Init, IpcInit, ErrorsTell, Waiters, Elements

LEMMA ErrorsTellNext ==
  ASSUME Inv, ErrorsTell, [Next]_vars
  PROVE  ErrorsTell'
<1> USE SemIsAList
<1>0. /\ Waiters \in Seq(Threads) /\ NoRepeat(Waiters)
      /\ \A t \in Elements(Waiters) : t \in Threads /\ stat[t] = "suspend" /\ pc[t] # "idle"
      /\ error \in [Threads -> Errors]
      /\ suspend_thread \in [Lists -> Seq(Threads)]
  BY WaitersAreThreads DEF Inv, IpcInv, IpcTypeOK
<1>1. CASE UNCHANGED <<error, suspend_thread>>
  BY <1>1 DEF ErrorsTell, Waiters
<1>2. ASSUME NEW t \in Threads, TakeBlocks(t) PROVE ErrorsTell'
  <2>1. /\ error' = [error EXCEPT ![t] = "EOK"]
        /\ Waiters' = Enqueue(Waiters, t, Flag, current_priority)
        /\ stat[t] = "ready"
    BY <1>0, <1>2 DEF TakeBlocks, ListSuspend, Waiters, Inv, CallsMatchStat
  <2>2. t \notin Elements(Waiters)
    BY <1>0, <2>1
  <2>3. Elements(Waiters') = Elements(Waiters) \cup {t}
    <3>1. current_priority \in [Threads -> Nat]
      BY DEF Inv, TypeOK
    <3> QED
      BY <1>0, <2>1, <2>2, <3>1, EnqueueAddsOne
  <2> QED
    BY <1>0, <2>1, <2>3 DEF ErrorsTell
<1>3. ASSUME NEW t \in Threads, Timeout(t) PROVE ErrorsTell'
  <2>1. error' = [error EXCEPT ![t] = "ETIMEOUT"] /\ Waiters' = Unlink(Waiters, t)
    BY <1>3 DEF Timeout, ThreadTimeout, Waiters
  <2>2. Elements(Waiters') = Elements(Waiters) \ {t}
    BY <1>0, <2>1, UnlinkProperties
  <2> QED
    BY <1>0, <2>1, <2>2 DEF ErrorsTell
<1>4. CASE Release
  <2>1. error' = error
    BY <1>4 DEF Release, ListResume, ipcVars
  <2>2. Elements(Waiters') \subseteq Elements(Waiters)
    <3>1. CASE Waiters = << >>
      BY <1>4, <3>1 DEF Release, ipcVars, Waiters
    <3>2. CASE Waiters # << >>
      <4>1. Waiters' = Tail(Waiters)
        BY <1>0, <1>4, <3>2 DEF Release, ListResume, Waiters
      <4> QED
        BY <1>0, <3>2, <4>1, TailProperties
    <3> QED
      BY <3>1, <3>2
  <2> QED
    BY <2>1, <2>2 DEF ErrorsTell
<1>5. ASSUME NEW v, Reset(v) PROVE ErrorsTell'
  <2>1. /\ error' = [t \in Threads |-> IF t \in Elements(Waiters) THEN "ERROR" ELSE error[t]]
        /\ Waiters' = << >>
    BY <1>0, <1>5 DEF Reset, ListResumeAll, Waiters
  <2>2. Elements(Waiters') = {}
    BY <2>1, EmptySeq DEF Elements
  <2> QED
    BY <2>1, <2>2 DEF ErrorsTell
<1>6. CASE TeardownResume(Sem) /\ Waiters # << >>
  <2>1. error' = [error EXCEPT ![Head(Waiters)] = "ERROR"] /\ Waiters' = Tail(Waiters)
    BY <1>0, <1>6 DEF TeardownResume, Waiters
  <2>2. /\ Elements(Waiters') = Elements(Waiters) \ {Head(Waiters)}
        /\ Head(Waiters) \in Threads
    BY <1>0, <1>6, <2>1, TailProperties
  <2> QED
    BY <1>0, <2>1, <2>2 DEF ErrorsTell
<1>7. CASE Delete \/ DeleteStep
  <2>1. UNCHANGED <<error, suspend_thread>> \/ (TeardownResume(Sem) /\ Waiters # << >>)
    BY <1>7 DEF Delete, DeleteStep, BeginTeardown, TeardownStep, TeardownTest, TeardownResume, Waiters
  <2> QED
    BY <1>1, <1>6, <2>1
<1>8. ASSUME NEW t \in Threads, TakeAvailable(t) \/ TakeFails(t) \/ TakeReturns(t)
      PROVE  ErrorsTell'
  BY <1>1, <1>8 DEF TakeAvailable, TakeFails, TakeReturns, ipcVars
<1>9. CASE UNCHANGED vars
  BY <1>1, <1>9 DEF vars, ipcVars
<1>10. ASSUME NEW t \in Threads, NEW p, ChangePriority(t, p) PROVE ErrorsTell'
  BY <1>1, <1>10 DEF ChangePriority, ipcVars
<1> QED
  BY <1>2, <1>3, <1>4, <1>5, <1>7, <1>8, <1>9, <1>10 DEF Next

\* The phase of one thread at a time.
LEMMA PhaseBecomes ==
  ASSUME NEW t \in Threads, NEW v,
         phaseBar'[t] = v, \A u \in Threads : u # t => phaseBar'[u] = phaseBar[u]
  PROVE  phaseBar' = [phaseBar EXCEPT ![t] = v]
BY DEF phaseBar

LEMMA PhaseStays ==
  ASSUME UNCHANGED <<pc, stat, error>>
  PROVE  phaseBar' = phaseBar
BY DEF phaseBar

LEMMA PhaseOf ==
  ASSUME NEW t \in Threads
  PROVE  /\ phaseBar[t] = IF pc[t] = "idle" THEN "idle"
                          ELSE IF stat[t] = "suspend" THEN "asking"
                          ELSE IF error[t] = "EOK" THEN "granted" ELSE "refused"
         /\ phaseBar'[t] = IF pc'[t] = "idle" THEN "idle"
                           ELSE IF stat'[t] = "suspend" THEN "asking"
                           ELSE IF error'[t] = "EOK" THEN "granted" ELSE "refused"
BY DEF phaseBar

\* The calls that ask are the threads in the list.
LEMMA AskingIsWaiting ==
  ASSUME Inv
  PROVE  Abstract!Asking = Elements(Waiters)
<1>1. Abstract!Asking = {t \in Threads : phaseBar[t] = "asking"}
  BY DEF Abstract!Asking
<1>2. \A t \in Threads : phaseBar[t] = "asking" <=> pc[t] # "idle" /\ stat[t] = "suspend"
  BY PhaseOf
<1> QED
  BY <1>1, <1>2, WaitersAreThreads

\* A waiter leaves the list, with or without a unit.
LEMMA WakesOne ==
  ASSUME Inv, NEW t \in Elements(Waiters), UNCHANGED pc,
         stat' = [stat EXCEPT ![t] = "ready"],
         NEW e, error' = [error EXCEPT ![t] = e]
  PROVE  /\ t \in Threads /\ phaseBar[t] = "asking"
         /\ phaseBar' = [phaseBar EXCEPT ![t] = IF e = "EOK" THEN "granted" ELSE "refused"]
<1>1. /\ t \in Threads /\ stat[t] = "suspend" /\ pc[t] # "idle"
      /\ stat \in [Threads -> {"ready", "suspend"}] /\ error \in [Threads -> Errors]
  BY WaitersAreThreads DEF Inv, IpcInv, IpcTypeOK
<1>2. phaseBar[t] = "asking" /\ phaseBar'[t] = IF e = "EOK" THEN "granted" ELSE "refused"
  BY <1>1, PhaseOf
<1>3. \A u \in Threads : u # t => phaseBar'[u] = phaseBar[u]
  BY <1>1, PhaseOf
<1> QED
  BY <1>1, <1>2, <1>3, PhaseBecomes

LEMMA AbstractInit == Init => Abstract!Init
<1> SUFFICES ASSUME Init PROVE Abstract!Init
  OBVIOUS
<1>1. phaseBar = [t \in Threads |-> "idle"]
  BY DEF Init, phaseBar
<1>2. value \in 0..(ValueMod - 1) /\ ret = [t \in Threads |-> "EOK"]
  BY SemAssumption DEF Init
<1> QED
  BY <1>1, <1>2 DEF Abstract!Init

LEMMA AbstractNext ==
  ASSUME Inv, ErrorsTell, [Next]_vars
  PROVE  Abstract!Next \/ UNCHANGED <<value, phaseBar, ret>>
<1> USE SemIsAList
<1>0. /\ \A t \in Elements(Waiters) : t \in Threads /\ stat[t] = "suspend" /\ pc[t] # "idle"
      /\ stat \in [Threads -> {"ready", "suspend"}] /\ error \in [Threads -> Errors]
      /\ pc \in [Threads -> PC] /\ value \in 0..(ValueMod - 1) /\ ValueMod \in Nat \ {0}
      /\ \A t \in Threads : pc[t] = "idle" => stat[t] = "ready"
  BY WaitersAreThreads, SemAssumption DEF Inv, TypeOK, IpcInv, IpcTypeOK, CallsMatchStat
<1>1. ASSUME NEW t \in Threads, TakeAvailable(t) PROVE Abstract!TakeAtOnce(t)
  BY <1>1, PhaseStays, PhaseOf DEF TakeAvailable, ipcVars, Abstract!TakeAtOnce
<1>2. ASSUME NEW t \in Threads, TakeFails(t) PROVE Abstract!FailAtOnce(t)
  BY <1>2, PhaseStays, PhaseOf DEF TakeFails, ipcVars, Abstract!FailAtOnce
<1>3. ASSUME NEW t \in Threads, TakeBlocks(t) PROVE Abstract!Ask(t)
  <2>1. PICK time \in Times \ {"zero"} :
          /\ stat' = [stat EXCEPT ![t] = "suspend"]
          /\ error' = [error EXCEPT ![t] = "EOK"]
          /\ pc' = [pc EXCEPT ![t] = IF time = "finite" THEN "timed" ELSE "forever"]
    BY <1>3 DEF TakeBlocks, ListSuspend
  <2>2. pc[t] = "idle" /\ value = 0 /\ UNCHANGED <<value, ret>>
    BY <1>3 DEF TakeBlocks
  <2>3. phaseBar[t] = "idle" /\ phaseBar'[t] = "asking"
    BY <1>0, <2>1, <2>2, PhaseOf
  <2>4. \A u \in Threads : u # t => phaseBar'[u] = phaseBar[u]
    BY <1>0, <2>1, PhaseOf
  <2>5. phaseBar' = [phaseBar EXCEPT ![t] = "asking"]
    BY <2>3, <2>4, PhaseBecomes
  <2> QED
    BY <2>2, <2>3, <2>5 DEF Abstract!Ask
<1>4. ASSUME NEW t \in Threads, TakeReturns(t) PROVE Abstract!Answer(t)
  <2>1. /\ pc[t] # "idle" /\ stat[t] = "ready"
        /\ pc' = [pc EXCEPT ![t] = "idle"]
        /\ ret' = [ret EXCEPT ![t] = error[t]]
        /\ UNCHANGED <<stat, error, value>>
    BY <1>4 DEF TakeReturns, ipcVars
  <2>2. phaseBar[t] = (IF error[t] = "EOK" THEN "granted" ELSE "refused") /\ phaseBar'[t] = "idle"
    BY <1>0, <2>1, PhaseOf
  <2>3. \A u \in Threads : u # t => phaseBar'[u] = phaseBar[u]
    BY <1>0, <2>1, PhaseOf
  <2>4. phaseBar' = [phaseBar EXCEPT ![t] = "idle"]
    BY <2>2, <2>3, PhaseBecomes
  <2>5. error[t] \in IF phaseBar[t] = "granted" THEN {"EOK"} ELSE {"ERROR", "ETIMEOUT"}
    BY <1>0, <2>2 DEF ErrorsTell, Errors
  <2> QED
    BY <2>1, <2>2, <2>4, <2>5 DEF Abstract!Answer
<1>5. ASSUME NEW t \in Threads, Timeout(t) PROVE Abstract!Refuse(t)
  <2>1. /\ thread_timer[t] /\ UNCHANGED <<value, pc, ret>>
        /\ stat' = [stat EXCEPT ![t] = "ready"]
        /\ error' = [error EXCEPT ![t] = "ETIMEOUT"]
    BY <1>5 DEF Timeout, ThreadTimeout
  <2>2. t \in Elements(Waiters)
    BY <2>1, WaitersAreThreads DEF Inv, IpcInv, ArmedOnlyWhileSuspended
  <2> QED
    BY <2>1, <2>2, WakesOne DEF Abstract!Refuse
<1>6. CASE Release
  <2>1. CASE Waiters = << >>
    <3>1. value' = (value + 1) % ValueMod /\ UNCHANGED <<pc, stat, error, ret>>
      BY <1>6, <2>1 DEF Release, ipcVars
    <3>2. Abstract!Asking = {}
      BY <2>1, AskingIsWaiting, EmptySeq DEF Elements
    <3> QED
      BY <3>1, <3>2, PhaseStays DEF Abstract!Put, Abstract!Next
  <2>2. CASE Waiters # << >>
    <3> DEFINE t == Head(Waiters)
    <3>1. /\ stat' = [stat EXCEPT ![t] = "ready"] /\ UNCHANGED <<value, pc, ret, error>>
      BY <1>6, <2>2 DEF Release, ListResume, Waiters
    <3>2. t \in Elements(Waiters)
      BY <2>2, WaitersAreThreads, TailProperties
    <3>3. error' = [error EXCEPT ![t] = "EOK"]
      BY <1>0, <3>1, <3>2 DEF ErrorsTell
    <3> HIDE DEF t
    <3>4. phaseBar' = [phaseBar EXCEPT ![t] = "granted"] /\ t \in Abstract!Asking
      BY <3>1, <3>2, <3>3, WakesOne, AskingIsWaiting
    <3> QED
      BY <3>1, <3>4 DEF Abstract!Put, Abstract!Next
  <2> QED
    BY <2>1, <2>2
<1>7. ASSUME NEW v \in 0..MaxValue, Reset(v) PROVE Abstract!Reset
  <2>1. /\ stat' = [t \in Threads |-> IF t \in Elements(Waiters) THEN "ready" ELSE stat[t]]
        /\ error' = [t \in Threads |-> IF t \in Elements(Waiters) THEN "ERROR" ELSE error[t]]
        /\ value' = v % ValueMod /\ UNCHANGED <<pc, ret>>
    BY <1>7 DEF Reset, ListResumeAll, Waiters
  <2>2. value' \in 0..(ValueMod - 1)
    BY <1>0, <2>1, SemAssumption
  <2>3. \A t \in Threads : phaseBar'[t] = IF t \in Elements(Waiters) THEN "refused" ELSE phaseBar[t]
    BY <1>0, <2>1, PhaseOf
  <2>4. phaseBar' = [t \in Threads |-> IF t \in Abstract!Asking THEN "refused" ELSE phaseBar[t]]
    BY <2>3, AskingIsWaiting DEF phaseBar
  <2> QED
    BY <2>1, <2>2, <2>4 DEF Abstract!Reset
<1>8. CASE TeardownResume(Sem) /\ Waiters # << >> /\ UNCHANGED <<value, pc, ret>>
  <2> DEFINE t == Head(Waiters)
  <2>1. /\ stat' = [stat EXCEPT ![t] = "ready"] /\ UNCHANGED <<value, pc, ret>>
        /\ error' = [error EXCEPT ![t] = "ERROR"]
    BY <1>8 DEF TeardownResume, Waiters
  <2>2. t \in Elements(Waiters)
    BY <1>8, WaitersAreThreads, TailProperties
  <2> HIDE DEF t
  <2>3. phaseBar' = [phaseBar EXCEPT ![t] = "refused"] /\ phaseBar[t] = "asking" /\ t \in Threads
    BY <2>1, <2>2, WakesOne
  <2> QED
    BY <2>1, <2>3 DEF Abstract!Refuse, Abstract!Next
<1>9. CASE UNCHANGED <<stat, error, value, pc, ret>>
  BY <1>9, PhaseStays
<1>10. CASE Delete \/ DeleteStep
  <2>1. \/ UNCHANGED <<stat, error, value, pc, ret>>
        \/ TeardownResume(Sem) /\ Waiters # << >> /\ UNCHANGED <<value, pc, ret>>
    BY <1>10 DEF Delete, DeleteStep, BeginTeardown, TeardownStep, TeardownTest, TeardownResume,
                 Waiters, semVars
  <2> QED
    BY <1>8, <1>9, <2>1
<1>11. CASE UNCHANGED vars
  BY <1>9, <1>11 DEF vars, ipcVars, semVars
<1>12. ASSUME NEW t \in Threads, NEW p, ChangePriority(t, p)
       PROVE  UNCHANGED <<value, phaseBar, ret>>
  BY <1>12, PhaseStays DEF ChangePriority, ipcVars
<1> QED
  BY <1>1, <1>2, <1>3, <1>4, <1>5, <1>6, <1>7, <1>10, <1>11, <1>12 DEF Next, Abstract!Next

(* A semaphore is a counting semaphore: a call answers RT_EOK only with a  *)
(* unit of its own, a release goes to a waiter if there is one, and no     *)
(* timeout, reset or deletion makes or loses a unit (ipc.c:323-404,        *)
(* :438-470, :485-514).                                                    *)
THEOREM SemaphoreCounts == Spec => ImplementsCountingSemaphore
<1>1. Init => Inv /\ ErrorsTell /\ Abstract!Init
  BY InitInv, ErrorsTellInit, AbstractInit
<1>2. (Inv /\ ErrorsTell) /\ [Next]_vars => (Inv /\ ErrorsTell)'
  BY NextInv, ErrorsTellNext
<1>3. (Inv /\ ErrorsTell) /\ [Next]_vars => [Abstract!Next]_(Abstract!vars)
  BY AbstractNext DEF Abstract!vars
<1> QED
  BY <1>1, <1>2, <1>3, PTL DEF Spec, ImplementsCountingSemaphore, Abstract!Spec
=============================================================================
