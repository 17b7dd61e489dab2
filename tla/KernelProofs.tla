---------------------------- MODULE KernelProofs ----------------------------
(***************************************************************************)
(* Proofs about KernelObjects, for any number of threads, any priorities   *)
(* and order of the lists, any sizes and any set of waiting times.         *)
(***************************************************************************)
EXTENDS KernelObjects, IpcProofs, FiniteSetTheorems

-----------------------------------------------------------------------------
(* Counting threads.                                                       *)

LEMMA CountNat ==
  ASSUME NEW S \in SUBSET Threads
  PROVE  IsFiniteSet(S) /\ Cardinality(S) \in Nat
BY KernelAssumption, FiniteCounts

LEMMA CountGrows ==
  ASSUME NEW S \in SUBSET Threads, NEW T \in SUBSET Threads, S \subseteq T
  PROVE  Cardinality(S) <= Cardinality(T)
BY KernelAssumption, FiniteGrows

LEMMA CountPlusOne ==
  ASSUME NEW S \in SUBSET Threads, NEW T \in SUBSET Threads,
         NEW t \in T, t \notin S, S \subseteq T
  PROVE  Cardinality(S) + 1 <= Cardinality(T)
BY KernelAssumption, FinitePlusOne

LEMMA CountMinusOne ==
  ASSUME NEW S \in SUBSET Threads, NEW T \in SUBSET Threads, NEW t, S \ {t} \subseteq T
  PROVE  Cardinality(S) - 1 <= Cardinality(T)
BY KernelAssumption, FiniteMinusOne

-----------------------------------------------------------------------------
(* Each object has its own copy of the definitions of Ipc.                 *)

LEMMA MpIpc ==
  /\ Mp!IpcInv <=> IpcInv
  /\ (Mp!IpcInv <=> IpcInv)'
  /\ Mp!IpcTypeOK <=> IpcTypeOK
  /\ (Mp!IpcTypeOK <=> IpcTypeOK)'
  /\ \A q : Mp!Elements(q) = Elements(q) /\ (Mp!NoRepeat(q) <=> NoRepeat(q))
  /\ \A l : Mp!ListResume(l) <=> ListResume(l)
  /\ \A t : Mp!ThreadTimeout(t) <=> ThreadTimeout(t)
  /\ \A l : Mp!BeginTeardown(l) <=> BeginTeardown(l)
  /\ \A l : Mp!TeardownTest(l) <=> TeardownTest(l)
  /\ \A l : Mp!TeardownResume(l) <=> TeardownResume(l)
  /\ \A time : Mp!LeftOf(time) = LeftOf(time)
  /\ \A S : Mp!Cardinality(S) = Cardinality(S) /\ (Mp!IsFiniteSet(S) <=> IsFiniteSet(S))
BY DEF Mp!IpcInv, IpcInv, Mp!IpcTypeOK, IpcTypeOK, Mp!LinkedOnce, LinkedOnce,
       Mp!SuspendedIffWaiting, SuspendedIffWaiting, Mp!ArmedOnlyWhileSuspended,
       ArmedOnlyWhileSuspended, Mp!Waiting, Waiting, Mp!Elements, Elements,
       Mp!NoRepeat, NoRepeat, Mp!Errors, Errors, Mp!Teardown, Teardown,
       Mp!ListResume, ListResume, Mp!ThreadTimeout, ThreadTimeout, Mp!Unlink, Unlink,
       Mp!BeginTeardown, BeginTeardown, Mp!TeardownTest, TeardownTest,
       Mp!TeardownResume, TeardownResume, Mp!LeftOf, LeftOf,
       Mp!Cardinality, Cardinality, Mp!IsFiniteSet, IsFiniteSet

-----------------------------------------------------------------------------
(* Memory pools.                                                           *)

\* What the invariant says in terms of the lists.
LEMMA MpShape ==
  ASSUME Mp!Inv
  PROVE  /\ IpcInv /\ Pool \in Lists
         /\ suspend_thread \in [Lists -> Seq(Threads)] /\ teardown \in [Lists -> Teardown]
         /\ stat \in [Threads -> {"ready", "suspend"}] /\ error \in [Threads -> Errors]
         /\ Mp!Waiters = suspend_thread[Pool] /\ Mp!Waiters \in Seq(Threads)
         /\ NoRepeat(Mp!Waiters) /\ Len(Mp!Waiters) \in Nat
         /\ \A t \in Elements(Mp!Waiters) : /\ t \in Threads /\ stat[t] = "suspend"
                                           /\ error[t] = "EOK" /\ mp_call[t] # None
         /\ block_list \in Seq(PoolBlocks) /\ NoRepeat(block_list)
         /\ block_free_count = Len(block_list) /\ Len(block_list) \in Nat
         /\ expired \in Nat /\ suspend_thread_count \in 0..MaxWaiters /\ MaxWaiters \in Nat
         /\ mp_call \in [Threads -> WaitTimes \cup {None}] /\ None \notin WaitTimes
<1>1. /\ IpcInv /\ Pool \in Lists /\ MaxWaiters \in Nat /\ None \notin WaitTimes
      /\ Mp!Waiters = suspend_thread[Pool]
      /\ block_list \in Seq(PoolBlocks) /\ expired \in Nat /\ suspend_thread_count \in 0..MaxWaiters
      /\ mp_call \in [Threads -> WaitTimes \cup {None}]
  BY MpIpc, KernelAssumption DEF Mp!Inv, Mp!TypeOK, Mp!MemPoolAssumption, Mp!Waiters,
                                 WaitTimes, Mp!WaitTimes
<1>2. /\ suspend_thread \in [Lists -> Seq(Threads)] /\ teardown \in [Lists -> Teardown]
      /\ stat \in [Threads -> {"ready", "suspend"}] /\ error \in [Threads -> Errors]
      /\ NoRepeat(Mp!Waiters) /\ Mp!Waiters \in Seq(Threads)
  BY <1>1 DEF IpcInv, IpcTypeOK, LinkedOnce
<1>3. \A t \in Elements(Mp!Waiters) : t \in Threads
  BY <1>2, ElementOfSeq DEF Elements
<1>4. \A t \in Elements(Mp!Waiters) : stat[t] = "suspend"
  BY <1>1, <1>3 DEF IpcInv, SuspendedIffWaiting, Waiting
<1>5. \A t \in Elements(Mp!Waiters) : error[t] = "EOK" /\ mp_call[t] # None
  BY <1>3, <1>4, MpIpc DEF Mp!Inv, Mp!CallsWait
<1>6. NoRepeat(block_list) /\ block_free_count = Len(block_list)
  BY MpIpc DEF Mp!Inv, Mp!PoolAccounts
<1> QED
  BY <1>1, <1>2, <1>3, <1>4, <1>5, <1>6, LenProperties

LEMMA ElementsCount ==
  ASSUME NEW S, IsFiniteSet(S), NEW q \in Seq(S), NoRepeat(q)
  PROVE  /\ IsFiniteSet(Elements(q)) /\ Elements(q) \subseteq S
         /\ Cardinality(Elements(q)) = Len(q) /\ Len(q) \in 0..Cardinality(S)
<1>0. Len(q) \in Nat /\ \A k \in 1..Len(q) : q[k] \in S
  BY ElementOfSeq, LenProperties
<1>1. Elements(q) \subseteq S
  BY <1>0 DEF Elements
<1>2. ExistsBijection(1..Len(q), Elements(q))
  <2> DEFINE f == [k \in 1..Len(q) |-> q[k]]
  <2>1. f \in [1..Len(q) -> Elements(q)] /\ \A k \in 1..Len(q) : f[k] = q[k]
    BY DEF Elements
  <2>2. \A x \in Elements(q) : \E k \in 1..Len(q) : f[k] = x
    BY DEF Elements
  <2> HIDE DEF f
  <2>3. f \in Surjection(1..Len(q), Elements(q))
    BY <2>1, <2>2 DEF Surjection
  <2>4. f \in Injection(1..Len(q), Elements(q))
    BY <2>1 DEF Injection, IsInjective, NoRepeat
  <2>5. f \in Bijection(1..Len(q), Elements(q))
    BY <2>3, <2>4 DEF Bijection
  <2> QED
    BY <2>5 DEF ExistsBijection
<1>3. Cardinality(Elements(q)) = Len(q)
  BY <1>0, <1>2, FS_CountingElements
<1>4. IsFiniteSet(Elements(q)) /\ Cardinality(Elements(q)) <= Cardinality(S)
  BY <1>1, FS_Subset
<1>5. Cardinality(S) \in Nat
  BY FS_CardinalityType
<1> QED
  BY <1>0, <1>1, <1>3, <1>4, <1>5

\* The blocks, whoever waits,
MpBlocks ==
  /\ block_list \in Seq(PoolBlocks)
  /\ in_use \subseteq PoolBlocks
  /\ NoRepeat(block_list)
  /\ Elements(block_list) \cap in_use = {}
  /\ Elements(block_list) \cup in_use = PoolBlocks
  /\ block_free_count = Len(block_list)

\* and the waits, whatever the blocks are.
MpWaits ==
  /\ mp_call \in [Threads -> WaitTimes \cup {None}]
  /\ suspend_thread_count \in 0..MaxWaiters
  /\ expired \in Nat
  /\ ~fault => suspend_thread_count = Len(suspend_thread[Pool]) + expired
  /\ fault => expired > 0
  /\ \A t \in Threads : mp_call[t] = None => stat[t] = "ready"
  /\ \A t \in Elements(suspend_thread[Pool]) : error[t] = "EOK"
  /\ ~fault /\ teardown[Pool] = "resume" /\ suspend_thread[Pool] = << >> => expired > 0

LEMMA MpParts == Mp!Inv => MpBlocks /\ MpWaits
BY MpIpc DEF Mp!Inv, Mp!TypeOK, Mp!PoolAccounts, Mp!CallsWait, Mp!EmptiedByTimeouts,
             Mp!Waiters, MpBlocks, MpWaits, WaitTimes, Mp!WaitTimes

LEMMA MpWhole == (IpcInv /\ MpBlocks /\ MpWaits /\ Mp!NoneStranded => Mp!Inv)'
<1> SUFFICES ASSUME IpcInv', MpBlocks', MpWaits', Mp!NoneStranded' PROVE Mp!Inv'
  OBVIOUS
<1>1. IsFiniteSet(PoolBlocks)
  BY KernelAssumption, MpIpc DEF Mp!MemPoolAssumption
<1>2. block_free_count' \in 0..Cardinality(PoolBlocks)
  <2>1. /\ block_list' \in Seq(PoolBlocks) /\ NoRepeat(block_list')
        /\ block_free_count' = Len(block_list')
    BY DEF MpBlocks
  <2> QED
    BY <1>1, <2>1, ElementsCount
<1>3. Mp!TypeOK'
  <2>1. Mp!IpcTypeOK'
    BY MpIpc DEF IpcInv
  <2>2. /\ block_list' \in Seq(PoolBlocks) /\ in_use' \subseteq PoolBlocks
        /\ suspend_thread_count' \in 0..MaxWaiters /\ expired' \in Nat
        /\ mp_call' \in [Threads -> Mp!WaitTimes \cup {None}]
    BY DEF MpBlocks, MpWaits, WaitTimes, Mp!WaitTimes
  <2> QED
    BY <1>2, <2>1, <2>2, MpIpc DEF Mp!TypeOK
<1>4. Mp!PoolAccounts' /\ Mp!CallsWait' /\ Mp!EmptiedByTimeouts'
  BY MpIpc DEF MpBlocks, MpWaits, Mp!PoolAccounts, Mp!CallsWait, Mp!EmptiedByTimeouts, Mp!Waiters
<1> QED
  BY <1>3, <1>4, MpIpc DEF Mp!Inv

\* Threads that have been woken for a block.
MpWoken == {t \in Threads : mp_call[t] # None /\ stat[t] = "ready" /\ error[t] = "EOK"}

LEMMA MpStranded ==
  /\ Mp!NoneStranded <=>
       (~fault /\ suspend_thread[Pool] # << >> => block_free_count <= Cardinality(MpWoken))
  /\ (Mp!NoneStranded <=>
       (~fault /\ suspend_thread[Pool] # << >> => block_free_count <= Cardinality(MpWoken)))'
<1>1. {t \in Threads : Mp!Woken(t)} = MpWoken
  BY DEF Mp!Woken, MpWoken
<1>2. ({t \in Threads : Mp!Woken(t)} = MpWoken)'
  BY DEF Mp!Woken, MpWoken
<1> QED
  BY <1>1, <1>2, MpIpc DEF Mp!NoneStranded, Mp!Waiters

LEMMA MpTake ==
  ASSUME Mp!Inv, block_free_count > 0, Mp!Take
  PROVE  MpBlocks' /\ block_free_count' = block_free_count - 1
<1>0. /\ MpBlocks /\ block_list # << >> /\ Len(block_list) \in Nat
      /\ block_free_count = Len(block_list)
  BY MpParts, MpShape, EmptySeq DEF MpBlocks
<1> DEFINE b == Head(block_list)
<1>1. /\ b \in Elements(block_list) /\ b \in PoolBlocks
      /\ Tail(block_list) \in Seq(PoolBlocks) /\ NoRepeat(Tail(block_list))
      /\ Elements(Tail(block_list)) = Elements(block_list) \ {b}
      /\ Len(Tail(block_list)) = Len(block_list) - 1
  BY <1>0, TailProperties, HeadTailProperties DEF MpBlocks
<1>2. /\ block_list' = Tail(block_list) /\ in_use' = in_use \cup {b}
      /\ block_free_count' = block_free_count - 1
  BY DEF Mp!Take
<1> HIDE DEF b
<1> QED
  BY <1>0, <1>1, <1>2 DEF MpBlocks

\* The waits when nothing but the blocks moves.
LEMMA MpWaitsStay ==
  ASSUME MpWaits, UNCHANGED <<ipcVars, mp_call, suspend_thread_count, expired>>
  PROVE  MpWaits'
BY DEF MpWaits, ipcVars

LEMMA MpAlloc ==
  ASSUME Mp!Inv, Mp!Alloc
  PROVE  Mp!Inv' /\ IpcInv'
<1>1. block_free_count > 0 /\ Mp!Take /\ UNCHANGED <<ipcVars, mp_call>>
  BY DEF Mp!Alloc, Mp!ipcVars, ipcVars
<1>2. IpcInv'
  BY <1>1, MpShape, UnchangedInv
<1>3. MpBlocks' /\ block_free_count' = block_free_count - 1
  BY <1>1, MpTake
<1>4. MpWaits'
  BY <1>1, MpParts, MpWaitsStay DEF Mp!Take
<1>5. Mp!NoneStranded'
  <2>1. MpWoken' = MpWoken /\ UNCHANGED <<fault, suspend_thread>>
    BY <1>1 DEF MpWoken, ipcVars
  <2>2. Cardinality(MpWoken) \in Nat /\ block_free_count \in Nat
    BY CountNat, MpShape DEF MpWoken
  <2> QED
    BY <1>3, <2>1, <2>2, MpStranded DEF Mp!Inv
<1> QED
  BY <1>2, <1>3, <1>4, <1>5, MpWhole

LEMMA MpSuspend ==
  ASSUME Mp!Inv, NEW t \in Threads, stat[t] = "ready", NEW time \in WaitTimes, ~fault,
         block_free_count = 0, Mp!Suspend(t, time)
  PROVE  Mp!Inv' /\ IpcInv'
<1> DEFINE q == <<t>> \o suspend_thread[Pool]
<1>0. /\ IpcInv /\ Pool \in Lists /\ MaxWaiters \in Nat /\ None \notin WaitTimes
      /\ suspend_thread \in [Lists -> Seq(Threads)]
      /\ stat \in [Threads -> {"ready", "suspend"}] /\ error \in [Threads -> Errors]
      /\ suspend_thread[Pool] \in Seq(Threads) /\ NoRepeat(suspend_thread[Pool])
      /\ Len(suspend_thread[Pool]) \in Nat
      /\ \A u \in Elements(suspend_thread[Pool]) : u \in Threads /\ stat[u] = "suspend"
      /\ mp_call \in [Threads -> WaitTimes \cup {None}]
  BY MpShape
<1>1. /\ suspend_thread_count < MaxWaiters
      /\ stat' = [stat EXCEPT ![t] = "suspend"]
      /\ error' = [error EXCEPT ![t] = "EOK"]
      /\ thread_timer' = [thread_timer EXCEPT ![t] = (time = "finite")]
      /\ suspend_thread' = [suspend_thread EXCEPT ![Pool] = q]
      /\ suspend_thread_count' = suspend_thread_count + 1
      /\ mp_call' = [mp_call EXCEPT ![t] = time]
      /\ UNCHANGED <<teardown, fault, block_list, block_free_count, in_use, expired>>
  BY DEF Mp!Suspend
<1>2. /\ q \in Seq(Threads) /\ NoRepeat(q)
      /\ Elements(q) = Elements(suspend_thread[Pool]) \cup {t}
      /\ Len(q) = Len(suspend_thread[Pool]) + 1 /\ q # << >>
  <2>1. t \notin Elements(suspend_thread[Pool])
    BY <1>0
  <2>2. q \in Seq(Threads) /\ NoRepeat(q) /\ Elements(q) = Elements(suspend_thread[Pool]) \cup {t}
    BY <1>0, <2>1, PushProperties
  <2>3. <<t>> \in Seq(Threads) /\ Len(<<t>>) = 1
    OBVIOUS
  <2>4. Len(q) = Len(suspend_thread[Pool]) + 1
    BY <1>0, <2>3, ConcatProperties
  <2> QED
    BY <1>0, <2>2, <2>4, EmptySeq
<1> HIDE DEF q
<1>3. IpcInv'
  BY <1>0, <1>1, <1>2, SuspendInv
<1>4. MpBlocks'
  BY <1>1, MpParts DEF MpBlocks
<1>5. MpWaits'
  <2>1. suspend_thread'[Pool] = q
    BY <1>0, <1>1
  <2>2. /\ mp_call' \in [Threads -> WaitTimes \cup {None}]
        /\ \A u \in Threads : mp_call'[u] = None => stat'[u] = "ready"
    BY <1>0, <1>1, MpParts DEF MpWaits
  <2>3. \A u \in Elements(q) : error'[u] = "EOK"
    BY <1>0, <1>1, <1>2, MpParts DEF MpWaits
  <2>4. /\ suspend_thread_count' \in 0..MaxWaiters /\ expired' \in Nat
        /\ ~fault' => suspend_thread_count' = Len(q) + expired'
        /\ fault' => expired' > 0
    <3>1. /\ suspend_thread_count \in 0..MaxWaiters /\ expired \in Nat
          /\ suspend_thread_count = Len(suspend_thread[Pool]) + expired
      BY MpParts DEF MpWaits
    <3>2. /\ suspend_thread_count < MaxWaiters
          /\ suspend_thread_count' = suspend_thread_count + 1
          /\ expired' = expired /\ fault' = fault
      BY <1>1
    <3> QED
      BY <1>0, <1>2, <3>1, <3>2
  <2> QED
    BY <1>2, <2>1, <2>2, <2>3, <2>4 DEF MpWaits
<1>6. Mp!NoneStranded'
  <2>1. Cardinality(MpWoken') \in Nat
    BY CountNat DEF MpWoken
  <2> QED
    BY <1>1, <2>1, MpStranded
<1> QED
  BY <1>3, <1>4, <1>5, <1>6, MpWhole

LEMMA MpAllocBlocks ==
  ASSUME Mp!Inv, NEW t \in Threads, Mp!AllocBlocks(t)
  PROVE  Mp!Inv' /\ IpcInv'
<1>1. PICK time \in Times \ {"zero"} : Mp!Suspend(t, time)
  BY DEF Mp!AllocBlocks
<1>2. ~fault /\ mp_call[t] = None /\ block_free_count = 0
  BY DEF Mp!AllocBlocks, Mp!Live
<1>3. stat[t] = "ready"
  BY <1>2, MpParts DEF MpWaits
<1> QED
  BY <1>1, <1>2, <1>3, MpSuspend, TimesAssumption

LEMMA LeftOfTimes == ASSUME NEW time \in WaitTimes PROVE LeftOf(time) \subseteq WaitTimes
BY DEF LeftOf, WaitTimes

LEMMA MpAllocWoken ==
  ASSUME Mp!Inv, NEW t \in Threads, Mp!AllocWoken(t)
  PROVE  Mp!Inv' /\ IpcInv'
<1>0. /\ ~fault /\ mp_call[t] # None /\ stat[t] = "ready" /\ error[t] = "EOK" /\ t \in MpWoken
      /\ mp_call \in [Threads -> WaitTimes \cup {None}] /\ block_free_count \in Nat
      /\ suspend_thread \in [Lists -> Seq(Threads)]
  BY MpShape DEF Mp!AllocWoken, Mp!Woken, MpWoken
<1>1. ASSUME mp_call' = [mp_call EXCEPT ![t] = None], UNCHANGED <<ipcVars, suspend_thread_count, expired>>
      PROVE  /\ IpcInv' /\ MpWaits'
             /\ MpWoken' = MpWoken \ {t} /\ UNCHANGED <<fault, suspend_thread>>
  <2>1. IpcInv'
    BY <1>1, MpShape, UnchangedInv
  <2>2. MpWaits'
    <3>1. \A u \in Threads : mp_call'[u] = None => stat[u] = "ready"
      BY <1>0, <1>1, MpParts DEF MpWaits
    <3>2. mp_call' \in [Threads -> WaitTimes \cup {None}]
      BY <1>0, <1>1
    <3> QED
      BY <1>1, <3>1, <3>2, MpParts DEF MpWaits, ipcVars
  <2>3. MpWoken' = MpWoken \ {t}
    BY <1>0, <1>1 DEF MpWoken, ipcVars
  <2> QED
    BY <1>1, <2>1, <2>2, <2>3 DEF ipcVars
<1>2. CASE block_free_count > 0
  <2>1. Mp!Take /\ mp_call' = [mp_call EXCEPT ![t] = None] /\ UNCHANGED ipcVars
    BY <1>2 DEF Mp!AllocWoken, Mp!ipcVars, ipcVars
  <2>2. UNCHANGED <<suspend_thread_count, expired>>
    BY <2>1 DEF Mp!Take
  <2>3. MpBlocks' /\ block_free_count' = block_free_count - 1
    BY <1>2, <2>1, MpTake
  <2>4. Mp!NoneStranded'
    <3>1. /\ MpWoken \in SUBSET Threads /\ MpWoken' \in SUBSET Threads
          /\ MpWoken \ {t} \subseteq MpWoken'
      BY <1>1, <2>1, <2>2 DEF MpWoken
    <3>2. Cardinality(MpWoken) - 1 <= Cardinality(MpWoken')
      BY <3>1, CountMinusOne
    <3>3. Cardinality(MpWoken) \in Nat /\ Cardinality(MpWoken') \in Nat
      BY <3>1, CountNat
    <3> QED
      BY <1>0, <1>1, <2>1, <2>2, <2>3, <3>2, <3>3, MpStranded DEF Mp!Inv
  <2> QED
    BY <1>1, <2>1, <2>2, <2>3, <2>4, MpWhole
<1>3. CASE ~(block_free_count > 0)
  <2>1. block_free_count = 0
    BY <1>0, <1>3
  <2>2. PICK left \in Mp!LeftOf(mp_call[t]) :
          IF left = "zero"
          THEN /\ mp_call' = [mp_call EXCEPT ![t] = None]
               /\ UNCHANGED <<ipcVars, block_list, block_free_count, suspend_thread_count,
                              in_use, expired>>
          ELSE Mp!Suspend(t, left)
    BY <1>3 DEF Mp!AllocWoken, Mp!ipcVars, ipcVars
  <2>3. left \in WaitTimes
    BY <1>0, <2>2, LeftOfTimes, MpIpc
  <2>4. CASE left # "zero"
    BY <1>0, <2>1, <2>2, <2>3, <2>4, MpSuspend
  <2>5. CASE left = "zero"
    <3>1. /\ mp_call' = [mp_call EXCEPT ![t] = None]
          /\ UNCHANGED <<ipcVars, block_list, block_free_count, suspend_thread_count,
                         in_use, expired>>
      BY <2>2, <2>5
    <3>2. MpBlocks'
      BY <3>1, MpParts DEF MpBlocks
    <3>3. Mp!NoneStranded'
      <4>1. Cardinality(MpWoken') \in Nat
        BY CountNat DEF MpWoken
      <4> QED
        BY <2>1, <3>1, <4>1, MpStranded
    <3> QED
      BY <1>1, <3>1, <3>2, <3>3, MpWhole
  <2> QED
    BY <2>4, <2>5
<1> QED
  BY <1>2, <1>3

\* Calls that return with an error leave who is woken for a block as it is.
LEMMA MpAllocReturnsError ==
  ASSUME Mp!Inv, NEW t \in Threads, Mp!AllocReturnsError(t)
  PROVE  Mp!Inv' /\ IpcInv'
<1>0. /\ stat[t] = "ready" /\ error[t] # "EOK" /\ ~fault
      /\ mp_call' = [mp_call EXCEPT ![t] = None]
      /\ UNCHANGED <<ipcVars, block_list, block_free_count, suspend_thread_count, in_use, expired>>
      /\ mp_call \in [Threads -> WaitTimes \cup {None}]
  BY MpShape DEF Mp!AllocReturnsError, Mp!ipcVars, ipcVars
<1>1. IpcInv'
  BY <1>0, MpShape, UnchangedInv
<1>2. MpBlocks'
  BY <1>0, MpParts DEF MpBlocks
<1>3. MpWaits'
  <2>1. \A u \in Threads : mp_call'[u] = None => stat[u] = "ready"
    BY <1>0, MpParts DEF MpWaits
  <2>2. mp_call' \in [Threads -> WaitTimes \cup {None}]
    BY <1>0
  <2> QED
    BY <1>0, <2>1, <2>2, MpParts DEF MpWaits, ipcVars
<1>4. Mp!NoneStranded'
  <2>1. MpWoken' = MpWoken
    BY <1>0 DEF MpWoken, ipcVars
  <2> QED
    BY <1>0, <2>1, MpStranded DEF Mp!Inv, ipcVars
<1> QED
  BY <1>1, <1>2, <1>3, <1>4, MpWhole

\* A waiter leaves the list.
LEMMA UnlinkShortens ==
  ASSUME NEW q \in Seq(Threads), NoRepeat(q), NEW t \in Elements(q)
  PROVE  Len(Unlink(q, t)) = Len(q) - 1
<1>1. /\ Unlink(q, t) \in Seq(Threads) /\ NoRepeat(Unlink(q, t))
      /\ Elements(Unlink(q, t)) = Elements(q) \ {t}
  BY UnlinkProperties
<1>2. IsFiniteSet(Threads)
  BY KernelAssumption
<1>3. /\ IsFiniteSet(Elements(q)) /\ Cardinality(Elements(q)) = Len(q)
      /\ Cardinality(Elements(Unlink(q, t))) = Len(Unlink(q, t))
  BY <1>1, <1>2, ElementsCount
<1>4. Cardinality(Elements(q) \ {t}) = Cardinality(Elements(q)) - 1
  BY <1>3, FS_RemoveElement
<1> QED
  BY <1>1, <1>3, <1>4

LEMMA MpTimeout ==
  ASSUME Mp!Inv, \A l \in Lists : l # Pool => suspend_thread[l] = << >>,
         NEW t \in Threads, Mp!Timeout(t)
  PROVE  Mp!Inv' /\ IpcInv'
<1> DEFINE q == suspend_thread[Pool]
<1>0. /\ IpcInv /\ Pool \in Lists /\ q \in Seq(Threads) /\ NoRepeat(q) /\ Len(q) \in Nat
      /\ suspend_thread \in [Lists -> Seq(Threads)]
      /\ stat \in [Threads -> {"ready", "suspend"}] /\ error \in [Threads -> Errors]
      /\ \A u \in Elements(q) : u \in Threads /\ stat[u] = "suspend" /\ error[u] = "EOK"
  BY MpShape
<1>1. /\ ThreadTimeout(t) /\ ~fault /\ thread_timer[t]
      /\ stat' = [stat EXCEPT ![t] = "ready"]
      /\ error' = [error EXCEPT ![t] = "ETIMEOUT"]
      /\ suspend_thread' = [l \in Lists |-> Unlink(suspend_thread[l], t)]
      /\ UNCHANGED <<teardown, fault>>
      /\ expired' = expired + 1
      /\ UNCHANGED <<block_list, block_free_count, suspend_thread_count, in_use, mp_call>>
  BY MpIpc DEF Mp!Timeout, ThreadTimeout
<1>2. t \in Elements(q) /\ stat[t] = "suspend"
  <2>1. stat[t] = "suspend"
    BY <1>0, <1>1 DEF IpcInv, ArmedOnlyWhileSuspended
  <2>2. PICK l \in Lists : t \in Elements(suspend_thread[l])
    BY <1>0, <2>1 DEF IpcInv, SuspendedIffWaiting, Waiting
  <2>3. Elements(<< >>) = {}
    BY EmptySeq DEF Elements
  <2> QED
    BY <2>1, <2>2, <2>3
<1>3. /\ suspend_thread'[Pool] = Unlink(q, t)
      /\ Elements(Unlink(q, t)) = Elements(q) \ {t} /\ Len(Unlink(q, t)) = Len(q) - 1
  BY <1>0, <1>1, <1>2, UnlinkProperties, UnlinkShortens
<1> HIDE DEF q
<1>4. IpcInv'
  BY <1>0, <1>1, ThreadTimeoutInv
<1>5. MpBlocks'
  BY <1>1, MpParts DEF MpBlocks
<1>6. MpWaits'
  <2>1. \A u \in Threads : mp_call'[u] = None => stat'[u] = "ready"
    BY <1>0, <1>1, MpParts DEF MpWaits
  <2>2. \A u \in Elements(suspend_thread'[Pool]) : error'[u] = "EOK"
    BY <1>0, <1>1, <1>3
  <2>3. /\ suspend_thread_count = Len(q) + expired /\ expired \in Nat
        /\ suspend_thread_count \in 0..MaxWaiters
        /\ mp_call \in [Threads -> WaitTimes \cup {None}]
    BY <1>1, MpParts DEF MpWaits, q
  <2>4. /\ expired' \in Nat /\ expired' > 0
        /\ suspend_thread_count' = Len(suspend_thread'[Pool]) + expired'
    <3>1. /\ expired' = expired + 1 /\ suspend_thread_count' = suspend_thread_count
          /\ Len(suspend_thread'[Pool]) = Len(q) - 1 /\ Len(q) \in Nat
      BY <1>0, <1>1, <1>3
    <3> HIDE DEF q
    <3> QED
      BY <2>3, <3>1
  <2> QED
    BY <1>1, <2>1, <2>2, <2>3, <2>4 DEF MpWaits
<1>7. Mp!NoneStranded'
  <2>1. MpWoken \in SUBSET Threads /\ MpWoken' \in SUBSET Threads /\ MpWoken \subseteq MpWoken'
    BY <1>0, <1>1, <1>2 DEF MpWoken
  <2>2. Cardinality(MpWoken) <= Cardinality(MpWoken')
    BY <2>1, CountGrows
  <2>3. Cardinality(MpWoken) \in Nat /\ Cardinality(MpWoken') \in Nat /\ block_free_count \in Nat
    BY <2>1, CountNat, MpShape
  <2>4. suspend_thread[Pool] # << >>
    <3>1. Elements(<< >>) = {}
      BY EmptySeq DEF Elements
    <3> QED
      BY <1>2, <3>1 DEF q
  <2> QED
    BY <1>1, <2>2, <2>3, <2>4, MpStranded DEF Mp!Inv
<1> QED
  BY <1>4, <1>5, <1>6, <1>7, MpWhole

\* The head of the list is resumed, whatever its error becomes.
LEMMA MpResumes ==
  ASSUME Mp!Inv, suspend_thread[Pool] # << >>, ~fault,
         suspend_thread_count' = suspend_thread_count - 1,
         stat' = [stat EXCEPT ![Head(suspend_thread[Pool])] = "ready"],
         suspend_thread' = [suspend_thread EXCEPT ![Pool] = Tail(@)],
         NEW e \in Errors, error' = [error EXCEPT ![Head(suspend_thread[Pool])] = e],
         teardown'[Pool] # "resume", fault' = fault, UNCHANGED <<mp_call, expired>>
  PROVE  /\ MpWaits' /\ MpWoken \subseteq MpWoken'
         /\ e = "EOK" => Cardinality(MpWoken) + 1 <= Cardinality(MpWoken')
<1> DEFINE q == suspend_thread[Pool]
           t == Head(q)
<1>0. /\ IpcInv /\ Pool \in Lists /\ q \in Seq(Threads) /\ NoRepeat(q) /\ Len(q) \in Nat
      /\ suspend_thread \in [Lists -> Seq(Threads)]
      /\ stat \in [Threads -> {"ready", "suspend"}] /\ error \in [Threads -> Errors]
      /\ \A u \in Elements(q) : /\ u \in Threads /\ stat[u] = "suspend" /\ error[u] = "EOK"
                                /\ mp_call[u] # None
  BY MpShape
<1>1. /\ t \in Elements(q) /\ t \in Threads /\ stat[t] = "suspend" /\ mp_call[t] # None
      /\ Elements(Tail(q)) = Elements(q) \ {t} /\ Len(Tail(q)) = Len(q) - 1
  BY <1>0, TailProperties, HeadTailProperties
<1>2. /\ suspend_thread'[Pool] = Tail(q)
      /\ stat' = [stat EXCEPT ![t] = "ready"] /\ error' = [error EXCEPT ![t] = e]
  BY <1>0
<1>2a. q = suspend_thread[Pool]
  OBVIOUS
<1> HIDE DEF q, t
<1>3. MpWaits'
  <2>1. \A u \in Threads : mp_call'[u] = None => stat'[u] = "ready"
    BY <1>0, <1>2, MpParts DEF MpWaits
  <2>2. \A u \in Elements(suspend_thread'[Pool]) : error'[u] = "EOK"
    BY <1>0, <1>1, <1>2
  <2>3. /\ suspend_thread_count = Len(q) + expired /\ expired \in Nat
        /\ suspend_thread_count \in 0..MaxWaiters /\ MaxWaiters \in Nat
        /\ mp_call \in [Threads -> WaitTimes \cup {None}]
    BY <1>2a, MpParts, MpShape DEF MpWaits
  <2>4. Len(Tail(q)) \in Nat
    <3>1. q # << >>
      BY <1>2a
    <3> QED
      BY <1>0, <3>1, TailProperties, LenProperties
  <2>5. /\ suspend_thread_count' = Len(suspend_thread'[Pool]) + expired'
        /\ suspend_thread_count' \in 0..MaxWaiters
    <3>1. /\ suspend_thread_count' = suspend_thread_count - 1 /\ expired' = expired
          /\ Len(suspend_thread'[Pool]) = Len(Tail(q)) /\ Len(Tail(q)) = Len(q) - 1
          /\ Len(q) \in Nat
      BY <1>0, <1>1, <1>2
    <3>2. /\ suspend_thread_count \in Int /\ expired \in Nat
          /\ suspend_thread_count <= MaxWaiters /\ MaxWaiters \in Int
          /\ suspend_thread_count = Len(q) + expired
      BY <2>3
    <3>3. Len(suspend_thread'[Pool]) = Len(q) - 1 /\ Len(suspend_thread'[Pool]) \in Nat
      BY <2>4, <3>1
    <3>4. suspend_thread_count' = Len(suspend_thread'[Pool]) + expired'
      BY <3>1, <3>2, <3>3
    <3>5. suspend_thread_count' \in Int
      BY <3>1, <3>2
    <3>6. suspend_thread_count' <= MaxWaiters
      BY <3>1, <3>2
    <3>7. 0 <= suspend_thread_count'
      BY <3>1, <3>2, <3>3, <3>4
    <3> QED
      BY <3>4, <3>5, <3>6, <3>7
  <2> QED
    BY <2>1, <2>2, <2>3, <2>5 DEF MpWaits
<1>4. /\ MpWoken \in SUBSET Threads /\ MpWoken' \in SUBSET Threads /\ MpWoken \subseteq MpWoken'
      /\ t \notin MpWoken
  BY <1>0, <1>1, <1>2 DEF MpWoken
<1>5. ASSUME e = "EOK" PROVE Cardinality(MpWoken) + 1 <= Cardinality(MpWoken')
  <2>1. t \in MpWoken'
    BY <1>0, <1>1, <1>2, <1>5 DEF MpWoken
  <2> QED
    BY <1>4, <2>1, CountPlusOne
<1> QED
  BY <1>3, <1>4, <1>5

LEMMA MpFree ==
  ASSUME Mp!Inv, NEW b \in PoolBlocks, Mp!Free(b)
  PROVE  Mp!Inv' /\ IpcInv'
<1>0. /\ IpcInv /\ Pool \in Lists /\ block_free_count \in Nat /\ expired \in Nat
      /\ suspend_thread \in [Lists -> Seq(Threads)] /\ error \in [Threads -> Errors]
      /\ ~fault /\ teardown[Pool] = "live" /\ b \in in_use
      /\ in_use' = in_use \ {b} /\ block_list' = <<b>> \o block_list
      /\ block_free_count' = block_free_count + 1
      /\ UNCHANGED <<mp_call, expired>>
      /\ Mp!Waiters = suspend_thread[Pool]
  BY MpShape DEF Mp!Free, Mp!Live
<1>1. MpBlocks'
  <2>1. /\ b \notin Elements(block_list) /\ block_list \in Seq(PoolBlocks) /\ NoRepeat(block_list)
        /\ block_free_count = Len(block_list)
    BY <1>0, MpParts DEF MpBlocks
  <2>2. /\ block_list' \in Seq(PoolBlocks) /\ NoRepeat(block_list')
        /\ Elements(block_list') = Elements(block_list) \cup {b}
    BY <1>0, <2>1, PushProperties
  <2>3. <<b>> \in Seq(PoolBlocks) /\ Len(<<b>>) = 1
    OBVIOUS
  <2>4. Len(block_list') = Len(block_list) + 1
    BY <1>0, <2>1, <2>3, ConcatProperties, LenProperties
  <2> QED
    BY <1>0, <2>1, <2>2, <2>4, MpParts DEF MpBlocks
<1>2. CASE suspend_thread_count = 0
  <2>1. UNCHANGED <<ipcVars, suspend_thread_count>>
    BY <1>2 DEF Mp!Free, Mp!ipcVars, ipcVars
  <2>2. MpWaits' /\ IpcInv'
    BY <1>0, <2>1, MpParts, MpWaitsStay, UnchangedInv
  <2>3. Len(suspend_thread[Pool]) = 0
    BY <1>0, <1>2, MpParts, MpShape DEF MpWaits
  <2>4. suspend_thread[Pool] = << >>
    BY <1>0, <2>3, EmptySeq
  <2>5. suspend_thread'[Pool] = << >>
    BY <2>1, <2>4 DEF ipcVars
  <2> QED
    BY <1>1, <2>2, <2>5, MpStranded, MpWhole
<1>3. CASE suspend_thread_count # 0 /\ suspend_thread[Pool] # << >>
  <2>1. ListResume(Pool) /\ suspend_thread_count' = suspend_thread_count - 1
    BY <1>0, <1>3, MpIpc DEF Mp!Free
  <2>2. IpcInv'
    BY <1>0, <1>3, <2>1, ListResumeInv
  <2>3. Head(suspend_thread[Pool]) \in Elements(suspend_thread[Pool])
    BY <1>0, <1>3, MpShape, TailProperties
  <2>4. error[Head(suspend_thread[Pool])] = "EOK"
    BY <1>0, <2>3, MpShape
  <2>5. error' = [error EXCEPT ![Head(suspend_thread[Pool])] = "EOK"]
    BY <1>0, <2>1, <2>4 DEF ListResume
  <2>6. /\ stat' = [stat EXCEPT ![Head(suspend_thread[Pool])] = "ready"]
        /\ suspend_thread' = [suspend_thread EXCEPT ![Pool] = Tail(@)]
        /\ teardown'[Pool] # "resume" /\ fault' = fault
    BY <1>0, <2>1 DEF ListResume
  <2>7. "EOK" \in Errors
    BY DEF Errors
  <2>8. MpWaits' /\ Cardinality(MpWoken) + 1 <= Cardinality(MpWoken')
    BY <1>0, <1>3, <2>1, <2>5, <2>6, <2>7, MpResumes
  <2>9. block_free_count <= Cardinality(MpWoken)
    BY <1>0, <1>3, MpStranded DEF Mp!Inv
  <2>10. Cardinality(MpWoken) \in Nat /\ Cardinality(MpWoken') \in Nat
    BY CountNat DEF MpWoken
  <2>11. block_free_count' <= Cardinality(MpWoken')
    BY <1>0, <2>8, <2>9, <2>10
  <2> QED
    BY <1>1, <2>2, <2>8, <2>11, MpStranded, MpWhole
<1>4. CASE suspend_thread_count # 0 /\ suspend_thread[Pool] = << >>
  <2>1. /\ fault' = TRUE /\ UNCHANGED <<stat, error, thread_timer, suspend_thread, teardown>>
        /\ suspend_thread_count' = suspend_thread_count - 1
    BY <1>0, <1>4 DEF Mp!Free
  <2>2. IpcInv'
    BY <1>0, <2>1 DEF IpcInv, IpcTypeOK, LinkedOnce, SuspendedIffWaiting, Waiting,
                      ArmedOnlyWhileSuspended
  <2>3. /\ suspend_thread_count = expired /\ suspend_thread_count \in 0..MaxWaiters
        /\ MaxWaiters \in Nat
    <3>1. Len(<< >>) = 0
      BY EmptySeq
    <3> QED
      BY <1>0, <1>4, <3>1, MpParts, MpShape DEF MpWaits
  <2>4. expired > 0 /\ suspend_thread_count' \in 0..MaxWaiters
    BY <1>0, <1>4, <2>1, <2>3
  <2>5. MpWaits'
    BY <1>0, <2>1, <2>4, MpParts DEF MpWaits
  <2> QED
    BY <1>1, <2>1, <2>2, <2>5, MpStranded, MpWhole
<1> QED
  BY <1>2, <1>3, <1>4

LEMMA MpDelete ==
  ASSUME Mp!Inv, Mp!Delete \/ Mp!DeleteTest
  PROVE  Mp!Inv' /\ IpcInv'
<1>0. /\ IpcInv /\ Pool \in Lists /\ teardown \in [Lists -> Teardown]
  BY MpShape
<1>1. /\ BeginTeardown(Pool) \/ TeardownTest(Pool)
      /\ UNCHANGED <<block_list, block_free_count, suspend_thread_count, in_use, mp_call, expired>>
  BY MpIpc DEF Mp!Delete, Mp!DeleteTest, Mp!mpVars
<1>2. /\ UNCHANGED <<stat, error, thread_timer, suspend_thread, fault>>
      /\ teardown'[Pool] = "resume" => suspend_thread[Pool] # << >>
  BY <1>0, <1>1 DEF BeginTeardown, TeardownTest
<1>3. IpcInv'
  BY <1>0, <1>1, TeardownInv DEF TeardownStep
<1>4. MpBlocks'
  BY <1>1, MpParts DEF MpBlocks
<1>5. MpWaits'
  BY <1>1, <1>2, MpParts DEF MpWaits
<1>6. Mp!NoneStranded'
  <2>1. MpWoken' = MpWoken
    BY <1>1, <1>2 DEF MpWoken
  <2> QED
    BY <1>1, <1>2, <2>1, MpStranded DEF Mp!Inv
<1> QED
  BY <1>3, <1>4, <1>5, <1>6, MpWhole

LEMMA MpDeleteResume ==
  ASSUME Mp!Inv, Mp!DeleteResume
  PROVE  Mp!Inv' /\ IpcInv'
<1>0. /\ IpcInv /\ Pool \in Lists /\ teardown \in [Lists -> Teardown] /\ block_free_count \in Nat
      /\ suspend_thread \in [Lists -> Seq(Threads)] /\ expired \in Nat
  BY MpShape
<1>1. /\ TeardownResume(Pool) /\ suspend_thread_count' = suspend_thread_count - 1
      /\ UNCHANGED <<block_list, block_free_count, in_use, mp_call, expired>>
  BY MpIpc DEF Mp!DeleteResume
<1>2. ~fault /\ teardown[Pool] = "resume" /\ teardown'[Pool] = "test"
  BY <1>0, <1>1 DEF TeardownResume
<1>3. IpcInv'
  BY <1>0, <1>1, TeardownInv DEF TeardownStep
<1>4. MpBlocks'
  BY <1>1, MpParts DEF MpBlocks
<1>5. CASE suspend_thread[Pool] = << >>
  <2>1. fault' = TRUE /\ UNCHANGED <<stat, error, thread_timer, suspend_thread>>
    BY <1>1, <1>5 DEF TeardownResume
  <2>2. /\ suspend_thread_count = expired /\ suspend_thread_count \in 0..MaxWaiters
        /\ MaxWaiters \in Nat /\ expired > 0
    <3>1. Len(<< >>) = 0
      BY EmptySeq
    <3> QED
      BY <1>0, <1>2, <1>5, <3>1, MpParts, MpShape DEF MpWaits
  <2>3. suspend_thread_count' \in 0..MaxWaiters
    BY <1>0, <1>1, <2>2
  <2>4. MpWaits'
    BY <1>1, <2>1, <2>2, <2>3, MpParts DEF MpWaits
  <2> QED
    BY <1>3, <1>4, <2>1, <2>4, MpStranded, MpWhole
<1>6. CASE suspend_thread[Pool] # << >>
  <2>1. /\ stat' = [stat EXCEPT ![Head(suspend_thread[Pool])] = "ready"]
        /\ error' = [error EXCEPT ![Head(suspend_thread[Pool])] = "ERROR"]
        /\ suspend_thread' = [suspend_thread EXCEPT ![Pool] = Tail(@)]
        /\ fault' = fault
    BY <1>1, <1>6 DEF TeardownResume
  <2>2. "ERROR" \in Errors /\ teardown'[Pool] # "resume"
    BY <1>2 DEF Errors
  <2>3. MpWaits' /\ MpWoken \subseteq MpWoken'
    BY <1>1, <1>2, <1>6, <2>1, <2>2, MpResumes
  <2>4. MpWoken \in SUBSET Threads /\ MpWoken' \in SUBSET Threads
    BY DEF MpWoken
  <2>5. /\ Cardinality(MpWoken) \in Nat /\ Cardinality(MpWoken') \in Nat
        /\ Cardinality(MpWoken) <= Cardinality(MpWoken')
    BY <2>3, <2>4, CountNat, CountGrows
  <2>6. block_free_count <= Cardinality(MpWoken)
    BY <1>2, <1>6, MpStranded DEF Mp!Inv
  <2>7. block_free_count' <= Cardinality(MpWoken')
    BY <1>0, <1>1, <2>5, <2>6
  <2> QED
    BY <1>3, <1>4, <2>3, <2>7, MpStranded, MpWhole
<1> QED
  BY <1>5, <1>6

\* The pool uses no list but its own.
LEMMA MpNext ==
  ASSUME Mp!Inv, \A l \in Lists : l # Pool => suspend_thread[l] = << >>, Mp!Next
  PROVE  Mp!Inv' /\ IpcInv'
<1>1. CASE Mp!Alloc
  BY <1>1, MpAlloc
<1>2. ASSUME NEW b \in PoolBlocks, Mp!Free(b) PROVE Mp!Inv' /\ IpcInv'
  BY <1>2, MpFree
<1>3. ASSUME NEW t \in Threads,
             Mp!AllocBlocks(t) \/ Mp!AllocWoken(t) \/ Mp!AllocReturnsError(t) \/ Mp!Timeout(t)
      PROVE Mp!Inv' /\ IpcInv'
  BY <1>3, MpAllocBlocks, MpAllocWoken, MpAllocReturnsError, MpTimeout
<1>4. CASE Mp!Delete \/ Mp!DeleteTest \/ Mp!DeleteResume
  BY <1>4, MpDelete, MpDeleteResume
<1> QED
  BY <1>1, <1>2, <1>3, <1>4 DEF Mp!Next

LEMMA MpInit == ASSUME Mp!Init PROVE Mp!Inv
<1>1. IpcInit
  BY DEF Mp!Init, Mp!IpcInit, IpcInit
<1>2. IpcInv
  BY <1>1, IpcInitInv
<1>3. IsFiniteSet(PoolBlocks) /\ Cardinality(PoolBlocks) \in Nat
  BY KernelAssumption, MpIpc, FS_CardinalityType DEF Mp!MemPoolAssumption
<1>4. /\ block_list \in [1..Cardinality(PoolBlocks) -> PoolBlocks] /\ NoRepeat(block_list)
  <2>1. PICK f : f \in Bijection(1..Cardinality(PoolBlocks), PoolBlocks)
    BY <1>3, FS_CardinalityType DEF ExistsBijection
  <2>2. f \in [1..Cardinality(PoolBlocks) -> PoolBlocks] /\ NoRepeat(f)
    <3>1. f \in Injection(1..Cardinality(PoolBlocks), PoolBlocks)
      BY <2>1 DEF Bijection
    <3>2. f \in [1..Cardinality(PoolBlocks) -> PoolBlocks] /\ IsInjective(f)
      BY <3>1 DEF Injection
    <3>3. Len(f) = Cardinality(PoolBlocks)
      BY <1>3, <3>2, LenProperties
    <3> QED
      BY <3>2, <3>3 DEF IsInjective, NoRepeat
  <2>3. block_list = CHOOSE q \in [1..Cardinality(PoolBlocks) -> PoolBlocks] : NoRepeat(q)
    BY MpIpc DEF Mp!Init, Mp!InOrder
  <2> QED
    BY <2>2, <2>3
<1>5. /\ block_list \in Seq(PoolBlocks) /\ Len(block_list) = Cardinality(PoolBlocks)
      /\ block_free_count = Len(block_list)
  BY <1>3, <1>4, MpIpc, LenProperties DEF Mp!Init
<1>6. Elements(block_list) = PoolBlocks
  <2>1. /\ Elements(block_list) \subseteq PoolBlocks
        /\ Cardinality(Elements(block_list)) = Cardinality(PoolBlocks)
    BY <1>3, <1>4, <1>5, ElementsCount
  <2> QED
    BY <1>3, <2>1, FS_Subset
<1>7. /\ suspend_thread_count = 0 /\ in_use = {} /\ expired = 0 /\ ~fault
      /\ \A t \in Threads : mp_call[t] = None /\ stat[t] = "ready"
      /\ mp_call \in [Threads -> WaitTimes \cup {None}]
      /\ suspend_thread[Pool] = << >> /\ teardown[Pool] = "live"
  BY <1>1, KernelAssumption DEF Mp!Init, IpcInit, Mp!MemPoolAssumption
<1>8. Mp!NoneStranded
  BY <1>7, MpStranded
<1>9. /\ Elements(<< >>) = {} /\ Len(<< >>) = 0
  BY EmptySeq DEF Elements
<1>10. Mp!PoolAccounts
  BY <1>4, <1>5, <1>6, <1>7, <1>9, MpIpc DEF Mp!PoolAccounts, Mp!Waiters
<1>11. Mp!TypeOK
  <2>1. MaxWaiters \in Nat
    BY KernelAssumption DEF Mp!MemPoolAssumption
  <2> QED
    BY <1>2, <1>3, <1>5, <1>7, <2>1, MpIpc DEF IpcInv, Mp!TypeOK, WaitTimes, Mp!WaitTimes
<1>12. Mp!CallsWait /\ Mp!EmptiedByTimeouts
  BY <1>7, <1>9, MpIpc DEF Mp!CallsWait, Mp!EmptiedByTimeouts, Mp!Waiters
<1> QED
  BY <1>2, <1>8, <1>10, <1>11, <1>12, MpIpc DEF Mp!Inv

-----------------------------------------------------------------------------
(* Event sets.                                                             *)

LEMMA EvIpc ==
  /\ Ev!IpcInv <=> IpcInv
  /\ (Ev!IpcInv <=> IpcInv)'
  /\ Ev!IpcTypeOK <=> IpcTypeOK
  /\ (Ev!IpcTypeOK <=> IpcTypeOK)'
  /\ \A q : Ev!Elements(q) = Elements(q) /\ (Ev!NoRepeat(q) <=> NoRepeat(q))
  /\ \A q, t : Ev!Unlink(q, t) = Unlink(q, t)
  /\ \A l : Ev!ListResumeAll(l) <=> ListResumeAll(l)
  /\ \A l, t, time : Ev!ListSuspend(l, t, Flag, Prio, time) <=> ListSuspend(l, t, Flag, Prio, time)
  /\ \A t : Ev!ThreadTimeout(t) <=> ThreadTimeout(t)
  /\ \A l : Ev!BeginTeardown(l) <=> BeginTeardown(l)
  /\ \A l : Ev!TeardownStep(l) <=> TeardownStep(l)
  /\ Ev!ipcVars = ipcVars
BY DEF Ev!IpcInv, IpcInv, Ev!IpcTypeOK, IpcTypeOK, Ev!LinkedOnce, LinkedOnce,
       Ev!SuspendedIffWaiting, SuspendedIffWaiting, Ev!ArmedOnlyWhileSuspended,
       ArmedOnlyWhileSuspended, Ev!Waiting, Waiting, Ev!Elements, Elements,
       Ev!NoRepeat, NoRepeat, Ev!Errors, Errors, Ev!Teardown, Teardown,
       Ev!ListResumeAll, ListResumeAll, Ev!ThreadTimeout, ThreadTimeout, Ev!Unlink, Unlink,
       Ev!ListSuspend, ListSuspend, Ev!Enqueue, Enqueue, Ev!InsertAt, InsertAt,
       Ev!PrioPosition, PrioPosition,
       Ev!BeginTeardown, BeginTeardown, Ev!TeardownTest, TeardownTest,
       Ev!TeardownResume, TeardownResume, Ev!TeardownStep, TeardownStep, Ev!ipcVars, ipcVars

\* The walk of rt_event_send serves one waiter after the other.
LEMMA WalkSteps ==
  ASSUME NEW q \in Seq(Threads), NEW s
  PROVE  \E w : /\ Ev!Walk(q, s) = w[Len(q)]
                /\ w[0] = [set |-> s, woken |-> {}, got |-> event_set, left |-> q]
                /\ \A i \in 1..Len(q) : w[i] = Ev!Serve(w[i - 1], q[i])
<1> DEFINE first == [set |-> s, woken |-> {}, got |-> event_set, left |-> q]
           Step(f, n) == [i \in 0..n |-> IF i = 0 THEN first ELSE Ev!Serve(f[i - 1], q[i])]
           T == {n \in 0..Len(q) : ~ \E f : f = Step(f, n)}
<1>0. Len(q) \in Nat
  BY LenProperties
<1>1. T = {}
  <2> SUFFICES ASSUME T # {} PROVE FALSE
    OBVIOUS
  <2>1. T \in SUBSET Nat
    BY <1>0
  <2> HIDE DEF T
  <2>2. PICK n \in T : \A m \in T : n <= m
    BY <2>1, LeastNatural
  <2>3. n \in 0..Len(q) /\ n \in Nat /\ ~ \E f : f = Step(f, n)
    BY <1>0, <2>2 DEF T
  <2>4. n # 0
    <3> DEFINE f == [i \in 0..0 |-> first]
    <3>1. f = Step(f, 0)
      OBVIOUS
    <3> QED
      BY <2>3, <3>1
  <2>5. PICK g : g = Step(g, n - 1)
    <3>1. n - 1 \notin T /\ n - 1 \in 0..Len(q)
      BY <1>0, <2>1, <2>2, <2>3, <2>4
    <3> QED
      BY <3>1 DEF T
  <2> DEFINE f == [i \in 0..n |-> IF i < n THEN g[i] ELSE Ev!Serve(g[n - 1], q[n])]
  <2>6. \A i \in 0..n : f[i] = Step(f, n)[i]
    <3>1. TAKE i \in 0..n
    <3>2. CASE i = 0
      BY <2>3, <2>4, <2>5, <3>2
    <3>3. CASE i # 0
      <4>1. i - 1 \in 0..n /\ i - 1 < n /\ f[i - 1] = g[i - 1]
        BY <2>3, <3>3
      <4>2. CASE i < n
        <5>1. i \in 0..(n - 1) /\ i # 0
          BY <2>3, <3>3, <4>2
        <5>2. g[i] = Ev!Serve(g[i - 1], q[i])
          BY <2>5, <5>1
        <5> QED
          BY <3>3, <4>1, <4>2, <5>2
      <4>3. CASE i = n
        BY <2>3, <2>4, <3>3, <4>1, <4>3
      <4> QED
        BY <2>3, <4>2, <4>3
    <3> QED
      BY <3>2, <3>3
  <2>7. f = Step(f, n)
    BY <2>6
  <2> QED
    BY <2>3, <2>7
<1>2. \E f : f = Step(f, Len(q))
  <2>1. Len(q) \in 0..Len(q)
    BY <1>0
  <2> HIDE DEF Step
  <2> QED
    BY <1>1, <2>1
<1> DEFINE w == CHOOSE g : g = Step(g, Len(q))
<1>3. w = Step(w, Len(q))
  BY <1>2
<1>4. Ev!Walk(q, s) = w[Len(q)]
  BY DEF Ev!Walk
<1> HIDE DEF w
<1>5. w[0] = first
  BY <1>0, <1>3
<1>6. \A i \in 1..Len(q) : w[i] = Ev!Serve(w[i - 1], q[i])
  <2>1. TAKE i \in 1..Len(q)
  <2>2. i \in 0..Len(q) /\ i # 0
    BY <1>0
  <2> QED
    BY <1>3, <2>2
<1> QED
  BY <1>4, <1>5, <1>6

\* What the walk over q from the set s has done after n waiters.
Served(w, q, n, s) ==
  /\ w.set \subseteq s
  /\ w.woken \subseteq {q[k] : k \in 1..n}
  /\ w.got \in [Threads -> SUBSET Events]
  /\ \A t \in Threads : t \notin w.woken => w.got[t] = event_set[t]
  /\ \A t \in w.woken :
       /\ w.got[t] \subseteq s
       /\ IF event_info[t].all THEN w.got[t] = event_set[t]
          ELSE w.got[t] # {} /\ w.got[t] \subseteq event_set[t]
  /\ w.left \in Seq(Threads) /\ NoRepeat(w.left) /\ Elements(w.left) = Elements(q) \ w.woken
  /\ \A k \in 1..n : q[k] \notin w.woken =>
                     ~Ev!Satisfies(w.set, event_set[q[k]], event_info[q[k]])
  /\ \A e \in s : e \in w.set <=> \A t \in w.woken : ~(event_info[t].clear /\ e \in w.got[t])
  /\ \A e \in s : \A t, u \in w.woken :
       event_info[t].clear /\ e \in w.got[t] /\ event_info[u].clear /\ e \in w.got[u] => t = u

LEMMA ServeOne ==
  ASSUME NEW q \in Seq(Threads), NoRepeat(q), NEW s \in SUBSET Events,
         event_set \in [Threads -> SUBSET Events], event_info \in [Threads -> Ev!Options],
         NEW n \in 1..Len(q), NEW w, Served(w, q, n - 1, s)
  PROVE  Served(Ev!Serve(w, q[n]), q, n, s)
<1> DEFINE t == q[n]
           got == Ev!Got(w.set, t)
           r == Ev!Resume(w, t)
<1>0. /\ Len(q) \in Nat /\ n \in Nat /\ \A k \in 1..Len(q) : q[k] \in Threads
      /\ 1..n = (1..(n - 1)) \cup {n}
  BY ElementOfSeq, LenProperties
<1>1. /\ t \in Threads /\ \A k \in 1..(n - 1) : q[k] # t
      /\ t \in Elements(q) /\ t \notin w.woken
  <2>1. \A k \in 1..(n - 1) : k \in 1..Len(q) /\ k # n
    BY <1>0
  <2>2. \A k \in 1..(n - 1) : q[k] # t
    BY <2>1 DEF NoRepeat
  <2> QED
    BY <1>0, <2>2 DEF Served, Elements
<1>2. CASE Ev!Satisfies(w.set, event_set[t], event_info[t])
  <2>1. Ev!Serve(w, t) = r
    BY <1>2 DEF Ev!Serve
  <2>2. /\ r.set = (IF event_info[t].clear THEN w.set \ got ELSE w.set)
        /\ r.woken = w.woken \cup {t}
        /\ r.got = [w.got EXCEPT ![t] = got]
        /\ r.left = Unlink(w.left, t)
    BY EvIpc DEF Ev!Resume
  <2>3. /\ got \subseteq w.set
        /\ got \in SUBSET Events
        /\ IF event_info[t].all THEN got = event_set[t]
           ELSE got # {} /\ got \subseteq event_set[t]
    <3>1. CASE event_info[t].all
      BY <1>1, <1>2, <3>1 DEF Ev!Got, Ev!Satisfies
    <3>2. CASE ~event_info[t].all
      BY <1>1, <1>2, <3>2 DEF Ev!Got, Ev!Satisfies
    <3> QED
      BY <3>1, <3>2
  <2> HIDE DEF r, got, t
  <2>4. /\ r.set \subseteq w.set /\ r.set \subseteq s
        /\ r.woken \subseteq {q[k] : k \in 1..n}
    BY <1>0, <2>2 DEF Served, t
  <2>5. /\ r.got \in [Threads -> SUBSET Events] /\ r.got[t] = got
        /\ \A u \in Threads : u # t => r.got[u] = w.got[u]
    BY <1>1, <2>2, <2>3 DEF Served
  <2>6. r.woken \subseteq Threads /\ w.woken \subseteq Threads
    BY <1>0, <1>1, <2>2 DEF Served
  <2>7. \A u \in Threads : u \notin r.woken => r.got[u] = event_set[u]
    BY <2>2, <2>5 DEF Served
  <2>8. \A u \in r.woken :
          /\ r.got[u] \subseteq s
          /\ IF event_info[u].all THEN r.got[u] = event_set[u]
             ELSE r.got[u] # {} /\ r.got[u] \subseteq event_set[u]
    <3>1. TAKE u \in r.woken
    <3>2. CASE u = t
      BY <2>3, <2>5, <3>2 DEF Served
    <3>3. CASE u # t
      <4>1. u \in w.woken /\ r.got[u] = w.got[u]
        BY <2>2, <2>5, <2>6, <3>3
      <4> QED
        BY <4>1 DEF Served
    <3> QED
      BY <3>2, <3>3
  <2>9. r.left \in Seq(Threads) /\ NoRepeat(r.left) /\ Elements(r.left) = Elements(q) \ r.woken
    <3>1. /\ w.left \in Seq(Threads) /\ NoRepeat(w.left)
          /\ Elements(w.left) = Elements(q) \ w.woken
      BY DEF Served
    <3>2. /\ r.left \in Seq(Threads) /\ NoRepeat(r.left)
          /\ Elements(r.left) = Elements(w.left) \ {t}
      BY <2>2, <3>1, UnlinkProperties
    <3> QED
      BY <2>2, <3>1, <3>2
  <2>10. \A k \in 1..n : q[k] \notin r.woken =>
                         ~Ev!Satisfies(r.set, event_set[q[k]], event_info[q[k]])
    <3>1. TAKE k \in 1..n
    <3>2. HAVE q[k] \notin r.woken
    <3>3. k \in 1..(n - 1) /\ q[k] \notin w.woken
      BY <1>0, <2>2, <3>2 DEF t
    <3>4. ~Ev!Satisfies(w.set, event_set[q[k]], event_info[q[k]])
      BY <3>3 DEF Served
    <3> QED
      BY <2>4, <3>4 DEF Ev!Satisfies
  <2>11. \A e \in s : e \in r.set <=>
                      \A u \in r.woken : ~(event_info[u].clear /\ e \in r.got[u])
    <3>1. TAKE e \in s
    <3>2. e \in w.set <=> \A u \in w.woken : ~(event_info[u].clear /\ e \in w.got[u])
      BY DEF Served
    <3>3. \A u \in w.woken : r.got[u] = w.got[u]
      BY <1>1, <2>5, <2>6
    <3>4. e \in r.set <=> e \in w.set /\ ~(event_info[t].clear /\ e \in got)
      BY <2>2
    <3> QED
      BY <2>2, <2>5, <3>2, <3>3, <3>4
  <2>12. \A e \in s : \A u, v \in r.woken :
           event_info[u].clear /\ e \in r.got[u] /\ event_info[v].clear /\ e \in r.got[v] => u = v
    <3>1. TAKE e \in s
    <3>2. \A u \in w.woken : r.got[u] = w.got[u]
      BY <1>1, <2>5, <2>6
    <3>3. e \in got => \A u \in w.woken : ~(event_info[u].clear /\ e \in w.got[u])
      BY <2>3 DEF Served
    <3>4. \A u, v \in w.woken :
            event_info[u].clear /\ e \in w.got[u] /\ event_info[v].clear /\ e \in w.got[v] => u = v
      BY DEF Served
    <3> QED
      BY <2>2, <2>5, <3>2, <3>3, <3>4
  <2>13. Served(r, q, n, s)
    BY <2>4, <2>5, <2>7, <2>8, <2>9, <2>10, <2>11, <2>12 DEF Served
  <2> QED
    BY <2>1, <2>13 DEF t
<1>3. CASE ~Ev!Satisfies(w.set, event_set[t], event_info[t])
  <2>1. Ev!Serve(w, t) = w
    BY <1>3 DEF Ev!Serve
  <2>2. w.woken \subseteq {q[k] : k \in 1..n}
    BY <1>0 DEF Served
  <2>3. \A k \in 1..n : q[k] \notin w.woken =>
                        ~Ev!Satisfies(w.set, event_set[q[k]], event_info[q[k]])
    BY <1>0, <1>3 DEF Served
  <2>4. Served(w, q, n, s)
    BY <2>2, <2>3 DEF Served
  <2> QED
    BY <2>1, <2>4
<1> QED
  BY <1>2, <1>3

\* What the whole walk does.
LEMMA WalkServes ==
  ASSUME NEW q \in Seq(Threads), NoRepeat(q), NEW s \in SUBSET Events,
         event_set \in [Threads -> SUBSET Events], event_info \in [Threads -> Ev!Options]
  PROVE  Served(Ev!Walk(q, s), q, Len(q), s)
<1>0. Len(q) \in Nat
  BY LenProperties
<1>1. PICK w : /\ Ev!Walk(q, s) = w[Len(q)]
               /\ w[0] = [set |-> s, woken |-> {}, got |-> event_set, left |-> q]
               /\ \A i \in 1..Len(q) : w[i] = Ev!Serve(w[i - 1], q[i])
  BY WalkSteps
<1>2. Served(w[0], q, 0, s)
  BY <1>1 DEF Served
<1> DEFINE T == {n \in 0..Len(q) : ~Served(w[n], q, n, s)}
<1>3. T = {}
  <2> SUFFICES ASSUME T # {} PROVE FALSE
    OBVIOUS
  <2>1. T \in SUBSET Nat
    BY <1>0
  <2> HIDE DEF T
  <2>2. PICK n \in T : \A m \in T : n <= m
    BY <2>1, LeastNatural
  <2>3. n \in 0..Len(q) /\ ~Served(w[n], q, n, s)
    BY <2>2 DEF T
  <2>4. n \in 1..Len(q) /\ n - 1 \in 0..Len(q) /\ n - 1 \notin T
    BY <1>0, <1>2, <2>1, <2>2, <2>3
  <2>5. Served(w[n - 1], q, n - 1, s)
    BY <2>4 DEF T
  <2>6. Served(Ev!Serve(w[n - 1], q[n]), q, n, s)
    BY <2>4, <2>5, ServeOne
  <2> QED
    BY <1>1, <2>3, <2>4, <2>6
<1>4. Len(q) \in 0..Len(q)
  BY <1>0
<1> QED
  BY <1>1, <1>3, <1>4

\* An answer that fits the request of t.
Fits(t) == IF event_info[t].all THEN event_set[t] = asked[t]
           ELSE event_set[t] # {} /\ event_set[t] \subseteq asked[t]

\* The waiters of the event set, and the calls that have been answered.
EvCalls ==
  /\ set \subseteq Events
  /\ event_set \in [Threads -> SUBSET Events]
  /\ event_info \in [Threads -> Ev!Options]
  /\ asked \in [Threads -> SUBSET Events]
  /\ \A t \in Elements(suspend_thread[Event]) :
       /\ ~Ev!Satisfies(set, event_set[t], event_info[t])
       /\ event_set[t] = asked[t] /\ error[t] = "EOK"
  /\ \A t \in Threads : asked[t] # {} /\ stat[t] = "ready" /\ error[t] = "EOK" => Fits(t)
  /\ \A t \in Threads : asked[t] = {} => stat[t] = "ready"

LEMMA EvParts ==
  /\ Ev!Inv <=> IpcInv /\ EvCalls
  /\ (Ev!Inv <=> IpcInv /\ EvCalls)'
<1>1. Ev!Inv <=> IpcInv /\ EvCalls
  BY EvIpc DEF Ev!Inv, Ev!TypeOK, Ev!NoneMissed, Ev!AnswersFit, Ev!Answered, Ev!CallsWait,
               Ev!Waiters, EvCalls, Fits, IpcInv
<1>2. (Ev!Inv <=> IpcInv /\ EvCalls)'
  BY EvIpc DEF Ev!Inv, Ev!TypeOK, Ev!NoneMissed, Ev!AnswersFit, Ev!Answered, Ev!CallsWait,
               Ev!Waiters, EvCalls, Fits, IpcInv
<1> QED
  BY <1>1, <1>2

LEMMA EvShape ==
  ASSUME IpcInv, EvCalls
  PROVE  /\ Event \in Lists
         /\ suspend_thread \in [Lists -> Seq(Threads)] /\ teardown \in [Lists -> Teardown]
         /\ stat \in [Threads -> {"ready", "suspend"}] /\ error \in [Threads -> Errors]
         /\ suspend_thread[Event] \in Seq(Threads) /\ NoRepeat(suspend_thread[Event])
         /\ \A t \in Elements(suspend_thread[Event]) :
              t \in Threads /\ stat[t] = "suspend" /\ asked[t] # {}
<1>1. Event \in Lists
  BY KernelAssumption DEF Ev!EventAssumption
<1>2. /\ suspend_thread \in [Lists -> Seq(Threads)] /\ teardown \in [Lists -> Teardown]
      /\ stat \in [Threads -> {"ready", "suspend"}] /\ error \in [Threads -> Errors]
      /\ suspend_thread[Event] \in Seq(Threads) /\ NoRepeat(suspend_thread[Event])
  BY <1>1 DEF IpcInv, IpcTypeOK, LinkedOnce
<1>3. \A t \in Elements(suspend_thread[Event]) : t \in Threads
  BY <1>2, ElementOfSeq DEF Elements
<1>4. \A t \in Elements(suspend_thread[Event]) : stat[t] = "suspend"
  BY <1>1, <1>3 DEF IpcInv, SuspendedIffWaiting, Waiting
<1> QED
  BY <1>1, <1>2, <1>3, <1>4 DEF EvCalls

LEMMA EvSend ==
  ASSUME IpcInv, EvCalls, NEW s \in Ev!Sets, Ev!Send(s)
  PROVE  IpcInv' /\ EvCalls'
<1> DEFINE q == suspend_thread[Event]
           after == Ev!Walk(q, set \cup s)
<1>0. /\ Event \in Lists /\ suspend_thread \in [Lists -> Seq(Threads)]
      /\ error \in [Threads -> Errors] /\ stat \in [Threads -> {"ready", "suspend"}]
      /\ q \in Seq(Threads) /\ NoRepeat(q) /\ set \cup s \in SUBSET Events
      /\ \A t \in Elements(q) : t \in Threads /\ stat[t] = "suspend" /\ asked[t] # {}
      /\ \A t \in Elements(q) : event_set[t] = asked[t] /\ error[t] = "EOK"
      /\ event_set \in [Threads -> SUBSET Events] /\ event_info \in [Threads -> Ev!Options]
  BY EvShape DEF EvCalls, Ev!Sets
<1>1. Served(after, q, Len(q), set \cup s)
  BY <1>0, WalkServes
<1>2. /\ set' = after.set /\ event_set' = after.got
      /\ stat' = [t \in Threads |-> IF t \in after.woken THEN "ready" ELSE stat[t]]
      /\ thread_timer' = [t \in Threads |-> t \notin after.woken /\ thread_timer[t]]
      /\ suspend_thread' = [suspend_thread EXCEPT ![Event] = after.left]
      /\ UNCHANGED <<error, teardown, fault, event_info, asked>>
  BY DEF Ev!Send, Ev!Waiters
<1>3. /\ after.woken \subseteq Elements(q) /\ after.left \in Seq(Threads)
      /\ NoRepeat(after.left) /\ Elements(after.left) = Elements(q) \ after.woken
      /\ set' \subseteq Events /\ event_set' \in [Threads -> SUBSET Events]
      /\ \A t \in Threads : t \notin after.woken => event_set'[t] = event_set[t]
      /\ \A t \in after.woken :
           IF event_info[t].all THEN event_set'[t] = event_set[t]
           ELSE event_set'[t] # {} /\ event_set'[t] \subseteq event_set[t]
      /\ \A t \in Elements(q) \ after.woken :
           ~Ev!Satisfies(set', event_set[t], event_info[t])
  <2> HIDE DEF after, q
  <2>1. after.woken \subseteq Elements(q) /\ set' \subseteq Events
    BY <1>0, <1>1, <1>2 DEF Served, Elements
  <2>2. \A t \in Elements(q) \ after.woken :
          ~Ev!Satisfies(after.set, event_set[t], event_info[t])
    BY <1>1 DEF Served, Elements
  <2> QED
    BY <1>0, <1>1, <1>2, <2>1, <2>2 DEF Served
<1> HIDE DEF after
<1>4. IpcInv'
  <2> DEFINE left == [suspend_thread EXCEPT ![Event] = after.left]
  <2>1. left \in [Lists -> Seq(Threads)]
    BY <1>0, <1>3
  <2>2. \A l \in Lists : /\ NoRepeat(left[l])
                         /\ Elements(left[l]) = Elements(suspend_thread[l]) \ after.woken
    <3>1. TAKE l \in Lists
    <3>2. CASE l = Event
      BY <1>0, <1>3, <3>2
    <3>3. CASE l # Event
      <4>1. /\ left[l] = suspend_thread[l] /\ NoRepeat(suspend_thread[l])
            /\ Elements(suspend_thread[l]) \cap Elements(q) = {}
        BY <1>0, <3>3 DEF IpcInv, LinkedOnce
      <4> QED
        BY <1>3, <4>1
    <3> QED
      BY <3>2, <3>3
  <2> HIDE DEF left
  <2> QED
    BY <1>0, <1>2, <2>1, <2>2, ResumeSetInv DEF left
<1>5. \A t \in Elements(suspend_thread'[Event]) :
        /\ ~Ev!Satisfies(set', event_set'[t], event_info'[t])
        /\ event_set'[t] = asked'[t] /\ error'[t] = "EOK"
  <2>1. suspend_thread'[Event] = after.left
    BY <1>0, <1>2
  <2> QED
    BY <1>0, <1>2, <1>3, <2>1
<1>6. \A t \in Threads : asked'[t] # {} /\ stat'[t] = "ready" /\ error'[t] = "EOK" => Fits(t)'
  <2>1. TAKE t \in Threads
  <2>2. CASE t \in after.woken
    <3>1. event_set[t] = asked[t]
      BY <1>0, <1>3, <2>2
    <3> QED
      BY <1>2, <1>3, <2>2, <3>1 DEF Fits
  <2>3. CASE t \notin after.woken
    <3>1. /\ stat'[t] = stat[t] /\ error'[t] = error[t] /\ asked'[t] = asked[t]
          /\ event_set'[t] = event_set[t] /\ event_info'[t] = event_info[t]
      BY <1>2, <1>3, <2>3
    <3> QED
      BY <3>1 DEF EvCalls, Fits
  <2> QED
    BY <2>2, <2>3
<1>7. \A t \in Threads : asked'[t] = {} => stat'[t] = "ready"
  BY <1>2 DEF EvCalls
<1> QED
  BY <1>2, <1>3, <1>4, <1>5, <1>6, <1>7 DEF EvCalls

LEMMA EvRecv ==
  ASSUME IpcInv, EvCalls, NEW t \in Threads, NEW wanted \in Ev!Sets, NEW option \in Ev!Options,
         \/ Ev!RecvAtOnce(t, wanted, option)
         \/ Ev!RecvFails(t, wanted, option)
         \/ Ev!RecvBlocks(t, wanted, option)
  PROVE  IpcInv' /\ EvCalls'
<1> DEFINE q == suspend_thread[Event]
<1>0. /\ Event \in Lists /\ suspend_thread \in [Lists -> Seq(Threads)]
      /\ error \in [Threads -> Errors] /\ stat \in [Threads -> {"ready", "suspend"}]
      /\ q \in Seq(Threads) /\ NoRepeat(q)
      /\ asked[t] = {} /\ stat[t] = "ready" /\ t \notin Elements(q)
      /\ \A u \in Elements(q) : u \in Threads
      /\ wanted \in SUBSET Events /\ wanted # {}
  <2>1. asked[t] = {}
    BY DEF Ev!RecvAtOnce, Ev!RecvFails, Ev!RecvBlocks
  <2>2. wanted \in SUBSET Events /\ wanted # {}
    BY DEF Ev!Sets
  <2>3. stat[t] = "ready" /\ t \notin Elements(q)
    BY <2>1, EvShape DEF EvCalls
  <2> QED
    BY <2>1, <2>2, <2>3, EvShape
<1>1. CASE Ev!RecvAtOnce(t, wanted, option) \/ Ev!RecvFails(t, wanted, option)
  <2>1. /\ \E e \in Errors : error' = [error EXCEPT ![t] = e]
        /\ set' \subseteq set
        /\ UNCHANGED <<stat, thread_timer, suspend_thread, teardown, fault,
                       event_set, event_info, asked>>
    BY <1>1 DEF Ev!RecvAtOnce, Ev!RecvFails, Ev!eventVars, Errors
  <2>2. error' \in [Threads -> Errors] /\ \A u \in Threads : u # t => error'[u] = error[u]
    BY <1>0, <2>1
  <2>3. IpcInv'
    BY <2>1, <2>2 DEF IpcInv, IpcTypeOK, LinkedOnce, SuspendedIffWaiting, Waiting,
                      ArmedOnlyWhileSuspended
  <2>4. \A u \in Elements(q) : ~Ev!Satisfies(set', event_set[u], event_info[u])
    BY <2>1 DEF EvCalls, Ev!Satisfies
  <2>5. \A u \in Elements(q) : event_set[u] = asked[u] /\ error'[u] = "EOK"
    BY <1>0, <2>2 DEF EvCalls
  <2>6. \A u \in Threads : asked[u] # {} /\ stat[u] = "ready" /\ error'[u] = "EOK" => Fits(u)'
    BY <1>0, <2>1, <2>2 DEF EvCalls, Fits
  <2> QED
    BY <2>1, <2>3, <2>4, <2>5, <2>6 DEF EvCalls
<1>2. CASE Ev!RecvBlocks(t, wanted, option)
  <2>1. /\ ~Ev!Satisfies(set, wanted, option)
        /\ \E time \in Times \ {"zero"} : Ev!ListSuspend(Event, t, Flag, Prio, time)
        /\ event_set' = [event_set EXCEPT ![t] = wanted]
        /\ event_info' = [event_info EXCEPT ![t] = option]
        /\ asked' = [asked EXCEPT ![t] = wanted]
        /\ set' = set
    BY <1>2 DEF Ev!RecvBlocks
  <2>2. PICK time : ListSuspend(Event, t, Flag, Prio, time)
    BY <2>1, EvIpc
  <2>3. Flag \in {"FIFO", "PRIO"} /\ Prio \in [Threads -> Nat]
    BY KernelAssumption DEF Ev!EventAssumption
  <2>4. IpcInv'
    BY <1>0, <2>2, <2>3, ListSuspendInv
  <2>5. Elements(suspend_thread'[Event]) = Elements(q) \cup {t}
    <3>0. q \in Seq(Threads) /\ NoRepeat(q) /\ t \notin Elements(q)
      BY <1>0
    <3> HIDE DEF q
    <3>1. Elements(Enqueue(q, t, Flag, Prio)) = Elements(q) \cup {t}
      BY <2>3, <3>0, EnqueueProperties
    <3> QED
      BY <1>0, <2>2, <3>1 DEF ListSuspend, q
  <2>6. /\ stat' = [stat EXCEPT ![t] = "suspend"]
        /\ error' = [error EXCEPT ![t] = "EOK"]
    BY <2>2 DEF ListSuspend
  <2>7. \A u \in Elements(suspend_thread'[Event]) :
          /\ ~Ev!Satisfies(set', event_set'[u], event_info'[u])
          /\ event_set'[u] = asked'[u] /\ error'[u] = "EOK"
    BY <1>0, <2>1, <2>5, <2>6 DEF EvCalls
  <2>8. \A u \in Threads : asked'[u] # {} /\ stat'[u] = "ready" /\ error'[u] = "EOK" => Fits(u)'
    <3>1. TAKE u \in Threads
    <3>2. CASE u = t
      BY <1>0, <2>6, <3>2
    <3>3. CASE u # t
      <4>1. /\ stat'[u] = stat[u] /\ error'[u] = error[u] /\ asked'[u] = asked[u]
            /\ event_set'[u] = event_set[u] /\ event_info'[u] = event_info[u]
        BY <1>0, <2>1, <2>6, <3>3 DEF EvCalls
      <4> QED
        BY <4>1 DEF EvCalls, Fits
    <3> QED
      BY <3>2, <3>3
  <2>9. \A u \in Threads : asked'[u] = {} => stat'[u] = "ready"
    BY <1>0, <2>1, <2>6 DEF EvCalls
  <2>10. /\ event_set' \in [Threads -> SUBSET Events] /\ asked' \in [Threads -> SUBSET Events]
         /\ event_info' \in [Threads -> Ev!Options]
    BY <1>0, <2>1 DEF EvCalls
  <2> QED
    BY <2>1, <2>4, <2>7, <2>8, <2>9, <2>10 DEF EvCalls
<1> QED
  BY <1>1, <1>2

LEMMA EvRecvReturns ==
  ASSUME IpcInv, EvCalls, NEW t \in Threads, Ev!RecvReturns(t)
  PROVE  IpcInv' /\ EvCalls'
<1>0. /\ t \notin Elements(suspend_thread[Event])
      /\ \A u \in Elements(suspend_thread[Event]) : u \in Threads
      /\ stat[t] = "ready"
  BY EvShape DEF Ev!RecvReturns
<1>1. /\ event_set' = [event_set EXCEPT ![t] = {}]
      /\ event_info' = [event_info EXCEPT ![t] = Ev!AnyOption]
      /\ asked' = [asked EXCEPT ![t] = {}]
      /\ UNCHANGED <<ipcVars, set>>
  BY DEF Ev!RecvReturns, Ev!ipcVars, ipcVars
<1>2. IpcInv'
  BY <1>1, UnchangedInv
<1>3. Ev!AnyOption \in Ev!Options
  BY DEF Ev!AnyOption, Ev!Options
<1>4. /\ event_set' \in [Threads -> SUBSET Events] /\ asked' \in [Threads -> SUBSET Events]
      /\ event_info' \in [Threads -> Ev!Options]
  BY <1>1, <1>3 DEF EvCalls
<1>5. \A u \in Threads : u # t => /\ event_set'[u] = event_set[u] /\ asked'[u] = asked[u]
                                  /\ event_info'[u] = event_info[u]
  BY <1>1 DEF EvCalls
<1>6. asked'[t] = {}
  BY <1>1 DEF EvCalls
<1> QED
  BY <1>0, <1>1, <1>2, <1>4, <1>5, <1>6 DEF EvCalls, Fits, ipcVars

\* Waiters leave the list with an error, whichever of them and why.
LEMMA EvDismissed ==
  ASSUME IpcInv, EvCalls, IpcInv', NEW gone,
         Elements(suspend_thread'[Event]) \subseteq Elements(suspend_thread[Event]) \ gone,
         \A t \in Threads : t \notin gone => stat'[t] = stat[t] /\ error'[t] = error[t],
         \A t \in Threads : t \in gone => stat'[t] = "ready" /\ error'[t] # "EOK",
         set' \subseteq set, UNCHANGED <<event_set, event_info, asked>>
  PROVE  EvCalls'
<1>1. \A t \in Elements(suspend_thread'[Event]) :
        /\ ~Ev!Satisfies(set', event_set'[t], event_info'[t])
        /\ event_set'[t] = asked'[t] /\ error'[t] = "EOK"
  BY EvShape DEF EvCalls, Ev!Satisfies
<1>2. \A t \in Threads : asked'[t] # {} /\ stat'[t] = "ready" /\ error'[t] = "EOK" => Fits(t)'
  BY DEF EvCalls, Fits
<1>3. \A t \in Threads : asked'[t] = {} => stat'[t] = "ready"
  BY DEF EvCalls
<1> QED
  BY <1>1, <1>2, <1>3 DEF EvCalls

LEMMA EvReset ==
  ASSUME IpcInv, EvCalls, Ev!Reset
  PROVE  IpcInv' /\ EvCalls'
<1> DEFINE woken == Elements(suspend_thread[Event])
<1>1. ListResumeAll(Event) /\ set' = {} /\ UNCHANGED <<event_set, event_info, asked>>
  BY EvIpc DEF Ev!Reset
<1>2. IpcInv'
  BY <1>1, EvShape, ListResumeAllInv
<1>3. /\ stat' = [t \in Threads |-> IF t \in woken THEN "ready" ELSE stat[t]]
      /\ error' = [t \in Threads |-> IF t \in woken THEN "ERROR" ELSE error[t]]
      /\ suspend_thread'[Event] = << >>
  BY <1>1, EvShape DEF ListResumeAll
<1>4. Elements(<< >>) = {}
  BY EmptySeq DEF Elements
<1> HIDE DEF woken
<1>5. Elements(suspend_thread'[Event]) \subseteq Elements(suspend_thread[Event]) \ woken
  BY <1>3, <1>4
<1>6. /\ \A t \in Threads : t \notin woken => stat'[t] = stat[t] /\ error'[t] = error[t]
      /\ \A t \in Threads : t \in woken => stat'[t] = "ready" /\ error'[t] # "EOK"
  BY <1>3
<1> QED
  BY <1>1, <1>2, <1>5, <1>6, EvDismissed

LEMMA EvDelete ==
  ASSUME IpcInv, EvCalls, Ev!Delete \/ Ev!DeleteStep
  PROVE  IpcInv' /\ EvCalls'
<1> DEFINE q == suspend_thread[Event]
<1>0. /\ Event \in Lists /\ q \in Seq(Threads) /\ NoRepeat(q)
      /\ suspend_thread \in [Lists -> Seq(Threads)]
      /\ error \in [Threads -> Errors] /\ stat \in [Threads -> {"ready", "suspend"}]
  BY EvShape
<1>1. /\ BeginTeardown(Event) \/ TeardownStep(Event)
      /\ UNCHANGED <<set, event_set, event_info, asked>>
  BY EvIpc DEF Ev!Delete, Ev!DeleteStep, Ev!eventVars
<1>2. IpcInv'
  BY <1>0, <1>1, TeardownInv
<1>3. CASE UNCHANGED <<stat, error, suspend_thread>>
  BY <1>1, <1>2, <1>3 DEF EvCalls, Fits
<1>4. CASE /\ q # << >>
           /\ stat' = [stat EXCEPT ![Head(q)] = "ready"]
           /\ error' = [error EXCEPT ![Head(q)] = "ERROR"]
           /\ suspend_thread' = [suspend_thread EXCEPT ![Event] = Tail(q)]
  <2> DEFINE gone == {Head(q)}
  <2>1. Head(q) \in Threads /\ Elements(Tail(q)) = Elements(q) \ {Head(q)}
    BY <1>0, <1>4, TailProperties
  <2>2. Elements(suspend_thread'[Event]) \subseteq Elements(suspend_thread[Event]) \ gone
    BY <1>0, <1>4, <2>1
  <2>3. /\ \A t \in Threads : t \notin gone => stat'[t] = stat[t] /\ error'[t] = error[t]
        /\ \A t \in Threads : t \in gone => stat'[t] = "ready" /\ error'[t] # "EOK"
    BY <1>0, <1>4, <2>1
  <2> HIDE DEF gone
  <2> QED
    BY <1>1, <1>2, <2>2, <2>3, EvDismissed
<1> QED
  BY <1>1, <1>3, <1>4 DEF BeginTeardown, TeardownStep, TeardownTest, TeardownResume

LEMMA EvTimeout ==
  ASSUME IpcInv, EvCalls, NEW t \in Threads, Ev!Timeout(t)
  PROVE  IpcInv' /\ EvCalls'
<1>0. /\ Event \in Lists /\ suspend_thread[Event] \in Seq(Threads)
      /\ NoRepeat(suspend_thread[Event])
      /\ error \in [Threads -> Errors] /\ stat \in [Threads -> {"ready", "suspend"}]
  BY EvShape
<1>1. ThreadTimeout(t) /\ UNCHANGED <<set, event_set, event_info, asked>>
  BY EvIpc DEF Ev!Timeout, Ev!eventVars
<1>2. IpcInv'
  BY <1>1, ThreadTimeoutInv
<1>3. /\ stat' = [stat EXCEPT ![t] = "ready"]
      /\ error' = [error EXCEPT ![t] = "ETIMEOUT"]
      /\ suspend_thread'[Event] = Unlink(suspend_thread[Event], t)
  BY <1>0, <1>1 DEF ThreadTimeout
<1> DEFINE gone == {t}
<1>4. Elements(suspend_thread'[Event]) \subseteq Elements(suspend_thread[Event]) \ gone
  BY <1>0, <1>3, UnlinkProperties
<1>5. /\ \A u \in Threads : u \notin gone => stat'[u] = stat[u] /\ error'[u] = error[u]
      /\ \A u \in Threads : u \in gone => stat'[u] = "ready" /\ error'[u] # "EOK"
  BY <1>0, <1>3
<1> HIDE DEF gone
<1> QED
  BY <1>1, <1>2, <1>4, <1>5, EvDismissed

LEMMA EvNext ==
  ASSUME Ev!Inv, Ev!Next
  PROVE  Ev!Inv' /\ IpcInv'
<1>0. IpcInv /\ EvCalls
  BY EvParts
<1>1. ASSUME NEW s \in Ev!Sets, Ev!Send(s) PROVE IpcInv' /\ EvCalls'
  BY <1>0, <1>1, EvSend
<1>2. ASSUME NEW t \in Threads, NEW wanted \in Ev!Sets, NEW option \in Ev!Options,
             \/ Ev!RecvAtOnce(t, wanted, option)
             \/ Ev!RecvFails(t, wanted, option)
             \/ Ev!RecvBlocks(t, wanted, option)
      PROVE  IpcInv' /\ EvCalls'
  BY <1>0, <1>2, EvRecv
<1>3. ASSUME NEW t \in Threads, Ev!RecvReturns(t) \/ Ev!Timeout(t) PROVE IpcInv' /\ EvCalls'
  BY <1>0, <1>3, EvRecvReturns, EvTimeout
<1>4. ASSUME Ev!Reset \/ Ev!Delete \/ Ev!DeleteStep PROVE IpcInv' /\ EvCalls'
  BY <1>0, <1>4, EvReset, EvDelete
<1>5. IpcInv' /\ EvCalls'
  BY <1>1, <1>2, <1>3, <1>4 DEF Ev!Next
<1> QED
  BY <1>5, EvParts

LEMMA EvInit == ASSUME Ev!Init PROVE Ev!Inv
<1>1. IpcInit /\ IpcInv
  BY IpcInitInv DEF Ev!Init, Ev!IpcInit, IpcInit
<1>2. Elements(<< >>) = {} /\ Event \in Lists
  BY EmptySeq, KernelAssumption DEF Elements, Ev!EventAssumption
<1>3. Ev!AnyOption \in Ev!Options
  BY DEF Ev!AnyOption, Ev!Options
<1>4. EvCalls
  BY <1>1, <1>2, <1>3 DEF Ev!Init, IpcInit, EvCalls
<1> QED
  BY <1>1, <1>4, EvParts

-----------------------------------------------------------------------------
(* Mailboxes.                                                              *)

LEMMA MbIpc ==
  /\ Mb!IpcInv <=> IpcInv
  /\ (Mb!IpcInv <=> IpcInv)'
  /\ Mb!IpcTypeOK <=> IpcTypeOK
  /\ (Mb!IpcTypeOK <=> IpcTypeOK)'
  /\ \A q : Mb!Elements(q) = Elements(q)
  /\ \A l : Mb!ResumeFirst(l) <=> ResumeFirst(l)
  /\ \A l, t, time : Mb!ListSuspend(l, t, Flag, Prio, time) <=> ListSuspend(l, t, Flag, Prio, time)
  /\ \A t : Mb!ThreadTimeout(t) <=> ThreadTimeout(t)
  /\ \A l : Mb!BeginTeardown(l) <=> BeginTeardown(l)
  /\ \A l : Mb!TeardownStep(l) <=> TeardownStep(l)
  /\ \A time : Mb!LeftOf(time) = LeftOf(time)
  /\ Mb!WaitTimes = WaitTimes
  /\ Mb!ipcVars = ipcVars
  /\ \A S : Mb!Cardinality(S) = Cardinality(S)
BY DEF Mb!IpcInv, IpcInv, Mb!IpcTypeOK, IpcTypeOK, Mb!LinkedOnce, LinkedOnce,
       Mb!SuspendedIffWaiting, SuspendedIffWaiting, Mb!ArmedOnlyWhileSuspended,
       ArmedOnlyWhileSuspended, Mb!Waiting, Waiting, Mb!Elements, Elements,
       Mb!NoRepeat, NoRepeat, Mb!Errors, Errors, Mb!Teardown, Teardown,
       Mb!ListResume, ListResume, Mb!ResumeFirst, ResumeFirst,
       Mb!ThreadTimeout, ThreadTimeout, Mb!Unlink, Unlink,
       Mb!ListSuspend, ListSuspend, Mb!Enqueue, Enqueue, Mb!InsertAt, InsertAt,
       Mb!PrioPosition, PrioPosition,
       Mb!BeginTeardown, BeginTeardown, Mb!TeardownTest, TeardownTest,
       Mb!TeardownResume, TeardownResume, Mb!TeardownStep, TeardownStep,
       Mb!LeftOf, LeftOf, Mb!WaitTimes, WaitTimes, Mb!ipcVars, ipcVars,
       Mb!Cardinality, Cardinality

\* The ring and who has received what,
MbRing ==
  /\ mb_entry \in 0..MbSize
  /\ msg_pool \in [Mb!Slots -> Mails \cup {None}]
  /\ in_offset \in Mb!Slots /\ out_offset \in Mb!Slots
  /\ mb_received \in Mails \cup {None}

\* the position x steps from the first slot,
MbWrap(x) == x % MbSize

\* the slot of the mail i,
MbSlot(i) == MbWrap(out_offset + i - 1)

\* and that the next mail goes behind the last.
MbOffsets == in_offset = MbWrap(out_offset + mb_entry)

\* the calls and who waits in them,
MbCalls ==
  /\ mb_call \in [Threads -> Mb!Calls]
  /\ \A t \in Threads : mb_call[t].op = "none" => mb_call[t] = Mb!NoCall /\ stat[t] = "ready"
  /\ \A t \in Threads : mb_call[t].op = "send" => mb_call[t].mail \in Mails
  /\ \A t \in Elements(suspend_thread[MbSenders]) : mb_call[t].op = "send" /\ error[t] = "EOK"
  /\ \A t \in Elements(suspend_thread[MbReceivers]) : mb_call[t].op = "recv" /\ error[t] = "EOK"

\* who has been woken to go on with which call,
MbWoken(op) ==
  {t \in Threads : mb_call[t].op = op /\ stat[t] = "ready" /\ error[t] = "EOK"}

\* a deletion,
MbEmptied ==
  /\ teardown[MbReceivers] = "drained" => suspend_thread[MbReceivers] = << >>
  /\ teardown[MbSenders] = "drained" => suspend_thread[MbSenders] = << >>
  /\ teardown[MbSenders] # "live" => teardown[MbReceivers] = "drained"
  /\ teardown[MbReceivers] # "live" => MbWoken("send") = {} /\ MbWoken("recv") = {}

\* and nobody stranded.
MbServed ==
  /\ suspend_thread[MbSenders] # << >> => MbSize - mb_entry <= Cardinality(MbWoken("send"))
  /\ suspend_thread[MbReceivers] # << >> => mb_entry <= Cardinality(MbWoken("recv"))

LEMMA MbWokenSets ==
  /\ \A op : {t \in Threads : Mb!Woken(t, op)} = MbWoken(op)
  /\ \A op : ({t \in Threads : Mb!Woken(t, op)} = MbWoken(op))'
BY DEF Mb!Woken, MbWoken

LEMMA MbParts ==
  /\ Mb!Inv <=> IpcInv /\ MbRing /\ MbOffsets /\ MbCalls /\ MbEmptied /\ MbServed
  /\ (Mb!Inv <=> IpcInv /\ MbRing /\ MbOffsets /\ MbCalls /\ MbEmptied /\ MbServed)'
<1>1. /\ Mb!TypeOK <=> IpcTypeOK /\ MbRing /\ mb_call \in [Threads -> Mb!Calls]
      /\ Mb!NoneStranded <=> MbServed
      /\ Mb!ListsEmptied <=> MbEmptied
  <2>1. Mb!TypeOK <=> IpcTypeOK /\ MbRing /\ mb_call \in [Threads -> Mb!Calls]
    BY MbIpc DEF Mb!TypeOK, MbRing
  <2>2. Mb!NoneStranded <=> MbServed
    BY MbIpc, MbWokenSets DEF Mb!NoneStranded, MbServed
  <2>3. Mb!ListsEmptied <=> MbEmptied
    BY DEF Mb!ListsEmptied, MbEmptied, MbWoken, Mb!Woken
  <2> QED
    BY <2>1, <2>2, <2>3
<1>2. Mb!CallsWait /\ mb_call \in [Threads -> Mb!Calls] <=> MbCalls
  BY MbIpc DEF Mb!CallsWait, MbCalls
<1>3. /\ (Mb!TypeOK <=> IpcTypeOK /\ MbRing /\ mb_call \in [Threads -> Mb!Calls])'
      /\ (Mb!NoneStranded <=> MbServed)'
      /\ (Mb!ListsEmptied <=> MbEmptied)'
  <2>1. (Mb!TypeOK <=> IpcTypeOK /\ MbRing /\ mb_call \in [Threads -> Mb!Calls])'
    BY MbIpc DEF Mb!TypeOK, MbRing
  <2>2. (Mb!NoneStranded <=> MbServed)'
    BY MbIpc, MbWokenSets DEF Mb!NoneStranded, MbServed
  <2>3. (Mb!ListsEmptied <=> MbEmptied)'
    BY DEF Mb!ListsEmptied, MbEmptied, MbWoken, Mb!Woken
  <2> QED
    BY <2>1, <2>2, <2>3
<1>4. (Mb!CallsWait /\ mb_call \in [Threads -> Mb!Calls] <=> MbCalls)'
  BY MbIpc DEF Mb!CallsWait, MbCalls
<1>5. /\ Mb!OffsetsAgree <=> MbOffsets
      /\ (Mb!OffsetsAgree <=> MbOffsets)'
  BY DEF Mb!OffsetsAgree, MbOffsets, MbWrap
<1>6. Mb!Inv <=> IpcInv /\ MbRing /\ MbOffsets /\ MbCalls /\ MbEmptied /\ MbServed
  BY <1>1, <1>2, <1>5, MbIpc DEF Mb!Inv, IpcInv
<1>7. (Mb!Inv <=> IpcInv /\ MbRing /\ MbOffsets /\ MbCalls /\ MbEmptied /\ MbServed)'
  BY <1>3, <1>4, <1>5, MbIpc DEF Mb!Inv, IpcInv
<1> QED
  BY <1>6, <1>7

LEMMA MbShape ==
  ASSUME IpcInv, MbCalls
  PROVE  /\ MbReceivers \in Lists /\ MbSenders \in Lists /\ MbReceivers # MbSenders
         /\ suspend_thread \in [Lists -> Seq(Threads)] /\ teardown \in [Lists -> Teardown]
         /\ stat \in [Threads -> {"ready", "suspend"}] /\ error \in [Threads -> Errors]
         /\ \A l \in Lists : /\ suspend_thread[l] \in Seq(Threads) /\ NoRepeat(suspend_thread[l])
                             /\ \A t \in Elements(suspend_thread[l]) :
                                  t \in Threads /\ stat[t] = "suspend"
         /\ MbSize \in Nat \ {0} /\ None \notin Mails /\ None \notin WaitTimes
         /\ Flag \in {"FIFO", "PRIO"} /\ Prio \in [Threads -> Nat]
<1>1. /\ MbReceivers \in Lists /\ MbSenders \in Lists /\ MbReceivers # MbSenders
      /\ MbSize \in Nat \ {0} /\ None \notin Mails /\ None \notin WaitTimes
      /\ Flag \in {"FIFO", "PRIO"} /\ Prio \in [Threads -> Nat]
  BY KernelAssumption, MbIpc DEF Mb!MailboxAssumption
<1>2. /\ suspend_thread \in [Lists -> Seq(Threads)] /\ teardown \in [Lists -> Teardown]
      /\ stat \in [Threads -> {"ready", "suspend"}] /\ error \in [Threads -> Errors]
      /\ \A l \in Lists : suspend_thread[l] \in Seq(Threads) /\ NoRepeat(suspend_thread[l])
  BY DEF IpcInv, IpcTypeOK, LinkedOnce
<1>3. \A l \in Lists : \A t \in Elements(suspend_thread[l]) : t \in Threads
  BY <1>2, ElementOfSeq DEF Elements
<1>4. \A l \in Lists : \A t \in Elements(suspend_thread[l]) : stat[t] = "suspend"
  BY <1>3 DEF IpcInv, SuspendedIffWaiting, Waiting
<1> QED
  BY <1>1, <1>2, <1>3, <1>4

\* A thread that is ready is in no list.
LEMMA ReadyUnlinked ==
  ASSUME IpcInv, NEW t \in Threads, stat[t] = "ready", NEW l \in Lists
  PROVE  t \notin Elements(suspend_thread[l])
BY DEF IpcInv, SuspendedIffWaiting, Waiting

\* The call each list is for.
MbOp(l) == IF l = MbSenders THEN "send" ELSE "recv"

(* One list's head is resumed, if there is one, and the call of t, which   *)
(* is ready, may end.                                                      *)
LEMMA MbResumes ==
  ASSUME IpcInv, MbCalls, MbEmptied, NEW l \in {MbReceivers, MbSenders},
         ResumeFirst(l), teardown[MbReceivers] = "live", NEW t,
         \/ mb_call' = mb_call
         \/ t \in Threads /\ stat[t] = "ready" /\ mb_call' = [mb_call EXCEPT ![t] = Mb!NoCall]
  PROVE  /\ IpcInv' /\ MbCalls' /\ MbEmptied'
         /\ \A k \in {MbReceivers, MbSenders} : suspend_thread'[k] # << >> => suspend_thread[k] # << >>
         /\ suspend_thread[l] # << >> =>
              \E h \in Threads : h \notin MbWoken(MbOp(l)) /\ h \in MbWoken(MbOp(l))'
         /\ \A op \in {"send", "recv"} :
              /\ MbWoken(op) \ {t} \subseteq MbWoken(op)'
              /\ mb_call' = mb_call \/ mb_call[t].op # op => MbWoken(op) \subseteq MbWoken(op)'
<1> DEFINE q == suspend_thread[l]
           h == Head(q)
<1>0. /\ l \in Lists /\ suspend_thread \in [Lists -> Seq(Threads)]
      /\ stat \in [Threads -> {"ready", "suspend"}] /\ error \in [Threads -> Errors]
      /\ q \in Seq(Threads) /\ NoRepeat(q) /\ MbReceivers # MbSenders
      /\ MbReceivers \in Lists /\ MbSenders \in Lists
      /\ \A k \in {MbReceivers, MbSenders} : \A u \in Elements(suspend_thread[k]) :
           u \in Threads /\ stat[u] = "suspend" /\ mb_call[u].op = MbOp(k) /\ error[u] = "EOK"
      /\ mb_call \in [Threads -> Mb!Calls]
      /\ teardown[MbSenders] = "live"
  BY MbShape DEF MbCalls, MbOp, MbEmptied
<1>1. /\ Mb!NoCall.op = "none" /\ Mb!NoCall \in Mb!Calls
  BY DEF Mb!NoCall, Mb!Calls
<1>2. /\ mb_call' \in [Threads -> Mb!Calls]
      /\ \A u \in Threads : u # t => mb_call'[u] = mb_call[u]
      /\ \/ t \in Threads /\ stat[t] = "ready" /\ mb_call'[t] = Mb!NoCall
         \/ mb_call' = mb_call
  BY <1>0, <1>1
<1>3. IpcInv'
  BY <1>0, ListResumeInv, UnchangedInv DEF ResumeFirst
<1>4. /\ UNCHANGED <<error, teardown>>
      /\ \/ q = << >> /\ UNCHANGED <<stat, suspend_thread>>
         \/ /\ q # << >> /\ stat' = [stat EXCEPT ![h] = "ready"]
            /\ suspend_thread' = [suspend_thread EXCEPT ![l] = Tail(q)]
  BY DEF ResumeFirst, ListResume, ipcVars
<1>5. q # << >> => /\ h \in Elements(q) /\ h \in Threads /\ stat[h] = "suspend"
                   /\ mb_call[h].op = MbOp(l) /\ error[h] = "EOK"
                   /\ Elements(Tail(q)) \subseteq Elements(q)
  BY <1>0, TailProperties
<1>6. q # << >> => suspend_thread'[l] = Tail(q) /\ mb_call'[h] = mb_call[h]
  BY <1>0, <1>2, <1>4, <1>5
<1>7. \A k \in {MbReceivers, MbSenders} :
        /\ Elements(suspend_thread'[k]) \subseteq Elements(suspend_thread[k])
        /\ suspend_thread'[k] # << >> => suspend_thread[k] # << >>
  <2>1. TAKE k \in {MbReceivers, MbSenders}
  <2>2. CASE k = l
    BY <1>4, <1>5, <1>6, <2>2
  <2>3. CASE k # l
    BY <1>0, <1>4, <2>3
  <2> QED
    BY <2>2, <2>3
<1>8. /\ \A u \in Threads : stat[u] = "ready" => stat'[u] = "ready"
      /\ \A u \in Threads : u # h => stat'[u] = stat[u]
  BY <1>0, <1>4
<1> HIDE DEF q, h
<1>9. \A k \in {MbReceivers, MbSenders} : \A u \in Elements(suspend_thread'[k]) :
        mb_call'[u].op = MbOp(k) /\ error'[u] = "EOK"
  <2>1. TAKE k \in {MbReceivers, MbSenders}
  <2>2. TAKE u \in Elements(suspend_thread'[k])
  <2>3. u \in Elements(suspend_thread[k])
    BY <1>7
  <2>4. u \in Threads /\ stat[u] = "suspend" /\ mb_call[u].op = MbOp(k) /\ error[u] = "EOK"
    BY <1>0, <2>3
  <2>5. mb_call'[u] = mb_call[u]
    BY <1>2, <2>4
  <2> QED
    BY <1>4, <2>4, <2>5
<1>10. MbCalls'
  <2>1. \A u \in Threads : mb_call'[u].op = "none" => mb_call'[u] = Mb!NoCall /\ stat'[u] = "ready"
    BY <1>2, <1>8 DEF MbCalls
  <2>2. \A u \in Threads : mb_call'[u].op = "send" => mb_call'[u].mail \in Mails
    BY <1>1, <1>2 DEF MbCalls
  <2> QED
    BY <1>0, <1>2, <1>9, <2>1, <2>2 DEF MbCalls, MbOp
<1>11. MbEmptied'
  BY <1>0, <1>4 DEF MbEmptied
<1>12. q # << >> => h \in Threads /\ h \notin MbWoken(MbOp(l)) /\ h \in MbWoken(MbOp(l))'
  BY <1>0, <1>4, <1>5, <1>6 DEF MbWoken
<1>13. ASSUME NEW op \in {"send", "recv"}
       PROVE  /\ MbWoken(op) \ {t} \subseteq MbWoken(op)'
              /\ mb_call' = mb_call \/ mb_call[t].op # op => MbWoken(op) \subseteq MbWoken(op)'
  BY <1>2, <1>4, <1>8 DEF MbWoken
<1> QED
  BY <1>3, <1>7, <1>10, <1>11, <1>12, <1>13 DEF q

\* The last region of rt_mb_send_wait, of an interrupt or in the call of t.
LEMMA MbStore ==
  ASSUME IpcInv, MbRing, MbCalls, MbEmptied, MbServed, NEW m \in Mails, Mb!Store(m),
         mb_entry < MbSize, teardown[MbReceivers] = "live", NEW t,
         \/ mb_call' = mb_call
         \/ t \in MbWoken("send") /\ mb_call' = [mb_call EXCEPT ![t] = Mb!NoCall]
  PROVE  IpcInv' /\ MbRing' /\ MbCalls' /\ MbEmptied' /\ MbServed'
<1>0. /\ ResumeFirst(MbReceivers) /\ mb_entry' = mb_entry + 1
      /\ msg_pool' = [msg_pool EXCEPT ![in_offset] = m]
      /\ in_offset' = Mb!NextOffset(in_offset)
      /\ UNCHANGED <<out_offset, mb_received>>
  BY MbIpc DEF Mb!Store
<1>1. /\ MbSize \in Nat /\ mb_entry \in 0..MbSize /\ MbReceivers # MbSenders
      /\ MbOp(MbReceivers) = "recv"
  BY MbShape DEF MbRing, MbOp
<1>2. /\ \/ mb_call' = mb_call
         \/ t \in Threads /\ stat[t] = "ready" /\ mb_call' = [mb_call EXCEPT ![t] = Mb!NoCall]
      /\ mb_call' = mb_call \/ mb_call[t].op # "recv"
  BY DEF MbWoken
<1>3. /\ IpcInv' /\ MbCalls' /\ MbEmptied'
      /\ suspend_thread'[MbSenders] # << >> => suspend_thread[MbSenders] # << >>
      /\ suspend_thread'[MbReceivers] # << >> => suspend_thread[MbReceivers] # << >>
      /\ suspend_thread[MbReceivers] # << >> =>
           \E h \in Threads : h \notin MbWoken("recv") /\ h \in MbWoken("recv")'
      /\ MbWoken("send") \ {t} \subseteq MbWoken("send")'
      /\ MbWoken("recv") \subseteq MbWoken("recv")'
  BY <1>0, <1>1, <1>2, MbResumes
<1>4. \A op : MbWoken(op) \in SUBSET Threads /\ MbWoken(op)' \in SUBSET Threads
  BY DEF MbWoken
<1>5. MbRing'
  <2>1. in_offset' \in Mb!Slots
    BY <1>0, <1>1 DEF MbRing, Mb!Slots, Mb!NextOffset
  <2> QED
    BY <1>0, <1>1, <2>1 DEF MbRing
<1>6. ASSUME suspend_thread'[MbSenders] # << >>
      PROVE  MbSize - mb_entry' <= Cardinality(MbWoken("send")')
  <2>1. MbSize - mb_entry <= Cardinality(MbWoken("send"))
    BY <1>3, <1>6 DEF MbServed
  <2>2. Cardinality(MbWoken("send")) - 1 <= Cardinality(MbWoken("send")')
    BY <1>3, <1>4, CountMinusOne
  <2>3. Cardinality(MbWoken("send")) \in Nat /\ Cardinality(MbWoken("send")') \in Nat
    BY <1>4, CountNat
  <2> QED
    BY <1>0, <1>1, <2>1, <2>2, <2>3
<1>7. ASSUME suspend_thread'[MbReceivers] # << >>
      PROVE  mb_entry' <= Cardinality(MbWoken("recv")')
  <2>1. mb_entry <= Cardinality(MbWoken("recv"))
    BY <1>3, <1>7 DEF MbServed
  <2>2. Cardinality(MbWoken("recv")) + 1 <= Cardinality(MbWoken("recv")')
    BY <1>3, <1>4, <1>7, CountPlusOne
  <2>3. Cardinality(MbWoken("recv")) \in Nat /\ Cardinality(MbWoken("recv")') \in Nat
    BY <1>4, CountNat
  <2> QED
    BY <1>0, <1>1, <2>1, <2>2, <2>3
<1> QED
  BY <1>3, <1>5, <1>6, <1>7 DEF MbServed

LEMMA MbFetch ==
  ASSUME IpcInv, MbRing, MbCalls, MbEmptied, MbServed, Mb!Fetch,
         mb_entry > 0, teardown[MbReceivers] = "live", NEW t,
         \/ mb_call' = mb_call
         \/ t \in MbWoken("recv") /\ mb_call' = [mb_call EXCEPT ![t] = Mb!NoCall]
  PROVE  IpcInv' /\ MbRing' /\ MbCalls' /\ MbEmptied' /\ MbServed'
<1>0. /\ ResumeFirst(MbSenders) /\ mb_entry' = mb_entry - 1
      /\ mb_received' = msg_pool[out_offset]
      /\ out_offset' = Mb!NextOffset(out_offset)
      /\ UNCHANGED <<msg_pool, in_offset>>
  BY MbIpc DEF Mb!Fetch
<1>1. /\ MbSize \in Nat /\ mb_entry \in 0..MbSize /\ MbReceivers # MbSenders
      /\ MbOp(MbSenders) = "send"
  BY MbShape DEF MbRing, MbOp
<1>2. /\ \/ mb_call' = mb_call
         \/ t \in Threads /\ stat[t] = "ready" /\ mb_call' = [mb_call EXCEPT ![t] = Mb!NoCall]
      /\ mb_call' = mb_call \/ mb_call[t].op # "send"
  BY DEF MbWoken
<1>3. /\ IpcInv' /\ MbCalls' /\ MbEmptied'
      /\ suspend_thread'[MbSenders] # << >> => suspend_thread[MbSenders] # << >>
      /\ suspend_thread'[MbReceivers] # << >> => suspend_thread[MbReceivers] # << >>
      /\ suspend_thread[MbSenders] # << >> =>
           \E h \in Threads : h \notin MbWoken("send") /\ h \in MbWoken("send")'
      /\ MbWoken("recv") \ {t} \subseteq MbWoken("recv")'
      /\ MbWoken("send") \subseteq MbWoken("send")'
  BY <1>0, <1>1, <1>2, MbResumes
<1>4. \A op : MbWoken(op) \in SUBSET Threads /\ MbWoken(op)' \in SUBSET Threads
  BY DEF MbWoken
<1>5. MbRing'
  <2>1. out_offset' \in Mb!Slots
    BY <1>0, <1>1 DEF MbRing, Mb!Slots, Mb!NextOffset
  <2> QED
    BY <1>0, <1>1, <2>1 DEF MbRing
<1>6. ASSUME suspend_thread'[MbReceivers] # << >>
      PROVE  mb_entry' <= Cardinality(MbWoken("recv")')
  <2>1. mb_entry <= Cardinality(MbWoken("recv"))
    BY <1>3, <1>6 DEF MbServed
  <2>2. Cardinality(MbWoken("recv")) - 1 <= Cardinality(MbWoken("recv")')
    BY <1>3, <1>4, CountMinusOne
  <2>3. Cardinality(MbWoken("recv")) \in Nat /\ Cardinality(MbWoken("recv")') \in Nat
    BY <1>4, CountNat
  <2> QED
    BY <1>0, <1>1, <2>1, <2>2, <2>3
<1>7. ASSUME suspend_thread'[MbSenders] # << >>
      PROVE  MbSize - mb_entry' <= Cardinality(MbWoken("send")')
  <2>1. MbSize - mb_entry <= Cardinality(MbWoken("send"))
    BY <1>3, <1>7 DEF MbServed
  <2>2. Cardinality(MbWoken("send")) + 1 <= Cardinality(MbWoken("send")')
    BY <1>3, <1>4, <1>7, CountPlusOne
  <2>3. Cardinality(MbWoken("send")) \in Nat /\ Cardinality(MbWoken("send")') \in Nat
    BY <1>4, CountNat
  <2> QED
    BY <1>0, <1>1, <2>1, <2>2, <2>3
<1> QED
  BY <1>3, <1>5, <1>6, <1>7 DEF MbServed

\* A woken call goes on only while the mailbox is in service.
LEMMA MbWokenLive ==
  ASSUME MbEmptied, MbCalls, IpcInv, NEW op \in {"send", "recv"}, MbWoken(op) # {}
  PROVE  teardown[MbReceivers] = "live" /\ teardown[MbSenders] = "live"
BY DEF MbEmptied

LEMMA MbSendsAndReceives ==
  ASSUME IpcInv, MbRing, MbCalls, MbEmptied, MbServed,
         \/ \E m \in Mails : Mb!Send(m)
         \/ \E t \in Threads : Mb!SendCompletes(t) \/ Mb!Recv(t) \/ Mb!RecvCompletes(t)
  PROVE  IpcInv' /\ MbRing' /\ MbCalls' /\ MbEmptied' /\ MbServed'
<1>1. ASSUME NEW m \in Mails, Mb!Send(m)
      PROVE  IpcInv' /\ MbRing' /\ MbCalls' /\ MbEmptied' /\ MbServed'
  <2>1. /\ Mb!Store(m) /\ mb_entry < MbSize /\ teardown[MbReceivers] = "live"
        /\ mb_call' = mb_call
    BY <1>1 DEF Mb!Send, Mb!Live
  <2> QED
    BY <2>1, MbStore
<1>2. ASSUME NEW t \in Threads, Mb!SendCompletes(t)
      PROVE  IpcInv' /\ MbRing' /\ MbCalls' /\ MbEmptied' /\ MbServed'
  <2>1. /\ t \in MbWoken("send") /\ mb_entry < MbSize /\ Mb!Store(mb_call[t].mail)
        /\ mb_call' = [mb_call EXCEPT ![t] = Mb!NoCall]
    BY <1>2 DEF Mb!SendCompletes, Mb!Woken, MbWoken
  <2>2. mb_call[t].mail \in Mails
    BY <2>1 DEF MbCalls, MbWoken
  <2>3. teardown[MbReceivers] = "live"
    BY <2>1, MbWokenLive
  <2> QED
    BY <2>1, <2>2, <2>3, MbStore
<1>3. ASSUME NEW t \in Threads, Mb!Recv(t)
      PROVE  IpcInv' /\ MbRing' /\ MbCalls' /\ MbEmptied' /\ MbServed'
  <2>1. Mb!Fetch /\ mb_entry > 0 /\ teardown[MbReceivers] = "live" /\ mb_call' = mb_call
    BY <1>3 DEF Mb!Recv, Mb!Idle, Mb!Live
  <2> QED
    BY <2>1, MbFetch
<1>4. ASSUME NEW t \in Threads, Mb!RecvCompletes(t)
      PROVE  IpcInv' /\ MbRing' /\ MbCalls' /\ MbEmptied' /\ MbServed'
  <2>1. /\ t \in MbWoken("recv") /\ mb_entry > 0 /\ Mb!Fetch
        /\ mb_call' = [mb_call EXCEPT ![t] = Mb!NoCall]
    BY <1>4 DEF Mb!RecvCompletes, Mb!Woken, MbWoken
  <2>2. teardown[MbReceivers] = "live"
    BY <2>1, MbWokenLive
  <2> QED
    BY <2>1, <2>2, MbFetch
<1> QED
  BY <1>1, <1>2, <1>3, <1>4

\* The ready thread t, which is in no other call, suspends.
LEMMA MbBlock ==
  ASSUME IpcInv, MbRing, MbCalls, MbEmptied, MbServed, teardown[MbReceivers] = "live",
         NEW t \in Threads, stat[t] = "ready", NEW l \in {MbReceivers, MbSenders},
         mb_call[t].op \in {"none", MbOp(l)},
         mb_entry = (IF l = MbSenders THEN MbSize ELSE 0),
         NEW request \in Mb!Calls, request.op = MbOp(l),
         request.op = "send" => request.mail \in Mails, Mb!Block(t, l, request)
  PROVE  IpcInv' /\ MbRing' /\ MbCalls' /\ MbEmptied' /\ MbServed'
<1>0. /\ l \in Lists /\ suspend_thread \in [Lists -> Seq(Threads)]
      /\ stat \in [Threads -> {"ready", "suspend"}] /\ error \in [Threads -> Errors]
      /\ suspend_thread[l] \in Seq(Threads) /\ NoRepeat(suspend_thread[l])
      /\ MbReceivers # MbSenders /\ MbReceivers \in Lists /\ MbSenders \in Lists
      /\ Flag \in {"FIFO", "PRIO"} /\ Prio \in [Threads -> Nat]
      /\ \A k \in {MbReceivers, MbSenders} : \A u \in Elements(suspend_thread[k]) : u \in Threads
      /\ mb_call \in [Threads -> Mb!Calls] /\ MbSize \in Nat
      /\ t \notin Elements(suspend_thread[l])
      /\ teardown[MbSenders] = "live"
  BY MbShape, ReadyUnlinked DEF MbCalls, MbEmptied
<1>1. /\ ListSuspend(l, t, Flag, Prio, request.time)
      /\ mb_call' = [mb_call EXCEPT ![t] = request]
      /\ UNCHANGED <<msg_pool, mb_entry, in_offset, out_offset, mb_received>>
  BY MbIpc DEF Mb!Block
<1>2. IpcInv'
  BY <1>0, <1>1, ListSuspendInv
<1>3. MbRing'
  BY <1>1 DEF MbRing
<1> DEFINE q == Enqueue(suspend_thread[l], t, Flag, Prio)
<1>4. Elements(q) = Elements(suspend_thread[l]) \cup {t}
  <2>1. /\ suspend_thread[l] \in Seq(Threads) /\ NoRepeat(suspend_thread[l])
        /\ t \notin Elements(suspend_thread[l])
        /\ Flag \in {"FIFO", "PRIO"} /\ Prio \in [Threads -> Nat]
    BY <1>0
  <2> QED
    BY <2>1, EnqueueProperties
<1>5. /\ stat' = [stat EXCEPT ![t] = "suspend"] /\ error' = [error EXCEPT ![t] = "EOK"]
      /\ suspend_thread' = [suspend_thread EXCEPT ![l] = q] /\ teardown' = teardown
  BY <1>1 DEF ListSuspend
<1> HIDE DEF q
<1>6. /\ \A u \in Threads : u # t => /\ mb_call'[u] = mb_call[u] /\ stat'[u] = stat[u]
                                     /\ error'[u] = error[u]
      /\ mb_call'[t] = request /\ error'[t] = "EOK" /\ stat'[t] = "suspend"
      /\ mb_call' \in [Threads -> Mb!Calls]
  BY <1>0, <1>1, <1>5
<1>7. \A k \in {MbReceivers, MbSenders} : \A u \in Elements(suspend_thread'[k]) :
        mb_call'[u].op = MbOp(k) /\ error'[u] = "EOK"
  <2>1. TAKE k \in {MbReceivers, MbSenders}
  <2>2. TAKE u \in Elements(suspend_thread'[k])
  <2>3. \A v \in Elements(suspend_thread[k]) : mb_call[v].op = MbOp(k) /\ error[v] = "EOK"
    BY <1>0 DEF MbCalls, MbOp
  <2>4. CASE k = l
    <3>1. u \in Elements(suspend_thread[l]) \/ u = t
      BY <1>0, <1>4, <1>5, <2>4
    <3> QED
      BY <1>0, <1>6, <2>3, <2>4, <3>1
  <2>5. CASE k # l
    <3>1. u \in Elements(suspend_thread[k])
      BY <1>0, <1>5, <2>5
    <3>2. u # t
      BY <1>0, <3>1, ReadyUnlinked
    <3> QED
      BY <1>0, <1>6, <2>3, <3>1, <3>2
  <2> QED
    BY <2>4, <2>5
<1>8. MbCalls'
  <2>1. \A u \in Threads : mb_call'[u].op = "none" => mb_call'[u] = Mb!NoCall /\ stat'[u] = "ready"
    BY <1>6 DEF MbCalls, MbOp
  <2>2. \A u \in Threads : mb_call'[u].op = "send" => mb_call'[u].mail \in Mails
    BY <1>6 DEF MbCalls
  <2> QED
    BY <1>0, <1>6, <1>7, <2>1, <2>2 DEF MbCalls, MbOp
<1>9. MbEmptied'
  BY <1>0, <1>5 DEF MbEmptied
<1>10. MbServed'
  <2>1. \A op : MbWoken(op) \in SUBSET Threads /\ MbWoken(op)' \in SUBSET Threads
    BY DEF MbWoken
  <2>2. \A op : Cardinality(MbWoken(op)) \in Nat /\ Cardinality(MbWoken(op)') \in Nat
    BY <2>1, CountNat
  <2>3. CASE l = MbSenders
    <3>1. suspend_thread'[MbReceivers] = suspend_thread[MbReceivers]
      BY <1>0, <1>5, <2>3
    <3>2. t \notin MbWoken("recv")
      BY <2>3 DEF MbWoken, MbOp
    <3>3. MbWoken("recv") \subseteq MbWoken("recv")'
      BY <1>6, <3>2 DEF MbWoken
    <3>4. Cardinality(MbWoken("recv")) <= Cardinality(MbWoken("recv")')
      BY <2>1, <3>3, CountGrows
    <3>5. mb_entry' = mb_entry /\ mb_entry = MbSize /\ MbSize - mb_entry = 0
      BY <1>0, <1>1, <2>3
    <3>6. MbSize - mb_entry' <= Cardinality(MbWoken("send")')
      BY <1>0, <2>2, <3>5
    <3>7. suspend_thread'[MbReceivers] # << >> => mb_entry' <= Cardinality(MbWoken("recv")')
      BY <1>0, <2>2, <3>1, <3>4, <3>5 DEF MbServed
    <3> QED
      BY <3>6, <3>7 DEF MbServed
  <2>4. CASE l = MbReceivers
    <3>1. suspend_thread'[MbSenders] = suspend_thread[MbSenders]
      BY <1>0, <1>5, <2>4
    <3>2. t \notin MbWoken("send")
      BY <1>0, <2>4 DEF MbWoken, MbOp
    <3>3. MbWoken("send") \subseteq MbWoken("send")'
      BY <1>6, <3>2 DEF MbWoken
    <3>4. Cardinality(MbWoken("send")) <= Cardinality(MbWoken("send")')
      BY <2>1, <3>3, CountGrows
    <3>5. mb_entry' = mb_entry /\ mb_entry = 0
      BY <1>0, <1>1, <2>4
    <3>6. mb_entry' <= Cardinality(MbWoken("recv")')
      BY <2>2, <3>5
    <3>7. suspend_thread'[MbSenders] # << >> =>
            MbSize - mb_entry' <= Cardinality(MbWoken("send")')
      BY <1>0, <2>2, <3>1, <3>4, <3>5 DEF MbServed
    <3> QED
      BY <3>6, <3>7 DEF MbServed
  <2> QED
    BY <2>3, <2>4
<1> QED
  BY <1>2, <1>3, <1>8, <1>9, <1>10

\* A ready call that nobody counts on ends, and error may be overwritten.
LEMMA MbReturns ==
  ASSUME IpcInv, MbRing, MbCalls, MbEmptied, MbServed, NEW t \in Threads, stat[t] = "ready",
         \/ error[t] # "EOK"
         \/ mb_call[t].op = "send" /\ mb_entry = MbSize
         \/ mb_call[t].op = "recv" /\ mb_entry = 0,
         mb_call' = [mb_call EXCEPT ![t] = Mb!NoCall],
         error' \in [Threads -> Errors], \A u \in Threads : u # t => error'[u] = error[u],
         UNCHANGED <<stat, thread_timer, suspend_thread, teardown, fault,
                     msg_pool, mb_entry, in_offset, out_offset, mb_received>>
  PROVE  IpcInv' /\ MbRing' /\ MbCalls' /\ MbEmptied' /\ MbServed'
<1>0. /\ mb_call \in [Threads -> Mb!Calls] /\ MbSize \in Nat
      /\ \A k \in {MbReceivers, MbSenders} : \A u \in Elements(suspend_thread[k]) :
           u \in Threads /\ u # t
  BY MbShape DEF MbCalls
<1>1. IpcInv'
  BY DEF IpcInv, IpcTypeOK, LinkedOnce, SuspendedIffWaiting, Waiting, ArmedOnlyWhileSuspended
<1>2. MbRing'
  BY DEF MbRing
<1>3. Mb!NoCall.op = "none" /\ Mb!NoCall \in Mb!Calls
  BY DEF Mb!NoCall, Mb!Calls
<1>4. /\ \A u \in Threads : u # t => mb_call'[u] = mb_call[u]
      /\ mb_call'[t] = Mb!NoCall /\ mb_call' \in [Threads -> Mb!Calls]
  BY <1>0, <1>3
<1>5. MbCalls'
  <2>1. \A u \in Threads : mb_call'[u].op = "none" => mb_call'[u] = Mb!NoCall /\ stat'[u] = "ready"
    BY <1>4 DEF MbCalls
  <2>2. \A u \in Threads : mb_call'[u].op = "send" => mb_call'[u].mail \in Mails
    BY <1>3, <1>4 DEF MbCalls
  <2>3. /\ \A u \in Elements(suspend_thread'[MbSenders]) :
             mb_call'[u].op = "send" /\ error'[u] = "EOK"
        /\ \A u \in Elements(suspend_thread'[MbReceivers]) :
             mb_call'[u].op = "recv" /\ error'[u] = "EOK"
    BY <1>0, <1>4 DEF MbCalls
  <2> QED
    BY <1>4, <2>1, <2>2, <2>3 DEF MbCalls
<1>6. \A op \in {"send", "recv"} : MbWoken(op)' = MbWoken(op) \ {t}
  BY <1>3, <1>4 DEF MbWoken
<1>7. MbEmptied'
  BY <1>6 DEF MbEmptied
<1>8. MbServed'
  <2>1. \A op : MbWoken(op) \in SUBSET Threads /\ MbWoken(op)' \in SUBSET Threads
    BY DEF MbWoken
  <2>2. \A op : Cardinality(MbWoken(op)) \in Nat /\ Cardinality(MbWoken(op)') \in Nat
    BY <2>1, CountNat
  <2>3. ASSUME suspend_thread[MbSenders] # << >>
        PROVE  MbSize - mb_entry <= Cardinality(MbWoken("send")')
    <3>1. CASE t \notin MbWoken("send")
      <4>1. MbWoken("send")' = MbWoken("send")
        BY <1>6, <3>1
      <4> QED
        BY <2>3, <4>1 DEF MbServed
    <3>2. CASE t \in MbWoken("send")
      <4>1. mb_entry = MbSize
        BY <3>2 DEF MbWoken
      <4> QED
        BY <1>0, <2>2, <4>1
    <3> QED
      BY <3>1, <3>2
  <2>4. ASSUME suspend_thread[MbReceivers] # << >>
        PROVE  mb_entry <= Cardinality(MbWoken("recv")')
    <3>1. CASE t \notin MbWoken("recv")
      <4>1. MbWoken("recv")' = MbWoken("recv")
        BY <1>6, <3>1
      <4> QED
        BY <2>4, <4>1 DEF MbServed
    <3>2. CASE t \in MbWoken("recv")
      <4>1. mb_entry = 0
        BY <3>2 DEF MbWoken
      <4> QED
        BY <2>2, <4>1
    <3> QED
      BY <3>1, <3>2
  <2> QED
    BY <2>3, <2>4 DEF MbServed
<1> QED
  BY <1>1, <1>2, <1>5, <1>7, <1>8

\* The calls that do not end: they suspend, again or for the first time.
LEMMA MbBlocks ==
  ASSUME IpcInv, MbRing, MbCalls, MbEmptied, MbServed, NEW t \in Threads,
         \/ \E m \in Mails : Mb!SendBlocks(t, m)
         \/ Mb!SendRetries(t) \/ Mb!RecvBlocks(t) \/ Mb!RecvRetries(t)
  PROVE  IpcInv' /\ MbRing' /\ MbCalls' /\ MbEmptied' /\ MbServed'
<1>0. /\ mb_call \in [Threads -> Mb!Calls] /\ error \in [Threads -> Errors]
      /\ MbReceivers # MbSenders /\ Mb!NoCall.op = "none"
      /\ MbOp(MbSenders) = "send" /\ MbOp(MbReceivers) = "recv"
      /\ Times \subseteq WaitTimes /\ "ETIMEOUT" \in Errors
      /\ \A time \in WaitTimes : LeftOf(time) \subseteq WaitTimes
  BY MbShape, TimesAssumption, LeftOfTimes DEF MbCalls, MbOp, Mb!NoCall, Errors
<1>1. ASSUME NEW m \in Mails, Mb!SendBlocks(t, m)
      PROVE  IpcInv' /\ MbRing' /\ MbCalls' /\ MbEmptied' /\ MbServed'
  <2>1. PICK time \in Times \ {"zero"} :
          Mb!Block(t, MbSenders, [op |-> "send", mail |-> m, time |-> time])
    BY <1>1 DEF Mb!SendBlocks
  <2> DEFINE request == [op |-> "send", mail |-> m, time |-> time]
  <2>2. request \in Mb!Calls /\ request.op = "send" /\ request.mail \in Mails
    BY <1>0, MbIpc DEF Mb!Calls
  <2> HIDE DEF request
  <2>3. /\ mb_call[t] = Mb!NoCall /\ teardown[MbReceivers] = "live" /\ mb_entry = MbSize
    BY <1>1 DEF Mb!SendBlocks, Mb!Idle, Mb!Live
  <2>4. stat[t] = "ready" /\ mb_call[t].op = "none"
    BY <1>0, <2>3 DEF MbCalls
  <2> QED
    BY <1>0, <2>1, <2>2, <2>3, <2>4, MbBlock DEF request
<1>2. ASSUME Mb!RecvBlocks(t)
      PROVE  IpcInv' /\ MbRing' /\ MbCalls' /\ MbEmptied' /\ MbServed'
  <2>1. PICK time \in Times \ {"zero"} :
          Mb!Block(t, MbReceivers, [op |-> "recv", mail |-> None, time |-> time])
    BY <1>2 DEF Mb!RecvBlocks
  <2> DEFINE request == [op |-> "recv", mail |-> None, time |-> time]
  <2>2. request \in Mb!Calls /\ request.op = "recv"
    BY <1>0, MbIpc DEF Mb!Calls
  <2> HIDE DEF request
  <2>3. /\ mb_call[t] = Mb!NoCall /\ teardown[MbReceivers] = "live" /\ mb_entry = 0
    BY <1>2 DEF Mb!RecvBlocks, Mb!Idle, Mb!Live
  <2>4. stat[t] = "ready" /\ mb_call[t].op = "none"
    BY <1>0, <2>3 DEF MbCalls
  <2> QED
    BY <1>0, <2>1, <2>2, <2>3, <2>4, MbBlock DEF request
<1>3. ASSUME Mb!SendRetries(t)
      PROVE  IpcInv' /\ MbRing' /\ MbCalls' /\ MbEmptied' /\ MbServed'
  <2>1. t \in MbWoken("send") /\ mb_entry = MbSize
    BY <1>3 DEF Mb!SendRetries, Mb!Woken, MbWoken
  <2>2. teardown[MbReceivers] = "live" /\ stat[t] = "ready" /\ mb_call[t].op = "send"
    BY <2>1, MbWokenLive DEF MbWoken
  <2>3. PICK left \in LeftOf(mb_call[t].time) :
          IF left = "zero"
          THEN /\ mb_call' = [mb_call EXCEPT ![t] = Mb!NoCall]
               /\ UNCHANGED <<ipcVars, msg_pool, mb_entry, in_offset, out_offset, mb_received>>
          ELSE Mb!Block(t, MbSenders, [mb_call[t] EXCEPT !.time = left])
    BY <1>3, MbIpc DEF Mb!SendRetries, Mb!ipcVars, ipcVars
  <2>4. CASE left = "zero"
    <3>1. /\ mb_call' = [mb_call EXCEPT ![t] = Mb!NoCall]
          /\ UNCHANGED <<ipcVars, msg_pool, mb_entry, in_offset, out_offset, mb_received>>
      BY <2>3, <2>4
    <3> QED
      BY <1>0, <2>1, <2>2, <3>1, MbReturns DEF ipcVars
  <2>5. CASE left # "zero"
    <3> DEFINE request == [mb_call[t] EXCEPT !.time = left]
    <3>1. request \in Mb!Calls /\ request.op = "send" /\ request.mail \in Mails
      <4>1. mb_call[t] \in Mb!Calls /\ mb_call[t].mail \in Mails
        BY <1>0, <2>2 DEF MbCalls
      <4>2. left \in WaitTimes \/ left = None
        <5>1. mb_call[t].time \in WaitTimes \cup {None}
          BY <4>1, MbIpc DEF Mb!Calls
        <5> QED
          BY <2>3, <5>1 DEF LeftOf, WaitTimes
      <4> QED
        BY <2>2, <4>1, <4>2, MbIpc DEF Mb!Calls
    <3>2. Mb!Block(t, MbSenders, request)
      BY <2>3, <2>5
    <3> HIDE DEF request
    <3> QED
      BY <1>0, <2>1, <2>2, <3>1, <3>2, MbBlock
  <2> QED
    BY <2>4, <2>5
<1>4. ASSUME Mb!RecvRetries(t)
      PROVE  IpcInv' /\ MbRing' /\ MbCalls' /\ MbEmptied' /\ MbServed'
  <2>1. t \in MbWoken("recv") /\ mb_entry = 0
    BY <1>4 DEF Mb!RecvRetries, Mb!Woken, MbWoken
  <2>2. teardown[MbReceivers] = "live" /\ stat[t] = "ready" /\ mb_call[t].op = "recv"
    BY <2>1, MbWokenLive DEF MbWoken
  <2>3. PICK left \in LeftOf(mb_call[t].time) :
          IF left = "zero"
          THEN /\ mb_call' = [mb_call EXCEPT ![t] = Mb!NoCall]
               /\ error' = [error EXCEPT ![t] = "ETIMEOUT"]
               /\ UNCHANGED <<stat, thread_timer, suspend_thread, teardown, fault,
                              msg_pool, mb_entry, in_offset, out_offset, mb_received>>
          ELSE Mb!Block(t, MbReceivers, [mb_call[t] EXCEPT !.time = left])
    BY <1>4, MbIpc DEF Mb!RecvRetries
  <2>4. CASE left = "zero"
    <3>1. /\ mb_call' = [mb_call EXCEPT ![t] = Mb!NoCall]
          /\ error' = [error EXCEPT ![t] = "ETIMEOUT"]
          /\ UNCHANGED <<stat, thread_timer, suspend_thread, teardown, fault,
                         msg_pool, mb_entry, in_offset, out_offset, mb_received>>
      BY <2>3, <2>4
    <3>2. error' \in [Threads -> Errors] /\ \A u \in Threads : u # t => error'[u] = error[u]
      BY <1>0, <3>1
    <3> QED
      BY <2>1, <2>2, <3>1, <3>2, MbReturns
  <2>5. CASE left # "zero"
    <3> DEFINE request == [mb_call[t] EXCEPT !.time = left]
    <3>1. request \in Mb!Calls /\ request.op = "recv"
      <4>1. mb_call[t] \in Mb!Calls
        BY <1>0, <2>2 DEF MbCalls
      <4>2. left \in WaitTimes \/ left = None
        <5>1. mb_call[t].time \in WaitTimes \cup {None}
          BY <4>1, MbIpc DEF Mb!Calls
        <5> QED
          BY <2>3, <5>1 DEF LeftOf, WaitTimes
      <4> QED
        BY <2>2, <4>1, <4>2, MbIpc DEF Mb!Calls
    <3>2. Mb!Block(t, MbReceivers, request)
      BY <2>3, <2>5
    <3> HIDE DEF request
    <3> QED
      BY <1>0, <2>1, <2>2, <3>1, <3>2, MbBlock
  <2> QED
    BY <2>4, <2>5
<1> QED
  BY <1>1, <1>2, <1>3, <1>4

LEMMA MbReturnsError ==
  ASSUME IpcInv, MbRing, MbCalls, MbEmptied, MbServed, NEW t \in Threads, Mb!ReturnsError(t)
  PROVE  IpcInv' /\ MbRing' /\ MbCalls' /\ MbEmptied' /\ MbServed'
<1>1. /\ stat[t] = "ready" /\ error[t] # "EOK"
      /\ mb_call' = [mb_call EXCEPT ![t] = Mb!NoCall]
      /\ UNCHANGED <<ipcVars, msg_pool, mb_entry, in_offset, out_offset, mb_received>>
  BY DEF Mb!ReturnsError, Mb!ipcVars, ipcVars
<1>2. error' \in [Threads -> Errors] /\ \A u \in Threads : u # t => error'[u] = error[u]
  BY <1>1, MbShape DEF ipcVars
<1> QED
  BY <1>1, <1>2, MbReturns DEF ipcVars

\* Waiters leave their lists with an error, whichever of them and why.
LEMMA MbDismissed ==
  ASSUME IpcInv, IpcInv', MbRing, MbCalls, MbServed, NEW gone,
         \A t \in gone : \E l \in {MbReceivers, MbSenders} : t \in Elements(suspend_thread[l]),
         \A l \in {MbReceivers, MbSenders} :
           Elements(suspend_thread'[l]) \subseteq Elements(suspend_thread[l]) \ gone,
         \A t \in Threads : t \notin gone => stat'[t] = stat[t] /\ error'[t] = error[t],
         \A t \in Threads : t \in gone => stat'[t] = "ready" /\ error'[t] # "EOK",
         UNCHANGED <<msg_pool, mb_entry, in_offset, out_offset, mb_call, mb_received>>
  PROVE  /\ MbRing' /\ MbCalls' /\ MbServed'
         /\ \A op \in {"send", "recv"} : MbWoken(op)' = MbWoken(op)
<1>0. /\ MbReceivers \in Lists /\ MbSenders \in Lists
      /\ \A l \in {MbReceivers, MbSenders} : \A t \in Elements(suspend_thread[l]) :
           t \in Threads /\ stat[t] = "suspend"
      /\ \A l \in {MbReceivers, MbSenders} : suspend_thread'[l] \in Seq(Threads)
      /\ \A l \in {MbReceivers, MbSenders} : suspend_thread[l] \in Seq(Threads)
  BY MbShape DEF IpcInv, IpcTypeOK
<1>1. \A op \in {"send", "recv"} : MbWoken(op)' = MbWoken(op)
  <2>1. \A t \in gone : stat[t] = "suspend"
    BY <1>0
  <2> QED
    BY <2>1 DEF MbWoken
<1>2. MbRing'
  BY DEF MbRing
<1>3. MbCalls'
  <2>1. /\ \A u \in Elements(suspend_thread'[MbSenders]) :
             mb_call[u].op = "send" /\ error'[u] = "EOK"
        /\ \A u \in Elements(suspend_thread'[MbReceivers]) :
             mb_call[u].op = "recv" /\ error'[u] = "EOK"
    BY <1>0 DEF MbCalls
  <2> QED
    BY <2>1 DEF MbCalls
<1>4. \A l \in {MbReceivers, MbSenders} : suspend_thread'[l] # << >> => suspend_thread[l] # << >>
  <2>1. TAKE l \in {MbReceivers, MbSenders}
  <2>2. HAVE suspend_thread'[l] # << >>
  <2>3. Len(suspend_thread'[l]) \in Nat /\ Len(suspend_thread'[l]) # 0
    <3>1. suspend_thread'[l] \in Seq(Threads)
      BY <1>0
    <3> QED
      BY <2>2, <3>1, EmptySeq, LenProperties
  <2>4. Elements(suspend_thread'[l]) # {}
    <3>1. 1 \in 1..Len(suspend_thread'[l])
      BY <2>3
    <3>2. suspend_thread'[l][1] \in Elements(suspend_thread'[l])
      BY <3>1 DEF Elements
    <3> QED
      BY <3>2
  <2>5. Elements(<< >>) = {}
    BY EmptySeq DEF Elements
  <2> QED
    BY <2>4, <2>5
<1>5. MbServed'
  BY <1>1, <1>4 DEF MbServed
<1> QED
  BY <1>1, <1>2, <1>3, <1>5

LEMMA MbReset ==
  ASSUME IpcInv, MbRing, MbCalls, MbEmptied, MbServed, Mb!Reset
  PROVE  IpcInv' /\ MbRing' /\ MbCalls' /\ MbEmptied' /\ MbServed'
<1> DEFINE own == {MbReceivers, MbSenders}
           woken == UNION {Elements(suspend_thread[l]) : l \in own}
           left == [l \in Lists |-> IF l \in own THEN << >> ELSE suspend_thread[l]]
<1>0. /\ MbReceivers \in Lists /\ MbSenders \in Lists /\ MbSize \in Nat \ {0}
      /\ suspend_thread \in [Lists -> Seq(Threads)]
      /\ stat \in [Threads -> {"ready", "suspend"}] /\ error \in [Threads -> Errors]
      /\ \A l \in Lists : NoRepeat(suspend_thread[l])
      /\ teardown[MbReceivers] = "live" /\ teardown[MbSenders] = "live"
  <2>1. teardown[MbReceivers] = "live" /\ teardown[MbSenders] = "live"
    BY DEF Mb!Reset, Mb!Live, MbEmptied
  <2> QED
    BY <2>1, MbShape
<1>1. /\ stat' = [t \in Threads |-> IF t \in woken THEN "ready" ELSE stat[t]]
      /\ error' = [t \in Threads |-> IF t \in woken THEN "ERROR" ELSE error[t]]
      /\ thread_timer' = [t \in Threads |-> t \notin woken /\ thread_timer[t]]
      /\ suspend_thread' = left
      /\ mb_entry' = 0 /\ in_offset' = 0 /\ out_offset' = 0
      /\ UNCHANGED <<teardown, fault, msg_pool, mb_call, mb_received>>
  BY MbIpc DEF Mb!Reset
<1>2. Elements(<< >>) = {} /\ NoRepeat(<< >>) /\ << >> \in Seq(Threads)
  BY EmptySeq DEF Elements, NoRepeat
<1>3. left \in [Lists -> Seq(Threads)]
  BY <1>0, <1>2
<1>4. \A l \in Lists : /\ NoRepeat(left[l])
                       /\ Elements(left[l]) = Elements(suspend_thread[l]) \ woken
  <2>1. TAKE l \in Lists
  <2>2. CASE l \in own
    BY <1>2, <2>2
  <2>3. CASE l \notin own
    <3>1. \A k \in own : Elements(suspend_thread[k]) \cap Elements(suspend_thread[l]) = {}
      BY <1>0, <2>3 DEF IpcInv, LinkedOnce
    <3> QED
      BY <1>0, <2>3, <3>1
  <2> QED
    BY <2>2, <2>3
<1>5. error' \in [Threads -> Errors]
  BY <1>0, <1>1 DEF Errors
<1>6. suspend_thread'[MbReceivers] = << >> /\ suspend_thread'[MbSenders] = << >>
  BY <1>0, <1>1
<1> HIDE DEF left, woken
<1>7. IpcInv'
  BY <1>1, <1>3, <1>4, <1>5, ResumeSetInv
<1>8. MbRing'
  <2>1. 0 \in Mb!Slots
    BY <1>0 DEF Mb!Slots
  <2> QED
    BY <1>0, <1>1, <2>1 DEF MbRing
<1>9. MbCalls'
  BY <1>1, <1>2, <1>6 DEF MbCalls
<1>10. MbEmptied'
  BY <1>0, <1>1 DEF MbEmptied
<1>11. MbServed'
  BY <1>6 DEF MbServed
<1> QED
  BY <1>7, <1>8, <1>9, <1>10, <1>11

LEMMA MbTimeout ==
  ASSUME IpcInv, MbRing, MbCalls, MbEmptied, MbServed, NEW t \in Threads, Mb!Timeout(t),
         \A l \in Lists \ {MbReceivers, MbSenders} : suspend_thread[l] = << >>
  PROVE  IpcInv' /\ MbRing' /\ MbCalls' /\ MbEmptied' /\ MbServed'
<1>0. /\ MbReceivers \in Lists /\ MbSenders \in Lists
      /\ error \in [Threads -> Errors] /\ stat \in [Threads -> {"ready", "suspend"}]
      /\ \A l \in Lists : suspend_thread[l] \in Seq(Threads) /\ NoRepeat(suspend_thread[l])
  BY MbShape
<1>1. /\ ThreadTimeout(t)
      /\ UNCHANGED <<msg_pool, mb_entry, in_offset, out_offset, mb_call, mb_received>>
  BY MbIpc DEF Mb!Timeout, Mb!mbVars
<1>2. IpcInv'
  BY <1>1, ThreadTimeoutInv
<1>3. /\ stat' = [stat EXCEPT ![t] = "ready"]
      /\ error' = [error EXCEPT ![t] = "ETIMEOUT"]
      /\ \A l \in Lists : suspend_thread'[l] = Unlink(suspend_thread[l], t)
      /\ teardown' = teardown /\ thread_timer[t]
  BY <1>0, <1>1 DEF ThreadTimeout
<1>4. Elements(<< >>) = {}
  BY EmptySeq DEF Elements
<1>5. \E l \in {MbReceivers, MbSenders} : t \in Elements(suspend_thread[l])
  <2>1. stat[t] = "suspend"
    BY <1>3 DEF IpcInv, ArmedOnlyWhileSuspended
  <2>2. PICK l \in Lists : t \in Elements(suspend_thread[l])
    BY <2>1 DEF IpcInv, SuspendedIffWaiting, Waiting
  <2> QED
    BY <1>4, <2>2
<1> DEFINE gone == {t}
<1>6. \A l \in {MbReceivers, MbSenders} :
        Elements(suspend_thread'[l]) \subseteq Elements(suspend_thread[l]) \ gone
  BY <1>0, <1>3, UnlinkProperties
<1>7. /\ \A u \in Threads : u \notin gone => stat'[u] = stat[u] /\ error'[u] = error[u]
      /\ \A u \in Threads : u \in gone => stat'[u] = "ready" /\ error'[u] # "EOK"
      /\ \A u \in gone : \E l \in {MbReceivers, MbSenders} : u \in Elements(suspend_thread[l])
  BY <1>0, <1>3, <1>5
<1> HIDE DEF gone
<1>8. MbRing' /\ MbCalls' /\ MbServed' /\ \A op \in {"send", "recv"} : MbWoken(op)' = MbWoken(op)
  BY <1>1, <1>2, <1>6, <1>7, MbDismissed
<1>9. Unlink(<< >>, t) = << >>
  BY <1>4 DEF Unlink
<1>10. MbEmptied'
  BY <1>0, <1>3, <1>8, <1>9 DEF MbEmptied
<1> QED
  BY <1>2, <1>8, <1>10

LEMMA MbDelete ==
  ASSUME IpcInv, MbRing, MbCalls, MbEmptied, MbServed,
         Mb!Delete \/ Mb!DeleteSenders \/ Mb!DeleteStep
  PROVE  IpcInv' /\ MbRing' /\ MbCalls' /\ MbEmptied' /\ MbServed'
<1>0. /\ MbReceivers \in Lists /\ MbSenders \in Lists /\ MbReceivers # MbSenders
      /\ suspend_thread \in [Lists -> Seq(Threads)] /\ teardown \in [Lists -> Teardown]
      /\ error \in [Threads -> Errors] /\ stat \in [Threads -> {"ready", "suspend"}]
      /\ \A l \in Lists : suspend_thread[l] \in Seq(Threads) /\ NoRepeat(suspend_thread[l])
  BY MbShape
<1>1. /\ UNCHANGED <<msg_pool, mb_entry, in_offset, out_offset, mb_call, mb_received>>
      /\ \/ BeginTeardown(MbReceivers) /\ MbWoken("send") = {} /\ MbWoken("recv") = {}
         \/ BeginTeardown(MbSenders) /\ teardown[MbReceivers] = "drained"
         \/ \E l \in {MbReceivers, MbSenders} : TeardownStep(l)
  BY MbIpc DEF Mb!Delete, Mb!DeleteSenders, Mb!DeleteStep, Mb!mbVars, MbWoken, Mb!Woken
<1>2. IpcInv'
  BY <1>0, <1>1, TeardownInv
<1>3. ASSUME UNCHANGED <<stat, error, suspend_thread>>
      PROVE  /\ MbRing' /\ MbCalls' /\ MbServed'
             /\ \A op \in {"send", "recv"} : MbWoken(op)' = MbWoken(op)
  BY <1>1, <1>3 DEF MbRing, MbCalls, MbServed, MbWoken
<1>4. CASE BeginTeardown(MbReceivers) /\ MbWoken("send") = {} /\ MbWoken("recv") = {}
  <2>1. /\ teardown[MbReceivers] = "live" /\ teardown'[MbReceivers] = "test"
        /\ teardown'[MbSenders] = teardown[MbSenders]
        /\ UNCHANGED <<stat, error, suspend_thread>>
    BY <1>0, <1>4 DEF BeginTeardown
  <2>2. MbEmptied'
    BY <1>3, <1>4, <2>1 DEF MbEmptied
  <2> QED
    BY <1>2, <1>3, <2>1, <2>2
<1>5. CASE BeginTeardown(MbSenders) /\ teardown[MbReceivers] = "drained"
  <2>1. /\ teardown'[MbSenders] = "test"
        /\ teardown'[MbReceivers] = teardown[MbReceivers]
        /\ UNCHANGED <<stat, error, suspend_thread>>
    BY <1>0, <1>5 DEF BeginTeardown
  <2>2. MbEmptied'
    BY <1>3, <1>5, <2>1 DEF MbEmptied
  <2> QED
    BY <1>2, <1>3, <2>1, <2>2
<1>6. ASSUME NEW l \in {MbReceivers, MbSenders}, TeardownStep(l)
      PROVE  MbRing' /\ MbCalls' /\ MbEmptied' /\ MbServed'
  <2>1. /\ teardown[l] \in {"test", "resume"}
        /\ \A k \in {MbReceivers, MbSenders} : k # l => teardown'[k] = teardown[k]
        /\ teardown'[l] = "drained" => suspend_thread'[l] = << >>
        /\ teardown'[l] # "live"
        /\ \/ UNCHANGED <<stat, error, suspend_thread>>
           \/ /\ suspend_thread[l] # << >>
              /\ stat' = [stat EXCEPT ![Head(suspend_thread[l])] = "ready"]
              /\ error' = [error EXCEPT ![Head(suspend_thread[l])] = "ERROR"]
              /\ suspend_thread' = [suspend_thread EXCEPT ![l] = Tail(suspend_thread[l])]
    BY <1>0, <1>6 DEF TeardownStep, TeardownTest, TeardownResume
  <2>2. /\ MbRing' /\ MbCalls' /\ MbServed'
        /\ \A op \in {"send", "recv"} : MbWoken(op)' = MbWoken(op)
    <3>1. CASE UNCHANGED <<stat, error, suspend_thread>>
      BY <1>3, <3>1
    <3>2. CASE /\ suspend_thread[l] # << >>
               /\ stat' = [stat EXCEPT ![Head(suspend_thread[l])] = "ready"]
               /\ error' = [error EXCEPT ![Head(suspend_thread[l])] = "ERROR"]
               /\ suspend_thread' = [suspend_thread EXCEPT ![l] = Tail(suspend_thread[l])]
      <4> DEFINE h == Head(suspend_thread[l])
                 gone == {h}
      <4>1. /\ h \in Elements(suspend_thread[l]) /\ h \in Threads
            /\ Elements(Tail(suspend_thread[l])) = Elements(suspend_thread[l]) \ {h}
        BY <1>0, <3>2, TailProperties
      <4>2. \A k \in {MbReceivers, MbSenders} :
              k # l => h \notin Elements(suspend_thread[k])
        BY <1>0, <4>1 DEF IpcInv, LinkedOnce
      <4>3. stat' = [stat EXCEPT ![h] = "ready"] /\ error' = [error EXCEPT ![h] = "ERROR"]
        BY <3>2
      <4> HIDE DEF h
      <4>4. \A k \in {MbReceivers, MbSenders} :
              Elements(suspend_thread'[k]) \subseteq Elements(suspend_thread[k]) \ gone
        BY <1>0, <3>2, <4>1, <4>2
      <4>5. /\ \A u \in Threads : u \notin gone => stat'[u] = stat[u] /\ error'[u] = error[u]
            /\ \A u \in Threads : u \in gone => stat'[u] = "ready" /\ error'[u] # "EOK"
            /\ \A u \in gone : \E k \in {MbReceivers, MbSenders} : u \in Elements(suspend_thread[k])
        BY <1>0, <4>1, <4>3
      <4> HIDE DEF gone
      <4> QED
        BY <1>1, <1>2, <4>4, <4>5, MbDismissed
    <3> QED
      BY <2>1, <3>1, <3>2
  <2>3. \A k \in {MbReceivers, MbSenders} : k # l => suspend_thread'[k] = suspend_thread[k]
    BY <1>0, <2>1
  <2>4. MbEmptied'
    <3>1. CASE l = MbReceivers
      <4>1. teardown[MbSenders] = "live"
        BY <2>1, <3>1 DEF MbEmptied
      <4>2. MbWoken("send")' = {} /\ MbWoken("recv")' = {}
        BY <2>1, <2>2, <3>1 DEF MbEmptied
      <4> QED
        BY <1>0, <2>1, <3>1, <4>1, <4>2 DEF MbEmptied
    <3>2. CASE l = MbSenders
      <4>1. teardown[MbReceivers] = "drained" /\ teardown'[MbReceivers] = "drained"
        BY <1>0, <2>1, <3>2 DEF MbEmptied
      <4>2. MbWoken("send")' = {} /\ MbWoken("recv")' = {}
        BY <2>2, <4>1 DEF MbEmptied
      <4>3. suspend_thread'[MbReceivers] = << >>
        BY <1>0, <2>3, <3>2, <4>1 DEF MbEmptied
      <4> QED
        BY <2>1, <3>2, <4>1, <4>2, <4>3 DEF MbEmptied
    <3> QED
      BY <3>1, <3>2
  <2> QED
    BY <2>2, <2>4
<1> QED
  BY <1>1, <1>2, <1>4, <1>5, <1>6

LEMMA RingPosition ==
  ASSUME NEW S \in Nat \ {0}, NEW x \in 0..(2 * S - 1)
  PROVE  (x % S) = IF x < S THEN x ELSE x - S
<1>1. ASSUME NEW k \in Int, NEW r \in 0..(S - 1), x = S * k + r PROVE (x % S) = r
  BY <1>1
<1>2. CASE x < S
  <2>1. x = S * 0 + x /\ x \in 0..(S - 1)
    BY <1>2
  <2> QED
    BY <1>1, <1>2, <2>1
<1>3. CASE ~(x < S)
  <2>1. x = S * 1 + (x - S) /\ x - S \in 0..(S - 1)
    BY <1>3
  <2> QED
    BY <1>1, <1>3, <2>1
<1> QED
  BY <1>2, <1>3

\* What the ring is and where its slots are.
LEMMA MbSlots ==
  ASSUME MbRing, MbOffsets
  PROVE  /\ MbSize \in Nat \ {0} /\ Mb!Slots = 0..(MbSize - 1)
         /\ mb_entry \in 0..MbSize /\ in_offset \in 0..(MbSize - 1)
         /\ out_offset \in 0..(MbSize - 1)
         /\ \A x \in 0..(2 * MbSize - 1) : MbWrap(x) = IF x < MbSize THEN x ELSE x - MbSize
         /\ mb_entry < MbSize =>
              in_offset = IF out_offset + mb_entry < MbSize THEN out_offset + mb_entry
                          ELSE out_offset + mb_entry - MbSize
         /\ mb_entry = MbSize => in_offset = out_offset
         /\ \A x \in 0..(MbSize - 1) :
              Mb!NextOffset(x) = IF x + 1 < MbSize THEN x + 1 ELSE 0
<1>1. /\ MbSize \in Nat \ {0} /\ Mb!Slots = 0..(MbSize - 1)
      /\ mb_entry \in 0..MbSize /\ in_offset \in 0..(MbSize - 1)
      /\ out_offset \in 0..(MbSize - 1)
  BY KernelAssumption DEF Mb!MailboxAssumption, Mb!Slots, MbRing
<1>2. \A x \in 0..(2 * MbSize - 1) : MbWrap(x) = IF x < MbSize THEN x ELSE x - MbSize
  <2>1. TAKE x \in 0..(2 * MbSize - 1)
  <2>2. (x % MbSize) = IF x < MbSize THEN x ELSE x - MbSize
    BY <1>1, RingPosition
  <2> QED
    BY <2>2 DEF MbWrap
<1>3. in_offset = IF out_offset + mb_entry < MbSize THEN out_offset + mb_entry
                  ELSE out_offset + mb_entry - MbSize
  <2>1. out_offset + mb_entry \in 0..(2 * MbSize - 1)
    BY <1>1
  <2> QED
    BY <1>1, <1>2, <2>1 DEF MbOffsets
<1>4. \A x \in 0..(MbSize - 1) : Mb!NextOffset(x) = IF x + 1 < MbSize THEN x + 1 ELSE 0
  BY <1>1 DEF Mb!NextOffset
<1> QED
  BY <1>1, <1>2, <1>3, <1>4

\* A mail is stored behind the last,
LEMMA MbStores ==
  ASSUME MbRing, MbOffsets, mb_entry < MbSize, NEW m, Mb!Store(m)
  PROVE  /\ MbOffsets' /\ Len(Mb!queueBar) = mb_entry
         /\ Mb!queueBar' = Append(Mb!queueBar, m) /\ mb_received' = mb_received
<1> DEFINE q == Mb!queueBar
           r == Append(q, m)
<1>0. /\ mb_entry' = mb_entry + 1 /\ msg_pool' = [msg_pool EXCEPT ![in_offset] = m]
      /\ in_offset' = Mb!NextOffset(in_offset) /\ UNCHANGED <<out_offset, mb_received>>
      /\ msg_pool \in [Mb!Slots -> Mails \cup {None}]
  BY DEF Mb!Store, MbRing
<1>1. /\ MbSize \in Nat \ {0} /\ Mb!Slots = 0..(MbSize - 1)
      /\ mb_entry \in 0..MbSize /\ in_offset \in 0..(MbSize - 1)
      /\ out_offset \in 0..(MbSize - 1)
      /\ \A x \in 0..(2 * MbSize - 1) : MbWrap(x) = IF x < MbSize THEN x ELSE x - MbSize
      /\ in_offset = IF out_offset + mb_entry < MbSize THEN out_offset + mb_entry
                     ELSE out_offset + mb_entry - MbSize
      /\ Mb!NextOffset(in_offset) = IF in_offset + 1 < MbSize THEN in_offset + 1 ELSE 0
  BY MbSlots
<1>2. MbOffsets'
  <2>1. /\ out_offset' + mb_entry' \in 0..(2 * MbSize - 1)
        /\ out_offset' + mb_entry' = out_offset + mb_entry + 1
    BY <1>0, <1>1
  <2>2. MbWrap(out_offset' + mb_entry')
          = IF out_offset' + mb_entry' < MbSize THEN out_offset' + mb_entry'
            ELSE out_offset' + mb_entry' - MbSize
    BY <1>0, <1>1, <2>1
  <2> QED
    BY <1>0, <1>1, <2>1, <2>2 DEF MbOffsets
<1>3. /\ q = [i \in 1..mb_entry |-> msg_pool[MbSlot(i)]]
      /\ q' = [i \in 1..(mb_entry + 1) |-> msg_pool'[MbSlot(i)]]
  BY <1>0 DEF Mb!queueBar, MbSlot, MbWrap
<1>4. \A i \in 1..mb_entry : MbSlot(i) \in 0..(MbSize - 1) /\ MbSlot(i) # in_offset
  <2>1. TAKE i \in 1..mb_entry
  <2>2. out_offset + i - 1 \in 0..(2 * MbSize - 1)
    BY <1>1
  <2>3. MbSlot(i) = IF out_offset + i - 1 < MbSize THEN out_offset + i - 1
                    ELSE out_offset + i - 1 - MbSize
    BY <1>1, <2>2 DEF MbSlot
  <2> QED
    BY <1>1, <2>3
<1>5. MbSlot(mb_entry + 1) = in_offset
  <2>1. /\ out_offset + (mb_entry + 1) - 1 \in 0..(2 * MbSize - 1)
        /\ out_offset + (mb_entry + 1) - 1 = out_offset + mb_entry
    BY <1>1
  <2> QED
    BY <1>1, <2>1 DEF MbSlot
<1>6. /\ \A i \in 1..mb_entry : msg_pool'[MbSlot(i)] = msg_pool[MbSlot(i)]
      /\ msg_pool'[MbSlot(mb_entry + 1)] = m
  BY <1>0, <1>1, <1>4, <1>5
<1>7. Len(q) = mb_entry /\ q' = Append(q, m)
  <2>1. /\ mb_entry \in Nat /\ OfLength(q, mb_entry)
        /\ \A i \in 1..mb_entry : q[i] = msg_pool[MbSlot(i)]
    BY <1>1, <1>3 DEF OfLength
  <2>2. /\ OfLength(q', mb_entry + 1)
        /\ \A i \in 1..(mb_entry + 1) : q'[i] = msg_pool'[MbSlot(i)]
    BY <1>3 DEF OfLength
  <2>3. /\ \A i \in 1..mb_entry : i \in 1..(mb_entry + 1)
        /\ mb_entry + 1 \in 1..(mb_entry + 1)
    BY <1>1
  <2>4. /\ \A i \in 1..mb_entry : q'[i] = q[i]
        /\ q'[mb_entry + 1] = m
    BY <1>1, <1>6, <2>1, <2>2, <2>3
  <2> HIDE DEF q
  <2>5. Extends(q', q, mb_entry, m)
    BY <2>1, <2>2, <2>4 DEF Extends
  <2> QED
    BY <2>1, <2>5, SeqExtended
<1> QED
  BY <1>0, <1>2, <1>7 DEF q

\* and the first is fetched.
LEMMA MbFetches ==
  ASSUME MbRing, MbOffsets, mb_entry > 0, Mb!Fetch
  PROVE  /\ MbOffsets' /\ Mb!queueBar # << >>
         /\ mb_received' = Head(Mb!queueBar) /\ Mb!queueBar' = Tail(Mb!queueBar)
<1> DEFINE q == Mb!queueBar
<1>0. /\ mb_entry' = mb_entry - 1 /\ mb_received' = msg_pool[out_offset]
      /\ out_offset' = Mb!NextOffset(out_offset) /\ UNCHANGED <<msg_pool, in_offset>>
  BY DEF Mb!Fetch
<1>1. /\ MbSize \in Nat \ {0}
      /\ mb_entry \in 0..MbSize /\ mb_entry # 0 /\ in_offset \in 0..(MbSize - 1)
      /\ out_offset \in 0..(MbSize - 1)
      /\ \A x \in 0..(2 * MbSize - 1) : MbWrap(x) = IF x < MbSize THEN x ELSE x - MbSize
      /\ Mb!NextOffset(out_offset) = IF out_offset + 1 < MbSize THEN out_offset + 1 ELSE 0
  BY MbSlots
<1> DEFINE o == out_offset'
<1>2. o \in 0..(MbSize - 1) /\ o = IF out_offset + 1 < MbSize THEN out_offset + 1 ELSE 0
  BY <1>0, <1>1
<1> HIDE DEF o
<1>3. \A k \in 0..(MbSize - 1) : MbWrap(o + k) = MbWrap(out_offset + k + 1)
  <2>1. TAKE k \in 0..(MbSize - 1)
  <2>2. o + k \in 0..(2 * MbSize - 1) /\ out_offset + k + 1 \in 0..(2 * MbSize - 1)
    BY <1>1, <1>2
  <2>3. /\ MbWrap(o + k) = IF o + k < MbSize THEN o + k ELSE o + k - MbSize
        /\ MbWrap(out_offset + k + 1) = IF out_offset + k + 1 < MbSize THEN out_offset + k + 1
                                        ELSE out_offset + k + 1 - MbSize
    BY <1>1, <1>2, <2>2
  <2> QED
    BY <1>1, <1>2, <2>3
<1>4. MbOffsets'
  <2>1. mb_entry - 1 \in 0..(MbSize - 1)
    BY <1>1
  <2>2. MbWrap(o + (mb_entry - 1)) = MbWrap(out_offset + (mb_entry - 1) + 1)
    BY <1>3, <2>1
  <2>3. out_offset + (mb_entry - 1) + 1 = out_offset + mb_entry
    BY <1>1
  <2> QED
    BY <1>0, <2>2, <2>3 DEF MbOffsets, o
<1>5. /\ q = [i \in 1..mb_entry |-> msg_pool[MbSlot(i)]]
      /\ q' = [i \in 1..(mb_entry - 1) |-> msg_pool[MbWrap(o + i - 1)]]
  BY <1>0 DEF Mb!queueBar, MbSlot, MbWrap, o
<1>6. q[1] = msg_pool[out_offset]
  <2>1. out_offset + 1 - 1 = out_offset /\ out_offset \in 0..(2 * MbSize - 1) /\ 1 \in 1..mb_entry
    BY <1>1
  <2>2. MbWrap(out_offset) = out_offset
    BY <1>1, <2>1
  <2> QED
    BY <1>5, <2>1, <2>2 DEF MbSlot
<1>7. \A i \in 1..(mb_entry - 1) : q'[i] = q[i + 1]
  <2>1. TAKE i \in 1..(mb_entry - 1)
  <2>2. /\ i - 1 \in 0..(MbSize - 1) /\ i + 1 \in 1..mb_entry
        /\ o + (i - 1) = o + i - 1 /\ out_offset + (i - 1) + 1 = out_offset + (i + 1) - 1
    BY <1>1, <1>2
  <2>3. MbWrap(o + i - 1) = MbWrap(out_offset + (i + 1) - 1)
    BY <1>3, <2>2
  <2> QED
    BY <1>5, <2>2, <2>3 DEF MbSlot
<1>8. q # << >> /\ Head(q) = q[1] /\ q' = Tail(q)
  <2>1. mb_entry \in Nat \ {0}
    BY <1>1
  <2>2. OfLength(q, mb_entry) /\ OfLength(q', mb_entry - 1)
    BY <1>5 DEF OfLength
  <2> HIDE DEF q
  <2> QED
    BY <1>7, <2>1, <2>2, SeqShortened
<1> QED
  BY <1>0, <1>4, <1>6, <1>8 DEF q

\* What the step of a mailbox is to the queue.
LEMMA MbImplements ==
  ASSUME MbRing, MbCalls, MbOffsets, Mb!Next
  PROVE  MbOffsets' /\ [Mb!Abstract!NextInOrder]_Mb!Abstract!vars
<1>1. ASSUME NEW m \in Mails, mb_entry < MbSize, Mb!Store(m)
      PROVE  MbOffsets' /\ Mb!Abstract!Put(m)
  BY <1>1, MbStores DEF Mb!Abstract!Put
<1>2. ASSUME mb_entry > 0, Mb!Fetch
      PROVE  MbOffsets' /\ Mb!Abstract!Get
  BY <1>2, MbFetches DEF Mb!Abstract!Get
<1>3. ASSUME UNCHANGED <<msg_pool, mb_entry, in_offset, out_offset, mb_received>>
      PROVE  MbOffsets' /\ UNCHANGED Mb!Abstract!vars
  BY <1>3 DEF MbOffsets, Mb!Abstract!vars, Mb!queueBar
<1>4. ASSUME Mb!Reset
      PROVE  MbOffsets' /\ Mb!Abstract!Clear
  <2>1. /\ mb_entry' = 0 /\ in_offset' = 0 /\ out_offset' = 0 /\ mb_received' = mb_received
    BY <1>4 DEF Mb!Reset
  <2>2. MbOffsets'
    <3>1. MbSize \in Nat \ {0}
      BY KernelAssumption DEF Mb!MailboxAssumption
    <3>2. (0 % MbSize) = 0
      <4>1. 0 \in 0..(2 * MbSize - 1) /\ 0 < MbSize
        BY <3>1
      <4> QED
        BY <3>1, <4>1, RingPosition
    <3> QED
      BY <2>1, <3>2 DEF MbOffsets, MbWrap
  <2>3. Mb!queueBar' = << >>
    BY <2>1 DEF Mb!queueBar
  <2> QED
    BY <2>1, <2>2, <2>3 DEF Mb!Abstract!Clear
<1>5. ASSUME NEW m \in Mails, Mb!Send(m) PROVE MbOffsets' /\ Mb!Abstract!Put(m)
  BY <1>1, <1>5 DEF Mb!Send
<1>6. ASSUME NEW t \in Threads, Mb!SendCompletes(t)
      PROVE  MbOffsets' /\ \E m \in Mails : Mb!Abstract!Put(m)
  <2>1. mb_call[t].mail \in Mails /\ mb_entry < MbSize /\ Mb!Store(mb_call[t].mail)
    BY <1>6 DEF Mb!SendCompletes, Mb!Woken, MbCalls
  <2> QED
    BY <1>1, <2>1
<1>7. ASSUME NEW t \in Threads, Mb!Recv(t) \/ Mb!RecvCompletes(t)
      PROVE  MbOffsets' /\ Mb!Abstract!Get
  BY <1>2, <1>7 DEF Mb!Recv, Mb!RecvCompletes
<1>8. ASSUME NEW t \in Threads,
             \/ \E m \in Mails : Mb!SendBlocks(t, m)
             \/ Mb!SendRetries(t) \/ Mb!RecvBlocks(t) \/ Mb!RecvRetries(t)
             \/ Mb!ReturnsError(t) \/ Mb!Timeout(t)
      PROVE  UNCHANGED <<msg_pool, mb_entry, in_offset, out_offset, mb_received>>
  BY <1>8 DEF Mb!SendBlocks, Mb!SendRetries, Mb!RecvBlocks, Mb!RecvRetries, Mb!ReturnsError,
              Mb!Timeout, Mb!Block, Mb!mbVars
<1>9. ASSUME Mb!Delete \/ Mb!DeleteSenders \/ Mb!DeleteStep
      PROVE  UNCHANGED <<msg_pool, mb_entry, in_offset, out_offset, mb_received>>
  BY <1>9 DEF Mb!Delete, Mb!DeleteSenders, Mb!DeleteStep, Mb!mbVars
<1> QED
  BY <1>3, <1>4, <1>5, <1>6, <1>7, <1>8, <1>9 DEF Mb!Next, Mb!Abstract!NextInOrder

\* The mailbox uses no lists but its own.
LEMMA MbNext ==
  ASSUME Mb!Inv, \A l \in Lists \ {MbReceivers, MbSenders} : suspend_thread[l] = << >>, Mb!Next
  PROVE  Mb!Inv' /\ IpcInv'
<1>0. IpcInv /\ MbRing /\ MbOffsets /\ MbCalls /\ MbEmptied /\ MbServed
  BY MbParts
<1>1. ASSUME \/ \E m \in Mails : Mb!Send(m)
             \/ \E t \in Threads : Mb!SendCompletes(t) \/ Mb!Recv(t) \/ Mb!RecvCompletes(t)
      PROVE  IpcInv' /\ MbRing' /\ MbCalls' /\ MbEmptied' /\ MbServed'
  BY <1>0, <1>1, MbSendsAndReceives
<1>2. ASSUME NEW t \in Threads,
             \/ \E m \in Mails : Mb!SendBlocks(t, m)
             \/ Mb!SendRetries(t) \/ Mb!RecvBlocks(t) \/ Mb!RecvRetries(t)
      PROVE  IpcInv' /\ MbRing' /\ MbCalls' /\ MbEmptied' /\ MbServed'
  BY <1>0, <1>2, MbBlocks
<1>3. ASSUME NEW t \in Threads, Mb!ReturnsError(t)
      PROVE  IpcInv' /\ MbRing' /\ MbCalls' /\ MbEmptied' /\ MbServed'
  BY <1>0, <1>3, MbReturnsError
<1>4. ASSUME NEW t \in Threads, Mb!Timeout(t)
      PROVE  IpcInv' /\ MbRing' /\ MbCalls' /\ MbEmptied' /\ MbServed'
  BY <1>0, <1>4, MbTimeout
<1>5. ASSUME Mb!Reset
      PROVE  IpcInv' /\ MbRing' /\ MbCalls' /\ MbEmptied' /\ MbServed'
  BY <1>0, <1>5, MbReset
<1>6. ASSUME Mb!Delete \/ Mb!DeleteSenders \/ Mb!DeleteStep
      PROVE  IpcInv' /\ MbRing' /\ MbCalls' /\ MbEmptied' /\ MbServed'
  BY <1>0, <1>6, MbDelete
<1>7. IpcInv' /\ MbRing' /\ MbCalls' /\ MbEmptied' /\ MbServed'
  BY <1>1, <1>2, <1>3, <1>4, <1>5, <1>6 DEF Mb!Next
<1>8. MbOffsets'
  BY <1>0, MbImplements
<1> QED
  BY <1>7, <1>8, MbParts

LEMMA MbInit == ASSUME Mb!Init PROVE Mb!Inv
<1>1. IpcInit /\ IpcInv
  BY IpcInitInv DEF Mb!Init, Mb!IpcInit, IpcInit
<1>2. /\ Elements(<< >>) = {} /\ MbReceivers \in Lists /\ MbSenders \in Lists
      /\ MbSize \in Nat \ {0}
  BY EmptySeq, KernelAssumption DEF Elements, Mb!MailboxAssumption
<1>3. /\ Mb!NoCall.op = "none" /\ Mb!NoCall \in Mb!Calls
  BY DEF Mb!NoCall, Mb!Calls
<1>4. MbRing
  BY <1>2 DEF Mb!Init, MbRing, Mb!Slots
<1>5. /\ mb_call = [t \in Threads |-> Mb!NoCall]
      /\ stat = [t \in Threads |-> "ready"]
      /\ suspend_thread[MbReceivers] = << >> /\ suspend_thread[MbSenders] = << >>
      /\ teardown[MbReceivers] = "live" /\ teardown[MbSenders] = "live"
  BY <1>1, <1>2 DEF Mb!Init, IpcInit
<1>6. MbCalls /\ MbEmptied /\ MbServed
  BY <1>2, <1>3, <1>5 DEF MbCalls, MbEmptied, MbServed
<1>7. MbOffsets
  <2>1. 0 \in 0..(2 * MbSize - 1) /\ 0 < MbSize
    BY <1>2
  <2>2. (0 % MbSize) = 0
    BY <1>2, <2>1, RingPosition
  <2> QED
    BY <2>2 DEF Mb!Init, MbOffsets, MbWrap
<1> QED
  BY <1>1, <1>4, <1>6, <1>7, MbParts
-----------------------------------------------------------------------------
(* Message queues: chains of blocks.                                       *)

LEMMA MqIpc ==
  /\ Mq!IpcInv <=> IpcInv
  /\ (Mq!IpcInv <=> IpcInv)'
  /\ Mq!IpcTypeOK <=> IpcTypeOK
  /\ (Mq!IpcTypeOK <=> IpcTypeOK)'
  /\ \A q : Mq!Elements(q) = Elements(q) /\ (Mq!NoRepeat(q) <=> NoRepeat(q))
  /\ \A l : Mq!ResumeFirst(l) <=> ResumeFirst(l)
  /\ \A l : Mq!ListResumeAll(l) <=> ListResumeAll(l)
  /\ \A l, t, time : Mq!ListSuspend(l, t, Flag, Prio, time) <=> ListSuspend(l, t, Flag, Prio, time)
  /\ \A t : Mq!ThreadTimeout(t) <=> ThreadTimeout(t)
  /\ \A l : Mq!BeginTeardown(l) <=> BeginTeardown(l)
  /\ \A l : Mq!TeardownStep(l) <=> TeardownStep(l)
  /\ \A time : Mq!LeftOf(time) = LeftOf(time)
  /\ Mq!WaitTimes = WaitTimes
  /\ Mq!ipcVars = ipcVars
  /\ \A S : Mq!Cardinality(S) = Cardinality(S)
BY DEF Mq!IpcInv, IpcInv, Mq!IpcTypeOK, IpcTypeOK, Mq!LinkedOnce, LinkedOnce,
       Mq!SuspendedIffWaiting, SuspendedIffWaiting, Mq!ArmedOnlyWhileSuspended,
       ArmedOnlyWhileSuspended, Mq!Waiting, Waiting, Mq!Elements, Elements,
       Mq!NoRepeat, NoRepeat, Mq!Errors, Errors, Mq!Teardown, Teardown,
       Mq!ListResume, ListResume, Mq!ResumeFirst, ResumeFirst,
       Mq!ListResumeAll, ListResumeAll,
       Mq!ThreadTimeout, ThreadTimeout, Mq!Unlink, Unlink,
       Mq!ListSuspend, ListSuspend, Mq!Enqueue, Enqueue, Mq!InsertAt, InsertAt,
       Mq!PrioPosition, PrioPosition,
       Mq!BeginTeardown, BeginTeardown, Mq!TeardownTest, TeardownTest,
       Mq!TeardownResume, TeardownResume, Mq!TeardownStep, TeardownStep,
       Mq!LeftOf, LeftOf, Mq!WaitTimes, WaitTimes, Mq!ipcVars, ipcVars,
       Mq!Cardinality, Cardinality

LEMMA MqConstants ==
  /\ Mq!Blocks = 1..MqSize /\ Mq!NULL = 0 /\ MqSize \in Nat \ {0}
  /\ IsFiniteSet(Mq!Blocks) /\ Cardinality(Mq!Blocks) = MqSize
  /\ MqReceivers \in Lists /\ None \notin Mails /\ None \notin WaitTimes
  /\ Flag \in {"FIFO", "PRIO"} /\ Prio \in [Threads -> Nat]
<1>1. /\ MqReceivers \in Lists /\ MqSize \in Nat \ {0} /\ None \notin Mails
      /\ None \notin WaitTimes /\ Flag \in {"FIFO", "PRIO"} /\ Prio \in [Threads -> Nat]
  BY KernelAssumption DEF Mq!QueueAssumption, Mq!WaitTimes, WaitTimes
<1>2. IsFiniteSet(1..MqSize) /\ Cardinality(1..MqSize) = MqSize
  BY <1>1, FS_Interval
<1> QED
  BY <1>1, <1>2 DEF Mq!Blocks, Mq!NULL

LEMMA ChainShape ==
  ASSUME NEW nx, NEW q, NEW b, Mq!IsChain(nx, q, b)
  PROVE  /\ q \in Seq(Mq!Blocks) /\ NoRepeat(q) /\ Len(q) \in 0..MqSize
         /\ b = IF q = << >> THEN Mq!NULL ELSE q[1]
         /\ \A i \in 1..Len(q) : /\ q[i] \in Mq!Blocks /\ q[i] # Mq!NULL
                                 /\ nx[q[i]] = IF i = Len(q) THEN Mq!NULL ELSE q[i + 1]
         /\ q = << >> <=> Len(q) = 0
<1>1. /\ q \in Seq(Mq!Blocks) /\ NoRepeat(q)
      /\ b = IF q = << >> THEN Mq!NULL ELSE q[1]
      /\ \A i \in 1..Len(q) : nx[q[i]] = IF i = Len(q) THEN Mq!NULL ELSE q[i + 1]
  BY DEF Mq!IsChain, Mq!NoRepeat, NoRepeat
<1>2. Len(q) \in 0..MqSize
  BY <1>1, MqConstants, ElementsCount
<1>3. \A i \in 1..Len(q) : q[i] \in Mq!Blocks /\ q[i] # Mq!NULL
  <2>1. \A i \in 1..Len(q) : q[i] \in Mq!Blocks
    BY <1>1, ElementOfSeq
  <2> QED
    BY <2>1, MqConstants
<1>4. q = << >> <=> Len(q) = 0
  BY <1>1, EmptySeq
<1> QED
  BY <1>1, <1>2, <1>3, <1>4

\* What is linked from the first block of a chain on is the chain.
LEMMA LinkedByChain ==
  ASSUME NEW nx, NEW q, NEW b, Mq!IsChain(nx, q, b)
  PROVE  Mq!LinkedBy(nx, b) = q
<1> DEFINE n == Len(q)
           After(c) == IF c = 0 THEN 0 ELSE nx[c]
           Next1(g) == [i \in 0..MqSize |-> IF i = 0 THEN b ELSE After(g[i - 1])]
           f == [i \in 0..MqSize |-> IF i < n THEN q[i + 1] ELSE 0]
           w == CHOOSE g : g = Next1(g)
           D == {j \in 0..(MqSize - 1) : w[j] # 0}
<1>0. /\ n \in 0..MqSize /\ n \in Nat /\ MqSize \in Nat \ {0} /\ Mq!NULL = 0
      /\ q \in Seq(Mq!Blocks)
      /\ b = IF n = 0 THEN 0 ELSE q[1]
      /\ \A i \in 1..n : q[i] # 0 /\ nx[q[i]] = IF i = n THEN 0 ELSE q[i + 1]
  BY ChainShape, MqConstants
<1>1. f = Next1(f)
  <2>1. \A i \in 0..MqSize : f[i] = Next1(f)[i]
    <3>1. TAKE i \in 0..MqSize
    <3>2. CASE i = 0
      BY <1>0, <3>2
    <3>3. CASE i # 0
      <4>1. i - 1 \in 0..MqSize /\ Next1(f)[i] = After(f[i - 1])
        BY <1>0, <3>3
      <4>2. CASE i - 1 < n
        <5>1. i \in 1..n /\ f[i - 1] = q[i]
          BY <1>0, <3>3, <4>1, <4>2
        <5>2. After(q[i]) = IF i = n THEN 0 ELSE q[i + 1]
          BY <1>0, <5>1
        <5>3. f[i] = IF i = n THEN 0 ELSE q[i + 1]
          BY <1>0, <5>1
        <5> QED
          BY <4>1, <5>1, <5>2, <5>3
      <4>3. CASE ~(i - 1 < n)
        <5>1. f[i - 1] = 0 /\ f[i] = 0
          BY <1>0, <3>3, <4>1, <4>3
        <5> QED
          BY <4>1, <5>1
      <4> QED
        BY <4>2, <4>3
    <3> QED
      BY <3>2, <3>3
  <2> QED
    BY <2>1
<1>2. w = Next1(w)
  BY <1>1
<1>3. Mq!LinkedBy(nx, b)
        = [i \in 1..Cardinality(D) |-> w[i - 1]]
  BY <1>0, MqIpc DEF Mq!LinkedBy
<1> HIDE DEF w
<1>4. w[0] = b /\ \A i \in 1..MqSize : w[i] = After(w[i - 1])
  <2>1. \A i \in 0..MqSize : w[i] = IF i = 0 THEN b ELSE After(w[i - 1])
    <3> HIDE DEF After
    <3> QED
      BY <1>2
  <2>2. 0 \in 0..MqSize /\ \A i \in 1..MqSize : i \in 0..MqSize /\ i # 0
    BY <1>0
  <2> HIDE DEF After
  <2> QED
    BY <2>1, <2>2
<1>5. \A i \in 0..MqSize : w[i] = f[i]
  <2> DEFINE T == {i \in 0..MqSize : w[i] # f[i]}
  <2> SUFFICES ASSUME T # {} PROVE FALSE
    OBVIOUS
  <2>1. T \in SUBSET Nat
    OBVIOUS
  <2>2. PICK i \in T : \A j \in T : i <= j
    <3> HIDE DEF T
    <3> QED
      BY <2>1, LeastNatural
  <2>3. i \in 0..MqSize /\ w[i] # f[i]
    BY <2>2
  <2>4. f[0] = b /\ \A j \in 1..MqSize : f[j] = After(f[j - 1])
    <3> HIDE DEF f
    <3>1. \A j \in 0..MqSize : f[j] = IF j = 0 THEN b ELSE After(f[j - 1])
      <4> HIDE DEF After
      <4> QED
        BY <1>1
    <3>2. 0 \in 0..MqSize /\ \A j \in 1..MqSize : j \in 0..MqSize /\ j # 0
      BY <1>0
    <3> HIDE DEF After
    <3> QED
      BY <3>1, <3>2
  <2>5. i # 0
    BY <1>4, <2>3, <2>4
  <2>6. i - 1 \in 0..MqSize /\ i \in 1..MqSize
    BY <1>0, <2>3, <2>5
  <2>7. i - 1 \notin T
    <3> HIDE DEF T
    <3> QED
      BY <2>1, <2>2, <2>6
  <2>8. w[i - 1] = f[i - 1]
    BY <2>6, <2>7
  <2> HIDE DEF f, After
  <2> QED
    BY <1>4, <2>3, <2>4, <2>6, <2>8
<1>6. D = 0..(n - 1)
  <2>1. ASSUME NEW j \in 0..(MqSize - 1)
        PROVE  j \in D <=> j \in 0..(n - 1)
    <3>1. w[j] = IF j < n THEN q[j + 1] ELSE 0
      BY <1>0, <1>5
    <3>2. j < n => j + 1 \in 1..n
      BY <1>0
    <3> QED
      BY <1>0, <3>1, <3>2
  <2>2. \A j \in 0..(n - 1) : j \in 0..(MqSize - 1)
    BY <1>0
  <2>3. \A j : j \in D => j \in 0..(MqSize - 1)
    OBVIOUS
  <2> HIDE DEF D, n
  <2> QED
    BY <2>1, <2>2, <2>3
<1> HIDE DEF D
<1>7. Cardinality(0..(n - 1)) = n
  <2>1. Cardinality(0..(n - 1)) = IF 0 > n - 1 THEN 0 ELSE (n - 1) - 0 + 1
    <3>1. n - 1 \in Int
      BY <1>0
    <3> HIDE DEF n
    <3> QED
      BY <3>1, FS_Interval
  <2> HIDE DEF n
  <2> QED
    BY <1>0, <2>1
<1>8. Mq!LinkedBy(nx, b) = [i \in 1..n |-> w[i - 1]]
  BY <1>3, <1>6, <1>7
<1>9. \A i \in 1..n : w[i - 1] = q[i]
  BY <1>0, <1>5
<1>10. q = [i \in 1..n |-> q[i]]
  BY <1>0, LenProperties
<1> QED
  BY <1>8, <1>9, <1>10
LEMMA MakeChain ==
  ASSUME NEW nx, NEW q \in Seq(Mq!Blocks), NoRepeat(q),
         NEW b, b = (IF q = << >> THEN Mq!NULL ELSE q[1]),
         \A i \in 1..Len(q) : nx[q[i]] = IF i = Len(q) THEN Mq!NULL ELSE q[i + 1]
  PROVE  Mq!IsChain(nx, q, b)
BY DEF Mq!IsChain, Mq!NoRepeat, NoRepeat

\* The last block of a chain, mq->tail of the queue.
LastOf(q) == IF q = << >> THEN Mq!NULL ELSE q[Len(q)]

LEMMA EmptyChain ==
  ASSUME NEW nx
  PROVE  /\ Mq!IsChain(nx, << >>, Mq!NULL) /\ LastOf(<< >>) = Mq!NULL
         /\ Elements(<< >>) = {} /\ Len(<< >>) = 0
<1>1. << >> \in Seq(Mq!Blocks) /\ Len(<< >>) = 0
  BY EmptySeq
<1>2. NoRepeat(<< >>) /\ Elements(<< >>) = {}
  BY <1>1 DEF NoRepeat, Elements
<1>3. \A i \in 1..Len(<< >>) : FALSE
  BY <1>1
<1> QED
  BY <1>1, <1>2, <1>3, MakeChain DEF LastOf

\* Pointers of other blocks may change.
LEMMA ChainKept ==
  ASSUME NEW nx, NEW ny, NEW q, NEW b, Mq!IsChain(nx, q, b),
         \A c \in Elements(q) : ny[c] = nx[c]
  PROVE  Mq!IsChain(ny, q, b)
<1>1. \A i \in 1..Len(q) : ny[q[i]] = nx[q[i]]
  BY DEF Elements
<1>2. /\ q \in Seq(Mq!Blocks) /\ NoRepeat(q) /\ b = (IF q = << >> THEN Mq!NULL ELSE q[1])
      /\ \A i \in 1..Len(q) : nx[q[i]] = IF i = Len(q) THEN Mq!NULL ELSE q[i + 1]
  BY ChainShape
<1>3. \A i \in 1..Len(q) : ny[q[i]] = IF i = Len(q) THEN Mq!NULL ELSE q[i + 1]
  BY <1>1, <1>2
<1> QED
  BY <1>2, <1>3, MakeChain

\* The first block is taken off.
LEMMA ChainTail ==
  ASSUME NEW nx, NEW q, NEW b, Mq!IsChain(nx, q, b), b # Mq!NULL
  PROVE  /\ b \in Mq!Blocks /\ b \in Elements(q) /\ q # << >> /\ b = Head(q)
         /\ Mq!IsChain(nx, Tail(q), nx[b])
         /\ Elements(Tail(q)) = Elements(q) \ {b} /\ Len(Tail(q)) = Len(q) - 1
         /\ LastOf(Tail(q)) = IF LastOf(q) = b THEN Mq!NULL ELSE LastOf(q)
<1> DEFINE r == Tail(q)
           n == Len(q)
<1>1. /\ q \in Seq(Mq!Blocks) /\ NoRepeat(q) /\ n \in Nat
      /\ q # << >> /\ n # 0 /\ b = q[1]
      /\ \A i \in 1..n : /\ q[i] \in Mq!Blocks /\ q[i] # Mq!NULL
                          /\ nx[q[i]] = IF i = n THEN Mq!NULL ELSE q[i + 1]
  BY ChainShape
<1>2. /\ Head(q) = q[1] /\ r \in Seq(Mq!Blocks) /\ Len(r) = n - 1
      /\ \A i \in 1..Len(r) : r[i] = q[i + 1]
  BY <1>1, HeadTailProperties
<1>3. /\ Head(q) \in Elements(q) /\ NoRepeat(r)
      /\ Elements(r) = Elements(q) \ {Head(q)}
  BY <1>1, TailProperties
<1> HIDE DEF r
<1>4. r = << >> <=> n = 1
  <2>1. r = << >> <=> Len(r) = 0
    BY <1>2, EmptySeq
  <2> HIDE DEF n
  <2> QED
    BY <1>1, <1>2, <2>1
<1>5. nx[b] = IF r = << >> THEN Mq!NULL ELSE r[1]
  <2>1. 1 \in 1..n /\ (n # 1 => 1 \in 1..Len(r))
    <3> HIDE DEF n
    <3> QED
      BY <1>1, <1>2
  <2> HIDE DEF n
  <2> QED
    BY <1>1, <1>2, <1>4, <2>1
<1>6. \A i \in 1..Len(r) :
        nx[r[i]] = IF i = Len(r) THEN Mq!NULL ELSE r[i + 1]
  <2>1. TAKE i \in 1..Len(r)
  <2> HIDE DEF n
  <2>2. i + 1 \in 1..n /\ (i + 1 = n <=> i = Len(r))
    BY <1>1, <1>2
  <2>3. i # Len(r) => i + 1 \in 1..Len(r)
    BY <1>1, <1>2
  <2> QED
    BY <1>1, <1>2, <2>2, <2>3
<1>7. Mq!IsChain(nx, r, nx[b])
  BY <1>2, <1>3, <1>5, <1>6, MakeChain
<1>8. LastOf(r) = IF LastOf(q) = b THEN Mq!NULL ELSE LastOf(q)
  <2>0. LastOf(q) = q[n] /\ (n # 1 => LastOf(r) = r[Len(r)])
    BY <1>1, <1>4 DEF LastOf
  <2>1. CASE n = 1
    BY <1>1, <1>4, <2>0, <2>1 DEF LastOf
  <2>2. CASE n # 1
    <3> HIDE DEF n
    <3>1. Len(r) \in 1..Len(r) /\ Len(r) + 1 = n /\ n \in 1..n /\ 1 \in 1..n
      BY <1>1, <1>2, <2>2
    <3>2. q[n] # q[1]
      BY <1>1, <2>2, <3>1 DEF NoRepeat, n
    <3>3. LastOf(r) = q[n]
      BY <1>2, <2>0, <2>2, <3>1
    <3> QED
      BY <1>1, <2>0, <3>2, <3>3
  <2> QED
    BY <2>1, <2>2
<1>9. b \in Mq!Blocks
  BY <1>1
<1> QED
  BY <1>1, <1>2, <1>3, <1>7, <1>8, <1>9 DEF r

\* A block becomes the first,
LEMMA ChainPush ==
  ASSUME NEW nx, NEW ny, NEW q, NEW b, Mq!IsChain(nx, q, b),
         NEW c \in Mq!Blocks, c \notin Elements(q), ny[c] = b,
         \A d \in Elements(q) : ny[d] = nx[d]
  PROVE  /\ Mq!IsChain(ny, <<c>> \o q, c)
         /\ Elements(<<c>> \o q) = Elements(q) \cup {c} /\ Len(<<c>> \o q) = Len(q) + 1
         /\ LastOf(<<c>> \o q) = IF LastOf(q) = Mq!NULL THEN c ELSE LastOf(q)
<1> DEFINE r == <<c>> \o q
<1>1. /\ q \in Seq(Mq!Blocks) /\ NoRepeat(q) /\ Len(q) \in Nat
      /\ b = IF q = << >> THEN Mq!NULL ELSE q[1]
      /\ \A i \in 1..Len(q) : /\ q[i] # Mq!NULL
                              /\ nx[q[i]] = IF i = Len(q) THEN Mq!NULL ELSE q[i + 1]
      /\ q = << >> <=> Len(q) = 0
  BY ChainShape
<1>2. /\ r \in Seq(Mq!Blocks) /\ NoRepeat(r) /\ Elements(r) = Elements(q) \cup {c}
  BY <1>1, PushProperties
<1>3. Len(r) = Len(q) + 1 /\ r[1] = c /\ \A i \in 2..Len(r) : r[i] = q[i - 1]
  <2>1. <<c>> \in Seq(Mq!Blocks) /\ Len(<<c>>) = 1 /\ <<c>>[1] = c
    OBVIOUS
  <2> QED
    BY <1>1, <2>1, ConcatProperties
<1>4. r # << >>
  BY <1>1, <1>3, EmptySeq
<1>5. \A i \in 1..Len(r) : ny[r[i]] = IF i = Len(r) THEN Mq!NULL ELSE r[i + 1]
  <2>1. TAKE i \in 1..Len(r)
  <2>2. CASE i = 1
    <3>1. i # Len(r) => 2 \in 2..Len(r) /\ r[2] = q[1]
      BY <1>1, <1>3, <2>2
    <3>2. i = Len(r) <=> Len(q) = 0
      BY <1>1, <1>3, <2>2
    <3> QED
      BY <1>1, <1>3, <2>2, <3>1, <3>2
  <2>3. CASE i # 1
    <3>1. /\ i - 1 \in 1..Len(q) /\ i \in 2..Len(r) /\ (i - 1 = Len(q) <=> i = Len(r))
          /\ i # Len(r) => i + 1 \in 2..Len(r) /\ (i + 1) - 1 = (i - 1) + 1
      BY <1>1, <1>3, <2>3
    <3>2. r[i] = q[i - 1] /\ q[i - 1] \in Elements(q) /\ (i # Len(r) => r[i + 1] = q[(i - 1) + 1])
      BY <1>3, <3>1 DEF Elements
    <3> QED
      BY <1>1, <3>1, <3>2
  <2> QED
    BY <2>2, <2>3
<1>6. LastOf(r) = IF LastOf(q) = Mq!NULL THEN c ELSE LastOf(q)
  <2>1. CASE q = << >>
    BY <1>1, <1>3, <1>4, <2>1 DEF LastOf
  <2>2. CASE q # << >>
    <3>1. Len(q) \in 1..Len(q) /\ Len(r) \in 2..Len(r) /\ Len(r) - 1 = Len(q)
      BY <1>1, <1>3, <2>2
    <3> QED
      BY <1>1, <1>3, <1>4, <2>2, <3>1 DEF LastOf
  <2> QED
    BY <2>1, <2>2
<1> HIDE DEF r
<1>7. Mq!IsChain(ny, r, c)
  BY <1>2, <1>3, <1>4, <1>5, MakeChain
<1> QED
  BY <1>2, <1>3, <1>6, <1>7 DEF r

\* or the last.
LEMMA ChainAppend ==
  ASSUME NEW nx, NEW ny, NEW q, NEW b, Mq!IsChain(nx, q, b),
         NEW c \in Mq!Blocks, c \notin Elements(q), ny[c] = Mq!NULL,
         \A d \in Elements(q) : ny[d] = IF d = LastOf(q) THEN c ELSE nx[d]
  PROVE  /\ Mq!IsChain(ny, Append(q, c), IF b = Mq!NULL THEN c ELSE b)
         /\ Elements(Append(q, c)) = Elements(q) \cup {c} /\ Len(Append(q, c)) = Len(q) + 1
         /\ LastOf(Append(q, c)) = c
<1> DEFINE r == Append(q, c)
<1>1. /\ q \in Seq(Mq!Blocks) /\ NoRepeat(q) /\ Len(q) \in Nat
      /\ b = IF q = << >> THEN Mq!NULL ELSE q[1]
      /\ \A i \in 1..Len(q) : /\ q[i] # Mq!NULL
                              /\ nx[q[i]] = IF i = Len(q) THEN Mq!NULL ELSE q[i + 1]
      /\ q = << >> <=> Len(q) = 0
  BY ChainShape
<1>2. /\ r \in Seq(Mq!Blocks) /\ NoRepeat(r) /\ Elements(r) = Elements(q) \cup {c}
  BY <1>1, AppendKeepsNoRepeat
<1>3. Len(r) = Len(q) + 1 /\ r[Len(q) + 1] = c /\ \A i \in 1..Len(q) : r[i] = q[i]
  BY <1>1, AppendProperties
<1>4. r # << >>
  BY <1>1, <1>3, EmptySeq
<1>5. \A i \in 1..Len(r) : ny[r[i]] = IF i = Len(r) THEN Mq!NULL ELSE r[i + 1]
  <2>1. TAKE i \in 1..Len(r)
  <2>2. CASE i = Len(r)
    BY <1>3, <2>2
  <2>3. CASE i # Len(r)
    <3>1. /\ i \in 1..Len(q) /\ r[i] = q[i] /\ q[i] \in Elements(q)
          /\ (i # Len(q) => i + 1 \in 1..Len(q))
      BY <1>1, <1>3, <2>3 DEF Elements
    <3>2. q # << >> /\ Len(q) \in 1..Len(q)
      BY <1>1, <3>1
    <3>3. q[i] = LastOf(q) <=> i = Len(q)
      BY <1>1, <3>1, <3>2 DEF LastOf, NoRepeat
    <3>4. ny[r[i]] = IF i = Len(q) THEN c ELSE q[i + 1]
      BY <1>1, <3>1, <3>3
    <3> QED
      BY <1>3, <2>3, <3>1, <3>4
  <2> QED
    BY <2>2, <2>3
<1>6. LastOf(r) = c
  BY <1>3, <1>4 DEF LastOf
<1>7. (IF b = Mq!NULL THEN c ELSE b) = r[1]
  <2>1. Len(q) # 0 => 1 \in 1..Len(q)
    BY <1>1
  <2> QED
    BY <1>1, <1>3, <2>1
<1> HIDE DEF r
<1>8. Mq!IsChain(ny, r, IF b = Mq!NULL THEN c ELSE b)
  BY <1>2, <1>4, <1>5, <1>7, MakeChain
<1> QED
  BY <1>2, <1>3, <1>6, <1>8 DEF r

\* The pointers ny lead from the last block of q to its first one and on to b.
Reverses(nx, ny, q, f, b) ==
  /\ Elements(q) \cap Elements(f) = {}
  /\ \A i \in 1..Len(q) : ny[q[i]] = IF i = 1 THEN b ELSE q[i - 1]
  /\ \A d \in Elements(f) : ny[d] = nx[d]

\* A whole chain is pushed on another one, its first block first.
LEMMA ChainReversed ==
  ASSUME NEW nx, NEW ny, NEW q, NEW h, NEW f, NEW b, NEW k,
         Mq!IsChain(nx, q, h), Mq!IsChain(nx, f, b), Reverses(nx, ny, q, f, b),
         k = (IF q = << >> THEN b ELSE q[Len(q)])
  PROVE  \E g : /\ Mq!IsChain(ny, g, k)
                /\ Elements(g) = Elements(q) \cup Elements(f)
                /\ Len(g) = Len(q) + Len(f)
<1>0. /\ Elements(q) \cap Elements(f) = {}
      /\ \A i \in 1..Len(q) : ny[q[i]] = IF i = 1 THEN b ELSE q[i - 1]
      /\ \A d \in Elements(f) : ny[d] = nx[d]
  BY DEF Reverses
<1> DEFINE n == Len(q)
           m == Len(f)
           g == [i \in 1..(n + m) |-> IF i <= n THEN q[(n + 1) - i] ELSE f[i - n]]
<1>1. /\ n \in Nat /\ NoRepeat(q) /\ \A i \in 1..n : q[i] \in Mq!Blocks
      /\ q = << >> <=> n = 0
  BY ChainShape
<1>2. /\ m \in Nat /\ NoRepeat(f)
      /\ b = IF m = 0 THEN Mq!NULL ELSE f[1]
      /\ \A i \in 1..m : f[i] \in Mq!Blocks /\ nx[f[i]] = IF i = m THEN Mq!NULL ELSE f[i + 1]
  BY ChainShape
<1>3. \A i \in 1..n, j \in 1..m : q[i] # f[j]
  BY <1>0 DEF Elements
<1>4. \A j \in 1..m : ny[f[j]] = IF j = m THEN Mq!NULL ELSE f[j + 1]
  BY <1>0, <1>2 DEF Elements
<1>5. /\ \A i \in 1..n : q[i] \in Elements(q)
      /\ \A j \in 1..m : f[j] \in Elements(f)
      /\ \A x \in Elements(q) : \E i \in 1..n : x = q[i]
      /\ \A x \in Elements(f) : \E j \in 1..m : x = f[j]
      /\ \A i, j \in 1..n : q[i] = q[j] => i = j
      /\ \A i, j \in 1..m : f[i] = f[j] => i = j
  BY <1>1, <1>2 DEF Elements, NoRepeat
<1> HIDE DEF n, m
<1>6. \A i \in 1..(n + m) :
        \/ i <= n /\ (n + 1) - i \in 1..n /\ g[i] = q[(n + 1) - i]
        \/ i > n /\ i - n \in 1..m /\ g[i] = f[i - n]
  BY <1>1, <1>2
<1>7. /\ n + m \in Nat /\ g \in [1..(n + m) -> Mq!Blocks]
  BY <1>1, <1>2, <1>6
<1>8. g \in Seq(Mq!Blocks) /\ Len(g) = n + m
  BY <1>7
<1> HIDE DEF g
<1>9. NoRepeat(g)
  <2>1. ASSUME NEW i \in 1..(n + m), NEW j \in 1..(n + m), g[i] = g[j]
        PROVE  i = j
    <3>1. CASE i <= n /\ j <= n
      <4>1. /\ (n + 1) - i \in 1..n /\ g[i] = q[(n + 1) - i]
            /\ (n + 1) - j \in 1..n /\ g[j] = q[(n + 1) - j]
        BY <1>1, <1>2, <1>6, <3>1
      <4>2. (n + 1) - i = (n + 1) - j
        BY <1>5, <2>1, <4>1
      <4> QED
        BY <1>1, <1>2, <4>2
    <3>2. CASE i > n /\ j > n
      <4>1. i - n \in 1..m /\ g[i] = f[i - n] /\ j - n \in 1..m /\ g[j] = f[j - n]
        BY <1>1, <1>2, <1>6, <3>2
      <4>2. i - n = j - n
        BY <1>5, <2>1, <4>1
      <4> QED
        BY <1>1, <1>2, <4>2
    <3>3. CASE i <= n /\ j > n
      <4>1. /\ (n + 1) - i \in 1..n /\ g[i] = q[(n + 1) - i]
            /\ j - n \in 1..m /\ g[j] = f[j - n]
        BY <1>1, <1>2, <1>6, <3>3
      <4> QED
        BY <1>3, <2>1, <4>1
    <3>4. CASE i > n /\ j <= n
      <4>1. /\ (n + 1) - j \in 1..n /\ g[j] = q[(n + 1) - j]
            /\ i - n \in 1..m /\ g[i] = f[i - n]
        BY <1>1, <1>2, <1>6, <3>4
      <4> QED
        BY <1>3, <2>1, <4>1
    <3> QED
      BY <1>1, <1>2, <3>1, <3>2, <3>3, <3>4
  <2> QED
    BY <1>8, <2>1 DEF NoRepeat
<1>10. Elements(g) = Elements(q) \cup Elements(f)
  <2>1. \A i \in 1..(n + m) : g[i] \in Elements(q) \cup Elements(f)
    BY <1>5, <1>6
  <2>2. \A x \in Elements(q) : \E i \in 1..(n + m) : x = g[i]
    <3>1. TAKE x \in Elements(q)
    <3>2. PICK i \in 1..n : x = q[i]
      BY <1>5
    <3>3. (n + 1) - i \in 1..(n + m) /\ (n + 1) - i <= n /\ (n + 1) - ((n + 1) - i) = i
      BY <1>1, <1>2
    <3>4. g[(n + 1) - i] = q[i]
      BY <1>1, <1>2, <1>6, <3>3
    <3> QED
      BY <3>2, <3>3, <3>4
  <2>3. \A x \in Elements(f) : \E i \in 1..(n + m) : x = g[i]
    <3>1. TAKE x \in Elements(f)
    <3>2. PICK j \in 1..m : x = f[j]
      BY <1>5
    <3>3. n + j \in 1..(n + m) /\ n + j > n /\ (n + j) - n = j
      BY <1>1, <1>2
    <3>4. g[n + j] = f[j]
      BY <1>1, <1>2, <1>6, <3>3
    <3> QED
      BY <3>2, <3>3, <3>4
  <2>4. \A x : x \in Elements(g) <=> \E i \in 1..(n + m) : x = g[i]
    BY <1>8 DEF Elements
  <2> QED
    BY <2>1, <2>2, <2>3, <2>4
<1>11. \A i \in 1..(n + m) : ny[g[i]] = IF i = n + m THEN Mq!NULL ELSE g[i + 1]
  <2>1. TAKE i \in 1..(n + m)
  <2>2. CASE i < n
    <3>1. /\ (n + 1) - i \in 1..n /\ (n + 1) - i # 1 /\ i # n + m
          /\ i + 1 \in 1..(n + m) /\ i + 1 <= n /\ (n + 1) - (i + 1) = ((n + 1) - i) - 1
      BY <1>1, <1>2, <2>2
    <3>2. g[i] = q[(n + 1) - i] /\ g[i + 1] = q[((n + 1) - i) - 1]
      <4>1. g[i] = q[(n + 1) - i]
        BY <1>1, <1>2, <1>6, <2>2
      <4>2. g[i + 1] = q[(n + 1) - (i + 1)]
        BY <1>1, <1>2, <1>6, <3>1
      <4> QED
        BY <3>1, <4>1, <4>2
    <3>3. ny[q[(n + 1) - i]] = q[((n + 1) - i) - 1]
      BY <1>0, <3>1 DEF n
    <3> QED
      BY <3>1, <3>2, <3>3
  <2>3. CASE i = n
    <3>1. /\ (n + 1) - i = 1 /\ 1 \in 1..n /\ (i = n + m <=> m = 0)
          /\ (m # 0 => i + 1 \in 1..(n + m) /\ i + 1 > n /\ (i + 1) - n = 1)
      BY <1>1, <1>2, <2>3
    <3>2. g[i] = q[(n + 1) - i]
      BY <1>1, <1>2, <1>6, <2>3
    <3>3. m # 0 => g[i + 1] = f[1]
      BY <1>1, <1>2, <1>6, <3>1
    <3>4. ny[q[1]] = b
      BY <1>0, <3>1 DEF n
    <3> QED
      BY <1>2, <3>1, <3>2, <3>3, <3>4
  <2>4. CASE i > n
    <3>1. /\ i - n \in 1..m /\ (i - n = m <=> i = n + m)
          /\ (i # n + m => i + 1 \in 1..(n + m) /\ i + 1 > n /\ (i + 1) - n = (i - n) + 1)
      BY <1>1, <1>2, <2>4
    <3>2. g[i] = f[i - n]
      BY <1>1, <1>2, <1>6, <2>4
    <3>3. i # n + m => g[i + 1] = f[(i - n) + 1]
      <4>1. i # n + m => g[i + 1] = f[(i + 1) - n]
        BY <1>1, <1>2, <1>6, <3>1
      <4> QED
        BY <3>1, <4>1
    <3> QED
      BY <1>4, <3>1, <3>2, <3>3
  <2> QED
    BY <1>1, <1>2, <2>2, <2>3, <2>4
<1>12. (IF q = << >> THEN b ELSE q[n]) = IF g = << >> THEN Mq!NULL ELSE g[1]
  <2>1. g = << >> <=> n + m = 0
    BY <1>8, EmptySeq
  <2>2. CASE n = 0
    <3>1. m # 0 => 1 \in 1..(n + m) /\ 1 > n /\ 1 - n = 1
      BY <1>2, <2>2
    <3>2. m # 0 => g[1] = f[1]
      BY <1>1, <1>2, <1>6, <3>1
    <3> QED
      BY <1>1, <1>2, <2>1, <2>2, <3>2
  <2>3. CASE n # 0
    <3>1. 1 \in 1..(n + m) /\ 1 <= n /\ (n + 1) - 1 = n /\ n + m # 0
      BY <1>1, <1>2, <2>3
    <3>2. g[1] = q[n]
      BY <1>1, <1>2, <1>6, <3>1
    <3> QED
      BY <1>1, <2>1, <2>3, <3>1, <3>2
  <2> QED
    BY <2>2, <2>3
<1>13. Mq!IsChain(ny, g, k)
  BY <1>8, <1>9, <1>11, <1>12, MakeChain DEF n
<1> QED
  BY <1>8, <1>10, <1>13 DEF n, m

\* The chain q with the block c before it.
Pushed(c, q) == <<c>> \o q

\* The pointers ny lead from c to b, and differ from nx nowhere on the chain q.
Pushes(nx, ny, q, b, c) ==
  /\ c \in Mq!Blocks /\ c \notin Elements(q) /\ ny[c] = b
  /\ \A d \in Elements(q) : ny[d] = nx[d]

LEMMA ChainPushed ==
  ASSUME NEW nx, NEW ny, NEW q, NEW b, NEW c, NEW r, r = Pushed(c, q),
         Mq!IsChain(nx, q, b), Pushes(nx, ny, q, b, c)
  PROVE  /\ Mq!IsChain(ny, r, c)
         /\ Elements(r) = Elements(q) \cup {c} /\ Len(r) = Len(q) + 1
         /\ LastOf(r) = IF LastOf(q) = Mq!NULL THEN c ELSE LastOf(q)
<1>1. /\ c \in Mq!Blocks /\ c \notin Elements(q) /\ ny[c] = b
      /\ \A d \in Elements(q) : ny[d] = nx[d]
  BY DEF Pushes
<1> QED
  BY <1>1, ChainPush DEF Pushed

-----------------------------------------------------------------------------
(* Message queues: the invariant in parts.                                 *)

\* The calls that have a block in hand.
MqHolders == {t \in Threads : mq_call[t].block # Mq!NULL}

\* q is the queue and f the free list,
MqPlaces(q, f) ==
  /\ Mq!IsChain(next, q, head) /\ Mq!IsChain(next, f, free)
  /\ Elements(q) \cap Elements(f) = {}
  /\ \A t \in MqHolders : mq_call[t].block \notin Elements(q) \cup Elements(f)
  /\ \A t, u \in MqHolders : mq_call[t].block = mq_call[u].block => t = u
  /\ Len(q) + Len(f) + Cardinality(MqHolders) = MqSize
  /\ mq_entry = Len(q) /\ tail = LastOf(q)

MqPlaced == \E q, f : MqPlaces(q, f)

\* what the blocks hold,
MqCopies ==
  /\ next \in [Mq!Blocks -> Mq!Blocks \cup {Mq!NULL}]
  /\ content \in [Mq!Blocks -> Mails \cup {None}]
  /\ mq_received \in Mails \cup {None}
  /\ \A t \in Threads : mq_call[t].op = "recv" => content[mq_call[t].block] = mq_call[t].mail

\* who has been woken to go on,
MqWoken == {t \in Threads : mq_call[t].op = "wait" /\ stat[t] = "ready" /\ error[t] = "EOK"}

\* the calls and who waits in them,
MqCalls ==
  /\ mq_call \in [Threads -> Mq!Calls]
  /\ \A t \in Threads : mq_call[t].op = "none" => mq_call[t] = Mq!NoCall
  /\ \A t \in Threads : mq_call[t].op # "wait" => stat[t] = "ready"
  /\ \A t \in Threads : mq_call[t].block = Mq!NULL <=> mq_call[t].op \in {"none", "wait"}
  /\ \A t \in Threads : mq_call[t].op \in {"send", "urgent"} => mq_call[t].mail \in Mails
  /\ \A t \in Elements(suspend_thread[MqReceivers]) : mq_call[t].op = "wait" /\ error[t] = "EOK"
  /\ teardown[MqReceivers] # "live" =>
       (\A t \in Threads : mq_call[t].op \in {"none", "wait"}) /\ MqWoken = {}

\* and nobody stranded.
MqServed == suspend_thread[MqReceivers] # << >> => mq_entry <= Cardinality(MqWoken)

LEMMA MqPlacedParts ==
  MqPlaced <=> Mq!ListsEnd /\ Mq!BlocksInOnePlace
<1>1. \A q, f : MqPlaces(q, f) => Mq!LinkedFrom(head) = q /\ Mq!LinkedFrom(free) = f
  BY LinkedByChain DEF MqPlaces, Mq!LinkedFrom
<1>2. \A q : Mq!IsChain(next, q, head) =>
               (tail = LastOf(q) <=> tail = IF q = << >> THEN Mq!NULL ELSE q[Len(q)])
  BY DEF LastOf
<1>3. Mq!InHand = MqHolders /\ Mq!Cardinality(Mq!InHand) = Cardinality(MqHolders)
  BY MqIpc DEF Mq!InHand, MqHolders
<1>4. MqPlaces(Mq!LinkedFrom(head), Mq!LinkedFrom(free)) <=> Mq!ListsEnd /\ Mq!BlocksInOnePlace
  BY <1>3, MqIpc DEF MqPlaces, Mq!ListsEnd, Mq!BlocksInOnePlace, LastOf
<1> QED
  BY <1>1, <1>4 DEF MqPlaced

\* What the places of the blocks say of the pointers and the counter.
LEMMA MqPlacesTypes ==
  MqPlaced => {head, tail, free} \subseteq Mq!Blocks \cup {Mq!NULL} /\ mq_entry \in 0..MqSize
<1> SUFFICES ASSUME MqPlaced
             PROVE  {head, tail, free} \subseteq Mq!Blocks \cup {Mq!NULL} /\ mq_entry \in 0..MqSize
  OBVIOUS
<1>1. PICK q, f : MqPlaces(q, f)
  BY DEF MqPlaced
<1>2. ASSUME NEW r, NEW b, Mq!IsChain(next, r, b)
      PROVE  b \in Mq!Blocks \cup {Mq!NULL} /\ LastOf(r) \in Mq!Blocks \cup {Mq!NULL}
  <2>1. /\ r = << >> <=> Len(r) = 0
        /\ Len(r) \in Nat /\ b = (IF r = << >> THEN Mq!NULL ELSE r[1])
        /\ \A i \in 1..Len(r) : r[i] \in Mq!Blocks
    BY <1>2, ChainShape
  <2>2. Len(r) # 0 => 1 \in 1..Len(r) /\ Len(r) \in 1..Len(r)
    BY <2>1
  <2> QED
    BY <2>1, <2>2 DEF LastOf
<1>3. Len(q) \in 0..MqSize
  BY <1>1, ChainShape DEF MqPlaces
<1> QED
  BY <1>1, <1>2, <1>3 DEF MqPlaces

LEMMA MqParts == Mq!Inv <=> IpcInv /\ MqPlaced /\ MqCopies /\ MqCalls /\ MqServed
<1>1. {t \in Threads : Mq!Woken(t)} = MqWoken /\ \A t \in Threads : Mq!Woken(t) <=> t \in MqWoken
  BY DEF Mq!Woken, MqWoken
<1>2. Mq!NoneStranded <=> MqServed
  BY <1>1, MqIpc DEF Mq!NoneStranded, MqServed
<1>3. Mq!CallsWait /\ mq_call \in [Threads -> Mq!Calls] <=> MqCalls
  <2>1. (\A t \in Threads : mq_call[t].op \in {"none", "wait"} /\ ~Mq!Woken(t))
          <=> (\A t \in Threads : mq_call[t].op \in {"none", "wait"}) /\ MqWoken = {}
    BY <1>1 DEF MqWoken
  <2> QED
    BY <2>1, MqIpc DEF Mq!CallsWait, MqCalls
<1>4. MqPlaced => (Mq!TypeOK <=> /\ IpcTypeOK /\ mq_call \in [Threads -> Mq!Calls]
                                 /\ next \in [Mq!Blocks -> Mq!Blocks \cup {Mq!NULL}]
                                 /\ content \in [Mq!Blocks -> Mails \cup {None}]
                                 /\ mq_received \in Mails \cup {None})
  BY MqPlacesTypes, MqIpc DEF Mq!TypeOK
<1> QED
  BY <1>2, <1>3, <1>4, MqPlacedParts, MqIpc DEF Mq!Inv, MqCopies, Mq!CopyIntact, IpcInv

LEMMA MqPartsNext == (Mq!Inv <=> IpcInv /\ MqPlaced /\ MqCopies /\ MqCalls /\ MqServed)'
BY MqParts, PTL

LEMMA MqShape ==
  ASSUME IpcInv, MqCalls
  PROVE  /\ suspend_thread \in [Lists -> Seq(Threads)] /\ teardown \in [Lists -> Teardown]
         /\ stat \in [Threads -> {"ready", "suspend"}] /\ error \in [Threads -> Errors]
         /\ \A l \in Lists : suspend_thread[l] \in Seq(Threads) /\ NoRepeat(suspend_thread[l])
         /\ \A t \in Elements(suspend_thread[MqReceivers]) :
              /\ t \in Threads /\ stat[t] = "suspend"
              /\ mq_call[t].op = "wait" /\ error[t] = "EOK"
         /\ mq_call \in [Threads -> Mq!Calls]
<1>1. /\ suspend_thread \in [Lists -> Seq(Threads)] /\ teardown \in [Lists -> Teardown]
      /\ stat \in [Threads -> {"ready", "suspend"}] /\ error \in [Threads -> Errors]
      /\ \A l \in Lists : suspend_thread[l] \in Seq(Threads) /\ NoRepeat(suspend_thread[l])
  BY DEF IpcInv, IpcTypeOK, LinkedOnce
<1>2. \A t \in Elements(suspend_thread[MqReceivers]) : t \in Threads
  BY <1>1, MqConstants, ElementOfSeq DEF Elements
<1>3. \A t \in Elements(suspend_thread[MqReceivers]) : stat[t] = "suspend"
  BY <1>2, MqConstants DEF IpcInv, SuspendedIffWaiting, Waiting
<1> QED
  BY <1>1, <1>2, <1>3 DEF MqCalls

LEMMA MqNoCall ==
  /\ Mq!NoCall \in Mq!Calls /\ Mq!NoCall.op = "none" /\ Mq!NoCall.block = Mq!NULL
BY MqConstants DEF Mq!NoCall, Mq!Calls

\* The running thread t goes on to or ends with the call c.
LEMMA MqGoesOn ==
  ASSUME IpcInv, MqCalls, MqServed, NEW t \in Threads, stat[t] = "ready",
         NEW c \in Mq!Calls, mq_call' = [mq_call EXCEPT ![t] = c],
         c.op # "wait", c.op = "none" => c = Mq!NoCall,
         c.block = Mq!NULL <=> c.op = "none",
         c.op \in {"send", "urgent"} => c.mail \in Mails,
         teardown[MqReceivers] # "live" => c.op = "none",
         error' \in [Threads -> Errors], \A u \in Threads : u # t => error'[u] = error[u],
         UNCHANGED <<stat, thread_timer, suspend_thread, teardown, fault>>,
         mq_entry \in Nat, mq_entry' \in Nat, mq_entry' <= mq_entry,
         t \in MqWoken => mq_entry' = 0 \/ mq_entry' = mq_entry - 1
  PROVE  IpcInv' /\ MqCalls' /\ MqServed'
<1>0. /\ mq_call \in [Threads -> Mq!Calls]
      /\ \A u \in Elements(suspend_thread[MqReceivers]) :
           u \in Threads /\ u # t /\ mq_call[u].op = "wait" /\ error[u] = "EOK"
  BY MqShape
<1>1. IpcInv'
  BY DEF IpcInv, IpcTypeOK, LinkedOnce, SuspendedIffWaiting, Waiting, ArmedOnlyWhileSuspended
<1>2. /\ \A u \in Threads : u # t => mq_call'[u] = mq_call[u]
      /\ mq_call'[t] = c /\ mq_call' \in [Threads -> Mq!Calls]
  BY <1>0
<1>3. MqWoken' = MqWoken \ {t}
  BY <1>2 DEF MqWoken
<1>4. MqCalls'
  <2>1. \A u \in Threads : mq_call'[u].op = "none" => mq_call'[u] = Mq!NoCall
    BY <1>2 DEF MqCalls
  <2>2. \A u \in Threads : mq_call'[u].op # "wait" => stat'[u] = "ready"
    BY <1>2 DEF MqCalls
  <2>3. \A u \in Threads : mq_call'[u].block = Mq!NULL <=> mq_call'[u].op \in {"none", "wait"}
    BY <1>2 DEF MqCalls
  <2>4. \A u \in Threads : mq_call'[u].op \in {"send", "urgent"} => mq_call'[u].mail \in Mails
    BY <1>2 DEF MqCalls
  <2>5. \A u \in Elements(suspend_thread'[MqReceivers]) : mq_call'[u].op = "wait" /\ error'[u] = "EOK"
    BY <1>0, <1>2
  <2>6. teardown'[MqReceivers] # "live" =>
          (\A u \in Threads : mq_call'[u].op \in {"none", "wait"}) /\ MqWoken' = {}
    BY <1>2, <1>3 DEF MqCalls
  <2> QED
    BY <1>2, <2>1, <2>2, <2>3, <2>4, <2>5, <2>6 DEF MqCalls
<1>5. MqServed'
  <2>1. /\ MqWoken \in SUBSET Threads /\ MqWoken' \in SUBSET Threads
        /\ MqWoken \ {t} \subseteq MqWoken'
    BY <1>3 DEF MqWoken
  <2>2. Cardinality(MqWoken) \in Nat /\ Cardinality(MqWoken') \in Nat
    BY <2>1, CountNat
  <2>3. ASSUME suspend_thread[MqReceivers] # << >>
        PROVE  mq_entry' <= Cardinality(MqWoken')
    <3>1. mq_entry <= Cardinality(MqWoken)
      BY <2>3 DEF MqServed
    <3>2. CASE t \in MqWoken
      <4>1. Cardinality(MqWoken) - 1 <= Cardinality(MqWoken')
        BY <2>1, CountMinusOne
      <4> QED
        BY <2>2, <3>1, <3>2, <4>1
    <3>3. CASE t \notin MqWoken
      <4>1. MqWoken' = MqWoken
        BY <1>3, <3>3
      <4> QED
        BY <2>2, <3>1, <4>1
    <3> QED
      BY <3>2, <3>3
  <2> QED
    BY <2>3 DEF MqServed
<1> QED
  BY <1>1, <1>4, <1>5

\* A message is linked: by an interrupt or as the end of the call of t.
LEMMA MqWakes ==
  ASSUME IpcInv, MqCalls, MqServed, ResumeFirst(MqReceivers),
         mq_entry \in Nat, mq_entry' = mq_entry + 1, NEW t,
         \/ mq_call' = mq_call /\ teardown[MqReceivers] = "live"
         \/ /\ t \in Threads /\ mq_call[t].op \in {"send", "urgent"}
            /\ mq_call' = [mq_call EXCEPT ![t] = Mq!NoCall]
  PROVE  IpcInv' /\ MqCalls' /\ MqServed'
<1> DEFINE q == suspend_thread[MqReceivers]
           h == Head(q)
<1>0. /\ MqReceivers \in Lists /\ suspend_thread \in [Lists -> Seq(Threads)]
      /\ stat \in [Threads -> {"ready", "suspend"}]
      /\ q \in Seq(Threads) /\ NoRepeat(q)
      /\ \A u \in Elements(q) :
           u \in Threads /\ stat[u] = "suspend" /\ mq_call[u].op = "wait" /\ error[u] = "EOK"
      /\ mq_call \in [Threads -> Mq!Calls]
      /\ teardown[MqReceivers] = "live"
  BY MqShape, MqConstants DEF MqCalls
<1>1. /\ mq_call' \in [Threads -> Mq!Calls]
      /\ \A u \in Threads : mq_call[u].op \notin {"send", "urgent"} => mq_call'[u] = mq_call[u]
      /\ \A u \in Threads : mq_call'[u] = mq_call[u] \/ mq_call'[u] = Mq!NoCall
  BY <1>0, MqNoCall
<1>2. IpcInv'
  BY <1>0, ListResumeInv, UnchangedInv DEF ResumeFirst
<1>3. /\ UNCHANGED <<error, teardown>>
      /\ \/ q = << >> /\ UNCHANGED <<stat, suspend_thread>>
         \/ /\ q # << >> /\ stat' = [stat EXCEPT ![h] = "ready"]
            /\ suspend_thread' = [suspend_thread EXCEPT ![MqReceivers] = Tail(q)]
  BY DEF ResumeFirst, ListResume, ipcVars
<1>4. q # << >> => h \in Elements(q) /\ Elements(Tail(q)) \subseteq Elements(q)
  BY <1>0, TailProperties
<1>5. /\ Elements(suspend_thread'[MqReceivers]) \subseteq Elements(q)
      /\ suspend_thread'[MqReceivers] # << >> => q # << >>
  BY <1>0, <1>3, <1>4
<1>6. \A u \in Threads : stat[u] = "ready" => stat'[u] = "ready"
  BY <1>0, <1>3
<1>7. q # << >> => h \in Threads /\ h \notin MqWoken /\ h \in MqWoken'
  BY <1>0, <1>1, <1>3, <1>4 DEF MqWoken
<1>8. MqWoken \subseteq MqWoken'
  BY <1>1, <1>3, <1>6 DEF MqWoken
<1> HIDE DEF h
<1>9. MqCalls'
  <2>1. \A u \in Threads : /\ mq_call'[u].op = "none" => mq_call'[u] = Mq!NoCall
                           /\ mq_call'[u].op \in {"send", "urgent"} => mq_call'[u].mail \in Mails
    BY <1>1, MqNoCall DEF MqCalls
  <2>2. \A u \in Threads : mq_call'[u].op # "wait" => stat'[u] = "ready"
    BY <1>1, <1>6, MqNoCall DEF MqCalls
  <2>3. \A u \in Threads : mq_call'[u].block = Mq!NULL <=> mq_call'[u].op \in {"none", "wait"}
    BY <1>1, MqNoCall DEF MqCalls
  <2>4. \A u \in Elements(suspend_thread'[MqReceivers]) : mq_call'[u].op = "wait" /\ error'[u] = "EOK"
    BY <1>0, <1>1, <1>3, <1>5
  <2> QED
    BY <1>0, <1>1, <1>3, <2>1, <2>2, <2>3, <2>4 DEF MqCalls
<1>10. ASSUME suspend_thread'[MqReceivers] # << >>
       PROVE  mq_entry' <= Cardinality(MqWoken')
  <2>1. mq_entry <= Cardinality(MqWoken)
    BY <1>5, <1>10 DEF MqServed
  <2>2. MqWoken \in SUBSET Threads /\ MqWoken' \in SUBSET Threads
    BY DEF MqWoken
  <2>3. Cardinality(MqWoken) + 1 <= Cardinality(MqWoken')
    BY <1>5, <1>7, <1>8, <1>10, <2>2, CountPlusOne
  <2>4. Cardinality(MqWoken) \in Nat /\ Cardinality(MqWoken') \in Nat
    BY <2>2, CountNat
  <2> QED
    BY <2>1, <2>3, <2>4
<1> QED
  BY <1>2, <1>9, <1>10 DEF MqServed

\* The running thread t suspends, for the first time or again.
LEMMA MqBlock ==
  ASSUME IpcInv, MqCalls, teardown[MqReceivers] = "live",
         NEW t \in Threads, stat[t] = "ready", mq_call[t].op \in {"none", "wait"},
         NEW time \in WaitTimes \cup {None}, Mq!Block(t, time), mq_entry = 0
  PROVE  IpcInv' /\ MqCalls' /\ MqServed'
<1> DEFINE q == Enqueue(suspend_thread[MqReceivers], t, Flag, Prio)
           c == [Mq!NoCall EXCEPT !.op = "wait", !.time = time]
<1>0. /\ MqReceivers \in Lists /\ suspend_thread \in [Lists -> Seq(Threads)]
      /\ stat \in [Threads -> {"ready", "suspend"}] /\ error \in [Threads -> Errors]
      /\ suspend_thread[MqReceivers] \in Seq(Threads) /\ NoRepeat(suspend_thread[MqReceivers])
      /\ Flag \in {"FIFO", "PRIO"} /\ Prio \in [Threads -> Nat]
      /\ mq_call \in [Threads -> Mq!Calls]
      /\ t \notin Elements(suspend_thread[MqReceivers])
      /\ \A u \in Elements(suspend_thread[MqReceivers]) :
           u \in Threads /\ mq_call[u].op = "wait" /\ error[u] = "EOK"
  BY MqShape, MqConstants, ReadyUnlinked
<1>1. /\ ListSuspend(MqReceivers, t, Flag, Prio, time)
      /\ mq_call' = [mq_call EXCEPT ![t] = c] /\ UNCHANGED mq_entry
  BY MqIpc DEF Mq!Block, Mq!blockVars
<1>2. IpcInv'
  BY <1>0, <1>1, ListSuspendInv
<1>3. Elements(q) = Elements(suspend_thread[MqReceivers]) \cup {t}
  <2>1. /\ suspend_thread[MqReceivers] \in Seq(Threads) /\ NoRepeat(suspend_thread[MqReceivers])
        /\ t \notin Elements(suspend_thread[MqReceivers])
        /\ Flag \in {"FIFO", "PRIO"} /\ Prio \in [Threads -> Nat]
    BY <1>0
  <2> QED
    BY <2>1, EnqueueProperties
<1>4. /\ stat' = [stat EXCEPT ![t] = "suspend"] /\ error' = [error EXCEPT ![t] = "EOK"]
      /\ suspend_thread' = [suspend_thread EXCEPT ![MqReceivers] = q] /\ teardown' = teardown
  BY <1>1 DEF ListSuspend
<1>5. c \in Mq!Calls /\ c.op = "wait" /\ c.block = Mq!NULL
  BY MqConstants, MqIpc DEF Mq!NoCall, Mq!Calls
<1> HIDE DEF q, c
<1>6. /\ \A u \in Threads : u # t => /\ mq_call'[u] = mq_call[u] /\ stat'[u] = stat[u]
                                     /\ error'[u] = error[u]
      /\ mq_call'[t] = c /\ error'[t] = "EOK" /\ stat'[t] = "suspend"
      /\ mq_call' \in [Threads -> Mq!Calls]
  BY <1>0, <1>1, <1>4, <1>5
<1>7. MqCalls'
  <2>1. \A u \in Threads : /\ mq_call'[u].op = "none" => mq_call'[u] = Mq!NoCall
                           /\ mq_call'[u].op \in {"send", "urgent"} => mq_call'[u].mail \in Mails
    BY <1>5, <1>6 DEF MqCalls
  <2>2. \A u \in Threads : mq_call'[u].op # "wait" => stat'[u] = "ready"
    BY <1>5, <1>6 DEF MqCalls
  <2>3. \A u \in Threads : mq_call'[u].block = Mq!NULL <=> mq_call'[u].op \in {"none", "wait"}
    BY <1>5, <1>6 DEF MqCalls
  <2>4. \A u \in Elements(suspend_thread'[MqReceivers]) : mq_call'[u].op = "wait" /\ error'[u] = "EOK"
    BY <1>0, <1>3, <1>4, <1>5, <1>6
  <2> QED
    BY <1>4, <1>6, <2>1, <2>2, <2>3, <2>4 DEF MqCalls
<1>8. MqServed'
  <2>1. Cardinality(MqWoken') \in Nat
    BY CountNat DEF MqWoken
  <2> QED
    BY <1>1, <2>1 DEF MqServed
<1> QED
  BY <1>2, <1>7, <1>8

\* Waiters leave the list with an error, whichever of them and why.
LEMMA MqDismissed ==
  ASSUME IpcInv, IpcInv', MqCalls, MqServed,
         NEW gone, gone \subseteq Elements(suspend_thread[MqReceivers]),
         Elements(suspend_thread'[MqReceivers]) \subseteq Elements(suspend_thread[MqReceivers]) \ gone,
         \A t \in Threads : t \notin gone => stat'[t] = stat[t] /\ error'[t] = error[t],
         \A t \in Threads : t \in gone => stat'[t] = "ready" /\ error'[t] # "EOK",
         UNCHANGED mq_call, mq_entry' \in {0, mq_entry},
         teardown'[MqReceivers] # "live" => teardown[MqReceivers] # "live"
  PROVE  MqCalls' /\ MqServed'
<1>0. /\ \A t \in Elements(suspend_thread[MqReceivers]) :
           t \in Threads /\ stat[t] = "suspend" /\ mq_call[t].op = "wait" /\ error[t] = "EOK"
      /\ suspend_thread'[MqReceivers] \in Seq(Threads)
  BY MqShape, MqConstants DEF IpcInv, IpcTypeOK
<1>1. MqWoken' = MqWoken
  BY <1>0 DEF MqWoken
<1>2. MqCalls'
  <2>1. \A u \in Threads : mq_call[u].op # "wait" => stat'[u] = "ready"
    BY DEF MqCalls
  <2>2. \A u \in Elements(suspend_thread'[MqReceivers]) : mq_call[u].op = "wait" /\ error'[u] = "EOK"
    BY <1>0
  <2> QED
    BY <1>1, <2>1, <2>2 DEF MqCalls
<1>3. suspend_thread'[MqReceivers] # << >> => suspend_thread[MqReceivers] # << >>
  <2>1. HAVE suspend_thread'[MqReceivers] # << >>
  <2>2. Len(suspend_thread'[MqReceivers]) \in Nat /\ Len(suspend_thread'[MqReceivers]) # 0
    <3>1. suspend_thread'[MqReceivers] \in Seq(Threads)
      BY <1>0
    <3> QED
      BY <2>1, <3>1, EmptySeq, LenProperties
  <2>3. suspend_thread'[MqReceivers][1] \in Elements(suspend_thread'[MqReceivers])
    BY <2>2 DEF Elements
  <2>4. Elements(<< >>) = {}
    BY EmptySeq DEF Elements
  <2> QED
    BY <2>3, <2>4
<1>4. MqServed'
  <2>1. Cardinality(MqWoken) \in Nat
    BY CountNat DEF MqWoken
  <2> QED
    BY <1>1, <1>3, <2>1 DEF MqServed
<1> QED
  BY <1>2, <1>4

-----------------------------------------------------------------------------
(* Message queues: the blocks.                                             *)

LEMMA MqHoldersCount ==
  /\ MqHolders \in SUBSET Threads /\ IsFiniteSet(MqHolders) /\ Cardinality(MqHolders) \in Nat
BY CountNat DEF MqHolders

\* A call gets a block, or gives it away.
LEMMA MqHolds ==
  ASSUME mq_call \in [Threads -> Mq!Calls], NEW t \in Threads, NEW c \in Mq!Calls,
         mq_call' = [mq_call EXCEPT ![t] = c]
  PROVE  /\ t \notin MqHolders /\ c.block # Mq!NULL =>
              /\ MqHolders' = MqHolders \cup {t}
              /\ Cardinality(MqHolders') = Cardinality(MqHolders) + 1
         /\ t \in MqHolders /\ c.block = Mq!NULL =>
              /\ MqHolders' = MqHolders \ {t}
              /\ Cardinality(MqHolders') = Cardinality(MqHolders) - 1
         /\ mq_call'[t] = c /\ \A u \in Threads : u # t => mq_call'[u] = mq_call[u]
<1>1. mq_call'[t] = c /\ \A u \in Threads : u # t => mq_call'[u] = mq_call[u]
  OBVIOUS
<1>2. ASSUME t \notin MqHolders, c.block # Mq!NULL
      PROVE  /\ MqHolders' = MqHolders \cup {t}
             /\ Cardinality(MqHolders') = Cardinality(MqHolders) + 1
  <2>1. MqHolders' = MqHolders \cup {t}
    BY <1>1, <1>2 DEF MqHolders
  <2> QED
    BY <1>2, <2>1, MqHoldersCount, FS_AddElement
<1>3. ASSUME t \in MqHolders, c.block = Mq!NULL
      PROVE  /\ MqHolders' = MqHolders \ {t}
             /\ Cardinality(MqHolders') = Cardinality(MqHolders) - 1
  <2>1. MqHolders' = MqHolders \ {t}
    BY <1>1, <1>3 DEF MqHolders
  <2> QED
    BY <1>3, <2>1, MqHoldersCount, FS_RemoveElement
<1> QED
  BY <1>1, <1>2, <1>3

\* No call that has a block is begun or ended.
LEMMA MqPlacesKept ==
  ASSUME NEW q, NEW f, MqPlaces(q, f), MqCopies,
         UNCHANGED <<next, content, head, tail, free, mq_entry, mq_received>>,
         \A t \in Threads : \/ mq_call'[t] = mq_call[t]
                            \/ /\ mq_call[t].op # "recv" /\ mq_call'[t].op # "recv"
                               /\ mq_call[t].block = Mq!NULL /\ mq_call'[t].block = Mq!NULL
  PROVE  MqPlaces(q, f)' /\ MqCopies'
<1>1. MqHolders' = MqHolders
  BY DEF MqHolders
<1>2. \A t \in MqHolders : mq_call'[t] = mq_call[t]
  BY DEF MqHolders
<1>3. MqCopies'
  BY DEF MqCopies
<1> QED
  BY <1>1, <1>2, <1>3 DEF MqPlaces

\* The first region of rt_mq_send: t has the first free block b.
LEMMA MqTakesPlaces ==
  ASSUME NEW q, NEW f, MqPlaces(q, f), MqCopies, mq_call \in [Threads -> Mq!Calls],
         NEW t \in Threads, mq_call[t].block = Mq!NULL, free # Mq!NULL, free' = next[free],
         NEW c \in Mq!Calls, c.block = free, c.op # "recv", mq_call' = [mq_call EXCEPT ![t] = c],
         UNCHANGED <<next, content, head, tail, mq_entry, mq_received>>
  PROVE  MqPlaces(q, Tail(f))' /\ MqCopies'
<1>1. /\ Mq!IsChain(next, q, head) /\ Mq!IsChain(next, f, free)
      /\ Elements(q) \cap Elements(f) = {}
      /\ \A u \in MqHolders : mq_call[u].block \notin Elements(q) \cup Elements(f)
      /\ \A u, v \in MqHolders : mq_call[u].block = mq_call[v].block => u = v
      /\ Len(q) + Len(f) + Cardinality(MqHolders) = MqSize
      /\ mq_entry = Len(q) /\ tail = LastOf(q)
  BY DEF MqPlaces
<1>2. /\ free \in Elements(f) /\ Mq!IsChain(next, Tail(f), free')
      /\ Elements(Tail(f)) = Elements(f) \ {free} /\ Len(Tail(f)) = Len(f) - 1
  BY <1>1, ChainTail
<1>3. /\ t \notin MqHolders /\ c.block # Mq!NULL
      /\ MqHolders' = MqHolders \cup {t} /\ Cardinality(MqHolders') = Cardinality(MqHolders) + 1
      /\ mq_call'[t] = c /\ \A u \in Threads : u # t => mq_call'[u] = mq_call[u]
  BY MqHolds DEF MqHolders
<1> DEFINE g == Tail(f)
<1> HIDE DEF g
<1>4. \A u \in MqHolders' : 
          \/ u = t /\ mq_call'[u].block = free
          \/ u # t /\ u \in MqHolders /\ mq_call'[u].block = mq_call[u].block
  <2>1. t \in MqHolders' /\ MqHolders \subseteq Threads
    BY <1>3 DEF MqHolders
  <2>2. ASSUME NEW u \in MqHolders', u # t
        PROVE  u \in MqHolders /\ mq_call'[u] = mq_call[u]
    BY <1>3, <2>1, <2>2
  <2>3. mq_call'[t].block = free
    BY <1>3
  <2> QED
    <3>1. TAKE u \in MqHolders'
    <3>2. CASE u = t
      BY <2>3, <3>2
    <3>3. CASE u # t
      BY <2>2, <3>3
    <3> QED
      BY <3>2, <3>3
<1>5. /\ Elements(q) \cap Elements(g) = {}
      /\ \A u \in MqHolders' : mq_call'[u].block \notin Elements(q) \cup Elements(g)
      /\ \A u, v \in MqHolders' : mq_call'[u].block = mq_call'[v].block => u = v
  BY <1>1, <1>2, <1>4 DEF g
<1>6. Len(q) + Len(g) + Cardinality(MqHolders') = MqSize
  <2>1. Len(q) \in Nat /\ Len(f) \in Nat /\ Cardinality(MqHolders) \in Nat /\ Len(g) = Len(f) - 1
    BY <1>1, <1>2, ChainShape, MqHoldersCount DEF g
  <2> QED
    BY <1>1, <1>3, <2>1
<1>7. Mq!IsChain(next', q, head') /\ Mq!IsChain(next', g, free') /\ mq_entry' = Len(q) /\ tail' = LastOf(q)
  BY <1>1, <1>2 DEF g
<1>8. MqPlaces(q, g)'
  BY <1>5, <1>6, <1>7 DEF MqPlaces, g
<1>9. MqCopies'
  <2>1. \A u \in Threads : mq_call'[u].op = "recv" => mq_call'[u] = mq_call[u]
    BY <1>3
  <2> QED
    BY <2>1 DEF MqCopies
<1> QED
  BY <1>8, <1>9 DEF g

\* The queue with the block b in it.
Linked(q, b, op) == IF op = "send" THEN Append(q, b) ELSE <<b>> \o q

\* A message is linked in the block b, which is in neither list.
LEMMA MqLinks ==
  ASSUME NEW q, NEW f, NEW fr, Mq!IsChain(next, q, head), Mq!IsChain(next, f, fr),
         mq_entry = Len(q), tail = LastOf(q), Elements(q) \cap Elements(f) = {},
         NEW b \in Mq!Blocks, b \notin Elements(q), b \notin Elements(f),
         next \in [Mq!Blocks -> Mq!Blocks \cup {Mq!NULL}],
         content \in [Mq!Blocks -> Mails \cup {None}],
         NEW m \in Mails, NEW op \in {"send", "urgent"}, Mq!Link(b, m, op),
         NEW r, r = Linked(q, b, op)
  PROVE  /\ Mq!IsChain(next', r, head') /\ Mq!IsChain(next', f, fr)
         /\ Elements(r) = Elements(q) \cup {b} /\ Len(r) = Len(q) + 1
         /\ mq_entry' = Len(r) /\ tail' = LastOf(r)
         /\ next' \in [Mq!Blocks -> Mq!Blocks \cup {Mq!NULL}]
         /\ content' = [content EXCEPT ![b] = m]
         /\ content' \in [Mq!Blocks -> Mails \cup {None}]
<1>0. /\ \A d \in Elements(q) : d \in Mq!Blocks
      /\ \A d \in Elements(f) : d \in Mq!Blocks
      /\ Len(q) \in Nat /\ b # Mq!NULL
      /\ head \in Mq!Blocks \cup {Mq!NULL} /\ (tail # Mq!NULL => tail \in Elements(q))
  <2>1. /\ \A i \in 1..Len(q) : q[i] \in Mq!Blocks
        /\ \A i \in 1..Len(f) : f[i] \in Mq!Blocks
        /\ Len(q) \in Nat /\ head = (IF q = << >> THEN Mq!NULL ELSE q[1])
        /\ q = << >> <=> Len(q) = 0
    BY ChainShape
  <2>2. Len(q) # 0 => 1 \in 1..Len(q) /\ Len(q) \in 1..Len(q)
    BY <2>1
  <2> QED
    BY <2>1, <2>2, MqConstants DEF Elements, LastOf
<1>1. CASE op = "send"
  <2>1. /\ content' = [content EXCEPT ![b] = m]
        /\ next' = [c \in Mq!Blocks |-> IF c = b THEN Mq!NULL
                                        ELSE IF c = tail THEN b ELSE next[c]]
        /\ tail' = b /\ head' = (IF head = Mq!NULL THEN b ELSE head)
        /\ mq_entry' = mq_entry + 1
    BY <1>1 DEF Mq!Link, Mq!LinkLast
  <2>2. /\ next'[b] = Mq!NULL
        /\ \A d \in Elements(q) : next'[d] = IF d = LastOf(q) THEN b ELSE next[d]
        /\ \A d \in Elements(f) : next'[d] = next[d]
    BY <1>0, <2>1, MqConstants
  <2>3. /\ Mq!IsChain(next', Append(q, b), IF head = Mq!NULL THEN b ELSE head)
        /\ Elements(Append(q, b)) = Elements(q) \cup {b} /\ Len(Append(q, b)) = Len(q) + 1
        /\ LastOf(Append(q, b)) = b
    BY <2>2, ChainAppend
  <2>4. Mq!IsChain(next', f, fr)
    BY <2>2, ChainKept
  <2>5. next' \in [Mq!Blocks -> Mq!Blocks \cup {Mq!NULL}]
    BY <2>1
  <2>6. r = Append(q, b)
    BY <1>1 DEF Linked
  <2> QED
    BY <2>1, <2>3, <2>4, <2>5, <2>6
<1>2. CASE op = "urgent"
  <2>1. /\ content' = [content EXCEPT ![b] = m]
        /\ next' = [next EXCEPT ![b] = head]
        /\ head' = b /\ tail' = (IF tail = Mq!NULL THEN b ELSE tail)
        /\ mq_entry' = mq_entry + 1
    BY <1>2 DEF Mq!Link, Mq!LinkFirst
  <2>2. /\ next'[b] = head
        /\ \A d \in Elements(q) : next'[d] = next[d]
        /\ \A d \in Elements(f) : next'[d] = next[d]
    BY <1>0, <2>1
  <2>3. /\ Mq!IsChain(next', r, b)
        /\ Elements(r) = Elements(q) \cup {b} /\ Len(r) = Len(q) + 1
        /\ LastOf(r) = IF LastOf(q) = Mq!NULL THEN b ELSE LastOf(q)
    <3>1. Pushes(next, next', q, head, b) /\ r = Pushed(b, q)
      BY <1>2, <2>2 DEF Pushes, Pushed, Linked
    <3> QED
      BY <3>1, ChainPushed
  <2>4. Mq!IsChain(next', f, fr)
    BY <2>2, ChainKept
  <2>5. next' \in [Mq!Blocks -> Mq!Blocks \cup {Mq!NULL}]
    BY <1>0, <2>1
  <2> QED
    BY <2>1, <2>3, <2>4, <2>5
<1> QED
  BY <1>1, <1>2

\* The second region of rt_mq_send and rt_mq_urgent.
LEMMA MqLinksPlaces ==
  ASSUME NEW q, NEW f, MqPlaces(q, f), MqCopies, MqCalls,
         NEW t \in Threads, mq_call[t].op \in {"send", "urgent"}, NEW b, b = mq_call[t].block,
         Mq!Link(b, mq_call[t].mail, mq_call[t].op),
         mq_call' = [mq_call EXCEPT ![t] = Mq!NoCall], UNCHANGED <<free, mq_received>>,
         NEW r, r = Linked(q, b, mq_call[t].op)
  PROVE  MqPlaces(r, f)' /\ MqCopies' /\ content' = [content EXCEPT ![b] = mq_call[t].mail]
<1>1. /\ Mq!IsChain(next, q, head) /\ Mq!IsChain(next, f, free)
      /\ Elements(q) \cap Elements(f) = {}
      /\ \A u \in MqHolders : mq_call[u].block \notin Elements(q) \cup Elements(f)
      /\ \A u, v \in MqHolders : mq_call[u].block = mq_call[v].block => u = v
      /\ Len(q) + Len(f) + Cardinality(MqHolders) = MqSize
      /\ mq_entry = Len(q) /\ tail = LastOf(q)
  BY DEF MqPlaces
<1>2. /\ mq_call \in [Threads -> Mq!Calls] /\ mq_call[t].mail \in Mails
      /\ mq_call[t].block # Mq!NULL
  BY DEF MqCalls
<1>3. t \in MqHolders /\ b \in Mq!Blocks /\ b \notin Elements(q) /\ b \notin Elements(f)
  BY <1>1, <1>2 DEF MqHolders, Mq!Calls
<1>4. /\ next \in [Mq!Blocks -> Mq!Blocks \cup {Mq!NULL}]
      /\ content \in [Mq!Blocks -> Mails \cup {None}] /\ mq_received \in Mails \cup {None}
      /\ \A u \in Threads : mq_call[u].op = "recv" => content[mq_call[u].block] = mq_call[u].mail
  BY DEF MqCopies
<1>5. /\ Mq!IsChain(next', r, head') /\ Mq!IsChain(next', f, free)
      /\ Elements(r) = Elements(q) \cup {b} /\ Len(r) = Len(q) + 1
      /\ mq_entry' = Len(r) /\ tail' = LastOf(r)
      /\ next' \in [Mq!Blocks -> Mq!Blocks \cup {Mq!NULL}]
      /\ content' = [content EXCEPT ![b] = mq_call[t].mail]
      /\ content' \in [Mq!Blocks -> Mails \cup {None}]
  <2>1. PICK m \in Mails : m = mq_call[t].mail
    BY <1>2
  <2>2. PICK op \in {"send", "urgent"} : op = mq_call[t].op
    OBVIOUS
  <2>3. Mq!Link(b, m, op) /\ r = Linked(q, b, op)
    BY <2>1, <2>2
  <2>4. /\ Mq!IsChain(next, q, head) /\ Mq!IsChain(next, f, free)
        /\ mq_entry = Len(q) /\ tail = LastOf(q) /\ Elements(q) \cap Elements(f) = {}
        /\ b \in Mq!Blocks /\ b \notin Elements(q) /\ b \notin Elements(f)
        /\ next \in [Mq!Blocks -> Mq!Blocks \cup {Mq!NULL}]
        /\ content \in [Mq!Blocks -> Mails \cup {None}]
    BY <1>1, <1>3, <1>4
  <2>5. /\ Mq!IsChain(next', r, head') /\ Mq!IsChain(next', f, free)
        /\ Elements(r) = Elements(q) \cup {b} /\ Len(r) = Len(q) + 1
        /\ mq_entry' = Len(r) /\ tail' = LastOf(r)
        /\ next' \in [Mq!Blocks -> Mq!Blocks \cup {Mq!NULL}]
        /\ content' = [content EXCEPT ![b] = m]
        /\ content' \in [Mq!Blocks -> Mails \cup {None}]
    BY <2>3, <2>4, MqLinks
  <2> QED
    BY <2>1, <2>5
<1>6. /\ MqHolders' = MqHolders \ {t} /\ Cardinality(MqHolders') = Cardinality(MqHolders) - 1
      /\ mq_call'[t] = Mq!NoCall /\ \A u \in Threads : u # t => mq_call'[u] = mq_call[u]
  BY <1>2, <1>3, MqHolds, MqNoCall
<1>7. \A u \in MqHolders' : u \in MqHolders /\ u # t /\ mq_call'[u] = mq_call[u]
                            /\ mq_call[u].block # b
  BY <1>1, <1>3, <1>6, MqHoldersCount
<1>8. /\ Elements(r) \cap Elements(f) = {}
      /\ \A u \in MqHolders' : mq_call'[u].block \notin Elements(r) \cup Elements(f)
      /\ \A u, v \in MqHolders' : mq_call'[u].block = mq_call'[v].block => u = v
  BY <1>1, <1>3, <1>5, <1>7
<1>9. Len(r) + Len(f) + Cardinality(MqHolders') = MqSize
  <2>1. Len(q) \in Nat /\ Len(f) \in Nat /\ Cardinality(MqHolders) \in Nat
    BY <1>1, ChainShape, MqHoldersCount
  <2> QED
    BY <1>1, <1>5, <1>6, <2>1
<1>10. MqPlaces(r, f)'
  BY <1>5, <1>8, <1>9 DEF MqPlaces
<1>11. MqCopies'
  <2>1. \A u \in Threads : mq_call'[u].op = "recv" =>
          /\ mq_call'[u] = mq_call[u] /\ mq_call[u].block # b /\ mq_call[u].block \in Mq!Blocks
    <3>1. TAKE u \in Threads
    <3>2. HAVE mq_call'[u].op = "recv"
    <3>3. u # t /\ mq_call'[u] = mq_call[u]
      BY <1>6, <3>2, MqNoCall
    <3>4. mq_call[u].block # Mq!NULL
      BY <3>2, <3>3 DEF MqCalls
    <3>5. u \in MqHolders /\ mq_call[u].block \in Mq!Blocks
      BY <1>2, <3>4 DEF MqHolders, Mq!Calls
    <3> QED
      BY <1>1, <1>3, <3>3, <3>5
  <2>2. \A u \in Threads : mq_call'[u].op = "recv" => content'[mq_call'[u].block] = mq_call'[u].mail
    BY <1>4, <1>5, <2>1
  <2> QED
    BY <1>4, <1>5, <2>2 DEF MqCopies
<1> QED
  BY <1>5, <1>10, <1>11

\* Both regions at once, in an interrupt.
LEMMA MqInterruptPlaces ==
  ASSUME NEW q, NEW f, MqPlaces(q, f), MqCopies, MqCalls, free # Mq!NULL, free' = next[free],
         NEW b, b = free, NEW m \in Mails, NEW op \in {"send", "urgent"}, Mq!Link(b, m, op),
         UNCHANGED <<mq_call, mq_received>>, NEW r, r = Linked(q, b, op)
  PROVE  MqPlaces(r, Tail(f))' /\ MqCopies' /\ content' = [content EXCEPT ![b] = m]
<1>1. /\ Mq!IsChain(next, q, head) /\ Mq!IsChain(next, f, free)
      /\ Elements(q) \cap Elements(f) = {}
      /\ \A u \in MqHolders : mq_call[u].block \notin Elements(q) \cup Elements(f)
      /\ \A u, v \in MqHolders : mq_call[u].block = mq_call[v].block => u = v
      /\ Len(q) + Len(f) + Cardinality(MqHolders) = MqSize
      /\ mq_entry = Len(q) /\ tail = LastOf(q)
  BY DEF MqPlaces
<1>2. /\ b \in Mq!Blocks /\ b \in Elements(f) /\ Mq!IsChain(next, Tail(f), next[free])
      /\ Elements(Tail(f)) = Elements(f) \ {b} /\ Len(Tail(f)) = Len(f) - 1
  BY <1>1, ChainTail
<1> DEFINE g == Tail(f)
<1>3. /\ b \notin Elements(q) /\ b \notin Elements(g) /\ Elements(q) \cap Elements(g) = {}
      /\ Elements(g) \subseteq Elements(f) /\ Len(g) = Len(f) - 1
      /\ Mq!IsChain(next, g, next[free])
  BY <1>1, <1>2
<1> HIDE DEF g
<1>4. /\ next \in [Mq!Blocks -> Mq!Blocks \cup {Mq!NULL}]
      /\ content \in [Mq!Blocks -> Mails \cup {None}] /\ mq_received \in Mails \cup {None}
      /\ \A u \in Threads : mq_call[u].op = "recv" => content[mq_call[u].block] = mq_call[u].mail
  BY DEF MqCopies
<1>5. /\ Mq!IsChain(next', r, head') /\ Mq!IsChain(next', g, next[free])
      /\ Elements(r) = Elements(q) \cup {b} /\ Len(r) = Len(q) + 1
      /\ mq_entry' = Len(r) /\ tail' = LastOf(r)
      /\ next' \in [Mq!Blocks -> Mq!Blocks \cup {Mq!NULL}]
      /\ content' = [content EXCEPT ![b] = m]
      /\ content' \in [Mq!Blocks -> Mails \cup {None}]
  <2>1. /\ Mq!IsChain(next, q, head) /\ Mq!IsChain(next, g, next[free])
        /\ mq_entry = Len(q) /\ tail = LastOf(q) /\ Elements(q) \cap Elements(g) = {}
        /\ b \in Mq!Blocks /\ b \notin Elements(q) /\ b \notin Elements(g)
        /\ next \in [Mq!Blocks -> Mq!Blocks \cup {Mq!NULL}]
        /\ content \in [Mq!Blocks -> Mails \cup {None}]
        /\ Mq!Link(b, m, op) /\ r = Linked(q, b, op)
    BY <1>1, <1>2, <1>3, <1>4
  <2> QED
    BY <2>1, MqLinks
<1>6. MqHolders' = MqHolders /\ \A u \in MqHolders : mq_call[u].block # b
  BY <1>1, <1>2 DEF MqHolders
<1>7. /\ Elements(r) \cap Elements(g) = {}
      /\ \A u \in MqHolders' : mq_call'[u].block \notin Elements(r) \cup Elements(g)
      /\ \A u, v \in MqHolders' : mq_call'[u].block = mq_call'[v].block => u = v
  BY <1>1, <1>3, <1>5, <1>6
<1>8. Len(r) + Len(g) + Cardinality(MqHolders') = MqSize
  <2>1. Len(q) \in Nat /\ Len(f) \in Nat /\ Cardinality(MqHolders) \in Nat
    BY <1>1, ChainShape, MqHoldersCount
  <2> QED
    BY <1>1, <1>3, <1>5, <1>6, <2>1
<1>9. MqPlaces(r, g)'
  BY <1>5, <1>7, <1>8 DEF MqPlaces
<1>10. MqCopies'
  <2>1. \A u \in Threads : mq_call[u].op = "recv" =>
          mq_call[u].block # b /\ mq_call[u].block \in Mq!Blocks
    <3>1. TAKE u \in Threads
    <3>2. HAVE mq_call[u].op = "recv"
    <3>3. mq_call[u].block # Mq!NULL
      BY <3>2 DEF MqCalls
    <3>4. u \in MqHolders /\ mq_call[u].block \in Mq!Blocks
      BY <3>3 DEF MqHolders, MqCalls, Mq!Calls
    <3> QED
      BY <1>6, <3>4
  <2>2. \A u \in Threads : mq_call'[u].op = "recv" => content'[mq_call'[u].block] = mq_call'[u].mail
    BY <1>4, <1>5, <2>1
  <2> QED
    BY <1>4, <1>5, <2>2 DEF MqCopies
<1> QED
  BY <1>5, <1>9, <1>10 DEF g

\* rt_mq_recv takes the first message off: t has its block.
LEMMA MqTakeOffPlaces ==
  ASSUME NEW q, NEW f, MqPlaces(q, f), MqCopies, mq_call \in [Threads -> Mq!Calls],
         NEW t \in Threads, mq_call[t].block = Mq!NULL, mq_entry > 0, Mq!TakeOff(t)
  PROVE  /\ MqPlaces(Tail(q), f)' /\ MqCopies'
         /\ q # << >> /\ mq_received' = content[Head(q)] /\ content' = content
         /\ mq_entry' = mq_entry - 1
         /\ \E c \in Mq!Calls : /\ c.op = "recv" /\ c.block # Mq!NULL
                                /\ mq_call' = [mq_call EXCEPT ![t] = c]
<1>1. /\ Mq!IsChain(next, q, head) /\ Mq!IsChain(next, f, free)
      /\ Elements(q) \cap Elements(f) = {}
      /\ \A u \in MqHolders : mq_call[u].block \notin Elements(q) \cup Elements(f)
      /\ \A u, v \in MqHolders : mq_call[u].block = mq_call[v].block => u = v
      /\ Len(q) + Len(f) + Cardinality(MqHolders) = MqSize
      /\ mq_entry = Len(q) /\ tail = LastOf(q)
  BY DEF MqPlaces
<1>2. head # Mq!NULL /\ Len(q) \in Nat /\ Len(f) \in Nat
  <2>1. /\ Len(q) \in Nat /\ Len(f) \in Nat /\ (q = << >> <=> Len(q) = 0)
        /\ head = (IF q = << >> THEN Mq!NULL ELSE q[1])
        /\ \A i \in 1..Len(q) : q[i] # Mq!NULL
    BY <1>1, ChainShape
  <2>2. 1 \in 1..Len(q) /\ Len(q) # 0
    BY <1>1, <2>1
  <2> QED
    BY <2>1, <2>2
<1>3. /\ head \in Mq!Blocks /\ head \in Elements(q) /\ q # << >> /\ head = Head(q)
      /\ Mq!IsChain(next, Tail(q), next[head])
      /\ Elements(Tail(q)) = Elements(q) \ {head} /\ Len(Tail(q)) = Len(q) - 1
      /\ LastOf(Tail(q)) = IF LastOf(q) = head THEN Mq!NULL ELSE LastOf(q)
  BY <1>1, <1>2, ChainTail
<1> DEFINE r == Tail(q)
           c == [Mq!NoCall EXCEPT !.op = "recv", !.block = head, !.mail = content[head]]
<1>4. /\ head' = next[head] /\ tail' = (IF tail = head THEN Mq!NULL ELSE tail)
      /\ mq_entry' = mq_entry - 1 /\ mq_received' = content[head]
      /\ mq_call' = [mq_call EXCEPT ![t] = c]
      /\ UNCHANGED <<next, content, free>>
  BY DEF Mq!TakeOff
<1>5. /\ next \in [Mq!Blocks -> Mq!Blocks \cup {Mq!NULL}]
      /\ content \in [Mq!Blocks -> Mails \cup {None}] /\ content[head] \in Mails \cup {None}
      /\ \A u \in Threads : mq_call[u].op = "recv" => content[mq_call[u].block] = mq_call[u].mail
  BY <1>3 DEF MqCopies
<1>6. c \in Mq!Calls /\ c.op = "recv" /\ c.block = head /\ c.mail = content[head]
  BY <1>3, <1>5, MqConstants DEF Mq!NoCall, Mq!Calls
<1> HIDE DEF r, c
<1>7. /\ MqHolders' = MqHolders \cup {t} /\ Cardinality(MqHolders') = Cardinality(MqHolders) + 1
      /\ mq_call'[t] = c /\ \A u \in Threads : u # t => mq_call'[u] = mq_call[u]
  <2>1. t \notin MqHolders /\ c.block # Mq!NULL
    BY <1>2, <1>6 DEF MqHolders
  <2> QED
    BY <1>4, <1>6, <2>1, MqHolds
<1>8. \A u \in MqHolders' :
        \/ u = t /\ mq_call'[u].block = head
        \/ u # t /\ u \in MqHolders /\ mq_call'[u].block = mq_call[u].block
  BY <1>6, <1>7, MqHoldersCount
<1>9. /\ Elements(r) \cap Elements(f) = {}
      /\ \A u \in MqHolders' : mq_call'[u].block \notin Elements(r) \cup Elements(f)
      /\ \A u, v \in MqHolders' : mq_call'[u].block = mq_call'[v].block => u = v
  BY <1>1, <1>3, <1>8 DEF r
<1>10. Len(r) + Len(f) + Cardinality(MqHolders') = MqSize
  <2>1. Cardinality(MqHolders) \in Nat /\ Len(r) = Len(q) - 1
    BY <1>3, MqHoldersCount DEF r
  <2> QED
    BY <1>1, <1>2, <1>7, <2>1
<1>11. /\ Mq!IsChain(next', r, head') /\ Mq!IsChain(next', f, free')
       /\ mq_entry' = Len(r) /\ tail' = LastOf(r)
  BY <1>1, <1>3, <1>4 DEF r
<1>12. MqPlaces(r, f)'
  BY <1>9, <1>10, <1>11 DEF MqPlaces, r
<1>13. MqCopies'
  <2>1. \A u \in Threads : mq_call'[u].op = "recv" => content'[mq_call'[u].block] = mq_call'[u].mail
    BY <1>4, <1>5, <1>6, <1>7
  <2> QED
    BY <1>4, <1>5, <2>1 DEF MqCopies
<1> QED
  BY <1>2, <1>3, <1>4, <1>6, <1>12, <1>13 DEF r

\* The message has been copied, the block goes back.
LEMMA MqFreesPlaces ==
  ASSUME NEW q, NEW f, MqPlaces(q, f), MqCopies, MqCalls,
         NEW t \in Threads, NEW b, b = mq_call[t].block, mq_call[t].op = "recv",
         next' = [next EXCEPT ![b] = free], free' = b,
         mq_call' = [mq_call EXCEPT ![t] = Mq!NoCall],
         UNCHANGED <<content, head, tail, mq_entry, mq_received>>
  PROVE  MqPlaces(q, <<b>> \o f)' /\ MqCopies'
<1>1. /\ Mq!IsChain(next, q, head) /\ Mq!IsChain(next, f, free)
      /\ Elements(q) \cap Elements(f) = {}
      /\ \A u \in MqHolders : mq_call[u].block \notin Elements(q) \cup Elements(f)
      /\ \A u, v \in MqHolders : mq_call[u].block = mq_call[v].block => u = v
      /\ Len(q) + Len(f) + Cardinality(MqHolders) = MqSize
      /\ mq_entry = Len(q) /\ tail = LastOf(q)
  BY DEF MqPlaces
<1>2. mq_call \in [Threads -> Mq!Calls] /\ mq_call[t].block # Mq!NULL
  BY DEF MqCalls
<1>3. t \in MqHolders /\ b \in Mq!Blocks /\ b \notin Elements(q) /\ b \notin Elements(f)
  BY <1>1, <1>2 DEF MqHolders, Mq!Calls
<1>4. /\ next \in [Mq!Blocks -> Mq!Blocks \cup {Mq!NULL}]
      /\ \A u \in Threads : mq_call[u].op = "recv" => content[mq_call[u].block] = mq_call[u].mail
  BY DEF MqCopies
<1>5. /\ next'[b] = free /\ free \in Mq!Blocks \cup {Mq!NULL}
      /\ \A d \in Elements(q) : next'[d] = next[d]
      /\ \A d \in Elements(f) : next'[d] = next[d]
  <2>1. /\ \A i \in 1..Len(q) : q[i] \in Mq!Blocks
        /\ \A i \in 1..Len(f) : f[i] \in Mq!Blocks
        /\ Len(f) \in Nat /\ free = (IF f = << >> THEN Mq!NULL ELSE f[1])
        /\ f = << >> <=> Len(f) = 0
    BY <1>1, ChainShape
  <2>2. Len(f) # 0 => 1 \in 1..Len(f)
    BY <2>1
  <2>3. /\ \A d \in Elements(q) : d \in Mq!Blocks /\ d # b
        /\ \A d \in Elements(f) : d \in Mq!Blocks /\ d # b
    BY <1>3, <2>1 DEF Elements
  <2>4. free \in Mq!Blocks \cup {Mq!NULL}
    BY <2>1, <2>2
  <2>5. next'[b] = free /\ \A d \in Mq!Blocks : d # b => next'[d] = next[d]
    BY <1>3, <1>4
  <2> QED
    BY <2>3, <2>4, <2>5
<1> DEFINE g == <<b>> \o f
<1>6. /\ Mq!IsChain(next', g, b) /\ Mq!IsChain(next', q, head)
      /\ Elements(g) = Elements(f) \cup {b} /\ Len(g) = Len(f) + 1
  <2>1. Mq!IsChain(next', q, head)
    <3>1. Mq!IsChain(next, q, head) /\ \A d \in Elements(q) : next'[d] = next[d]
      BY <1>1, <1>5
    <3> QED
      BY <3>1, ChainKept
  <2>2. /\ Mq!IsChain(next', g, b)
        /\ Elements(g) = Elements(f) \cup {b} /\ Len(g) = Len(f) + 1
    <3>1. Mq!IsChain(next, f, free) /\ Pushes(next, next', f, free, b) /\ g = Pushed(b, f)
      BY <1>1, <1>3, <1>5 DEF Pushes, Pushed
    <3> HIDE DEF g
    <3> QED
      BY <3>1, ChainPushed
  <2> QED
    BY <2>1, <2>2
<1> HIDE DEF g
<1>7. /\ MqHolders' = MqHolders \ {t} /\ Cardinality(MqHolders') = Cardinality(MqHolders) - 1
      /\ mq_call'[t] = Mq!NoCall /\ \A u \in Threads : u # t => mq_call'[u] = mq_call[u]
  BY <1>2, <1>3, MqHolds, MqNoCall
<1>8. \A u \in MqHolders' : u \in MqHolders /\ u # t /\ mq_call'[u] = mq_call[u]
                            /\ mq_call[u].block # b
  BY <1>1, <1>3, <1>7, MqHoldersCount
<1>9. /\ Elements(q) \cap Elements(g) = {}
      /\ \A u \in MqHolders' : mq_call'[u].block \notin Elements(q) \cup Elements(g)
      /\ \A u, v \in MqHolders' : mq_call'[u].block = mq_call'[v].block => u = v
  BY <1>1, <1>3, <1>6, <1>8
<1>10. Len(q) + Len(g) + Cardinality(MqHolders') = MqSize
  <2>1. Len(q) \in Nat /\ Len(f) \in Nat /\ Cardinality(MqHolders) \in Nat
    BY <1>1, ChainShape, MqHoldersCount
  <2> QED
    BY <1>1, <1>6, <1>7, <2>1
<1>11. MqPlaces(q, g)'
  BY <1>1, <1>6, <1>9, <1>10 DEF MqPlaces, g
<1>12. MqCopies'
  <2>1. \A u \in Threads : mq_call'[u].op = "recv" => content'[mq_call'[u].block] = mq_call'[u].mail
    BY <1>4, <1>7, MqNoCall
  <2>2. next' \in [Mq!Blocks -> Mq!Blocks \cup {Mq!NULL}]
    BY <1>4, <1>5
  <2> QED
    BY <2>1, <2>2 DEF MqCopies
<1> QED
  BY <1>11, <1>12 DEF g

\* A reset pushes the queue on the free list.
LEMMA MqResetPlaces ==
  ASSUME NEW q, NEW f, MqPlaces(q, f), MqCopies, MqCalls, Mq!Reset
  PROVE  (\E g : MqPlaces(<< >>, g)') /\ MqCopies'
<1>1. /\ Mq!IsChain(next, q, head) /\ Mq!IsChain(next, f, free)
      /\ Elements(q) \cap Elements(f) = {}
      /\ \A u \in MqHolders : mq_call[u].block \notin Elements(q) \cup Elements(f)
      /\ \A u, v \in MqHolders : mq_call[u].block = mq_call[v].block => u = v
      /\ Len(q) + Len(f) + Cardinality(MqHolders) = MqSize
  BY DEF MqPlaces
<1>2. Mq!LinkedFrom(head) = q
  BY <1>1, LinkedByChain DEF Mq!LinkedFrom
<1>3. /\ NoRepeat(q) /\ Len(q) \in Nat /\ Len(f) \in Nat
      /\ q = << >> <=> Len(q) = 0
      /\ \A i \in 1..Len(q) : q[i] \in Mq!Blocks
      /\ \A i \in 1..Len(f) : f[i] \in Mq!Blocks
      /\ free = (IF f = << >> THEN Mq!NULL ELSE f[1])
      /\ f = << >> <=> Len(f) = 0
  BY <1>1, ChainShape
<1> DEFINE Before(b) == IF b = q[1] THEN free
                        ELSE q[(CHOOSE i \in 2..Len(q) : q[i] = b) - 1]
<1>4. /\ next' = [b \in Mq!Blocks |-> IF b \in Elements(q) THEN Before(b) ELSE next[b]]
      /\ free' = (IF q = << >> THEN free ELSE q[Len(q)])
      /\ head' = Mq!NULL /\ tail' = Mq!NULL /\ mq_entry' = 0
      /\ UNCHANGED <<content, mq_call, mq_received>>
  BY <1>2, MqIpc DEF Mq!Reset
<1>5. \A i \in 1..Len(q) : Before(q[i]) = IF i = 1 THEN free ELSE q[i - 1]
  <2>1. TAKE i \in 1..Len(q)
  <2>2. CASE i = 1
    BY <2>2
  <2>3. CASE i # 1
    <3>1. i \in 2..Len(q) /\ 1 \in 1..Len(q) /\ q[i] # q[1]
      BY <1>3, <2>3 DEF NoRepeat
    <3> DEFINE j == CHOOSE k \in 2..Len(q) : q[k] = q[i]
    <3>2. j \in 2..Len(q) /\ q[j] = q[i]
      BY <3>1
    <3>3. j \in 1..Len(q)
      BY <1>3, <3>2
    <3> HIDE DEF j
    <3>4. j = i
      BY <1>3, <3>2, <3>3 DEF NoRepeat
    <3>5. Before(q[i]) = q[j - 1]
      BY <3>1 DEF j
    <3> QED
      BY <2>3, <3>4, <3>5
  <2> QED
    BY <2>2, <2>3
<1> HIDE DEF Before
<1>6. /\ \A i \in 1..Len(q) : next'[q[i]] = IF i = 1 THEN free ELSE q[i - 1]
      /\ \A d \in Elements(f) : next'[d] = next[d]
  <2>1. \A i \in 1..Len(q) : q[i] \in Elements(q)
    BY DEF Elements
  <2>2. \A d \in Elements(f) : d \in Mq!Blocks /\ d \notin Elements(q)
    BY <1>1, <1>3 DEF Elements
  <2> QED
    BY <1>3, <1>4, <1>5, <2>1, <2>2
<1>7. PICK g : /\ Mq!IsChain(next', g, free')
               /\ Elements(g) = Elements(q) \cup Elements(f) /\ Len(g) = Len(q) + Len(f)
  <2>1. /\ Mq!IsChain(next, q, head) /\ Mq!IsChain(next, f, free)
        /\ Reverses(next, next', q, f, free)
        /\ free' = (IF q = << >> THEN free ELSE q[Len(q)])
    BY <1>1, <1>4, <1>6 DEF Reverses
  <2> QED
    BY <2>1, ChainReversed
<1>8. /\ Mq!IsChain(next', << >>, head') /\ LastOf(<< >>) = Mq!NULL
      /\ Elements(<< >>) = {} /\ Len(<< >>) = 0
  BY <1>4, EmptyChain
<1>9. MqHolders' = MqHolders
  BY <1>4 DEF MqHolders
<1>10. Len(<< >>) + Len(g) + Cardinality(MqHolders') = MqSize
  <2>1. Cardinality(MqHolders) \in Nat
    BY MqHoldersCount
  <2> QED
    BY <1>1, <1>3, <1>7, <1>8, <1>9, <2>1
<1>11. MqPlaces(<< >>, g)'
  BY <1>1, <1>4, <1>7, <1>8, <1>9, <1>10 DEF MqPlaces
<1>12. next' \in [Mq!Blocks -> Mq!Blocks \cup {Mq!NULL}]
  <2>1. next \in [Mq!Blocks -> Mq!Blocks \cup {Mq!NULL}] /\ free \in Mq!Blocks \cup {Mq!NULL}
    <3>1. Len(f) # 0 => 1 \in 1..Len(f)
      BY <1>3
    <3> QED
      BY <1>3, <3>1 DEF MqCopies
  <2>2. \A b \in Elements(q) : Before(b) \in Mq!Blocks \cup {Mq!NULL}
    <3>1. TAKE b \in Elements(q)
    <3>2. PICK i \in 1..Len(q) : b = q[i]
      BY DEF Elements
    <3>3. i # 1 => i - 1 \in 1..Len(q)
      BY <1>3
    <3> QED
      BY <1>3, <1>5, <2>1, <3>2, <3>3
  <2> QED
    BY <1>4, <2>1, <2>2
<1>13. MqCopies'
  BY <1>4, <1>12 DEF MqCopies
<1> QED
  BY <1>11, <1>13
-----------------------------------------------------------------------------
(* Message queues: the steps.                                              *)

MqAll == IpcInv /\ MqPlaced /\ MqCopies /\ MqCalls /\ MqServed

\* A block is taken, or given back.
LEMMA MqSendTakes ==
  ASSUME MqAll, NEW t \in Threads, NEW m \in Mails, NEW op \in {"send", "urgent"},
         Mq!SendTakes(t, m, op)
  PROVE  MqAll'
<1>0. IpcInv /\ MqPlaced /\ MqCopies /\ MqCalls /\ MqServed
  BY DEF MqAll
<1> DEFINE c == [Mq!NoCall EXCEPT !.op = op, !.block = free, !.mail = m]
<1>1. /\ teardown[MqReceivers] = "live" /\ mq_call[t] = Mq!NoCall /\ free # Mq!NULL
      /\ free' = next[free] /\ mq_call' = [mq_call EXCEPT ![t] = c]
      /\ UNCHANGED <<next, content, head, tail, mq_entry, mq_received>>
      /\ UNCHANGED <<stat, error, thread_timer, suspend_thread, teardown, fault>>
  BY DEF Mq!SendTakes, Mq!Idle, Mq!Live, Mq!ipcVars
<1>2. free \in Mq!Blocks /\ mq_entry \in Nat
  BY <1>0, <1>1, MqPlacesTypes
<1>3. /\ c \in Mq!Calls /\ c.op \notin {"none", "recv", "wait"}
      /\ c.block = free /\ c.mail \in Mails
  BY <1>2 DEF Mq!NoCall, Mq!Calls
<1> HIDE DEF c
<1>4. stat[t] = "ready" /\ t \notin MqWoken /\ mq_call[t].block = Mq!NULL
      /\ error \in [Threads -> Errors] /\ mq_call \in [Threads -> Mq!Calls]
  BY <1>0, <1>1, MqNoCall, MqShape DEF MqCalls, MqWoken
<1>5. IpcInv' /\ MqCalls' /\ MqServed'
  <2>1. /\ c.op # "wait" /\ (c.op = "none" => c = Mq!NoCall)
        /\ c.block = Mq!NULL <=> c.op = "none"
        /\ c.op \in {"send", "urgent"} => c.mail \in Mails
        /\ teardown[MqReceivers] # "live" => c.op = "none"
    BY <1>1, <1>2, <1>3
  <2>2. /\ error' \in [Threads -> Errors] /\ \A u \in Threads : u # t => error'[u] = error[u]
        /\ UNCHANGED <<stat, thread_timer, suspend_thread, teardown, fault>>
        /\ mq_entry' \in Nat /\ mq_entry' <= mq_entry
        /\ t \in MqWoken => mq_entry' = 0 \/ mq_entry' = mq_entry - 1
    BY <1>1, <1>2, <1>4
  <2> QED
    BY <1>0, <1>1, <1>2, <1>3, <1>4, <2>1, <2>2, MqGoesOn
<1>6. PICK q, f : MqPlaces(q, f)
  BY <1>0 DEF MqPlaced
<1>7. MqPlaces(q, Tail(f))' /\ MqCopies'
  BY <1>0, <1>1, <1>3, <1>4, <1>6, MqTakesPlaces
<1> QED
  BY <1>5, <1>7 DEF MqAll, MqPlaced

LEMMA MqRecvFrees ==
  ASSUME MqAll, NEW t \in Threads, Mq!RecvFrees(t)
  PROVE  MqAll'
<1>0. IpcInv /\ MqPlaced /\ MqCopies /\ MqCalls /\ MqServed
  BY DEF MqAll
<1>1. /\ mq_call[t].op = "recv"
      /\ next' = [next EXCEPT ![mq_call[t].block] = free] /\ free' = mq_call[t].block
      /\ mq_call' = [mq_call EXCEPT ![t] = Mq!NoCall]
      /\ UNCHANGED <<content, head, tail, mq_entry, mq_received>>
      /\ UNCHANGED <<stat, error, thread_timer, suspend_thread, teardown, fault>>
  BY DEF Mq!RecvFrees, Mq!ipcVars
<1>2. mq_entry \in Nat
  BY <1>0, MqPlacesTypes
<1>3. stat[t] = "ready" /\ t \notin MqWoken /\ error \in [Threads -> Errors]
  BY <1>0, <1>1, MqShape DEF MqCalls, MqWoken
<1>4. IpcInv' /\ MqCalls' /\ MqServed'
  <2>1. /\ Mq!NoCall.op # "wait" /\ Mq!NoCall.op = "none"
        /\ Mq!NoCall.block = Mq!NULL <=> Mq!NoCall.op = "none"
        /\ Mq!NoCall.op \in {"send", "urgent"} => Mq!NoCall.mail \in Mails
        /\ teardown[MqReceivers] # "live" => Mq!NoCall.op = "none"
    BY MqNoCall
  <2>2. /\ error' \in [Threads -> Errors] /\ \A u \in Threads : u # t => error'[u] = error[u]
        /\ UNCHANGED <<stat, thread_timer, suspend_thread, teardown, fault>>
        /\ mq_entry' \in Nat /\ mq_entry' <= mq_entry
        /\ t \in MqWoken => mq_entry' = 0 \/ mq_entry' = mq_entry - 1
    BY <1>1, <1>2, <1>3
  <2> QED
    BY <1>0, <1>1, <1>2, <1>3, MqNoCall, <2>1, <2>2, MqGoesOn
<1>5. PICK q, f : MqPlaces(q, f)
  BY <1>0 DEF MqPlaced
<1>6. PICK b : b = mq_call[t].block
  OBVIOUS
<1>7. MqPlaces(q, <<b>> \o f)' /\ MqCopies'
  BY <1>0, <1>1, <1>5, <1>6, MqFreesPlaces
<1> QED
  BY <1>4, <1>7 DEF MqAll, MqPlaced

\* A message is linked, in a region of the sender or of an interrupt.
LEMMA MqSendLinks ==
  ASSUME MqAll, NEW t \in Threads, Mq!SendLinks(t)
  PROVE  MqAll'
<1>0. IpcInv /\ MqPlaced /\ MqCopies /\ MqCalls /\ MqServed
  BY DEF MqAll
<1>1. /\ mq_call[t].op \in {"send", "urgent"}
      /\ Mq!Link(mq_call[t].block, mq_call[t].mail, mq_call[t].op)
      /\ ResumeFirst(MqReceivers)
      /\ mq_call' = [mq_call EXCEPT ![t] = Mq!NoCall] /\ UNCHANGED <<free, mq_received>>
  BY MqIpc DEF Mq!SendLinks, Mq!WakeReceiver
<1>2. mq_entry \in Nat /\ mq_entry' = mq_entry + 1
  BY <1>0, <1>1, MqPlacesTypes DEF Mq!Link, Mq!LinkLast, Mq!LinkFirst
<1>3. IpcInv' /\ MqCalls' /\ MqServed'
  BY <1>0, <1>1, <1>2, MqWakes
<1>4. PICK q, f : MqPlaces(q, f)
  BY <1>0 DEF MqPlaced
<1>5. PICK b : b = mq_call[t].block
  OBVIOUS
<1>6. PICK r : r = Linked(q, b, mq_call[t].op)
  OBVIOUS
<1>7. MqPlaces(r, f)' /\ MqCopies'
  BY <1>0, <1>1, <1>4, <1>5, <1>6, MqLinksPlaces
<1> QED
  BY <1>3, <1>7 DEF MqAll, MqPlaced

LEMMA MqInterruptSends ==
  ASSUME MqAll, NEW m \in Mails, NEW op \in {"send", "urgent"}, Mq!InterruptSends(m, op)
  PROVE  MqAll'
<1>0. IpcInv /\ MqPlaced /\ MqCopies /\ MqCalls /\ MqServed
  BY DEF MqAll
<1>1. /\ teardown[MqReceivers] = "live" /\ free # Mq!NULL /\ free' = next[free]
      /\ Mq!Link(free, m, op) /\ ResumeFirst(MqReceivers) /\ UNCHANGED <<mq_received, mq_call>>
  BY MqIpc DEF Mq!InterruptSends, Mq!WakeReceiver, Mq!Live
<1>2. mq_entry \in Nat /\ mq_entry' = mq_entry + 1
  BY <1>0, <1>1, MqPlacesTypes DEF Mq!Link, Mq!LinkLast, Mq!LinkFirst
<1>3. IpcInv' /\ MqCalls' /\ MqServed'
  <2>1. PICK t : t = 0
    OBVIOUS
  <2> QED
    BY <1>0, <1>1, <1>2, MqWakes
<1>4. PICK q, f : MqPlaces(q, f)
  BY <1>0 DEF MqPlaced
<1>5. PICK b : b = free
  OBVIOUS
<1>6. PICK r : r = Linked(q, b, op)
  OBVIOUS
<1>7. MqPlaces(r, Tail(f))' /\ MqCopies'
  BY <1>0, <1>1, <1>4, <1>5, <1>6, MqInterruptPlaces
<1> QED
  BY <1>3, <1>7 DEF MqAll, MqPlaced

\* A message is taken off, by a call that begins or that was woken.
LEMMA MqRecvs ==
  ASSUME MqAll, NEW t \in Threads, Mq!Recv(t) \/ Mq!RecvWoken(t)
  PROVE  MqAll'
<1>0. IpcInv /\ MqPlaced /\ MqCopies /\ MqCalls /\ MqServed
  BY DEF MqAll
<1>1. /\ \/ teardown[MqReceivers] = "live" /\ mq_call[t] = Mq!NoCall
         \/ t \in MqWoken
      /\ mq_entry > 0 /\ Mq!TakeOff(t)
      /\ UNCHANGED <<stat, error, thread_timer, suspend_thread, teardown, fault>>
  BY DEF Mq!Recv, Mq!RecvWoken, Mq!Idle, Mq!Live, Mq!Woken, MqWoken, Mq!ipcVars
<1>2. /\ mq_call \in [Threads -> Mq!Calls] /\ mq_call[t].block = Mq!NULL
      /\ stat[t] = "ready" /\ teardown[MqReceivers] = "live" /\ error \in [Threads -> Errors]
  BY <1>0, <1>1, MqNoCall, MqShape DEF MqCalls, MqWoken
<1>3. PICK q, f : MqPlaces(q, f)
  BY <1>0 DEF MqPlaced
<1>4. /\ MqPlaces(Tail(q), f)' /\ MqCopies' /\ mq_entry' = mq_entry - 1
      /\ \E c \in Mq!Calls : /\ c.op = "recv" /\ c.block # Mq!NULL
                             /\ mq_call' = [mq_call EXCEPT ![t] = c]
  BY <1>0, <1>1, <1>2, <1>3, MqTakeOffPlaces
<1>5. mq_entry \in Nat /\ mq_entry' \in Nat /\ mq_entry' <= mq_entry
  BY <1>0, <1>1, <1>4, MqPlacesTypes
<1>6. PICK c \in Mq!Calls : /\ c.op = "recv" /\ c.block # Mq!NULL
                            /\ mq_call' = [mq_call EXCEPT ![t] = c]
  BY <1>4
<1>7. IpcInv' /\ MqCalls' /\ MqServed'
  BY <1>0, <1>1, <1>2, <1>4, <1>5, <1>6, MqGoesOn
<1> QED
  BY <1>4, <1>7 DEF MqAll, MqPlaced

\* A call waits, or is answered with an error.
LEMMA MqRecvWaits ==
  ASSUME MqAll, NEW t \in Threads, Mq!RecvBlocks(t) \/ Mq!RecvRetries(t) \/ Mq!RecvReturnsError(t)
  PROVE  MqAll'
<1>0. IpcInv /\ MqPlaced /\ MqCopies /\ MqCalls /\ MqServed
  BY DEF MqAll
<1>1. PICK q, f : MqPlaces(q, f)
  BY <1>0 DEF MqPlaced
<1>2. /\ mq_call \in [Threads -> Mq!Calls] /\ error \in [Threads -> Errors]
      /\ mq_entry \in Nat
  BY <1>0, MqShape, MqPlacesTypes
<1>3. ASSUME UNCHANGED <<next, content, head, tail, free, mq_entry, mq_received>>,
             mq_call[t].op \in {"none", "wait"}, NEW c \in Mq!Calls, c.op \in {"none", "wait"},
             c.block = Mq!NULL, mq_call' = [mq_call EXCEPT ![t] = c]
      PROVE  MqPlaced' /\ MqCopies'
  <2>1. mq_call[t].block = Mq!NULL /\ mq_call[t].op # "recv"
    BY <1>0, <1>3 DEF MqCalls
  <2>2. \A u \in Threads : \/ mq_call'[u] = mq_call[u]
                           \/ /\ mq_call[u].op # "recv" /\ mq_call'[u].op # "recv"
                              /\ mq_call[u].block = Mq!NULL /\ mq_call'[u].block = Mq!NULL
    BY <1>2, <1>3, <2>1
  <2>3. MqPlaces(q, f)' /\ MqCopies'
    BY <1>0, <1>1, <1>3, <2>2, MqPlacesKept
  <2> QED
    BY <2>3 DEF MqPlaced
<1>4. ASSUME NEW time \in WaitTimes \cup {None}, Mq!Block(t, time), mq_entry = 0,
             teardown[MqReceivers] = "live",
             stat[t] = "ready", mq_call[t].op \in {"none", "wait"}
      PROVE  MqAll'
  <2>1. IpcInv' /\ MqCalls' /\ MqServed'
    BY <1>0, <1>4, MqBlock
  <2> DEFINE c == [Mq!NoCall EXCEPT !.op = "wait", !.time = time]
  <2>2. c \in Mq!Calls /\ c.op = "wait" /\ c.block = Mq!NULL
    BY <1>4, MqConstants, MqIpc DEF Mq!NoCall, Mq!Calls
  <2>3. /\ UNCHANGED <<next, content, head, tail, free, mq_entry, mq_received>>
        /\ mq_call' = [mq_call EXCEPT ![t] = c]
    BY <1>4 DEF Mq!Block, Mq!blockVars
  <2> HIDE DEF c
  <2>4. MqPlaced' /\ MqCopies'
    BY <1>3, <1>4, <2>2, <2>3
  <2> QED
    BY <2>1, <2>4 DEF MqAll
<1>5. ASSUME mq_call[t].op = "wait", stat[t] = "ready",
             t \in MqWoken => mq_entry = 0,
             mq_call' = [mq_call EXCEPT ![t] = Mq!NoCall],
             error' \in [Threads -> Errors], \A u \in Threads : u # t => error'[u] = error[u],
             UNCHANGED <<stat, thread_timer, suspend_thread, teardown, fault>>,
             UNCHANGED <<next, content, head, tail, free, mq_entry, mq_received>>
      PROVE  MqAll'
  <2>1. IpcInv' /\ MqCalls' /\ MqServed'
    <3>1. /\ Mq!NoCall.op # "wait" /\ Mq!NoCall.op = "none"
          /\ Mq!NoCall.block = Mq!NULL <=> Mq!NoCall.op = "none"
          /\ Mq!NoCall.op \in {"send", "urgent"} => Mq!NoCall.mail \in Mails
          /\ teardown[MqReceivers] # "live" => Mq!NoCall.op = "none"
      BY MqNoCall
    <3>2. /\ error' \in [Threads -> Errors] /\ \A u \in Threads : u # t => error'[u] = error[u]
          /\ UNCHANGED <<stat, thread_timer, suspend_thread, teardown, fault>>
          /\ mq_entry' \in Nat /\ mq_entry' <= mq_entry
          /\ t \in MqWoken => mq_entry' = 0 \/ mq_entry' = mq_entry - 1
      BY <1>2, <1>5
    <3> QED
      BY <1>0, <1>2, <1>5, MqNoCall, <3>1, <3>2, MqGoesOn
  <2>2. MqPlaced' /\ MqCopies'
    BY <1>3, <1>5, MqNoCall
  <2> QED
    BY <2>1, <2>2 DEF MqAll
<1>6. ASSUME Mq!RecvBlocks(t) PROVE MqAll'
  <2>1. /\ mq_call[t] = Mq!NoCall /\ teardown[MqReceivers] = "live" /\ mq_entry = 0
        /\ \E time \in WaitTimes \cup {None} : Mq!Block(t, time)
    BY <1>6, TimesAssumption DEF Mq!RecvBlocks, Mq!Idle, Mq!Live
  <2>2. mq_call[t].op = "none" /\ stat[t] = "ready"
    BY <1>0, <2>1, MqNoCall DEF MqCalls
  <2> QED
    BY <1>4, <2>1, <2>2
<1>7. ASSUME Mq!RecvRetries(t) PROVE MqAll'
  <2>1. /\ t \in MqWoken /\ mq_entry = 0 /\ mq_call[t].op = "wait" /\ stat[t] = "ready"
        /\ \E left \in LeftOf(mq_call[t].time) :
             \/ /\ mq_call' = [mq_call EXCEPT ![t] = Mq!NoCall]
                /\ error' = [error EXCEPT ![t] = "ETIMEOUT"]
                /\ UNCHANGED <<stat, thread_timer, suspend_thread, teardown, fault>>
                /\ UNCHANGED <<next, content, head, tail, free, mq_entry, mq_received>>
             \/ Mq!Block(t, left)
    BY <1>7, MqIpc DEF Mq!RecvRetries, Mq!Woken, MqWoken, Mq!blockVars
  <2>2. teardown[MqReceivers] = "live"
    BY <1>0, <2>1 DEF MqCalls
  <2>3. \A left \in LeftOf(mq_call[t].time) : left \in WaitTimes \cup {None}
    BY <1>2, MqIpc, LeftOfTimes DEF Mq!Calls, LeftOf, WaitTimes
  <2>4. CASE /\ mq_call' = [mq_call EXCEPT ![t] = Mq!NoCall]
             /\ error' = [error EXCEPT ![t] = "ETIMEOUT"]
             /\ UNCHANGED <<stat, thread_timer, suspend_thread, teardown, fault>>
             /\ UNCHANGED <<next, content, head, tail, free, mq_entry, mq_received>>
    <3>1. error' \in [Threads -> Errors] /\ \A u \in Threads : u # t => error'[u] = error[u]
      BY <1>2, <2>4 DEF Errors
    <3> QED
      BY <1>5, <2>1, <2>4, <3>1
  <2>5. ASSUME NEW left \in LeftOf(mq_call[t].time), Mq!Block(t, left) PROVE MqAll'
    BY <1>4, <2>1, <2>2, <2>3, <2>5
  <2> QED
    BY <2>1, <2>4, <2>5
<1>8. ASSUME Mq!RecvReturnsError(t) PROVE MqAll'
  <2>1. /\ mq_call[t].op = "wait" /\ stat[t] = "ready" /\ t \notin MqWoken
        /\ mq_call' = [mq_call EXCEPT ![t] = Mq!NoCall]
        /\ UNCHANGED <<stat, error, thread_timer, suspend_thread, teardown, fault>>
        /\ UNCHANGED <<next, content, head, tail, free, mq_entry, mq_received>>
    BY <1>8 DEF Mq!RecvReturnsError, MqWoken, Mq!blockVars, Mq!ipcVars
  <2> QED
    BY <1>2, <1>5, <2>1
<1> QED
  BY <1>6, <1>7, <1>8

LEMMA MqTimeout ==
  ASSUME MqAll, NEW t \in Threads, Mq!Timeout(t),
         \A l \in Lists \ {MqReceivers} : suspend_thread[l] = << >>
  PROVE  MqAll'
<1>0. /\ IpcInv /\ MqPlaced /\ MqCopies /\ MqCalls /\ MqServed
      /\ error \in [Threads -> Errors] /\ stat \in [Threads -> {"ready", "suspend"}]
      /\ \A l \in Lists : suspend_thread[l] \in Seq(Threads) /\ NoRepeat(suspend_thread[l])
      /\ MqReceivers \in Lists
  BY MqShape, MqConstants DEF MqAll
<1>1. /\ ThreadTimeout(t)
      /\ UNCHANGED <<next, content, head, tail, free, mq_entry, mq_received, mq_call>>
  BY MqIpc DEF Mq!Timeout, Mq!mqVars, Mq!blockVars
<1>2. IpcInv'
  BY <1>0, <1>1, ThreadTimeoutInv
<1>3. /\ stat' = [stat EXCEPT ![t] = "ready"]
      /\ error' = [error EXCEPT ![t] = "ETIMEOUT"]
      /\ suspend_thread'[MqReceivers] = Unlink(suspend_thread[MqReceivers], t)
      /\ teardown' = teardown /\ thread_timer[t]
  BY <1>0, <1>1 DEF ThreadTimeout
<1>4. t \in Elements(suspend_thread[MqReceivers])
  <2>1. stat[t] = "suspend"
    BY <1>0, <1>3 DEF IpcInv, ArmedOnlyWhileSuspended
  <2>2. PICK l \in Lists : t \in Elements(suspend_thread[l])
    BY <1>0, <2>1 DEF IpcInv, SuspendedIffWaiting, Waiting
  <2>3. Elements(<< >>) = {}
    BY EmptySeq DEF Elements
  <2> QED
    BY <2>2, <2>3
<1> DEFINE gone == {t}
<1>5. /\ Elements(suspend_thread'[MqReceivers]) \subseteq Elements(suspend_thread[MqReceivers]) \ gone
      /\ gone \subseteq Elements(suspend_thread[MqReceivers])
      /\ \A u \in Threads : u \notin gone => stat'[u] = stat[u] /\ error'[u] = error[u]
      /\ \A u \in Threads : u \in gone => stat'[u] = "ready" /\ error'[u] # "EOK"
  BY <1>0, <1>3, <1>4, UnlinkProperties
<1> HIDE DEF gone
<1>6. MqCalls' /\ MqServed'
  BY <1>0, <1>1, <1>2, <1>3, <1>5, MqDismissed
<1>7. MqPlaced' /\ MqCopies'
  BY <1>0, <1>1 DEF MqPlaced, MqPlaces, MqHolders, MqCopies
<1> QED
  BY <1>2, <1>6, <1>7 DEF MqAll

LEMMA MqReset ==
  ASSUME MqAll, Mq!Reset
  PROVE  MqAll'
<1>0. /\ IpcInv /\ MqPlaced /\ MqCopies /\ MqCalls /\ MqServed
      /\ error \in [Threads -> Errors] /\ stat \in [Threads -> {"ready", "suspend"}]
      /\ suspend_thread \in [Lists -> Seq(Threads)] /\ MqReceivers \in Lists
      /\ \A t \in Elements(suspend_thread[MqReceivers]) : t \in Threads
  BY MqShape, MqConstants DEF MqAll
<1>1. /\ ListResumeAll(MqReceivers) /\ mq_entry' = 0
      /\ UNCHANGED <<content, mq_call, mq_received>>
  BY MqIpc DEF Mq!Reset
<1>2. IpcInv'
  BY <1>0, <1>1, ListResumeAllInv
<1> DEFINE gone == Elements(suspend_thread[MqReceivers])
<1>3. /\ Elements(suspend_thread'[MqReceivers]) \subseteq Elements(suspend_thread[MqReceivers]) \ gone
      /\ gone \subseteq Elements(suspend_thread[MqReceivers])
      /\ \A u \in Threads : u \notin gone => stat'[u] = stat[u] /\ error'[u] = error[u]
      /\ \A u \in Threads : u \in gone => stat'[u] = "ready" /\ error'[u] # "EOK"
      /\ teardown' = teardown
  <2>1. Elements(<< >>) = {}
    BY EmptySeq DEF Elements
  <2> QED
    BY <1>0, <1>1, <2>1 DEF ListResumeAll
<1> HIDE DEF gone
<1>4. MqCalls' /\ MqServed'
  BY <1>0, <1>1, <1>2, <1>3, MqDismissed
<1>5. PICK q, f : MqPlaces(q, f)
  BY <1>0 DEF MqPlaced
<1>6. (\E g : MqPlaces(<< >>, g)') /\ MqCopies'
  BY <1>0, <1>5, MqResetPlaces
<1> QED
  BY <1>2, <1>4, <1>6 DEF MqAll, MqPlaced

LEMMA MqDelete ==
  ASSUME MqAll, Mq!Delete \/ Mq!DeleteStep
  PROVE  MqAll'
<1>0. /\ IpcInv /\ MqPlaced /\ MqCopies /\ MqCalls /\ MqServed
      /\ error \in [Threads -> Errors] /\ stat \in [Threads -> {"ready", "suspend"}]
      /\ suspend_thread \in [Lists -> Seq(Threads)] /\ teardown \in [Lists -> Teardown]
      /\ suspend_thread[MqReceivers] \in Seq(Threads) /\ NoRepeat(suspend_thread[MqReceivers])
      /\ MqReceivers \in Lists
      /\ \A t \in Elements(suspend_thread[MqReceivers]) : t \in Threads
  BY MqShape, MqConstants DEF MqAll
<1>1. /\ UNCHANGED <<next, content, head, tail, free, mq_entry, mq_received, mq_call>>
      /\ \/ /\ BeginTeardown(MqReceivers) /\ MqWoken = {}
            /\ \A t \in Threads : mq_call[t].op \in {"none", "wait"}
         \/ TeardownStep(MqReceivers)
  BY MqIpc DEF Mq!Delete, Mq!DeleteStep, Mq!mqVars, Mq!blockVars, MqWoken, Mq!Woken
<1>2. IpcInv'
  BY <1>0, <1>1, TeardownInv
<1>3. MqPlaced' /\ MqCopies'
  BY <1>0, <1>1 DEF MqPlaced, MqPlaces, MqHolders, MqCopies
<1>4. CASE /\ BeginTeardown(MqReceivers) /\ MqWoken = {}
           /\ \A t \in Threads : mq_call[t].op \in {"none", "wait"}
  <2>1. UNCHANGED <<stat, error, suspend_thread>> /\ MqWoken' = {}
    BY <1>1, <1>4 DEF BeginTeardown, MqWoken
  <2>2. MqCalls'
    BY <1>0, <1>1, <1>4, <2>1 DEF MqCalls
  <2>3. MqServed'
    BY <1>0, <1>1, <1>4, <2>1 DEF MqServed
  <2> QED
    BY <1>2, <1>3, <2>2, <2>3 DEF MqAll
<1>5. CASE TeardownStep(MqReceivers)
  <2>1. /\ teardown[MqReceivers] # "live"
        /\ \/ UNCHANGED <<stat, error, suspend_thread>>
           \/ /\ suspend_thread[MqReceivers] # << >>
              /\ stat' = [stat EXCEPT ![Head(suspend_thread[MqReceivers])] = "ready"]
              /\ error' = [error EXCEPT ![Head(suspend_thread[MqReceivers])] = "ERROR"]
              /\ suspend_thread' = [suspend_thread EXCEPT ![MqReceivers] =
                                      Tail(suspend_thread[MqReceivers])]
    BY <1>0, <1>5 DEF TeardownStep, TeardownTest, TeardownResume
  <2>2. CASE UNCHANGED <<stat, error, suspend_thread>>
    <3>1. MqWoken' = MqWoken
      BY <1>1, <2>2 DEF MqWoken
    <3>2. MqCalls' /\ MqServed'
      BY <1>0, <1>1, <2>1, <2>2, <3>1 DEF MqCalls, MqServed
    <3> QED
      BY <1>2, <1>3, <3>2 DEF MqAll
  <2>3. CASE /\ suspend_thread[MqReceivers] # << >>
             /\ stat' = [stat EXCEPT ![Head(suspend_thread[MqReceivers])] = "ready"]
             /\ error' = [error EXCEPT ![Head(suspend_thread[MqReceivers])] = "ERROR"]
             /\ suspend_thread' = [suspend_thread EXCEPT ![MqReceivers] =
                                     Tail(suspend_thread[MqReceivers])]
    <3> DEFINE h == Head(suspend_thread[MqReceivers])
               gone == {h}
    <3>1. /\ h \in Elements(suspend_thread[MqReceivers]) /\ h \in Threads
          /\ Elements(Tail(suspend_thread[MqReceivers])) = Elements(suspend_thread[MqReceivers]) \ {h}
      BY <1>0, <2>3, TailProperties
    <3>2. stat' = [stat EXCEPT ![h] = "ready"] /\ error' = [error EXCEPT ![h] = "ERROR"]
      BY <2>3
    <3> HIDE DEF h
    <3>3. /\ Elements(suspend_thread'[MqReceivers])
               \subseteq Elements(suspend_thread[MqReceivers]) \ gone
          /\ gone \subseteq Elements(suspend_thread[MqReceivers])
          /\ \A u \in Threads : u \notin gone => stat'[u] = stat[u] /\ error'[u] = error[u]
          /\ \A u \in Threads : u \in gone => stat'[u] = "ready" /\ error'[u] # "EOK"
      BY <1>0, <2>3, <3>1, <3>2
    <3> HIDE DEF gone
    <3>4. MqCalls' /\ MqServed'
      BY <1>0, <1>1, <1>2, <2>1, <3>3, MqDismissed
    <3> QED
      BY <1>2, <1>3, <3>4 DEF MqAll
  <2> QED
    BY <2>1, <2>2, <2>3
<1> QED
  BY <1>1, <1>4, <1>5

\* The message queue uses no list but its own.
LEMMA MqNext ==
  ASSUME Mq!Inv, \A l \in Lists \ {MqReceivers} : suspend_thread[l] = << >>, Mq!Next
  PROVE  Mq!Inv' /\ IpcInv'
<1>0. MqAll
  BY MqParts DEF MqAll
<1>1. ASSUME NEW m \in Mails, NEW op \in {"send", "urgent"},
             Mq!InterruptSends(m, op) \/ \E t \in Threads : Mq!SendTakes(t, m, op)
      PROVE  MqAll'
  BY <1>0, <1>1, MqInterruptSends, MqSendTakes
<1>2. ASSUME NEW t \in Threads,
             \/ Mq!SendLinks(t) \/ Mq!RecvFrees(t) \/ Mq!Recv(t) \/ Mq!RecvWoken(t)
      PROVE  MqAll'
  BY <1>0, <1>2, MqSendLinks, MqRecvFrees, MqRecvs
<1>3. ASSUME NEW t \in Threads,
             Mq!RecvBlocks(t) \/ Mq!RecvRetries(t) \/ Mq!RecvReturnsError(t)
      PROVE  MqAll'
  BY <1>0, <1>3, MqRecvWaits
<1>4. ASSUME NEW t \in Threads, Mq!Timeout(t) PROVE MqAll'
  BY <1>0, <1>4, MqTimeout
<1>5. ASSUME Mq!Reset PROVE MqAll'
  BY <1>0, <1>5, MqReset
<1>6. ASSUME Mq!Delete \/ Mq!DeleteStep PROVE MqAll'
  BY <1>0, <1>6, MqDelete
<1>7. MqAll'
  BY <1>1, <1>2, <1>3, <1>4, <1>5, <1>6 DEF Mq!Next
<1> QED
  BY <1>7, MqPartsNext DEF MqAll

\* All blocks are on the free list, the last of them first.
LEMMA MqInit == ASSUME Mq!Init PROVE Mq!Inv
<1>1. IpcInit /\ IpcInv
  BY IpcInitInv DEF Mq!Init, Mq!IpcInit, IpcInit
<1>2. /\ next = [b \in Mq!Blocks |-> b - 1]
      /\ content = [b \in Mq!Blocks |-> None]
      /\ head = Mq!NULL /\ tail = Mq!NULL /\ free = MqSize /\ mq_entry = 0
      /\ mq_call = [t \in Threads |-> Mq!NoCall] /\ mq_received = None
  BY DEF Mq!Init
<1>3. /\ Mq!Blocks = 1..MqSize /\ Mq!NULL = 0 /\ MqSize \in Nat \ {0} /\ MqReceivers \in Lists
  BY MqConstants
<1> DEFINE f == [i \in 1..MqSize |-> (MqSize + 1) - i]
<1>4. f \in Seq(Mq!Blocks) /\ Len(f) = MqSize /\ \A i \in 1..MqSize : f[i] = (MqSize + 1) - i
  <2>1. \A i \in 1..MqSize : (MqSize + 1) - i \in 1..MqSize
    BY <1>3
  <2>2. MqSize \in Nat /\ f \in [1..MqSize -> Mq!Blocks]
    BY <1>3, <2>1
  <2> QED
    BY <2>2
<1> HIDE DEF f
<1>5. Mq!IsChain(next, f, free)
  <2>1. NoRepeat(f)
    BY <1>3, <1>4 DEF NoRepeat
  <2>2. free = (IF f = << >> THEN Mq!NULL ELSE f[1])
    <3>1. f # << >> /\ 1 \in 1..MqSize /\ (MqSize + 1) - 1 = MqSize
      BY <1>3, <1>4, EmptySeq
    <3> QED
      BY <1>2, <1>4, <3>1
  <2>3. \A i \in 1..Len(f) : next[f[i]] = IF i = Len(f) THEN Mq!NULL ELSE f[i + 1]
    <3>1. TAKE i \in 1..Len(f)
    <3>2. f[i] = (MqSize + 1) - i /\ f[i] \in 1..MqSize
      <4>1. i \in 1..MqSize /\ f[i] = (MqSize + 1) - i
        BY <1>4
      <4> QED
        BY <1>3, <4>1
    <3>3. next[f[i]] = MqSize - i
      BY <1>2, <1>3, <1>4, <3>2
    <3>4. CASE i = Len(f)
      BY <1>3, <1>4, <3>3, <3>4
    <3>5. CASE i # Len(f)
      <4>1. i + 1 \in 1..MqSize
        BY <1>3, <1>4, <3>5
      <4>2. f[i + 1] = (MqSize + 1) - (i + 1)
        BY <1>4, <4>1
      <4> QED
        BY <1>3, <1>4, <3>3, <3>5, <4>2
    <3> QED
      BY <3>4, <3>5
  <2> QED
    BY <1>4, <2>1, <2>2, <2>3, MakeChain
<1>6. MqHolders = {} /\ Cardinality(MqHolders) = 0
  <2>1. MqHolders = {}
    BY <1>2, MqNoCall DEF MqHolders
  <2> QED
    BY <2>1, FS_EmptySet
<1>7. MqPlaces(<< >>, f)
  <2>1. /\ Mq!IsChain(next, << >>, head) /\ tail = LastOf(<< >>)
        /\ Elements(<< >>) = {} /\ Len(<< >>) = 0
    BY <1>2, EmptyChain
  <2>2. Len(<< >>) + Len(f) + Cardinality(MqHolders) = MqSize
    BY <1>3, <1>4, <1>6, <2>1
  <2> QED
    BY <1>2, <1>5, <1>6, <2>1, <2>2 DEF MqPlaces
<1>8. MqCopies
  <2>1. next \in [Mq!Blocks -> Mq!Blocks \cup {Mq!NULL}]
    BY <1>2, <1>3
  <2> QED
    BY <1>2, <2>1, MqNoCall DEF MqCopies
<1>9. /\ stat = [t \in Threads |-> "ready"] /\ suspend_thread[MqReceivers] = << >>
      /\ teardown[MqReceivers] = "live"
  BY <1>1, <1>3 DEF IpcInit
<1>10. MqCalls /\ MqServed
  <2>1. Elements(<< >>) = {}
    BY EmptySeq DEF Elements
  <2> QED
    BY <1>2, <1>9, <2>1, MqNoCall DEF MqCalls, MqServed
<1> QED
  BY <1>1, <1>7, <1>8, <1>10, MqParts DEF MqPlaced
-----------------------------------------------------------------------------
(* The message queue as a queue.                                           *)

\* What the blocks of the chain q hold.
MqContents(c, q) == [i \in 1..Len(q) |-> c[q[i]]]

MqQueueBar == MqContents(content, Mq!LinkedFrom(head))

LEMMA MqQueue ==
  ASSUME NEW q, NEW f, MqPlaces(q, f)
  PROVE  MqQueueBar = MqContents(content, q)
BY LinkedByChain DEF MqPlaces, Mq!LinkedFrom, MqQueueBar

LEMMA MqQueueNext ==
  ASSUME NEW q, NEW f, MqPlaces(q, f)'
  PROVE  MqQueueBar' = MqContents(content', q)
<1>1. Mq!IsChain(next', q, head')
  BY DEF MqPlaces
<1>2. Mq!LinkedBy(next', head') = q
  BY <1>1, LinkedByChain
<1> QED
  BY <1>2 DEF Mq!LinkedFrom, MqQueueBar

\* The block b has got m, and what the blocks of q hold stays.
MqFills(c, d, q, b, m) == d[b] = m /\ \A e \in Elements(q) : d[e] = c[e]

\* Linking a block adds its content at one end,
LEMMA MqContentsLinked ==
  ASSUME NEW q \in Seq(Mq!Blocks), NEW b \in Mq!Blocks, NEW c, NEW d, NEW m,
         MqFills(c, d, q, b, m), NEW op, NEW r, r = Linked(q, b, op)
  PROVE  /\ Len(MqContents(c, q)) = Len(q)
         /\ op = "send" => MqContents(d, r) = Append(MqContents(c, q), m)
         /\ op # "send" => MqContents(d, r) = <<m>> \o MqContents(c, q)
<1> DEFINE x == MqContents(c, q)
           y == MqContents(d, r)
           n == Len(q)
<1>1. /\ n \in Nat /\ \A i \in 1..n : q[i] \in Mq!Blocks /\ q[i] \in Elements(q)
      /\ Len(r) = n + 1
      /\ op = "send" => r[n + 1] = b /\ \A i \in 1..n : r[i] = q[i]
      /\ op # "send" => r[1] = b /\ \A i \in 2..(n + 1) : r[i] = q[i - 1]
  <2>1. n \in Nat /\ \A i \in 1..n : q[i] \in Mq!Blocks /\ q[i] \in Elements(q)
    BY ElementOfSeq, LenProperties DEF Elements
  <2>2. CASE op = "send"
    <3>1. r = Append(q, b)
      BY <2>2 DEF Linked
    <3> QED
      BY <2>1, <2>2, <3>1, AppendProperties
  <2>3. CASE op # "send"
    <3>1. r = <<b>> \o q
      BY <2>3 DEF Linked
    <3>2. <<b>> \in Seq(Mq!Blocks) /\ Len(<<b>>) = 1 /\ <<b>>[1] = b
      OBVIOUS
    <3> QED
      BY <2>1, <2>3, <3>1, <3>2, ConcatProperties
  <2> QED
    BY <2>1, <2>2, <2>3
<1> HIDE DEF n
<1>2. /\ x = [i \in 1..n |-> x[i]] /\ \A i \in 1..n : x[i] = c[q[i]]
      /\ y = [i \in 1..(n + 1) |-> y[i]] /\ \A i \in 1..(n + 1) : y[i] = d[r[i]]
      /\ 1 \in 1..(n + 1) /\ n + 1 \in 1..(n + 1)
  BY <1>1 DEF MqContents, n
<1>3. d[b] = m /\ \A i \in 1..n : d[q[i]] = c[q[i]]
  BY <1>1 DEF MqFills
<1> HIDE DEF x, y
<1>4. Len(x) = n
  <2>1. n \in Nat /\ x \in [1..n -> {x[i] : i \in 1..n}]
    BY <1>1, <1>2
  <2> QED
    BY <2>1, LenProperties, SeqDef
<1>5. n \in Nat /\ OfLength(x, n) /\ OfLength(y, n + 1)
  BY <1>1, <1>2 DEF OfLength
<1>6. CASE op = "send"
  <2>1. r[n + 1] = b /\ \A i \in 1..n : i \in 1..(n + 1) /\ r[i] = q[i]
    BY <1>1, <1>6
  <2>2. y[n + 1] = m
    BY <1>2, <1>3, <2>1
  <2>3. \A i \in 1..n : y[i] = x[i]
    BY <1>2, <1>3, <2>1
  <2>4. Extends(y, x, n, m)
    BY <1>5, <2>2, <2>3 DEF Extends
  <2>5. y = Append(x, m)
    BY <1>5, <2>4, SeqExtended
  <2> QED
    BY <1>4, <1>6, <2>5 DEF x, y, n
<1>7. CASE op # "send"
  <2>1. \A i \in 1..n : i + 1 \in 2..(n + 1) /\ i + 1 \in 1..(n + 1) /\ (i + 1) - 1 = i
    BY <1>1
  <2>2. r[1] = b /\ \A i \in 1..n : r[i + 1] = q[i]
    BY <1>1, <1>7, <2>1
  <2>3. y[1] = m
    BY <1>2, <1>3, <2>2
  <2>4. \A i \in 1..n : y[i + 1] = x[i]
    BY <1>2, <1>3, <2>1, <2>2
  <2>5. Precedes(y, x, n, m)
    BY <1>5, <2>3, <2>4 DEF Precedes
  <2>6. y = <<m>> \o x
    BY <1>5, <2>5, SeqPreceded
  <2> QED
    BY <1>4, <1>7, <2>6 DEF x, y, n
<1> QED
  BY <1>6, <1>7

\* and taking off the first takes its content off.
LEMMA MqContentsTail ==
  ASSUME NEW q \in Seq(Mq!Blocks), q # << >>, NEW c
  PROVE  /\ MqContents(c, q) # << >> /\ Head(MqContents(c, q)) = c[Head(q)]
         /\ MqContents(c, Tail(q)) = Tail(MqContents(c, q))
<1> DEFINE x == MqContents(c, q)
           y == MqContents(c, Tail(q))
           n == Len(q)
<1>1. /\ n \in Nat \ {0} /\ Len(Tail(q)) = n - 1 /\ Head(q) = q[1]
      /\ \A i \in 1..(n - 1) : Tail(q)[i] = q[i + 1]
  BY HeadTailProperties, LenProperties, EmptySeq
<1> HIDE DEF n
<1>2. /\ x = [i \in 1..n |-> x[i]] /\ \A i \in 1..n : x[i] = c[q[i]]
      /\ y = [i \in 1..(n - 1) |-> y[i]] /\ \A i \in 1..(n - 1) : y[i] = c[Tail(q)[i]]
      /\ 1 \in 1..n /\ \A i \in 1..(n - 1) : i + 1 \in 1..n
  BY <1>1 DEF MqContents, n
<1> HIDE DEF x, y
<1>3. x[1] = c[Head(q)] /\ \A i \in 1..(n - 1) : y[i] = x[i + 1]
  BY <1>1, <1>2
<1>4. x # << >> /\ Head(x) = x[1] /\ y = Tail(x)
  <2>1. n \in Nat \ {0} /\ OfLength(x, n) /\ OfLength(y, n - 1)
    BY <1>1, <1>2 DEF OfLength
  <2> QED
    BY <1>3, <2>1, SeqShortened
<1> QED
  BY <1>3, <1>4 DEF x, y

LEMMA MqHoldersCountNext == (Cardinality(MqHolders) \in Nat)'
<1>1. Cardinality(MqHolders) \in Nat
  BY MqHoldersCount
<1> QED
  BY <1>1, PTL

\* A send or an urgent send that links the block b with the message m,
LEMMA MqLinkImplements ==
  ASSUME NEW q, NEW f, MqPlaces(q, f), MqCopies, NEW b \in Mq!Blocks, b \notin Elements(q),
         NEW m \in Mails, NEW op \in {"send", "urgent"}, NEW r, r = Linked(q, b, op),
         NEW g, MqPlaces(r, g)', content' = [content EXCEPT ![b] = m], mq_received' = mq_received
  PROVE  Mq!Abstract!Next
<1>1. /\ q \in Seq(Mq!Blocks) /\ Len(q) \in Nat /\ Len(r) \in Nat /\ Len(g) \in Nat
      /\ Len(r) + Len(g) + Cardinality(MqHolders') = MqSize
      /\ Cardinality(MqHolders') \in Nat
  <2>1. Mq!IsChain(next, q, head)
    BY DEF MqPlaces
  <2>2. /\ Mq!IsChain(next', r, head') /\ Mq!IsChain(next', g, free')
        /\ Len(r) + Len(g) + Cardinality(MqHolders') = MqSize
    BY DEF MqPlaces
  <2>3. Cardinality(MqHolders') \in Nat
    BY MqHoldersCountNext
  <2>4. q \in Seq(Mq!Blocks) /\ Len(q) \in Nat
    BY <2>1, ChainShape
  <2>5. Len(r) \in Nat /\ Len(g) \in Nat
    BY <2>2, ChainShape
  <2> QED
    BY <2>2, <2>3, <2>4, <2>5
<1>2. Len(r) = Len(q) + 1
  <2>1. <<b>> \in Seq(Mq!Blocks) /\ Len(<<b>>) = 1
    OBVIOUS
  <2> QED
    BY <1>1, <2>1, AppendProperties, ConcatProperties DEF Linked
<1>3. MqSize \in Nat /\ Len(q) < MqSize
  BY <1>1, <1>2, MqConstants
<1>4. MqQueueBar = MqContents(content, q) /\ MqQueueBar' = MqContents(content', r)
  BY MqQueue, MqQueueNext
<1>5. /\ Len(MqContents(content, q)) = Len(q)
      /\ op = "send" => MqContents(content', r) = Append(MqContents(content, q), m)
      /\ op # "send" => MqContents(content', r) = <<m>> \o MqContents(content, q)
  <2>1. content \in [Mq!Blocks -> Mails \cup {None}]
    BY DEF MqCopies
  <2>2. PICK d : d = content'
    OBVIOUS
  <2>3. PICK c : c = content
    OBVIOUS
  <2>4. q \in Seq(Mq!Blocks) /\ MqFills(c, d, q, b, m)
    <3>1. \A i \in 1..Len(q) : q[i] \in Mq!Blocks
      BY <1>1, ElementOfSeq
    <3> QED
      BY <1>1, <2>1, <2>2, <2>3, <3>1 DEF MqFills, Elements
  <2>5. /\ Len(MqContents(c, q)) = Len(q)
        /\ op = "send" => MqContents(d, r) = Append(MqContents(c, q), m)
        /\ op # "send" => MqContents(d, r) = <<m>> \o MqContents(c, q)
    BY <2>4, MqContentsLinked
  <2> QED
    BY <2>2, <2>3, <2>5
<1>6. Mq!Abstract!Put(m) \/ Mq!Abstract!PutUrgent(m)
  BY <1>3, <1>4, <1>5 DEF Mq!Abstract!Put, Mq!Abstract!PutUrgent, MqQueueBar, MqContents
<1> QED
  BY <1>6 DEF Mq!Abstract!Next

\* a receive that takes the first message off,
LEMMA MqTakeOffImplements ==
  ASSUME MqAll, NEW t \in Threads, mq_call[t].block = Mq!NULL, mq_entry > 0, Mq!TakeOff(t)
  PROVE  Mq!Abstract!Next
<1>1. PICK q, f : MqPlaces(q, f)
  BY DEF MqAll, MqPlaced
<1>2. /\ MqPlaces(Tail(q), f)' /\ q # << >>
      /\ mq_received' = content[Head(q)] /\ content' = content
  BY <1>1, MqTakeOffPlaces DEF MqAll, MqCalls
<1>3. MqQueueBar = MqContents(content, q) /\ MqQueueBar' = MqContents(content, Tail(q))
  BY <1>1, <1>2, MqQueue, MqQueueNext
<1>4. q \in Seq(Mq!Blocks)
  BY <1>1, ChainShape DEF MqPlaces
<1>5. PICK c : c = content
  OBVIOUS
<1>6. /\ MqContents(c, q) # << >> /\ Head(MqContents(c, q)) = c[Head(q)]
      /\ MqContents(c, Tail(q)) = Tail(MqContents(c, q))
  BY <1>2, <1>4, MqContentsTail
<1>7. Mq!Abstract!Get
  BY <1>2, <1>3, <1>5, <1>6 DEF Mq!Abstract!Get, MqQueueBar, MqContents
<1> QED
  BY <1>7 DEF Mq!Abstract!Next

\* and a reset.
LEMMA MqResetImplements == ASSUME MqAll, Mq!Reset PROVE Mq!Abstract!Next
<1>1. PICK q, f : MqPlaces(q, f)
  BY DEF MqAll, MqPlaced
<1>2. \E g : MqPlaces(<< >>, g)'
  BY <1>1, MqResetPlaces DEF MqAll
<1>3. MqQueueBar' = MqContents(content', << >>)
  BY <1>2, MqQueueNext
<1>4. MqQueueBar' = << >>
  BY <1>3, EmptySeq DEF MqContents
<1>5. Mq!Abstract!Clear
  BY <1>4 DEF Mq!Reset, Mq!Abstract!Clear, MqQueueBar, MqContents
<1> QED
  BY <1>5 DEF Mq!Abstract!Next

\* What the step of a message queue is to the queue.
LEMMA MqImplements ==
  ASSUME MqAll, Mq!Next
  PROVE  [Mq!Abstract!Next]_Mq!Abstract!vars
<1>0. IpcInv /\ MqPlaced /\ MqCopies /\ MqCalls
  BY DEF MqAll
<1>00. PICK q, f : MqPlaces(q, f)
  BY <1>0 DEF MqPlaced
<1>000. /\ Mq!IsChain(next, q, head) /\ Mq!IsChain(next, f, free)
        /\ Elements(q) \cap Elements(f) = {}
        /\ \A u \in MqHolders : mq_call[u].block \notin Elements(q)
  BY <1>00 DEF MqPlaces
<1>1. ASSUME UNCHANGED <<next, content, head, mq_received>> PROVE UNCHANGED Mq!Abstract!vars
  BY <1>1 DEF Mq!Abstract!vars, Mq!LinkedFrom
<1>2. ASSUME NEW m \in Mails, NEW op \in {"send", "urgent"}, Mq!InterruptSends(m, op)
      PROVE  Mq!Abstract!Next
  <2>1. /\ free # Mq!NULL /\ free' = next[free]
        /\ Mq!Link(free, m, op) /\ UNCHANGED <<mq_received, mq_call>>
    BY <1>2 DEF Mq!InterruptSends
  <2>2. PICK b : b = free
    OBVIOUS
  <2>3. PICK r : r = Linked(q, b, op)
    OBVIOUS
  <2>4. MqPlaces(r, Tail(f))' /\ content' = [content EXCEPT ![b] = m]
    BY <1>0, <1>00, <2>1, <2>2, <2>3, MqInterruptPlaces
  <2>5. b \in Mq!Blocks /\ b \notin Elements(q)
    BY <1>000, <2>1, <2>2, ChainTail
  <2> QED
    BY <1>0, <1>00, <2>1, <2>3, <2>4, <2>5, MqLinkImplements
<1>3. ASSUME NEW t \in Threads, Mq!SendLinks(t) PROVE Mq!Abstract!Next
  <2>1. /\ mq_call[t].op \in {"send", "urgent"}
        /\ Mq!Link(mq_call[t].block, mq_call[t].mail, mq_call[t].op)
        /\ mq_call' = [mq_call EXCEPT ![t] = Mq!NoCall] /\ UNCHANGED <<free, mq_received>>
    BY <1>3 DEF Mq!SendLinks
  <2>2. PICK b : b = mq_call[t].block
    OBVIOUS
  <2>3. PICK op : op = mq_call[t].op
    OBVIOUS
  <2>4. PICK m : m = mq_call[t].mail
    OBVIOUS
  <2>5. PICK r : r = Linked(q, b, op)
    OBVIOUS
  <2>6. MqPlaces(r, f)' /\ content' = [content EXCEPT ![b] = m]
    BY <1>0, <1>00, <2>1, <2>2, <2>3, <2>4, <2>5, MqLinksPlaces
  <2>7. /\ b \in Mq!Blocks /\ b \notin Elements(q) /\ m \in Mails
        /\ op \in {"send", "urgent"}
    BY <1>0, <1>000, <2>1, <2>2, <2>3, <2>4 DEF MqCalls, MqHolders, Mq!Calls
  <2> QED
    BY <1>0, <1>00, <2>1, <2>5, <2>6, <2>7, MqLinkImplements
<1>4. ASSUME NEW t \in Threads, Mq!Recv(t) \/ Mq!RecvWoken(t) PROVE Mq!Abstract!Next
  <2>1. mq_entry > 0 /\ Mq!TakeOff(t) /\ mq_call[t].op \in {"none", "wait"}
    BY <1>4, MqNoCall DEF Mq!Recv, Mq!RecvWoken, Mq!Idle, Mq!Woken
  <2>2. mq_call[t].block = Mq!NULL
    BY <1>0, <2>1 DEF MqCalls
  <2> QED
    BY <2>1, <2>2, MqTakeOffImplements
<1>5. ASSUME NEW t \in Threads, Mq!RecvFrees(t) PROVE UNCHANGED Mq!Abstract!vars
  <2>1. /\ mq_call[t].op = "recv"
        /\ next' = [next EXCEPT ![mq_call[t].block] = free] /\ free' = mq_call[t].block
        /\ mq_call' = [mq_call EXCEPT ![t] = Mq!NoCall]
        /\ UNCHANGED <<content, head, tail, mq_entry, mq_received>>
    BY <1>5 DEF Mq!RecvFrees
  <2>2. PICK b : b = mq_call[t].block
    OBVIOUS
  <2>3. MqPlaces(q, <<b>> \o f)'
    BY <1>0, <1>00, <2>1, <2>2, MqFreesPlaces
  <2>4. MqQueueBar' = MqQueueBar
    BY <1>00, <2>1, <2>3, MqQueue, MqQueueNext
  <2> QED
    BY <2>1, <2>4 DEF Mq!Abstract!vars, MqQueueBar, MqContents
<1>6. ASSUME NEW t \in Threads,
             \/ \E m \in Mails, op \in {"send", "urgent"} : Mq!SendTakes(t, m, op)
             \/ Mq!RecvBlocks(t) \/ Mq!RecvRetries(t) \/ Mq!RecvReturnsError(t)
             \/ Mq!Timeout(t)
      PROVE  UNCHANGED <<next, content, head, mq_received>>
  BY <1>6 DEF Mq!SendTakes, Mq!RecvBlocks, Mq!RecvRetries, Mq!RecvReturnsError, Mq!Timeout,
              Mq!Block, Mq!blockVars, Mq!mqVars
<1>7. ASSUME Mq!Delete \/ Mq!DeleteStep PROVE UNCHANGED <<next, content, head, mq_received>>
  BY <1>7 DEF Mq!Delete, Mq!DeleteStep, Mq!blockVars, Mq!mqVars
<1>8. ASSUME Mq!Reset PROVE Mq!Abstract!Next
  BY <1>8, MqResetImplements
<1> QED
  BY <1>1, <1>2, <1>3, <1>4, <1>5, <1>6, <1>7, <1>8 DEF Mq!Next

-----------------------------------------------------------------------------
(* The objects together: each keeps to its own lists.                      *)

\* Nobody waits in a list outside own, and its object is in service.
IdleBut(own) ==
  \A l \in Lists : l \notin own => suspend_thread[l] = << >> /\ teardown[l] = "live"

LEMMA ObjectLists ==
  /\ ListsOf("event") = {Event} /\ ListsOf("mailbox") = {MbReceivers, MbSenders}
  /\ ListsOf("message queue") = {MqReceivers} /\ ListsOf("memory pool") = {Pool}
  /\ ListsOf("heap") = {}
BY DEF ListsOf

LEMMA UnlinkEmpty == ASSUME NEW t PROVE Unlink(<< >>, t) = << >>
<1>1. Elements(<< >>) = {}
  BY EmptySeq DEF Elements
<1> QED
  BY <1>1 DEF Unlink

\* What a step does to the lists outside own keeps them idle.
LEMMA IdleKept ==
  ASSUME IpcInv, NEW own, IdleBut(own),
         \/ UNCHANGED <<suspend_thread, teardown>>
         \/ \E l \in own : \/ /\ \E q : suspend_thread' = [suspend_thread EXCEPT ![l] = q]
                              /\ teardown' = teardown
                           \/ BeginTeardown(l) \/ TeardownStep(l)
         \/ \E t : ThreadTimeout(t)
  PROVE  IdleBut(own)'
<1>0. suspend_thread \in [Lists -> Seq(Threads)] /\ teardown \in [Lists -> Teardown]
  BY DEF IpcInv, IpcTypeOK
<1>1. CASE UNCHANGED <<suspend_thread, teardown>>
  BY <1>1 DEF IdleBut
<1>2. ASSUME NEW l \in own, NEW q, suspend_thread' = [suspend_thread EXCEPT ![l] = q],
             teardown' = teardown
      PROVE  IdleBut(own)'
  BY <1>0, <1>2 DEF IdleBut
<1>3. ASSUME NEW l \in own, BeginTeardown(l) \/ TeardownStep(l)
      PROVE  IdleBut(own)'
  <2>1. \A k \in Lists : k # l => teardown'[k] = teardown[k] /\ suspend_thread'[k] = suspend_thread[k]
    BY <1>0, <1>3 DEF BeginTeardown, TeardownStep, TeardownTest, TeardownResume
  <2> QED
    BY <1>3, <2>1 DEF IdleBut
<1>4. ASSUME NEW t, ThreadTimeout(t) PROVE IdleBut(own)'
  <2>1. /\ \A l \in Lists : suspend_thread'[l] = Unlink(suspend_thread[l], t)
        /\ teardown' = teardown
    BY <1>4 DEF ThreadTimeout
  <2> QED
    BY <2>1, UnlinkEmpty DEF IdleBut
<1> QED
  BY <1>1, <1>2, <1>3, <1>4

LEMMA EvKeepsToItsList ==
  ASSUME IpcInv, IdleBut({Event}), Ev!Next
  PROVE  IdleBut({Event})'
<1>1. ASSUME NEW s \in Ev!Sets, Ev!Send(s)
      PROVE  /\ \E q : suspend_thread' = [suspend_thread EXCEPT ![Event] = q]
             /\ teardown' = teardown
  BY <1>1 DEF Ev!Send
<1>2. ASSUME NEW t \in Threads, NEW wanted, NEW option,
             \/ Ev!RecvAtOnce(t, wanted, option) \/ Ev!RecvFails(t, wanted, option)
             \/ Ev!RecvBlocks(t, wanted, option)
      PROVE  \/ UNCHANGED <<suspend_thread, teardown>>
             \/ /\ \E q : suspend_thread' = [suspend_thread EXCEPT ![Event] = q]
                /\ teardown' = teardown
  BY <1>2 DEF Ev!RecvAtOnce, Ev!RecvFails, Ev!RecvBlocks, Ev!ListSuspend
<1>3. ASSUME NEW t \in Threads, Ev!RecvReturns(t) \/ Ev!Timeout(t)
      PROVE  UNCHANGED <<suspend_thread, teardown>> \/ ThreadTimeout(t)
  BY <1>3, EvIpc DEF Ev!RecvReturns, Ev!Timeout, Ev!ipcVars
<1>4. ASSUME Ev!Reset
      PROVE  /\ \E q : suspend_thread' = [suspend_thread EXCEPT ![Event] = q]
             /\ teardown' = teardown
  BY <1>4 DEF Ev!Reset, Ev!ListResumeAll
<1>5. ASSUME Ev!Delete \/ Ev!DeleteStep
      PROVE  BeginTeardown(Event) \/ TeardownStep(Event)
  BY <1>5, EvIpc DEF Ev!Delete, Ev!DeleteStep
<1>6. \/ UNCHANGED <<suspend_thread, teardown>>
      \/ \E l \in {Event} : \/ /\ \E q : suspend_thread' = [suspend_thread EXCEPT ![l] = q]
                               /\ teardown' = teardown
                            \/ BeginTeardown(l) \/ TeardownStep(l)
      \/ \E t : ThreadTimeout(t)
  BY <1>1, <1>2, <1>3, <1>4, <1>5 DEF Ev!Next
<1> QED
  BY <1>6, IdleKept

LEMMA MbKeepsToItsLists ==
  ASSUME IpcInv, IdleBut({MbReceivers, MbSenders}), Mb!Next
  PROVE  IdleBut({MbReceivers, MbSenders})'
<1> DEFINE own == {MbReceivers, MbSenders}
<1>0. suspend_thread \in [Lists -> Seq(Threads)]
  BY DEF IpcInv, IpcTypeOK
<1>1. ASSUME NEW l \in own, ResumeFirst(l) \/ UNCHANGED ipcVars
      PROVE  \/ UNCHANGED <<suspend_thread, teardown>>
             \/ /\ \E q : suspend_thread' = [suspend_thread EXCEPT ![l] = q]
                /\ teardown' = teardown
  BY <1>1 DEF ResumeFirst, ListResume, ipcVars
<1>2. ASSUME \/ \E m \in Mails : Mb!Send(m)
             \/ \E t \in Threads : Mb!SendCompletes(t) \/ Mb!Recv(t) \/ Mb!RecvCompletes(t)
      PROVE  \E l \in own : ResumeFirst(l)
  BY <1>2, MbIpc DEF Mb!Send, Mb!SendCompletes, Mb!Recv, Mb!RecvCompletes, Mb!Store, Mb!Fetch
<1>3. ASSUME NEW t \in Threads,
             \/ \E m \in Mails : Mb!SendBlocks(t, m)
             \/ Mb!SendRetries(t) \/ Mb!RecvBlocks(t) \/ Mb!RecvRetries(t) \/ Mb!ReturnsError(t)
      PROVE  \/ UNCHANGED <<suspend_thread, teardown>>
             \/ \E l \in own : /\ \E q : suspend_thread' = [suspend_thread EXCEPT ![l] = q]
                               /\ teardown' = teardown
  BY <1>3 DEF Mb!SendBlocks, Mb!SendRetries, Mb!RecvBlocks, Mb!RecvRetries, Mb!ReturnsError,
              Mb!Block, Mb!ListSuspend, Mb!ipcVars
<1>4. ASSUME NEW t \in Threads, Mb!Timeout(t) PROVE ThreadTimeout(t)
  BY <1>4, MbIpc DEF Mb!Timeout
<1>5. ASSUME Mb!Delete \/ Mb!DeleteSenders \/ Mb!DeleteStep
      PROVE  \E l \in own : BeginTeardown(l) \/ TeardownStep(l)
  BY <1>5, MbIpc DEF Mb!Delete, Mb!DeleteSenders, Mb!DeleteStep
<1>6. ASSUME Mb!Reset PROVE IdleBut(own)'
  <2>1. /\ \A l \in Lists : l \notin own => suspend_thread'[l] = suspend_thread[l]
        /\ teardown' = teardown
    BY <1>6 DEF Mb!Reset
  <2> QED
    BY <2>1 DEF IdleBut
<1> HIDE DEF own
<1>7. \/ Mb!Reset
      \/ UNCHANGED <<suspend_thread, teardown>>
      \/ \E l \in own : \/ /\ \E q : suspend_thread' = [suspend_thread EXCEPT ![l] = q]
                           /\ teardown' = teardown
                        \/ BeginTeardown(l) \/ TeardownStep(l)
      \/ \E t : ThreadTimeout(t)
  BY <1>1, <1>2, <1>3, <1>4, <1>5 DEF Mb!Next
<1>8. IdleBut(own)
  BY DEF own
<1>9. IdleBut(own)'
  BY <1>6, <1>7, <1>8, IdleKept
<1> QED
  BY <1>9 DEF own

LEMMA MqKeepsToItsList ==
  ASSUME IpcInv, IdleBut({MqReceivers}), Mq!Next
  PROVE  IdleBut({MqReceivers})'
<1>1. ASSUME ResumeFirst(MqReceivers) \/ UNCHANGED ipcVars
      PROVE  \/ UNCHANGED <<suspend_thread, teardown>>
             \/ /\ \E q : suspend_thread' = [suspend_thread EXCEPT ![MqReceivers] = q]
                /\ teardown' = teardown
  BY <1>1 DEF ResumeFirst, ListResume, ipcVars
<1>2. ASSUME \/ \E m \in Mails, op \in {"send", "urgent"} :
                  Mq!InterruptSends(m, op) \/ \E t \in Threads : Mq!SendTakes(t, m, op)
             \/ \E t \in Threads : \/ Mq!SendLinks(t) \/ Mq!Recv(t) \/ Mq!RecvWoken(t)
                                   \/ Mq!RecvReturnsError(t) \/ Mq!RecvFrees(t)
      PROVE  ResumeFirst(MqReceivers) \/ UNCHANGED ipcVars
  <2>1. ASSUME NEW t, Mq!SendLinks(t) PROVE ResumeFirst(MqReceivers)
    BY <2>1, MqIpc DEF Mq!SendLinks, Mq!WakeReceiver
  <2>2. ASSUME NEW m, NEW op, Mq!InterruptSends(m, op) PROVE ResumeFirst(MqReceivers)
    BY <2>2, MqIpc DEF Mq!InterruptSends, Mq!WakeReceiver
  <2>3. ASSUME NEW t, NEW m, NEW op, Mq!SendTakes(t, m, op) PROVE UNCHANGED ipcVars
    BY <2>3 DEF Mq!SendTakes, Mq!ipcVars, ipcVars
  <2>4. ASSUME NEW t, Mq!Recv(t) \/ Mq!RecvWoken(t) \/ Mq!RecvReturnsError(t) \/ Mq!RecvFrees(t)
        PROVE  UNCHANGED ipcVars
    BY <2>4 DEF Mq!Recv, Mq!RecvWoken, Mq!RecvReturnsError, Mq!RecvFrees, Mq!ipcVars, ipcVars
  <2> QED
    BY <1>2, <2>1, <2>2, <2>3, <2>4
<1>3. ASSUME NEW t \in Threads, Mq!RecvBlocks(t) \/ Mq!RecvRetries(t)
      PROVE  \/ UNCHANGED <<suspend_thread, teardown>>
             \/ /\ \E q : suspend_thread' = [suspend_thread EXCEPT ![MqReceivers] = q]
                /\ teardown' = teardown
  BY <1>3 DEF Mq!RecvBlocks, Mq!RecvRetries, Mq!Block, Mq!ListSuspend
<1>4. ASSUME NEW t \in Threads, Mq!Timeout(t) PROVE ThreadTimeout(t)
  BY <1>4, MqIpc DEF Mq!Timeout
<1>5. ASSUME Mq!Delete \/ Mq!DeleteStep
      PROVE  BeginTeardown(MqReceivers) \/ TeardownStep(MqReceivers)
  BY <1>5, MqIpc DEF Mq!Delete, Mq!DeleteStep
<1>6. ASSUME Mq!Reset
      PROVE  /\ \E q : suspend_thread' = [suspend_thread EXCEPT ![MqReceivers] = q]
             /\ teardown' = teardown
  BY <1>6, MqIpc DEF Mq!Reset, ListResumeAll
<1>7. \/ UNCHANGED <<suspend_thread, teardown>>
      \/ \E l \in {MqReceivers} :
              \/ /\ \E q : suspend_thread' = [suspend_thread EXCEPT ![l] = q]
                 /\ teardown' = teardown
              \/ BeginTeardown(l) \/ TeardownStep(l)
      \/ \E t : ThreadTimeout(t)
  BY <1>1, <1>2, <1>3, <1>4, <1>5, <1>6 DEF Mq!Next
<1> QED
  BY <1>7, IdleKept

LEMMA MpKeepsToItsList ==
  ASSUME IpcInv, IdleBut({Pool}), Mp!Next
  PROVE  IdleBut({Pool})'
<1>1. ASSUME Mp!Alloc
      PROVE  UNCHANGED <<suspend_thread, teardown>>
  BY <1>1 DEF Mp!Alloc, Mp!ipcVars
<1>2. ASSUME NEW b \in PoolBlocks, Mp!Free(b)
      PROVE  \/ UNCHANGED <<suspend_thread, teardown>>
             \/ /\ \E q : suspend_thread' = [suspend_thread EXCEPT ![Pool] = q]
                /\ teardown' = teardown
  BY <1>2 DEF Mp!Free, Mp!ListResume, Mp!ipcVars
<1>3. ASSUME NEW t \in Threads, Mp!AllocBlocks(t) \/ Mp!AllocWoken(t) \/ Mp!AllocReturnsError(t)
      PROVE  \/ UNCHANGED <<suspend_thread, teardown>>
             \/ /\ \E q : suspend_thread' = [suspend_thread EXCEPT ![Pool] = q]
                /\ teardown' = teardown
  BY <1>3 DEF Mp!AllocBlocks, Mp!AllocWoken, Mp!AllocReturnsError, Mp!Suspend, Mp!ipcVars
<1>4. ASSUME NEW t \in Threads, Mp!Timeout(t) PROVE ThreadTimeout(t)
  BY <1>4, MpIpc DEF Mp!Timeout
<1>5. ASSUME Mp!Delete \/ Mp!DeleteTest \/ Mp!DeleteResume
      PROVE  BeginTeardown(Pool) \/ TeardownStep(Pool)
  BY <1>5, MpIpc DEF Mp!Delete, Mp!DeleteTest, Mp!DeleteResume, TeardownStep
<1>6. \/ UNCHANGED <<suspend_thread, teardown>>
      \/ \E l \in {Pool} : \/ /\ \E q : suspend_thread' = [suspend_thread EXCEPT ![l] = q]
                              /\ teardown' = teardown
                           \/ BeginTeardown(l) \/ TeardownStep(l)
      \/ \E t : ThreadTimeout(t)
  BY <1>1, <1>2, <1>3, <1>4, <1>5 DEF Mp!Next
<1> QED
  BY <1>6, IdleKept
-----------------------------------------------------------------------------
(* The invariant of KernelObjects in parts.                                *)

EvTypes ==
  /\ set \subseteq Events
  /\ event_set \in [Threads -> SUBSET Events]
  /\ event_info \in [Threads -> Ev!Options]
  /\ asked \in [Threads -> SUBSET Events]

MbTypes ==
  /\ msg_pool \in [Mb!Slots -> Mails \cup {None}]
  /\ mb_entry \in 0..MbSize
  /\ in_offset \in Mb!Slots /\ out_offset \in Mb!Slots
  /\ mb_call \in [Threads -> Mb!Calls]
  /\ mb_received \in Mails \cup {None}

MqTypes ==
  /\ next \in [Mq!Blocks -> Mq!Blocks \cup {Mq!NULL}]
  /\ content \in [Mq!Blocks -> Mails \cup {None}]
  /\ {head, tail, free} \subseteq Mq!Blocks \cup {Mq!NULL}
  /\ mq_entry \in 0..MqSize
  /\ mq_call \in [Threads -> Mq!Calls]
  /\ mq_received \in Mails \cup {None}

MqData == Mq!ListsEnd /\ Mq!BlocksInOnePlace /\ Mq!CopyIntact

MpTypes ==
  /\ block_list \in Seq(PoolBlocks)
  /\ block_free_count \in 0..Cardinality(PoolBlocks)
  /\ suspend_thread_count \in 0..MaxWaiters
  /\ in_use \subseteq PoolBlocks
  /\ mp_call \in [Threads -> WaitTimes \cup {None}]
  /\ expired \in Nat

EvIdle ==
  set = {} /\ \A t \in Threads : asked[t] = {} /\ event_set[t] = {} /\ ~event_info[t].all

UsedInv ==
  /\ using = "event" => Ev!Inv
  /\ using = "mailbox" => Mb!Inv
  /\ using = "message queue" => Mq!Inv
  /\ using = "memory pool" => Mp!Inv

KernelParts ==
  /\ using \in Uses /\ IpcInv
  /\ EvTypes /\ MbTypes /\ MqTypes /\ MpTypes /\ MqData
  /\ IdleBut(ListsOf(using)) /\ (using # "event" => EvIdle)
  /\ UsedInv

LEMMA KernelTypes ==
  /\ Ev!TypeOK <=> IpcTypeOK /\ EvTypes
  /\ Mb!TypeOK <=> IpcTypeOK /\ MbTypes
  /\ Mq!TypeOK <=> IpcTypeOK /\ MqTypes
  /\ Mp!TypeOK <=> IpcTypeOK /\ MpTypes
<1>1. Ev!TypeOK <=> IpcTypeOK /\ EvTypes
  BY EvIpc DEF Ev!TypeOK, EvTypes
<1>2. Mb!TypeOK <=> IpcTypeOK /\ MbTypes
  BY MbIpc DEF Mb!TypeOK, MbTypes
<1>3. Mq!TypeOK <=> IpcTypeOK /\ MqTypes
  BY MqIpc DEF Mq!TypeOK, MqTypes
<1>4. Mp!TypeOK <=> IpcTypeOK /\ MpTypes
  BY MpIpc DEF Mp!TypeOK, MpTypes, Mp!WaitTimes, WaitTimes
<1> QED
  BY <1>1, <1>2, <1>3, <1>4

LEMMA KernelInvParts == Inv <=> KernelParts
<1>1. OthersUntouched <=> IdleBut(ListsOf(using)) /\ (using # "event" => EvIdle)
  BY DEF OthersUntouched, IdleBut, EvIdle
<1>2. TypeOK <=> using \in Uses /\ IpcInv /\ EvTypes /\ MbTypes /\ MqTypes /\ MpTypes
  BY KernelTypes DEF TypeOK, IpcInv
<1> QED
  BY <1>1, <1>2 DEF Inv, KernelParts, UsedInv, MqData, MessageBlocksInOnePlace

LEMMA KernelInvPartsNext == (Inv <=> KernelParts)'
BY KernelInvParts, PTL

LEMMA KernelTypesNext ==
  ( /\ Ev!TypeOK <=> IpcTypeOK /\ EvTypes
    /\ Mb!TypeOK <=> IpcTypeOK /\ MbTypes
    /\ Mq!TypeOK <=> IpcTypeOK /\ MqTypes
    /\ Mp!TypeOK <=> IpcTypeOK /\ MpTypes )'
BY KernelTypes, PTL

\* What the invariant of an object says of its own part.
LEMMA OwnParts ==
  /\ Ev!Inv => EvTypes
  /\ Mb!Inv => MbTypes
  /\ Mq!Inv => MqTypes /\ MqData
  /\ Mp!Inv => MpTypes
BY KernelTypes DEF Ev!Inv, Mb!Inv, Mq!Inv, Mp!Inv, MqData

LEMMA OwnPartsNext ==
  ( /\ Ev!Inv => EvTypes
    /\ Mb!Inv => MbTypes
    /\ Mq!Inv => MqTypes /\ MqData
    /\ Mp!Inv => MpTypes )'
BY OwnParts, PTL

\* The part of an object that is not used stays.
LEMMA PartsStay ==
  /\ EvTypes /\ UNCHANGED evVars => EvTypes'
  /\ EvIdle /\ UNCHANGED evVars => EvIdle'
  /\ MbTypes /\ UNCHANGED mbVars => MbTypes'
  /\ MqTypes /\ UNCHANGED mqVars => MqTypes'
  /\ MqData /\ UNCHANGED mqVars => MqData'
  /\ MpTypes /\ UNCHANGED mpVars => MpTypes'
<1>1. EvTypes /\ UNCHANGED evVars => EvTypes'
  BY DEF EvTypes, evVars
<1>2. EvIdle /\ UNCHANGED evVars => EvIdle'
  BY DEF EvIdle, evVars
<1>3. MbTypes /\ UNCHANGED mbVars => MbTypes'
  BY DEF MbTypes, mbVars
<1>4. MqTypes /\ UNCHANGED mqVars => MqTypes'
  BY DEF MqTypes, mqVars
<1>5. MqData /\ UNCHANGED mqVars => MqData'
  BY DEF MqData, mqVars, Mq!ListsEnd, Mq!BlocksInOnePlace, Mq!CopyIntact, Mq!InHand,
         Mq!LinkedFrom
<1>6. MpTypes /\ UNCHANGED mpVars => MpTypes'
  BY DEF MpTypes, mpVars
<1> QED
  BY <1>1, <1>2, <1>3, <1>4, <1>5, <1>6

\* The invariant of an object is one of its state.
LEMMA UsedStays ==
  ASSUME UNCHANGED <<ipcVars, evVars, mbVars, mqVars, mpVars>>
  PROVE  /\ Ev!Inv => Ev!Inv' /\ IpcInv'
         /\ Mb!Inv => Mb!Inv' /\ IpcInv'
         /\ Mq!Inv => Mq!Inv' /\ IpcInv'
         /\ Mp!Inv => Mp!Inv' /\ IpcInv'
<1>1. UNCHANGED <<stat, error, thread_timer, suspend_thread, teardown, fault>>
  BY DEF ipcVars
<1>2. IpcInv => IpcInv'
  BY UnchangedInv
<1>3. Ev!Inv => Ev!Inv' /\ IpcInv'
  <2>1. EvCalls => EvCalls'
    BY <1>1 DEF EvCalls, evVars, Fits
  <2> QED
    BY <1>2, <2>1, EvParts
<1>4. Mb!Inv => Mb!Inv' /\ IpcInv'
  <2>1. /\ MbRing => MbRing'
        /\ MbOffsets => MbOffsets'
        /\ MbCalls => MbCalls'
        /\ MbEmptied => MbEmptied'
        /\ MbServed => MbServed'
    BY <1>1 DEF MbRing, MbOffsets, MbCalls, MbEmptied, MbServed, MbWoken, mbVars
  <2> QED
    BY <1>2, <2>1, MbParts
<1>5. Mq!Inv => Mq!Inv' /\ IpcInv'
  <2>1. /\ MqPlaced => MqPlaced'
        /\ MqCopies => MqCopies'
        /\ MqCalls => MqCalls'
        /\ MqServed => MqServed'
    BY <1>1 DEF MqPlaced, MqPlaces, MqHolders, MqCopies, MqCalls, MqServed, MqWoken, mqVars
  <2> QED
    BY <1>2, <2>1, MqParts, MqPartsNext
<1>6. Mp!Inv => Mp!Inv' /\ IpcInv'
  <2>1. Mp!Inv => /\ Mp!TypeOK' /\ Mp!PoolAccounts' /\ Mp!NoneStranded'
                  /\ Mp!CallsWait' /\ Mp!EmptiedByTimeouts'
    BY <1>1 DEF Mp!Inv, Mp!TypeOK, Mp!IpcTypeOK, Mp!PoolAccounts, Mp!NoneStranded,
                Mp!CallsWait, Mp!EmptiedByTimeouts, Mp!Waiters, Mp!Woken, mpVars
  <2>2. Mp!Inv => IpcInv /\ Mp!IpcInv
    BY MpIpc DEF Mp!Inv
  <2> QED
    BY <1>2, <2>1, <2>2, MpIpc DEF Mp!Inv
<1> QED
  BY <1>3, <1>4, <1>5, <1>6

-----------------------------------------------------------------------------
(* The invariant.                                                          *)

LEMMA KernelInit == Init => Inv
<1> SUFFICES ASSUME Init PROVE Inv
  OBVIOUS
<1>1. Ev!Inv /\ Mb!Inv /\ Mq!Inv /\ Mp!Inv /\ using \in Uses
  BY EvInit, MbInit, MqInit, MpInit DEF Init
<1>2. IpcInit /\ IpcInv
  BY IpcInitInv DEF Init, Ev!Init, Ev!IpcInit, IpcInit
<1>3. IdleBut(ListsOf(using))
  BY <1>2 DEF IdleBut, IpcInit
<1>4. EvIdle
  BY DEF Init, Ev!Init, Ev!AnyOption, EvIdle
<1>5. UsedInv
  BY <1>1 DEF UsedInv
<1>6. KernelParts
  BY <1>1, <1>2, <1>3, <1>4, <1>5, OwnParts DEF KernelParts
<1> QED
  BY <1>6, KernelInvParts

LEMMA KernelNext == Inv /\ [Next]_vars => Inv'
<1> SUFFICES ASSUME Inv, [Next]_vars PROVE Inv'
  OBVIOUS
<1>0. KernelParts
  BY KernelInvParts
<1>00. /\ using \in Uses /\ IpcInv
       /\ EvTypes /\ MbTypes /\ MqTypes /\ MpTypes /\ MqData
       /\ IdleBut(ListsOf(using)) /\ (using # "event" => EvIdle)
  BY <1>0 DEF KernelParts
<1>1. ASSUME using = "event", Ev!Next, UNCHANGED <<using, mbVars, mqVars, mpVars, smVars>>
      PROVE  KernelParts'
  <2>1. Ev!Inv' /\ IpcInv'
    BY <1>0, <1>1, EvNext DEF KernelParts, UsedInv
  <2>2. IdleBut(ListsOf(using))'
    BY <1>00, <1>1, ObjectLists, EvKeepsToItsList
  <2> QED
    BY <1>00, <1>1, <2>1, <2>2, OwnPartsNext, PartsStay DEF KernelParts, UsedInv
<1>2. ASSUME using = "mailbox", Mb!Next, UNCHANGED <<using, evVars, mqVars, mpVars, smVars>>
      PROVE  KernelParts'
  <2>1. \A l \in Lists \ {MbReceivers, MbSenders} : suspend_thread[l] = << >>
    BY <1>00, <1>2, ObjectLists DEF IdleBut
  <2>2. Mb!Inv' /\ IpcInv'
    BY <1>0, <1>2, <2>1, MbNext DEF KernelParts, UsedInv
  <2>3. IdleBut(ListsOf(using))'
    BY <1>00, <1>2, ObjectLists, MbKeepsToItsLists
  <2> QED
    BY <1>00, <1>2, <2>2, <2>3, OwnPartsNext, PartsStay DEF KernelParts, UsedInv
<1>3. ASSUME using = "message queue", Mq!Next,
             UNCHANGED <<using, evVars, mbVars, mpVars, smVars>>
      PROVE  KernelParts'
  <2>1. \A l \in Lists \ {MqReceivers} : suspend_thread[l] = << >>
    BY <1>00, <1>3, ObjectLists DEF IdleBut
  <2>2. Mq!Inv' /\ IpcInv'
    BY <1>0, <1>3, <2>1, MqNext DEF KernelParts, UsedInv
  <2>3. IdleBut(ListsOf(using))'
    BY <1>00, <1>3, ObjectLists, MqKeepsToItsList
  <2> QED
    BY <1>00, <1>3, <2>2, <2>3, OwnPartsNext, PartsStay DEF KernelParts, UsedInv
<1>4. ASSUME using = "memory pool", Mp!Next,
             UNCHANGED <<using, evVars, mbVars, mqVars, smVars>>
      PROVE  KernelParts'
  <2>1. \A l \in Lists : l # Pool => suspend_thread[l] = << >>
    BY <1>00, <1>4, ObjectLists DEF IdleBut
  <2>2. Mp!Inv' /\ IpcInv'
    BY <1>0, <1>4, <2>1, MpNext DEF KernelParts, UsedInv
  <2>3. IdleBut(ListsOf(using))'
    BY <1>00, <1>4, ObjectLists, MpKeepsToItsList
  <2> QED
    BY <1>00, <1>4, <2>2, <2>3, OwnPartsNext, PartsStay DEF KernelParts, UsedInv
<1>5. ASSUME using = "heap", UNCHANGED <<using, ipcVars, evVars, mbVars, mqVars, mpVars>>
      PROVE  KernelParts'
  <2>1. IpcInv'
    BY <1>00, <1>5, UnchangedInv
  <2>2. IdleBut(ListsOf(using))'
    BY <1>00, <1>5 DEF IdleBut, ipcVars, ListsOf
  <2> QED
    BY <1>00, <1>5, <2>1, <2>2, PartsStay DEF KernelParts, UsedInv
<1>6. ASSUME UNCHANGED vars PROVE KernelParts'
  <2>1. UNCHANGED <<ipcVars, evVars, mbVars, mqVars, mpVars>> /\ using' = using
    BY <1>6 DEF vars
  <2>2. IpcInv' /\ UsedInv'
    BY <1>0, <2>1, UsedStays, UnchangedInv DEF KernelParts, UsedInv
  <2>3. IdleBut(ListsOf(using))'
    BY <1>00, <2>1 DEF IdleBut, ipcVars
  <2> QED
    BY <1>00, <2>1, <2>2, <2>3, PartsStay DEF KernelParts
<1> QED
  BY <1>1, <1>2, <1>3, <1>4, <1>5, <1>6, KernelInvPartsNext DEF Next

-----------------------------------------------------------------------------
(* The theorems.                                                           *)

THEOREM KernelInv == Spec => []Inv
BY KernelInit, KernelNext, PTL DEF Spec

\* Waiting lists, the states of the threads and their timers agree.
THEOREM TypesHold == Spec => []TypeOK
<1>1. Inv => TypeOK
  BY DEF Inv
<1> QED
  BY <1>1, KernelInv, PTL

\* Events: nobody sleeps through the events it waits for.
THEOREM EventsAnswered == Spec => []EventsAnswer
<1>1. Inv => EventsAnswer
  <2> SUFFICES ASSUME Inv PROVE EventsAnswer
    OBVIOUS
  <2>1. CASE using = "event"
    BY <2>1 DEF Inv, Ev!Inv, EventsAnswer
  <2>2. CASE using # "event"
    <3>1. Event \in Lists /\ Event \notin ListsOf(using)
      <4>1. using \in Objects /\ "event" \in Objects
        BY KernelAssumption DEF Inv, TypeOK, Objects
      <4>2. ListsOf("event") \cap ListsOf(using) = {}
        BY <2>2, <4>1, KernelAssumption
      <4> QED
        BY <4>2, ObjectLists, KernelAssumption DEF Ev!EventAssumption
    <3>2. suspend_thread[Event] = << >> /\ \A t \in Threads : asked[t] = {}
      BY <2>2, <3>1 DEF Inv, OthersUntouched
    <3>3. Elements(<< >>) = {} /\ Ev!Elements(<< >>) = {}
      BY EmptySeq, EvIpc DEF Elements
    <3> QED
      BY <3>2, <3>3 DEF EventsAnswer, Ev!NoneMissed, Ev!AnswersFit, Ev!Answered, Ev!Waiters
  <2> QED
    BY <2>1, <2>2
<1> QED
  BY <1>1, KernelInv, PTL

\* Message queues: each block is in one place, and what is copied is what was taken off.
THEOREM MessagesKept == Spec => []MessageBlocksInOnePlace
<1>1. Inv => MessageBlocksInOnePlace
  BY DEF Inv
<1> QED
  BY <1>1, KernelInv, PTL

\* Memory pools: each block is free or in one caller's hands.
THEOREM PoolSound == Spec => []PoolAccounts
<1>1. Inv => PoolAccounts
  BY DEF Inv, Mp!Inv, PoolAccounts
<1> QED
  BY <1>1, KernelInv, PTL

(* Nobody sleeps beside what it waits for, nor in a mailbox whose deletion *)
(* has returned.                                                           *)
THEOREM NobodyStranded == Spec => []NoneStranded
<1>1. Inv => NoneStranded
  <2> SUFFICES ASSUME Inv PROVE NoneStranded
    OBVIOUS
  <2>0. /\ using \in Objects /\ Objects = {"event", "mailbox", "message queue", "memory pool", "heap"}
        /\ MbReceivers \in Lists /\ MbSenders \in Lists /\ MqReceivers \in Lists /\ Pool \in Lists
        /\ \A o, p \in Objects : o # p => ListsOf(o) \cap ListsOf(p) = {}
    BY KernelAssumption DEF Inv, TypeOK, Objects, Mb!MailboxAssumption, Mq!QueueAssumption,
                            Mp!MemPoolAssumption
  <2>1. \A o \in Objects, l \in Lists :
          o # using /\ l \in ListsOf(o) => suspend_thread[l] = << >> /\ teardown[l] = "live"
    BY <2>0 DEF Inv, OthersUntouched
  <2>2. Mb!NoneStranded
    <3>1. CASE using = "mailbox"
      BY <3>1 DEF Inv, Mb!Inv
    <3>2. CASE using # "mailbox"
      BY <2>0, <2>1, <3>2, ObjectLists DEF Mb!NoneStranded
    <3> QED
      BY <3>1, <3>2
  <2>3. Mq!NoneStranded
    <3>1. CASE using = "message queue"
      BY <3>1 DEF Inv, Mq!Inv
    <3>2. CASE using # "message queue"
      BY <2>0, <2>1, <3>2, ObjectLists DEF Mq!NoneStranded
    <3> QED
      BY <3>1, <3>2
  <2>4. Mp!NoneStranded
    <3>1. CASE using = "memory pool"
      BY <3>1 DEF Inv, Mp!Inv
    <3>2. CASE using # "memory pool"
      BY <2>0, <2>1, <3>2, ObjectLists DEF Mp!NoneStranded, Mp!Waiters
    <3> QED
      BY <3>1, <3>2
  <2>5. Mb!DrainedWhenDeleted
    <3>1. CASE using = "mailbox"
      <4> SUFFICES ASSUME teardown[MbSenders] = "drained"
                   PROVE  \A t \in Threads :
                            stat[t] = "ready" /\ (mb_call[t] # Mb!NoCall => error[t] # "EOK")
        BY DEF Mb!DrainedWhenDeleted
      <4>1. IpcInv /\ MbCalls /\ MbEmptied
        BY <3>1, MbParts DEF Inv
      <4>2. suspend_thread[MbSenders] = << >> /\ suspend_thread[MbReceivers] = << >>
        BY <4>1 DEF MbEmptied
      <4>3. \A l \in Lists : suspend_thread[l] = << >>
        BY <3>1, <4>2, ObjectLists DEF Inv, OthersUntouched
      <4>4. Elements(<< >>) = {}
        BY EmptySeq DEF Elements
      <4>5. \A t \in Threads : stat[t] # "suspend"
        BY <4>1, <4>3, <4>4 DEF IpcInv, SuspendedIffWaiting, Waiting
      <4>6. \A t \in Threads : stat[t] = "ready"
        BY <4>1, <4>5 DEF IpcInv, IpcTypeOK
      <4>7. MbWoken("send") = {} /\ MbWoken("recv") = {}
        BY <4>1 DEF MbEmptied
      <4>8. \A t \in Threads : /\ mb_call[t].op \in {"none", "send", "recv"}
                               /\ mb_call[t].op = "none" => mb_call[t] = Mb!NoCall
        BY <4>1 DEF MbCalls, Mb!Calls
      <4>9. \A t \in Threads : error[t] = "EOK" => mb_call[t].op \notin {"send", "recv"}
        BY <4>6, <4>7 DEF MbWoken
      <4>10. ASSUME NEW t \in Threads, error[t] = "EOK" PROVE mb_call[t] = Mb!NoCall
        BY <4>8, <4>9, <4>10
      <4> QED
        BY <4>6, <4>10
    <3>2. CASE using # "mailbox"
      BY <2>0, <2>1, <3>2, ObjectLists DEF Mb!DrainedWhenDeleted
    <3> QED
      BY <3>1, <3>2
  <2> QED
    BY <2>2, <2>3, <2>4, <2>5 DEF NoneStranded
<1> QED
  BY <1>1, KernelInv, PTL

\* The calls that a send answers and that clear the event e.
Takers(e) == {t \in Ev!Newly : event_info[t].clear /\ e \in event_set'[t]}

LEMMA SendClearsOnce ==
  ASSUME IpcInv, EvCalls, NEW s \in Ev!Sets, Ev!Send(s)
  PROVE  /\ \A t \in Ev!Newly : event_set'[t] \subseteq set \cup s
         /\ \A e \in set \cup s : /\ \A t, u \in Takers(e) : t = u
                                  /\ e \in set' <=> Takers(e) = {}
<1> DEFINE q == suspend_thread[Event]
           after == Ev!Walk(q, set \cup s)
<1>0. /\ stat \in [Threads -> {"ready", "suspend"}]
      /\ q \in Seq(Threads) /\ NoRepeat(q) /\ set \cup s \in SUBSET Events
      /\ \A t \in Elements(q) : t \in Threads /\ stat[t] = "suspend" /\ asked[t] # {}
      /\ \A t \in Elements(q) : error[t] = "EOK"
      /\ event_set \in [Threads -> SUBSET Events] /\ event_info \in [Threads -> Ev!Options]
  BY EvShape DEF EvCalls, Ev!Sets
<1>1. Served(after, q, Len(q), set \cup s)
  BY <1>0, WalkServes
<1>2. /\ set' = after.set /\ event_set' = after.got
      /\ stat' = [t \in Threads |-> IF t \in after.woken THEN "ready" ELSE stat[t]]
      /\ UNCHANGED <<error, asked>>
  BY DEF Ev!Send, Ev!Waiters
<1> HIDE DEF after
<1>3. /\ after.woken \subseteq Elements(q)
      /\ \A t \in after.woken : after.got[t] \subseteq set \cup s
      /\ \A e \in set \cup s :
           e \in after.set <=> \A t \in after.woken : ~(event_info[t].clear /\ e \in after.got[t])
      /\ \A e \in set \cup s : \A t, u \in after.woken :
           /\ event_info[t].clear /\ e \in after.got[t]
           /\ event_info[u].clear /\ e \in after.got[u]
           => t = u
  BY <1>1 DEF Served, Elements
<1>4. Ev!Newly = after.woken
  <2>1. \A t \in Threads : stat'[t] = IF t \in after.woken THEN "ready" ELSE stat[t]
    BY <1>2
  <2>2. ASSUME NEW t \in after.woken PROVE t \in Ev!Newly
    BY <1>0, <1>2, <1>3, <2>1 DEF Ev!Newly, Ev!Answered
  <2>3. ASSUME NEW t \in Ev!Newly PROVE t \in after.woken
    BY <1>2, <2>1 DEF Ev!Newly, Ev!Answered
  <2> QED
    BY <2>2, <2>3
<1>5. \A e : Takers(e) = {t \in after.woken : event_info[t].clear /\ e \in after.got[t]}
  BY <1>2, <1>4 DEF Takers
<1>6. \A e \in set \cup s : \A t, u \in Takers(e) : t = u
  BY <1>3, <1>5
<1>7. \A e \in set \cup s : e \in set' <=> Takers(e) = {}
  BY <1>2, <1>3, <1>5
<1> QED
  BY <1>2, <1>3, <1>4, <1>6, <1>7

\* An event set that is not used stays empty, and a send to it would not leave it so.
LEMMA NobodySends ==
  ASSUME suspend_thread[Event] = << >>, set \subseteq Events, NEW s \in Ev!Sets, Ev!Send(s),
         event_set \in [Threads -> SUBSET Events], event_info \in [Threads -> Ev!Options]
  PROVE  set' # {}
<1> DEFINE q == << >>
           after == Ev!Walk(q, set \cup s)
<1>1. q \in Seq(Threads) /\ NoRepeat(q) /\ Len(q) = 0 /\ set \cup s \in SUBSET Events
  BY EmptySeq DEF NoRepeat, Ev!Sets
<1>2. set' = after.set
  BY DEF Ev!Send, Ev!Waiters
<1> HIDE DEF q
<1>3. Served(after, q, Len(q), set \cup s)
  BY <1>1, WalkServes
<1> HIDE DEF after
<1>4. after.woken = {}
  BY <1>1, <1>3 DEF Served
<1>5. \A e \in s : e \in after.set
  BY <1>3, <1>4 DEF Served
<1> QED
  BY <1>2, <1>5 DEF Ev!Sets

(* Events: no bit is lost or received twice: what a send clears it has     *)
(* given to one receiver that clears, and it gives nothing that was not    *)
(* there.                                                                  *)
THEOREM ReceivedOnce == Spec => EventsClearedOnce
<1> DEFINE GivenOnce ==
             \A s \in Ev!Sets : Ev!Send(s) =>
               /\ \A t \in Ev!Newly : event_set'[t] \subseteq set \cup s
               /\ \A e \in set \cup s :
                    LET takers == {t \in Ev!Newly : event_info[t].clear /\ e \in event_set'[t]}
                    IN  /\ \A t, u \in takers : t = u
                        /\ e \in set' <=> takers = {}
<1>1. Inv /\ [Next]_vars => [GivenOnce]_Ev!vars
  <2> SUFFICES ASSUME Inv, [Next]_vars PROVE GivenOnce \/ UNCHANGED Ev!vars
    OBVIOUS
  <2>0. KernelParts
    BY KernelInvParts
  <2>1. CASE using = "event"
    <3>1. IpcInv /\ EvCalls
      BY <2>0, <2>1, EvParts DEF KernelParts, UsedInv
    <3> QED
      BY <3>1, SendClearsOnce DEF Takers
  <2>2. CASE using # "event"
    <3>1. EvTypes /\ EvIdle /\ suspend_thread[Event] = << >>
      <4>1. Event \in Lists /\ Event \notin ListsOf(using)
        <5>1. using \in Objects /\ "event" \in Objects
          BY <2>0, KernelAssumption DEF KernelParts, Objects
        <5>2. ListsOf("event") \cap ListsOf(using) = {}
          BY <2>2, <5>1, KernelAssumption
        <5> QED
          BY <5>2, ObjectLists, KernelAssumption DEF Ev!EventAssumption
      <4> QED
        BY <2>0, <2>2, <4>1 DEF KernelParts, IdleBut
    <3>2. UNCHANGED evVars
      BY <2>2 DEF Next, vars
    <3>3. set' = {}
      BY <3>1, <3>2 DEF EvIdle, evVars
    <3>4. \A s \in Ev!Sets : ~Ev!Send(s)
      BY <3>1, <3>3, NobodySends DEF EvTypes
    <3> QED
      BY <3>4
  <2> QED
    BY <2>1, <2>2
<1> QED
  BY <1>1, KernelInv, PTL DEF Spec, EventsClearedOnce, Ev!ClearedOnce


(* Mailboxes and message queues: what is sent is received once, in order,  *)
(* urgent messages first.                                                  *)
THEOREM QueuesServe == Spec => QueuesImplemented
<1>1. Init => Mb!Abstract!Init /\ Mq!Abstract!Init
  <2> SUFFICES ASSUME Init PROVE Mb!Abstract!Init /\ Mq!Abstract!Init
    OBVIOUS
  <2>1. Mb!Init /\ Mq!Init /\ None \notin Mails
    BY KernelAssumption DEF Init, Mb!MailboxAssumption
  <2>2. Mb!Abstract!Init
    BY <2>1 DEF Mb!Init, Mb!Abstract!Init, Mb!queueBar
  <2>3. Mq!Abstract!Init
    <3>1. Mq!IsChain(next, << >>, head)
      <4>1. head = Mq!NULL
        BY <2>1 DEF Mq!Init
      <4>2. Mq!IsChain(next, << >>, Mq!NULL)
        BY EmptyChain
      <4> QED
        BY <4>1, <4>2
    <3>2. Mq!LinkedFrom(head) = << >>
      BY <3>1, LinkedByChain DEF Mq!LinkedFrom
    <3> QED
      BY <2>1, <3>2, EmptySeq DEF Mq!Init, Mq!Abstract!Init
  <2> QED
    BY <2>2, <2>3
<1>2. Inv /\ [Next]_vars => /\ [Mb!Abstract!NextInOrder]_Mb!Abstract!vars
                            /\ [Mq!Abstract!Next]_Mq!Abstract!vars
  <2> SUFFICES ASSUME Inv, [Next]_vars
               PROVE  /\ [Mb!Abstract!NextInOrder]_Mb!Abstract!vars
                      /\ [Mq!Abstract!Next]_Mq!Abstract!vars
    OBVIOUS
  <2>0. KernelParts
    BY KernelInvParts
  <2>1. UNCHANGED mbVars => UNCHANGED Mb!Abstract!vars
    BY DEF mbVars, Mb!Abstract!vars, Mb!queueBar
  <2>2. UNCHANGED mqVars => UNCHANGED Mq!Abstract!vars
    BY DEF mqVars, Mq!Abstract!vars, Mq!LinkedFrom
  <2>3. ASSUME using = "mailbox", Mb!Next PROVE [Mb!Abstract!NextInOrder]_Mb!Abstract!vars
    BY <2>0, <2>3, MbParts, MbImplements DEF KernelParts, UsedInv
  <2>4. ASSUME using = "message queue", Mq!Next PROVE [Mq!Abstract!Next]_Mq!Abstract!vars
    <3>1. MqAll
      BY <2>0, <2>4, MqParts DEF KernelParts, UsedInv, MqAll
    <3> QED
      BY <2>4, <3>1, MqImplements
  <2>5. (using = "mailbox" /\ Mb!Next) \/ UNCHANGED mbVars
    BY DEF Next, vars
  <2>6. (using = "message queue" /\ Mq!Next) \/ UNCHANGED mqVars
    BY DEF Next, vars
  <2> QED
    BY <2>1, <2>2, <2>3, <2>4, <2>5, <2>6
<1> QED
  BY <1>1, <1>2, KernelInv, PTL
     DEF Spec, QueuesImplemented, Mb!ImplementsQueue, Mq!ImplementsQueue,
         Mb!Abstract!SpecInOrder, Mq!Abstract!Spec
=============================================================================
