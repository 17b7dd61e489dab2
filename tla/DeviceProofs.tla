---------------------------- MODULE DeviceProofs ----------------------------
(***************************************************************************)
(* Proofs about DeviceObjects, for any number of threads, any sizes and    *)
(* whatever the objects carry.                                             *)
(***************************************************************************)
EXTENDS DeviceObjects, IpcProofs, FiniteSetTheorems

(* Completions.                                                            *)

\* It has a copy of the definitions of Ipc of its own.
LEMMA CoIpc ==
  /\ Co!IpcInv <=> IpcInv
  /\ (Co!IpcInv <=> IpcInv)'
  /\ Co!IpcTypeOK <=> IpcTypeOK
  /\ (Co!IpcTypeOK <=> IpcTypeOK)'
  /\ Co!IpcInit <=> IpcInit
  /\ \A l : Co!ListResume(l) <=> ListResume(l)
  /\ \A t : Co!ThreadTimeout(t) <=> ThreadTimeout(t)
  /\ \A l, t, flg, prio, time :
       Co!ListSuspend(l, t, flg, prio, time) <=> ListSuspend(l, t, flg, prio, time)
BY DEF Co!IpcInv, IpcInv, Co!IpcTypeOK, IpcTypeOK, Co!LinkedOnce, LinkedOnce,
       Co!SuspendedIffWaiting, SuspendedIffWaiting, Co!ArmedOnlyWhileSuspended,
       ArmedOnlyWhileSuspended, Co!Waiting, Waiting, Co!Elements, Elements,
       Co!NoRepeat, NoRepeat, Co!Errors, Errors, Co!Teardown, Teardown,
       Co!IpcInit, IpcInit, Co!ListResume, ListResume, Co!ThreadTimeout, ThreadTimeout,
       Co!Unlink, Unlink, Co!ListSuspend, ListSuspend, Co!Enqueue, Enqueue,
       Co!PrioPosition, PrioPosition, Co!InsertAt, InsertAt

\* Who is in a list, in terms of the states of the threads.
LEMMA ListSleepers ==
  ASSUME IpcInv, NEW l \in Lists
  PROVE  /\ suspend_thread[l] \in Seq(Threads) /\ NoRepeat(suspend_thread[l])
         /\ \A t \in Elements(suspend_thread[l]) : t \in Threads /\ stat[t] = "suspend"
         /\ suspend_thread[l] = << >> <=> Elements(suspend_thread[l]) = {}
<1>1. suspend_thread[l] \in Seq(Threads) /\ NoRepeat(suspend_thread[l])
  BY DEF IpcInv, IpcTypeOK, LinkedOnce
<1>2. \A t \in Elements(suspend_thread[l]) : t \in Threads
  BY <1>1, ElementOfSeq DEF Elements
<1>3. \A t \in Elements(suspend_thread[l]) : stat[t] = "suspend"
  BY <1>2 DEF IpcInv, SuspendedIffWaiting, Waiting
<1>4. suspend_thread[l] # << >> => Head(suspend_thread[l]) \in Elements(suspend_thread[l])
  BY <1>1, TailProperties
<1>5. suspend_thread[l] = << >> => Elements(suspend_thread[l]) = {}
  BY EmptySeq DEF Elements
<1> QED
  BY <1>1, <1>2, <1>3, <1>4, <1>5

LEMMA CoInit == Co!Init => Co!Inv
<1> SUFFICES ASSUME Co!Init PROVE Co!Inv
  OBVIOUS
<1>1. IpcInit /\ flag = FALSE /\ co_call = [t \in Threads |-> "none"]
  BY CoIpc DEF Co!Init
<1>2. IpcInv /\ \A t \in Threads : stat[t] = "ready" /\ error[t] = "EOK"
  BY <1>1, IpcInitInv DEF IpcInit
<1>3. Co!TypeOK
  BY <1>1, <1>2, CoIpc DEF IpcInv, Co!TypeOK, Co!Calls
<1>4. Co!OneWaits /\ Co!SleepersWait /\ Co!CompletionKept
  BY <1>1, <1>2 DEF Co!OneWaits, Co!SleepersWait, Co!CompletionKept, Co!Woken
<1> QED
  BY <1>2, <1>3, <1>4, CoIpc DEF Co!Inv

LEMMA CoShape ==
  ASSUME Co!Inv
  PROVE  /\ IpcInv /\ Done \in Lists /\ flag \in BOOLEAN
         /\ stat \in [Threads -> {"ready", "suspend"}] /\ error \in [Threads -> Errors]
         /\ suspend_thread \in [Lists -> Seq(Threads)]
         /\ co_call \in [Threads -> Co!Calls]
         /\ Co!OneWaits /\ Co!SleepersWait
         /\ suspend_thread[Done] # << >> => ~flag
         /\ \A t \in Threads : co_call[t] = "wait" /\ stat[t] = "ready" /\ error[t] = "EOK" => flag
BY CoIpc, DeviceAssumption
   DEF Co!Inv, Co!TypeOK, IpcInv, IpcTypeOK, Co!CompletionAssumption, Co!CompletionKept, Co!Woken

\* Setting the flag and resuming the first: the one that waits, if there is one.
LEMMA CoComplete ==
  ASSUME Co!Inv, Co!Complete, co_call' \in [Threads -> Co!Calls],
         \A t \in Threads : co_call'[t] = "wait" <=> co_call[t] = "wait"
  PROVE  Co!Inv'
<1>0. /\ IpcInv /\ Done \in Lists /\ suspend_thread \in [Lists -> Seq(Threads)]
      /\ stat \in [Threads -> {"ready", "suspend"}]
      /\ Co!OneWaits /\ Co!SleepersWait
  BY CoShape
<1>1. flag' = TRUE
  BY DEF Co!Complete
<1>2. CASE suspend_thread[Done] = << >>
  <2>1. UNCHANGED ipcVars
    BY <1>2 DEF Co!Complete, Co!ResumeFirst, Co!ipcVars, ipcVars
  <2>2. IpcInv'
    BY <1>0, <2>1, UnchangedInv
  <2>3. suspend_thread'[Done] = << >> /\ UNCHANGED <<stat, error>>
    BY <1>2, <2>1 DEF ipcVars
  <2>4. Co!TypeOK'
    BY <1>1, <2>2, CoIpc DEF Co!TypeOK, IpcInv
  <2>5. Co!OneWaits' /\ Co!SleepersWait'
    BY <1>0, <2>3 DEF Co!OneWaits, Co!SleepersWait
  <2> QED
    BY <1>1, <2>2, <2>3, <2>4, <2>5, CoIpc DEF Co!Inv, Co!CompletionKept
<1>3. CASE suspend_thread[Done] # << >>
  <2> DEFINE w == Head(suspend_thread[Done])
  <2>1. ListResume(Done)
    BY <1>3, CoIpc DEF Co!Complete, Co!ResumeFirst
  <2>2. IpcInv'
    BY <1>0, <1>3, <2>1, ListResumeInv
  <2>3. /\ w \in Threads /\ w \in Elements(suspend_thread[Done])
        /\ \A k \in Lists : Elements(suspend_thread'[k]) = Elements(suspend_thread[k]) \ {w}
    BY <1>0, <1>3, <2>1, PopProperties DEF ListResume
  <2>4. stat' = [stat EXCEPT ![w] = "ready"] /\ UNCHANGED error
    BY <2>1 DEF ListResume
  <2> HIDE DEF w
  <2>5. \A t \in Elements(suspend_thread[Done]) : t = w
    BY <1>0, <2>3, ListSleepers DEF Co!OneWaits, Co!SleepersWait
  <2>6. suspend_thread'[Done] = << >>
    <3>1. Elements(suspend_thread'[Done]) = {}
      BY <1>0, <2>3, <2>5
    <3>2. suspend_thread'[Done] \in Seq(Threads)
      BY <1>0, <2>2 DEF IpcInv, IpcTypeOK
    <3> QED
      BY <3>1, <3>2, NoElements
  <2>7. Co!TypeOK'
    BY <1>1, <2>2, CoIpc DEF Co!TypeOK, IpcInv
  <2>8. Co!OneWaits' /\ Co!SleepersWait'
    BY <1>0, <2>3, <2>4 DEF Co!OneWaits, Co!SleepersWait
  <2> QED
    BY <1>1, <2>2, <2>6, <2>7, <2>8, CoIpc DEF Co!Inv, Co!CompletionKept
<1> QED
  BY <1>2, <1>3

LEMMA CoNext ==
  ASSUME Co!Inv, Co!Next
  PROVE  Co!Inv'
<1>0. /\ IpcInv /\ Done \in Lists /\ flag \in BOOLEAN
      /\ stat \in [Threads -> {"ready", "suspend"}] /\ error \in [Threads -> Errors]
      /\ suspend_thread \in [Lists -> Seq(Threads)]
      /\ co_call \in [Threads -> Co!Calls]
      /\ Co!OneWaits /\ Co!SleepersWait
      /\ suspend_thread[Done] # << >> => ~flag
      /\ \A t \in Threads : co_call[t] = "wait" /\ stat[t] = "ready" /\ error[t] = "EOK" => flag
  BY CoShape
<1>s. \A t \in Elements(suspend_thread[Done]) : t \in Threads /\ stat[t] = "suspend" /\ co_call[t] = "wait"
  BY <1>0, ListSleepers DEF Co!SleepersWait
\* The steps that move no thread.
<1>1. ASSUME UNCHANGED ipcVars, co_call' \in [Threads -> Co!Calls],
             \A u \in Threads : co_call'[u] = "wait" => co_call[u] = "wait",
             \A u \in Threads : stat[u] = "suspend" => co_call'[u] = "wait",
             flag' = flag \/ (flag' = FALSE /\ \A u \in Threads : co_call'[u] # "wait")
      PROVE  Co!Inv'
  <2>1. IpcInv' /\ UNCHANGED <<stat, error, suspend_thread>>
    BY <1>0, <1>1, UnchangedInv DEF ipcVars
  <2>2. Co!TypeOK'
    BY <1>0, <1>1, <2>1, CoIpc DEF Co!TypeOK, IpcInv
  <2>3. Co!OneWaits' /\ Co!SleepersWait'
    BY <1>0, <1>1, <2>1 DEF Co!OneWaits, Co!SleepersWait
  <2>4. Co!CompletionKept'
    BY <1>0, <1>1, <2>1 DEF Co!CompletionKept, Co!Woken
  <2> QED
    BY <2>1, <2>2, <2>3, <2>4, CoIpc DEF Co!Inv
<1>2. ASSUME NEW t \in Threads, Co!WaitAtOnce(t) \/ Co!WaitReturns(t) \/ Co!DoneReads(t)
      PROVE  Co!Inv'
  <2>1. UNCHANGED ipcVars
    BY <1>2 DEF Co!WaitAtOnce, Co!WaitReturns, Co!DoneReads, Co!ipcVars, ipcVars
  <2>2. co_call' \in [Threads -> Co!Calls]
    BY <1>0, <1>2 DEF Co!WaitAtOnce, Co!WaitReturns, Co!DoneReads, Co!Calls
  <2>3. CASE Co!WaitAtOnce(t)
    BY <1>0, <1>1, <2>1, <2>2, <2>3 DEF Co!WaitAtOnce, Co!MayWait, Co!SleepersWait
  <2>4. CASE Co!WaitReturns(t)
    BY <1>0, <1>1, <2>1, <2>2, <2>4 DEF Co!WaitReturns, Co!OneWaits, Co!SleepersWait
  <2>5. CASE Co!DoneReads(t)
    BY <1>0, <1>1, <2>1, <2>2, <2>5 DEF Co!DoneReads, Co!SleepersWait
  <2> QED
    BY <1>2, <2>3, <2>4, <2>5
<1>3. ASSUME NEW t \in Threads, Co!WaitBlocks(t) PROVE Co!Inv'
  <2> DEFINE prio == [u \in Threads |-> 0]
  <2>1. PICK time \in Times \ {"zero"} : ListSuspend(Done, t, "FIFO", prio, time)
    BY <1>3, CoIpc DEF Co!WaitBlocks
  <2>2. /\ ~flag /\ UNCHANGED flag /\ co_call' = [co_call EXCEPT ![t] = "wait"]
        /\ \A u \in Threads : co_call[u] # "wait"
    BY <1>3 DEF Co!WaitBlocks, Co!MayWait
  <2>3. \A u \in Threads : stat[u] = "ready"
    BY <1>0, <2>2 DEF Co!SleepersWait
  <2>4. IpcInv'
    <3>1. prio \in [Threads -> Nat]
      OBVIOUS
    <3> HIDE DEF prio
    <3> QED
      BY <1>0, <2>1, <2>3, <3>1, ListSuspendInv
  <2>5. stat' = [stat EXCEPT ![t] = "suspend"] /\ error' = [error EXCEPT ![t] = "EOK"]
    BY <2>1 DEF ListSuspend
  <2>6. Co!TypeOK'
    BY <1>0, <2>2, <2>4, CoIpc DEF Co!TypeOK, IpcInv, Co!Calls
  <2>7. Co!OneWaits' /\ Co!SleepersWait'
    BY <1>0, <2>2, <2>3, <2>5 DEF Co!OneWaits, Co!SleepersWait
  <2>8. Co!CompletionKept'
    BY <1>0, <2>2, <2>5 DEF Co!CompletionKept, Co!Woken
  <2> QED
    BY <2>4, <2>6, <2>7, <2>8, CoIpc DEF Co!Inv
<1>4. ASSUME NEW t \in Threads, Co!DoneRegion(t) PROVE Co!Inv'
  <2>1. /\ Co!Complete /\ co_call' \in [Threads -> Co!Calls]
        /\ \A u \in Threads : co_call'[u] = "wait" <=> co_call[u] = "wait"
    BY <1>0, <1>4 DEF Co!DoneRegion, Co!Calls
  <2> QED
    BY <2>1, CoComplete
<1>5. ASSUME Co!InterruptDone PROVE Co!Inv'
  <2>1. Co!Complete /\ UNCHANGED co_call
    BY <1>5 DEF Co!InterruptDone
  <2> QED
    BY <1>0, <2>1, CoComplete
<1>6. ASSUME NEW t \in Threads, Co!Timeout(t) PROVE Co!Inv'
  <2>1. ThreadTimeout(t) /\ UNCHANGED <<flag, co_call>>
    BY <1>6, CoIpc DEF Co!Timeout, Co!completionVars
  <2>2. IpcInv'
    BY <1>0, <2>1, ThreadTimeoutInv
  <2>3. /\ stat' = [stat EXCEPT ![t] = "ready"] /\ error' = [error EXCEPT ![t] = "ETIMEOUT"]
        /\ suspend_thread'[Done] = Unlink(suspend_thread[Done], t)
    BY <1>0, <2>1 DEF ThreadTimeout
  <2>4. suspend_thread'[Done] # << >> => suspend_thread[Done] # << >>
    <3>1. /\ Elements(suspend_thread'[Done]) = Elements(suspend_thread[Done]) \ {t}
          /\ suspend_thread'[Done] \in Seq(Threads)
      BY <1>0, <2>3, ListSleepers, UnlinkProperties
    <3>2. suspend_thread[Done] = << >> => Elements(suspend_thread[Done]) = {}
      BY <1>0, ListSleepers
    <3> QED
      BY <3>1, <3>2, NoElements
  <2>5. Co!TypeOK'
    BY <1>0, <2>1, <2>2, CoIpc DEF Co!TypeOK, IpcInv
  <2>6. Co!OneWaits' /\ Co!SleepersWait'
    BY <1>0, <2>1, <2>3 DEF Co!OneWaits, Co!SleepersWait
  <2>7. Co!CompletionKept'
    BY <1>0, <2>1, <2>3, <2>4 DEF Co!CompletionKept, Co!Woken
  <2> QED
    BY <2>2, <2>5, <2>6, <2>7, CoIpc DEF Co!Inv
<1> QED
  BY <1>2, <1>3, <1>4, <1>5, <1>6 DEF Co!Next

-----------------------------------------------------------------------------
(* Pipes.                                                                  *)

LEMMA PiList ==
  /\ \A q : Pi!Elements(q) = Elements(q) /\ (Pi!NoRepeat(q) <=> NoRepeat(q))
  /\ \A S : Pi!Cardinality(S) = Cardinality(S) /\ (Pi!IsFiniteSet(S) <=> IsFiniteSet(S))
BY DEF Pi!Elements, Elements, Pi!NoRepeat, NoRepeat,
       Pi!Cardinality, Cardinality, Pi!IsFiniteSet, IsFiniteSet

LEMMA PiCount ==
  ASSUME open \subseteq Threads, NEW side \in SUBSET Threads
  PROVE  Pi!Count(side) \in Nat /\ (Pi!Count(side) = 0 <=> open \cap side = {})
<1>1. IsFiniteSet(open \cap side)
  BY DeviceAssumption, FS_Subset
<1>2. Pi!Count(side) = Cardinality(open \cap side)
  BY PiList DEF Pi!Count
<1> QED
  BY <1>1, <1>2, FS_CardinalityType, FS_EmptySet

LEMMA PiThreads ==
  /\ Readers \subseteq Threads /\ Pi!Writers \subseteq Threads
  /\ Readers \cap Pi!Writers = {} /\ Readers \cup Pi!Writers = Threads
  /\ BufSz \in Nat \ {0}
  /\ \A r \in Readers : Pi!Own(r) = "reader_queue" /\ Pi!Other(r) = "writer_queue"
  /\ \A w \in Pi!Writers : Pi!Own(w) = "writer_queue" /\ Pi!Other(w) = "reader_queue"
BY DeviceAssumption DEF Pi!PipeAssumption, Pi!Writers, Pi!Own, Pi!Other

\* The first of each queue in W is woken while the others move as base says.
PiFirst(W) == {Head(waiting_list[q]) : q \in {r \in W : waiting_list[r] # << >>}}
PiMoved(W, base) == [u \in Threads |-> IF u \in PiFirst(W) THEN "woken" ELSE base[u]]
PiLeft(W) == [q \in Pi!Queues |-> IF q \in W THEN Pi!WithoutFirst(waiting_list[q])
                                 ELSE waiting_list[q]]

LEMMA PiWakes ==
  ASSUME Pi!TypeOK, Pi!QueuesHoldSleepers, NEW W \in SUBSET Pi!Queues,
         NEW base \in [Threads -> Pi!PC],
         \A u \in Threads : base[u] = "asleep" <=> pipe_pc[u] = "asleep",
         pipe_pc' = PiMoved(W, base), waiting_list' = PiLeft(W)
  PROVE  /\ pipe_pc' \in [Threads -> Pi!PC]
         /\ waiting_list' \in [Pi!Queues -> Seq(Threads)]
         /\ Pi!QueuesHoldSleepers'
         /\ \A u \in PiFirst(W) : u \in Threads /\ pipe_pc[u] = "asleep" /\ Pi!Own(u) \in W
         /\ \A u \in Threads : pipe_pc[u] = "asleep" /\ Pi!Own(u) \in W =>
              \E v \in PiFirst(W) : Pi!Own(v) = Pi!Own(u)
<1> DEFINE first == {Head(waiting_list[q]) : q \in {r \in W : waiting_list[r] # << >>}}
           Sleepers(q) == {t \in Threads : Pi!Own(t) = q /\ pipe_pc[t] = "asleep"}
<1>0. /\ pipe_pc' = [u \in Threads |-> IF u \in first THEN "woken" ELSE base[u]]
      /\ waiting_list' = [q \in Pi!Queues |-> IF q \in W THEN Pi!WithoutFirst(waiting_list[q])
                                              ELSE waiting_list[q]]
      /\ first = PiFirst(W)
  BY DEF PiMoved, PiLeft, PiFirst
<1>1. \A q \in Pi!Queues : /\ waiting_list[q] \in Seq(Threads) /\ NoRepeat(waiting_list[q])
                           /\ Elements(waiting_list[q]) = Sleepers(q)
  BY PiList DEF Pi!TypeOK, Pi!QueuesHoldSleepers, Pi!Asleep
<1>2. ASSUME NEW q \in W, waiting_list[q] # << >>
      PROVE  /\ Head(waiting_list[q]) \in Sleepers(q)
             /\ Tail(waiting_list[q]) \in Seq(Threads) /\ NoRepeat(Tail(waiting_list[q]))
             /\ Elements(Tail(waiting_list[q])) = Sleepers(q) \ {Head(waiting_list[q])}
  BY <1>1, <1>2, TailProperties
<1>3. ASSUME NEW q \in Pi!Queues, waiting_list[q] = << >> PROVE Sleepers(q) = {}
  BY <1>1, <1>3, EmptySeq DEF Elements
<1> HIDE DEF Sleepers
<1>4. \A u \in first : \E q \in W : u \in Sleepers(q)
  BY <1>2
<1>5. \A u \in first : u \in Threads /\ pipe_pc[u] = "asleep" /\ Pi!Own(u) \in W
  BY <1>4 DEF Sleepers
<1>6. ASSUME NEW q \in Pi!Queues
      PROVE  /\ waiting_list'[q] \in Seq(Threads) /\ NoRepeat(waiting_list'[q])
             /\ Elements(waiting_list'[q]) = Sleepers(q) \ first
  <2>1. \A u, v \in first : u \in Sleepers(q) /\ v \in Sleepers(q) => u = v
    <3>1. TAKE u, v \in first
    <3>2. PICK a \in W : waiting_list[a] # << >> /\ u = Head(waiting_list[a])
      OBVIOUS
    <3>3. PICK b \in W : waiting_list[b] # << >> /\ v = Head(waiting_list[b])
      OBVIOUS
    <3>4. u \in Sleepers(a) /\ v \in Sleepers(b)
      BY <1>2, <3>2, <3>3
    <3> QED
      BY <3>2, <3>3, <3>4 DEF Sleepers
  <2>2. CASE q \in W /\ waiting_list[q] # << >>
    <3>1. waiting_list'[q] = Tail(waiting_list[q])
      BY <1>0, <2>2 DEF Pi!WithoutFirst
    <3>2. Head(waiting_list[q]) \in first /\ Head(waiting_list[q]) \in Sleepers(q)
      BY <1>2, <2>2
    <3>3. Sleepers(q) \ first = Sleepers(q) \ {Head(waiting_list[q])}
      BY <2>1, <3>2
    <3> QED
      BY <1>2, <2>2, <3>1, <3>3
  <2>3. CASE q \notin W \/ waiting_list[q] = << >>
    <3>1. waiting_list'[q] = waiting_list[q]
      BY <1>0, <2>3 DEF Pi!WithoutFirst
    <3>2. Sleepers(q) \cap first = {}
      <4>1. ASSUME NEW u \in first, u \in Sleepers(q) PROVE FALSE
        <5>1. Pi!Own(u) \in W /\ Pi!Own(u) = q
          BY <1>5, <4>1 DEF Sleepers
        <5> QED
          BY <1>3, <2>3, <4>1, <5>1
      <4> QED
        BY <4>1
    <3> QED
      BY <1>1, <3>1, <3>2
  <2> QED
    BY <2>2, <2>3
<1>7. \A q \in Pi!Queues : Sleepers(q) \ first =
                             {t \in Threads : Pi!Own(t) = q /\ pipe_pc'[t] = "asleep"}
  BY <1>0 DEF Sleepers
<1>8. \A u \in Threads : pipe_pc[u] = "asleep" /\ Pi!Own(u) \in W =>
              \E v \in first : Pi!Own(v) = Pi!Own(u)
  <2>1. TAKE u \in Threads
  <2>2. HAVE pipe_pc[u] = "asleep" /\ Pi!Own(u) \in W
  <2>3. u \in Sleepers(Pi!Own(u))
    BY <2>2 DEF Sleepers
  <2>4. waiting_list[Pi!Own(u)] # << >>
    BY <1>3, <2>2, <2>3
  <2>5. Head(waiting_list[Pi!Own(u)]) \in first /\ Head(waiting_list[Pi!Own(u)]) \in Sleepers(Pi!Own(u))
    BY <1>2, <2>2, <2>4
  <2> QED
    BY <2>5 DEF Sleepers
<1>9. pipe_pc' \in [Threads -> Pi!PC]
  BY <1>0 DEF Pi!PC
<1>10. waiting_list' \in [Pi!Queues -> Seq(Threads)]
  BY <1>0, <1>6
<1>11. Pi!QueuesHoldSleepers'
  BY <1>6, <1>7, PiList DEF Pi!QueuesHoldSleepers, Pi!Asleep, Pi!Own
<1> QED
  BY <1>0, <1>5, <1>8, <1>9, <1>10, <1>11

LEMMA PiWakeup ==
  ASSUME Pi!TypeOK, Pi!QueuesHoldSleepers, NEW q \in Pi!Queues, NEW t \in Threads,
         NEW label \in Pi!PC, label # "asleep", pipe_pc[t] # "asleep", Pi!Wakeup(q, t, label)
  PROVE  /\ pipe_pc' \in [Threads -> Pi!PC]
         /\ waiting_list' \in [Pi!Queues -> Seq(Threads)]
         /\ wakeup_flag' \in [Pi!Queues -> BOOLEAN] /\ Pi!QueuesHoldSleepers'
         /\ \A r \in Pi!Queues : wakeup_flag'[r] = (r = q \/ wakeup_flag[r])
         /\ pipe_pc'[t] = label
         /\ \A u \in Threads \ {t} :
              \/ pipe_pc'[u] = pipe_pc[u]
              \/ pipe_pc[u] = "asleep" /\ Pi!Own(u) = q /\ pipe_pc'[u] = "woken"
         /\ \A u \in Threads : pipe_pc[u] = "asleep" /\ Pi!Own(u) = q =>
              \E v \in Threads : Pi!Own(v) = q /\ pipe_pc'[v] = "woken"
<1> DEFINE base == [pipe_pc EXCEPT ![t] = label]
<1>0. /\ pipe_pc \in [Threads -> Pi!PC] /\ waiting_list \in [Pi!Queues -> Seq(Threads)]
      /\ wakeup_flag \in [Pi!Queues -> BOOLEAN] /\ {q} \in SUBSET Pi!Queues
  BY DEF Pi!TypeOK
<1>1. base \in [Threads -> Pi!PC] /\ \A u \in Threads : base[u] = IF u = t THEN label ELSE pipe_pc[u]
  BY <1>0
<1>2. pipe_pc' = [u \in Threads |-> IF u \in PiFirst({q}) THEN "woken" ELSE base[u]]
  <2>1. pipe_pc' = IF waiting_list[q] = << >> THEN base
                   ELSE [base EXCEPT ![Head(waiting_list[q])] = "woken"]
    BY DEF Pi!Wakeup, Pi!Woken
  <2>2. PiFirst({q}) = IF waiting_list[q] = << >> THEN {} ELSE {Head(waiting_list[q])}
    BY DEF PiFirst
  <2> HIDE DEF base
  <2> QED
    BY <1>1, <2>1, <2>2
<1>3. waiting_list' = PiLeft({q})
  BY <1>0 DEF Pi!Wakeup, PiLeft
<1>4. pipe_pc' = PiMoved({q}, base)
  BY <1>2 DEF PiMoved
<1>5. \A u \in Threads : base[u] = "asleep" <=> pipe_pc[u] = "asleep"
  BY <1>1
<1> HIDE DEF base
<1>6. /\ pipe_pc' \in [Threads -> Pi!PC]
      /\ waiting_list' \in [Pi!Queues -> Seq(Threads)]
      /\ Pi!QueuesHoldSleepers'
      /\ \A u \in PiFirst({q}) : u \in Threads /\ pipe_pc[u] = "asleep" /\ Pi!Own(u) \in {q}
      /\ \A u \in Threads : pipe_pc[u] = "asleep" /\ Pi!Own(u) \in {q} =>
           \E v \in PiFirst({q}) : Pi!Own(v) = Pi!Own(u)
  BY <1>0, <1>1, <1>3, <1>4, <1>5, PiWakes
<1>7. /\ wakeup_flag' \in [Pi!Queues -> BOOLEAN]
      /\ \A r \in Pi!Queues : wakeup_flag'[r] = (r = q \/ wakeup_flag[r])
  <2>1. wakeup_flag' = [wakeup_flag EXCEPT ![q] = TRUE]
    BY DEF Pi!Wakeup
  <2> QED
    BY <1>0, <2>1
<1> QED
  BY <1>1, <1>2, <1>6, <1>7

(* Each step of a pipe keeps its invariant.                                *)
LEMMA PiNext ==
  ASSUME Pi!Inv, Pi!Next
  PROVE  Pi!Inv'
<1> DEFINE Told == Pi!OneReader => Pi!ReaderTold /\ Pi!OneOfBothAwake /\ Pi!HangUpTold
<1>0. /\ Pi!TypeOK /\ Pi!QueuesHoldSleepers /\ Pi!CallsHaveItOpen
      /\ fifo \in 0..BufSz /\ open \subseteq Threads
      /\ pipe_pc \in [Threads -> Pi!PC] /\ waiting_list \in [Pi!Queues -> Seq(Threads)]
      /\ wakeup_flag \in [Pi!Queues -> BOOLEAN] /\ rest \in [Threads -> 0..(BufSz + 1)]
      /\ Told
  BY DEF Pi!Inv, Pi!TypeOK
<1>1. PICK t \in Threads :
           \/ Pi!Open(t) \/ Pi!Close(t) \/ Pi!Read(t) \/ (\E n \in 1..(BufSz + 1) : Pi!Write(t, n))
           \/ Pi!ReadLocked(t) \/ Pi!WriteLocked(t) \/ Pi!WakesOther(t) \/ Pi!WriteReturns(t)
           \/ Pi!Waits(t) \/ Pi!WaitEnds(t)
  BY DEF Pi!Next
<1>2. Pi!Own(t) \in Pi!Queues /\ Pi!Other(t) \in Pi!Queues
  BY DEF Pi!Own, Pi!Other, Pi!Queues
<1>3. {"reader_queue", "writer_queue"} = Pi!Queues
  BY DEF Pi!Queues
\* Two groups of steps: those that leave the queues alone, and the wake-ups.
<1>4. ASSUME pipe_pc' \in [Threads -> Pi!PC], UNCHANGED waiting_list,
             \A u \in Threads : pipe_pc'[u] = "asleep" <=> pipe_pc[u] = "asleep"
      PROVE  Pi!QueuesHoldSleepers' /\ waiting_list' \in [Pi!Queues -> Seq(Threads)]
  <2>1. \A q : {u \in Threads : Pi!Own(u) = q /\ pipe_pc'[u] = "asleep"}
                  = {u \in Threads : Pi!Own(u) = q /\ pipe_pc[u] = "asleep"}
    BY <1>4
  <2> QED
    BY <1>0, <1>4, <2>1 DEF Pi!QueuesHoldSleepers, Pi!Asleep, Pi!Own
<1>5. ASSUME Pi!Open(t) PROVE Pi!Inv'
  <2>1. Pi!TypeOK'
    BY <1>0, <1>5, PiThreads DEF Pi!Open, Pi!TypeOK
  <2>2. Pi!QueuesHoldSleepers' /\ Pi!CallsHaveItOpen'
    BY <1>0, <1>4, <1>5 DEF Pi!Open, Pi!CallsHaveItOpen
  <2>3. Told'
    BY <1>0, <1>5, PiThreads
       DEF Pi!Open, Pi!OneReader, Pi!ReaderTold, Pi!OneOfBothAwake, Pi!HangUpTold, Pi!Sleeps,
           Pi!Asleep, Pi!CallsHaveItOpen, Pi!Own
  <2> QED
    BY <2>1, <2>2, <2>3 DEF Pi!Inv
<1>7. ASSUME Pi!Read(t) \/ \E n \in 1..(BufSz + 1) : Pi!Write(t, n) PROVE Pi!Inv'
  <2>0. (/\ pipe_pc' = [pipe_pc EXCEPT ![t] = "lock"] /\ pipe_pc[t] = "idle" /\ t \in open
         /\ UNCHANGED <<fifo, open, waiting_list, wakeup_flag>>
         /\ rest' \in [Threads -> 0..(BufSz + 1)]
         /\ pipe_pc' \in [Threads -> Pi!PC])
    <3>1. CASE Pi!Read(t)
      BY <1>0, <3>1, PiThreads DEF Pi!Read, Pi!Goto, Pi!PC
    <3>2. CASE ~Pi!Read(t)
      <4>1. PICK n \in 1..(BufSz + 1) : Pi!Write(t, n)
        BY <1>7, <3>2
      <4>2. n \in 0..(BufSz + 1)
        BY PiThreads
      <4> QED
        BY <1>0, <4>1, <4>2, PiThreads DEF Pi!Write, Pi!Goto, Pi!PC
    <3> QED
      BY <3>1, <3>2
  <2>1. Pi!TypeOK'
    BY <1>0, <2>0 DEF Pi!TypeOK
  <2>2. Pi!QueuesHoldSleepers' /\ Pi!CallsHaveItOpen'
    BY <1>0, <1>4, <2>0 DEF Pi!CallsHaveItOpen
  <2>3. Told'
    BY <1>0, <2>0, PiThreads
       DEF Pi!OneReader, Pi!ReaderTold, Pi!OneOfBothAwake, Pi!HangUpTold, Pi!Sleeps,
           Pi!Asleep, Pi!Own
  <2> QED
    BY <2>1, <2>2, <2>3 DEF Pi!Inv
<1>8. ASSUME Pi!WaitEnds(t) PROVE Pi!Inv'
  <2>0. /\ pipe_pc' = [pipe_pc EXCEPT ![t] = "again"] /\ pipe_pc[t] = "woken" /\ t \in open
        /\ wakeup_flag' = [wakeup_flag EXCEPT ![Pi!Own(t)] = FALSE]
        /\ UNCHANGED <<fifo, open, waiting_list, rest>>
        /\ pipe_pc' \in [Threads -> Pi!PC] /\ wakeup_flag' \in [Pi!Queues -> BOOLEAN]
    BY <1>0, <1>2, <1>8 DEF Pi!WaitEnds, Pi!Goto, Pi!PC, Pi!CallsHaveItOpen
  <2>1. Pi!TypeOK'
    BY <1>0, <2>0 DEF Pi!TypeOK
  <2>2. Pi!QueuesHoldSleepers' /\ Pi!CallsHaveItOpen'
    BY <1>0, <1>4, <2>0 DEF Pi!CallsHaveItOpen
  <2>3. Told'
    BY <1>0, <1>3, <2>0, PiThreads
       DEF Pi!OneReader, Pi!ReaderTold, Pi!OneOfBothAwake, Pi!HangUpTold, Pi!Sleeps,
           Pi!Asleep, Pi!Own
  <2> QED
    BY <2>1, <2>2, <2>3 DEF Pi!Inv
<1>9. ASSUME Pi!Waits(t) PROVE Pi!Inv'
  <2>a. pipe_pc[t] = "wait" /\ t \in open /\ UNCHANGED <<fifo, open, rest>>
    BY <1>0, <1>9 DEF Pi!Waits, Pi!CallsHaveItOpen
  <2>1. CASE wakeup_flag[Pi!Own(t)]
    <3>0. /\ pipe_pc' = [pipe_pc EXCEPT ![t] = "again"]
          /\ wakeup_flag' = [wakeup_flag EXCEPT ![Pi!Own(t)] = FALSE]
          /\ UNCHANGED waiting_list
          /\ pipe_pc' \in [Threads -> Pi!PC] /\ wakeup_flag' \in [Pi!Queues -> BOOLEAN]
      BY <1>0, <1>2, <1>9, <2>1 DEF Pi!Waits, Pi!Goto, Pi!PC
    <3>1. Pi!TypeOK'
      BY <1>0, <2>a, <3>0 DEF Pi!TypeOK
    <3>2. Pi!QueuesHoldSleepers' /\ Pi!CallsHaveItOpen'
      BY <1>0, <1>4, <2>a, <3>0 DEF Pi!CallsHaveItOpen
    <3>3. Told'
      <4> SUFFICES ASSUME Pi!OneReader'
                   PROVE  Pi!ReaderTold' /\ Pi!OneOfBothAwake' /\ Pi!HangUpTold'
        OBVIOUS
      <4>0. Pi!OneReader /\ Pi!ReaderTold /\ Pi!OneOfBothAwake /\ Pi!HangUpTold
        BY <1>0 DEF Pi!OneReader
      <4>1. /\ pipe_pc'[t] = "again"
            /\ \A u \in Threads \ {t} : pipe_pc'[u] = pipe_pc[u]
            /\ \A u \in Threads : Pi!Own(u) # Pi!Own(t) =>
                 wakeup_flag'[Pi!Own(u)] = wakeup_flag[Pi!Own(u)]
        BY <1>0, <1>3, <3>0 DEF Pi!Own
      <4>2. CASE t \in Readers
        <5>1. /\ wakeup_flag'["writer_queue"] = wakeup_flag["writer_queue"]
              /\ \A r \in Readers : r = t
          BY <1>0, <1>3, <2>a, <3>0, <4>0, <4>2, PiThreads DEF Pi!OneReader
        <5> QED
          BY <1>0, <2>a, <3>0, <4>0, <4>1, <4>2, <5>1, PiThreads
             DEF Pi!ReaderTold, Pi!OneOfBothAwake, Pi!HangUpTold, Pi!Sleeps, Pi!Asleep
      <4>3. CASE t \in Pi!Writers
        <5>1. wakeup_flag'["reader_queue"] = wakeup_flag["reader_queue"]
          BY <1>0, <1>3, <3>0, <4>3, PiThreads
        <5>2. \A r \in Readers : r # t /\ r \in Threads /\ pipe_pc'[r] = pipe_pc[r]
          BY <4>1, <4>3, PiThreads
        <5>3. Pi!ReaderTold'
          BY <1>0, <2>a, <4>0, <4>1, <5>1, <5>2, PiThreads
             DEF Pi!ReaderTold, Pi!Sleeps, Pi!Asleep, Pi!Own
        <5>4. Pi!OneOfBothAwake' /\ Pi!HangUpTold'
          BY <4>1, <4>3 DEF Pi!OneOfBothAwake, Pi!HangUpTold
        <5> QED
          BY <5>3, <5>4
      <4> QED
        BY <4>2, <4>3, PiThreads
    <3> QED
      BY <3>1, <3>2, <3>3 DEF Pi!Inv
  <2>2. CASE ~wakeup_flag[Pi!Own(t)]
    <3>0. /\ pipe_pc' = [pipe_pc EXCEPT ![t] = "asleep"]
          /\ waiting_list' = [waiting_list EXCEPT ![Pi!Own(t)] = Append(@, t)]
          /\ UNCHANGED wakeup_flag
          /\ pipe_pc' \in [Threads -> Pi!PC]
      BY <1>0, <1>2, <1>9, <2>2 DEF Pi!Waits, Pi!Goto, Pi!PC
    <3>1. Pi!QueuesHoldSleepers' /\ waiting_list' \in [Pi!Queues -> Seq(Threads)]
      <4>1. ASSUME NEW q \in Pi!Queues
            PROVE  /\ waiting_list'[q] \in Seq(Threads) /\ NoRepeat(waiting_list'[q])
                   /\ Elements(waiting_list'[q]) =
                        {u \in Threads : Pi!Own(u) = q /\ pipe_pc'[u] = "asleep"}
        <5>1. /\ waiting_list[q] \in Seq(Threads) /\ NoRepeat(waiting_list[q])
              /\ Elements(waiting_list[q]) =
                        {u \in Threads : Pi!Own(u) = q /\ pipe_pc[u] = "asleep"}
          BY <1>0, PiList DEF Pi!QueuesHoldSleepers, Pi!Asleep
        <5>2. CASE q = Pi!Own(t)
          <6>1. waiting_list'[q] = Append(waiting_list[q], t) /\ t \notin Elements(waiting_list[q])
            BY <1>0, <2>a, <3>0, <5>1, <5>2
          <6>2. /\ waiting_list'[q] \in Seq(Threads) /\ NoRepeat(waiting_list'[q])
                /\ Elements(waiting_list'[q]) = Elements(waiting_list[q]) \cup {t}
            BY <5>1, <6>1, AppendKeepsNoRepeat
          <6> QED
            BY <1>0, <3>0, <5>1, <5>2, <6>2
        <5>3. CASE q # Pi!Own(t)
          BY <1>0, <3>0, <5>1, <5>3
        <5> QED
          BY <5>2, <5>3
      <4>2. waiting_list' \in [Pi!Queues -> Seq(Threads)]
        BY <1>0, <3>0, <4>1
      <4> QED
        BY <4>1, <4>2, PiList DEF Pi!QueuesHoldSleepers, Pi!Asleep, Pi!Own
    <3>2. Pi!TypeOK' /\ Pi!CallsHaveItOpen'
      BY <1>0, <2>a, <3>0, <3>1 DEF Pi!TypeOK, Pi!CallsHaveItOpen
    <3>3. Told'
      BY <1>0, <1>3, <2>a, <2>2, <3>0, PiThreads
         DEF Pi!OneReader, Pi!ReaderTold, Pi!OneOfBothAwake, Pi!HangUpTold, Pi!Sleeps,
             Pi!Asleep, Pi!Own
    <3> QED
      BY <3>1, <3>2, <3>3 DEF Pi!Inv
  <2> QED
    BY <2>1, <2>2
<1>10. ASSUME Pi!WakesOther(t) PROVE Pi!Inv'
  <2>0. /\ pipe_pc[t] = "wake" /\ t \in open /\ UNCHANGED <<fifo, open, rest>>
        /\ Pi!Wakeup(Pi!Other(t), t, "wait") /\ "wait" \in Pi!PC
    BY <1>0, <1>10 DEF Pi!WakesOther, Pi!CallsHaveItOpen, Pi!PC
  <2>w. /\ pipe_pc' \in [Threads -> Pi!PC]
        /\ waiting_list' \in [Pi!Queues -> Seq(Threads)]
        /\ wakeup_flag' \in [Pi!Queues -> BOOLEAN] /\ Pi!QueuesHoldSleepers'
        /\ \A r \in Pi!Queues : wakeup_flag'[r] = (r = Pi!Other(t) \/ wakeup_flag[r])
        /\ pipe_pc'[t] = "wait"
        /\ \A u \in Threads \ {t} :
             \/ pipe_pc'[u] = pipe_pc[u]
             \/ pipe_pc[u] = "asleep" /\ Pi!Own(u) = Pi!Other(t) /\ pipe_pc'[u] = "woken"
        /\ \A u \in Threads : pipe_pc[u] = "asleep" /\ Pi!Own(u) = Pi!Other(t) =>
             \E v \in Threads : Pi!Own(v) = Pi!Other(t) /\ pipe_pc'[v] = "woken"
    BY <1>0, <1>2, <2>0, PiWakeup
  <2>1. Pi!TypeOK' /\ Pi!CallsHaveItOpen'
    BY <1>0, <2>0, <2>w DEF Pi!TypeOK, Pi!CallsHaveItOpen
  <2>2. Told'
    <3> SUFFICES ASSUME Pi!OneReader'
                 PROVE  Pi!ReaderTold' /\ Pi!OneOfBothAwake' /\ Pi!HangUpTold'
      OBVIOUS
    <3>0. Pi!OneReader /\ Pi!ReaderTold /\ Pi!OneOfBothAwake /\ Pi!HangUpTold
      BY <1>0 DEF Pi!OneReader
    <3>1. CASE t \in Readers
      <4>1. /\ wakeup_flag'["writer_queue"] /\ wakeup_flag'["reader_queue"] = wakeup_flag["reader_queue"]
            /\ \A r \in Readers : r = t
            /\ \A w \in Pi!Writers :
                 pipe_pc'[w] = pipe_pc[w] \/ (pipe_pc[w] = "asleep" /\ pipe_pc'[w] = "woken")
            /\ (\E w \in Pi!Writers : pipe_pc[w] = "asleep") => \E w \in Pi!Writers : pipe_pc'[w] = "woken"
        <5>1. Pi!Other(t) = "writer_queue" /\ \A w \in Pi!Writers : w \in Threads \ {t}
          BY <3>1, PiThreads
        <5>2. /\ wakeup_flag'["writer_queue"]
              /\ wakeup_flag'["reader_queue"] = wakeup_flag["reader_queue"]
          BY <1>0, <1>3, <2>w, <5>1
        <5>3. \A r \in Readers : r = t
          BY <3>0, <3>1 DEF Pi!OneReader
        <5>4. \A w \in Pi!Writers :
                 pipe_pc'[w] = pipe_pc[w] \/ (pipe_pc[w] = "asleep" /\ pipe_pc'[w] = "woken")
          BY <2>w, <5>1
        <5>5. \A v \in Threads : Pi!Own(v) = "writer_queue" <=> v \in Pi!Writers
          BY PiThreads
        <5>6. (\E w \in Pi!Writers : pipe_pc[w] = "asleep") => \E w \in Pi!Writers : pipe_pc'[w] = "woken"
          BY <2>w, <5>1, <5>5
        <5> QED
          BY <5>2, <5>3, <5>4, <5>6
      <4>2. Pi!ReaderTold'
        BY <2>0, <2>w, <3>0, <3>1, <4>1, PiThreads
           DEF Pi!ReaderTold, Pi!Sleeps, Pi!Asleep, Pi!Own
      <4>3. Pi!OneOfBothAwake'
        BY <4>1 DEF Pi!OneOfBothAwake, Pi!Asleep
      <4>4. Pi!HangUpTold'
        BY <2>0, <3>1, <4>1 DEF Pi!HangUpTold
      <4> QED
        BY <4>2, <4>3, <4>4
    <3>2. CASE t \in Pi!Writers
      <4>1. \A r \in Readers : pipe_pc'[r] # "asleep" /\ wakeup_flag'[Pi!Own(r)]
        <5>1. /\ Pi!Other(t) = "reader_queue"
              /\ \A v \in Threads : Pi!Own(v) = "reader_queue" <=> v \in Readers
          BY <3>2, PiThreads
        <5>2. TAKE r \in Readers
        <5>3. r \in Threads \ {t} /\ \A v \in Readers : v = r
          BY <3>0, <3>2, PiThreads DEF Pi!OneReader
        <5>4. pipe_pc[r] = "asleep" => pipe_pc'[r] = "woken"
          BY <2>w, <5>1, <5>3
        <5> QED
          BY <1>3, <2>w, <5>1, <5>3, <5>4
      <4>2. Pi!ReaderTold' /\ Pi!OneOfBothAwake'
        BY <4>1 DEF Pi!ReaderTold, Pi!OneOfBothAwake, Pi!Sleeps, Pi!Asleep, Pi!Own
      <4>3. /\ wakeup_flag'["writer_queue"] = wakeup_flag["writer_queue"]
            /\ \A w \in Pi!Writers : w # t => pipe_pc'[w] = pipe_pc[w]
        BY <1>0, <1>3, <2>w, <3>2, PiThreads
      <4>4. Pi!HangUpTold'
        BY <2>0, <2>w, <3>0, <4>3, PiThreads DEF Pi!HangUpTold, Pi!Asleep
      <4> QED
        BY <4>2, <4>4
    <3> QED
      BY <3>1, <3>2, PiThreads
  <2> QED
    BY <2>1, <2>2, <2>w DEF Pi!Inv
<1>11. ASSUME Pi!WriteReturns(t) PROVE Pi!Inv'
  <2>0. /\ pipe_pc[t] = "last" /\ t \in open /\ t \in Pi!Writers /\ UNCHANGED <<fifo, open, rest>>
        /\ Pi!Wakeup("reader_queue", t, "idle") /\ "idle" \in Pi!PC
    BY <1>0, <1>11 DEF Pi!WriteReturns, Pi!CallsHaveItOpen, Pi!PC
  <2>w. /\ pipe_pc' \in [Threads -> Pi!PC]
        /\ waiting_list' \in [Pi!Queues -> Seq(Threads)]
        /\ wakeup_flag' \in [Pi!Queues -> BOOLEAN] /\ Pi!QueuesHoldSleepers'
        /\ \A r \in Pi!Queues : wakeup_flag'[r] = (r = "reader_queue" \/ wakeup_flag[r])
        /\ pipe_pc'[t] = "idle"
        /\ \A u \in Threads \ {t} :
             \/ pipe_pc'[u] = pipe_pc[u]
             \/ pipe_pc[u] = "asleep" /\ Pi!Own(u) = "reader_queue" /\ pipe_pc'[u] = "woken"
        /\ \A u \in Threads : pipe_pc[u] = "asleep" /\ Pi!Own(u) = "reader_queue" =>
             \E v \in Threads : Pi!Own(v) = "reader_queue" /\ pipe_pc'[v] = "woken"
    BY <1>0, <1>3, <2>0, PiWakeup
  <2>1. Pi!TypeOK' /\ Pi!CallsHaveItOpen'
    BY <1>0, <2>0, <2>w DEF Pi!TypeOK, Pi!CallsHaveItOpen
  <2>2. Told'
    <3> SUFFICES ASSUME Pi!OneReader'
                 PROVE  Pi!ReaderTold' /\ Pi!OneOfBothAwake' /\ Pi!HangUpTold'
      OBVIOUS
    <3>1. \A r \in Readers : pipe_pc'[r] # "asleep" /\ wakeup_flag'[Pi!Own(r)]
      <4>1. TAKE r \in Readers
      <4>2. r \in Threads \ {t} /\ \A v \in Readers : v = r
        BY <2>0, PiThreads DEF Pi!OneReader
      <4>3. \A v \in Threads : Pi!Own(v) = "reader_queue" <=> v \in Readers
        BY PiThreads
      <4>4. pipe_pc[r] = "asleep" => pipe_pc'[r] = "woken"
        BY <2>w, <4>2, <4>3
      <4> QED
        BY <1>3, <2>w, <4>2, <4>3, <4>4
    <3>2. Pi!ReaderTold' /\ Pi!OneOfBothAwake'
      BY <3>1 DEF Pi!ReaderTold, Pi!OneOfBothAwake, Pi!Sleeps, Pi!Asleep, Pi!Own
    <3>3. Pi!HangUpTold'
      BY <2>0, <2>w DEF Pi!HangUpTold
    <3> QED
      BY <3>2, <3>3
  <2> QED
    BY <2>1, <2>2, <2>w DEF Pi!Inv
<1>12. ASSUME Pi!ReadLocked(t) PROVE Pi!Inv'
  <2>0. /\ t \in Readers /\ pipe_pc[t] \in {"lock", "again"} /\ t \in open /\ UNCHANGED <<open, rest>>
    BY <1>0, <1>12 DEF Pi!ReadLocked, Pi!CallsHaveItOpen
  <2>r. Pi!OneReader => \A r \in Readers : r = t
    BY <2>0 DEF Pi!OneReader
  <2>h. Pi!HangUpTold'
    BY <2>0 DEF Pi!HangUpTold
  <2>1. ASSUME NEW label \in {"idle", "wake"}, Pi!Goto(t, label),
               UNCHANGED <<fifo, waiting_list, wakeup_flag>>,
               label = "wake" => fifo = 0 /\ open \cap Pi!Writers # {}
        PROVE  Pi!Inv'
    <3>0. /\ pipe_pc' = [pipe_pc EXCEPT ![t] = label] /\ pipe_pc' \in [Threads -> Pi!PC]
          /\ pipe_pc'[t] = label
      BY <1>0, <2>1 DEF Pi!Goto, Pi!PC
    <3>1. Pi!TypeOK'
      BY <1>0, <2>0, <2>1, <3>0 DEF Pi!TypeOK
    <3>2. Pi!QueuesHoldSleepers'
      BY <1>0, <1>4, <2>0, <2>1, <3>0
    <3>3. Pi!CallsHaveItOpen'
      BY <1>0, <2>0, <2>1, <3>0 DEF Pi!CallsHaveItOpen
    <3>4. Pi!OneReader => Pi!ReaderTold' /\ Pi!OneOfBothAwake'
      BY <2>0, <2>1, <2>r, <3>0 DEF Pi!ReaderTold, Pi!OneOfBothAwake, Pi!Sleeps, Pi!Asleep, Pi!Own
    <3> QED
      BY <2>h, <3>1, <3>2, <3>3, <3>4 DEF Pi!Inv, Pi!OneReader
  <2>2. ASSUME Pi!Wakeup("writer_queue", t, "idle"), fifo > 0, \E n \in 1..fifo : fifo' = fifo - n
        PROVE  Pi!Inv'
    <3>0. fifo' \in 0..BufSz /\ "idle" \in Pi!PC
      BY <1>0, <2>2, PiThreads DEF Pi!PC
    <3>w. /\ pipe_pc' \in [Threads -> Pi!PC]
          /\ waiting_list' \in [Pi!Queues -> Seq(Threads)]
          /\ wakeup_flag' \in [Pi!Queues -> BOOLEAN] /\ Pi!QueuesHoldSleepers'
          /\ \A r \in Pi!Queues : wakeup_flag'[r] = (r = "writer_queue" \/ wakeup_flag[r])
          /\ pipe_pc'[t] = "idle"
          /\ \A u \in Threads \ {t} :
               \/ pipe_pc'[u] = pipe_pc[u]
               \/ pipe_pc[u] = "asleep" /\ Pi!Own(u) = "writer_queue" /\ pipe_pc'[u] = "woken"
          /\ \A u \in Threads : pipe_pc[u] = "asleep" /\ Pi!Own(u) = "writer_queue" =>
               \E v \in Threads : Pi!Own(v) = "writer_queue" /\ pipe_pc'[v] = "woken"
      BY <1>0, <1>3, <2>0, <2>2, <3>0, PiWakeup
    <3>1. Pi!TypeOK' /\ Pi!CallsHaveItOpen'
      BY <1>0, <2>0, <3>0, <3>w DEF Pi!TypeOK, Pi!CallsHaveItOpen
    <3>2. Pi!OneReader => Pi!ReaderTold' /\ Pi!OneOfBothAwake'
      BY <2>r, <3>w DEF Pi!ReaderTold, Pi!OneOfBothAwake, Pi!Sleeps, Pi!Asleep
    <3> QED
      BY <2>h, <3>w, <3>1, <3>2 DEF Pi!Inv, Pi!OneReader
  <2>3. CASE Pi!Count(Pi!Writers) = 0
    BY <1>12, <2>1, <2>3 DEF Pi!ReadLocked
  <2>4. CASE Pi!Count(Pi!Writers) # 0
    <3>1. open \cap Pi!Writers # {}
      BY <1>0, <2>4, PiCount, PiThreads
    <3> QED
      BY <1>12, <2>1, <2>2, <2>4, <3>1 DEF Pi!ReadLocked
  <2> QED
    BY <2>3, <2>4
<1>13. ASSUME Pi!WriteLocked(t) PROVE Pi!Inv'
  <2>0. /\ t \in Pi!Writers /\ pipe_pc[t] \in {"lock", "again"} /\ t \in open
        /\ UNCHANGED <<open, waiting_list, wakeup_flag>>
    BY <1>0, <1>13 DEF Pi!WriteLocked, Pi!CallsHaveItOpen
  <2>1. /\ fifo' \in 0..BufSz /\ rest' \in [Threads -> 0..(BufSz + 1)]
        /\ \E label \in {"idle", "last", "wake"} :
             /\ pipe_pc' = [pipe_pc EXCEPT ![t] = label]
             /\ IF open \cap Readers = {} THEN label # "wake" ELSE label # "idle"
    <3>0. Pi!Count(Readers) = 0 <=> open \cap Readers = {}
      BY <1>0, PiCount, PiThreads
    <3>1. CASE Pi!Count(Readers) = 0
      <4>1. 0 \in 0..(BufSz + 1)
        BY PiThreads
      <4> QED
        BY <1>0, <1>13, <3>0, <3>1, <4>1 DEF Pi!WriteLocked, Pi!Goto
    <3>2. CASE Pi!Count(Readers) # 0
      <4> DEFINE n == IF rest[t] <= BufSz - fifo THEN rest[t] ELSE BufSz - fifo
      <4>1. fifo + n \in 0..BufSz /\ rest[t] - n \in 0..(BufSz + 1)
        <5>1. rest[t] \in 0..(BufSz + 1) /\ fifo \in 0..BufSz /\ BufSz \in Nat
          BY <1>0, PiThreads
        <5> QED
          BY <5>1
      <4>2. /\ fifo' = fifo + n /\ rest' = [rest EXCEPT ![t] = @ - n]
            /\ pipe_pc' = [pipe_pc EXCEPT ![t] = IF rest[t] = n THEN "last" ELSE "wake"]
        BY <1>13, <3>2 DEF Pi!WriteLocked, Pi!Goto
      <4> HIDE DEF n
      <4>3. rest' \in [Threads -> 0..(BufSz + 1)]
        BY <1>0, <4>1, <4>2
      <4> QED
        BY <3>0, <3>2, <4>1, <4>2, <4>3
    <3> QED
      BY <3>1, <3>2
  <2>2. PICK label \in {"idle", "last", "wake"} :
             /\ pipe_pc' = [pipe_pc EXCEPT ![t] = label]
             /\ IF open \cap Readers = {} THEN label # "wake" ELSE label # "idle"
    BY <2>1
  <2>3. /\ pipe_pc' \in [Threads -> Pi!PC] /\ pipe_pc'[t] = label
        /\ \A u \in Threads \ {t} : pipe_pc'[u] = pipe_pc[u]
    BY <1>0, <2>2 DEF Pi!PC
  <2>4. Pi!TypeOK'
    BY <1>0, <2>0, <2>1, <2>3 DEF Pi!TypeOK
  <2>5. Pi!QueuesHoldSleepers'
    BY <1>0, <1>4, <2>0, <2>3
  <2>6. Pi!CallsHaveItOpen'
    BY <1>0, <2>0, <2>3 DEF Pi!CallsHaveItOpen
  <2>7. CASE open \cap Readers = {}
    <3>1. \A r \in Readers : pipe_pc'[r] = "idle"
      BY <1>0, <2>0, <2>3, <2>7, PiThreads DEF Pi!CallsHaveItOpen
    <3>2. Pi!ReaderTold' /\ Pi!OneOfBothAwake'
      BY <3>1 DEF Pi!ReaderTold, Pi!OneOfBothAwake, Pi!Sleeps, Pi!Asleep
    <3>3. Pi!HangUpTold'
      BY <2>0, <2>2, <2>3, <2>7 DEF Pi!HangUpTold
    <3> QED
      BY <2>4, <2>5, <2>6, <3>2, <3>3 DEF Pi!Inv
  <2>8. CASE open \cap Readers # {}
    <3>1. Pi!ReaderTold' /\ Pi!OneOfBothAwake' /\ Pi!HangUpTold'
      BY <2>0, <2>2, <2>3, <2>8 DEF Pi!ReaderTold, Pi!OneOfBothAwake, Pi!HangUpTold
    <3> QED
      BY <2>4, <2>5, <2>6, <3>1 DEF Pi!Inv
  <2> QED
    BY <2>7, <2>8
<1>14. ASSUME Pi!Close(t) PROVE Pi!Inv'
  <2> DEFINE W == {q \in Pi!Queues :
                     \/ q = "reader_queue" /\ open \cap Pi!Writers \subseteq {t}
                     \/ q = "writer_queue" /\ open \cap Readers \subseteq {t}}
  <2>0. /\ pipe_pc[t] = "idle" /\ t \in open /\ open' = open \ {t} /\ UNCHANGED rest
        /\ fifo' \in {0, fifo}
        /\ wakeup_flag' = [q \in Pi!Queues |-> q \in W \/ wakeup_flag[q]]
        /\ waiting_list' = PiLeft(W)
        /\ pipe_pc' = PiMoved(W, pipe_pc)
    BY <1>14 DEF Pi!Close, PiLeft, PiMoved, PiFirst
  <2>1. W \in SUBSET Pi!Queues
    OBVIOUS
  <2>2. ("reader_queue" \in W <=> open \cap Pi!Writers \subseteq {t}) /\ ("writer_queue" \in W <=> open \cap Readers \subseteq {t})
    BY <1>3
  <2> HIDE DEF W
  <2>3. /\ pipe_pc' \in [Threads -> Pi!PC]
        /\ waiting_list' \in [Pi!Queues -> Seq(Threads)]
        /\ Pi!QueuesHoldSleepers'
        /\ \A u \in PiFirst(W) : u \in Threads /\ pipe_pc[u] = "asleep" /\ Pi!Own(u) \in W
        /\ \A u \in Threads : pipe_pc[u] = "asleep" /\ Pi!Own(u) \in W =>
             \E v \in PiFirst(W) : Pi!Own(v) = Pi!Own(u)
    BY <1>0, <2>0, <2>1, PiWakes
  <2>4. \A u \in Threads : pipe_pc'[u] = IF u \in PiFirst(W) THEN "woken" ELSE pipe_pc[u]
    BY <2>0 DEF PiMoved
  <2>5. Pi!TypeOK'
    BY <1>0, <2>0, <2>3, PiThreads DEF Pi!TypeOK
  <2>6. Pi!CallsHaveItOpen'
    BY <1>0, <2>0, <2>3, <2>4 DEF Pi!CallsHaveItOpen
  <2>7. \A q \in Pi!Queues : wakeup_flag'[q] = (q \in W \/ wakeup_flag[q])
    BY <2>0
  <2>8. Told'
    <3> SUFFICES ASSUME Pi!OneReader'
                 PROVE  Pi!ReaderTold' /\ Pi!OneOfBothAwake' /\ Pi!HangUpTold'
      OBVIOUS
    <3>0. Pi!OneReader /\ Pi!ReaderTold /\ Pi!OneOfBothAwake /\ Pi!HangUpTold
      BY <1>0 DEF Pi!OneReader
    <3>1. ASSUME NEW r \in Readers, NEW before \in SUBSET {"wake", "wait"}, Pi!Sleeps(r, before)'
          PROVE  "reader_queue" \notin W /\ Pi!Sleeps(r, before)
      <4>0. r \in Threads /\ Pi!Own(r) = "reader_queue" /\ \A v \in Threads : Pi!Own(v) = "reader_queue" => v = r
        BY <3>0, PiThreads DEF Pi!OneReader
      <4>1. pipe_pc'[r] = "asleep" \/ (pipe_pc'[r] \in before /\ ~wakeup_flag'["reader_queue"])
        BY <3>1, <4>0 DEF Pi!Sleeps, Pi!Asleep, Pi!Own
      <4>2. r \notin PiFirst(W) /\ pipe_pc'[r] = pipe_pc[r]
        <5>1. pipe_pc'[r] \in {"asleep", "wake", "wait"}
          BY <4>1
        <5> QED
          BY <2>4, <4>0, <5>1
      <4>3. "reader_queue" \notin W
        <5> SUFFICES ASSUME "reader_queue" \in W PROVE FALSE
          OBVIOUS
        <5>1. wakeup_flag'["reader_queue"]
          BY <1>3, <2>7
        <5>2. pipe_pc[r] = "asleep"
          BY <4>1, <4>2, <5>1
        <5>3. PICK v \in PiFirst(W) : Pi!Own(v) = Pi!Own(r)
          BY <2>3, <4>0, <5>2
        <5>4. v = r
          BY <2>3, <4>0, <5>3
        <5> QED
          BY <4>2, <5>4
      <4> QED
        <5>1. ~wakeup_flag'["reader_queue"] => ~wakeup_flag["reader_queue"]
          BY <1>3, <2>7
        <5> QED
          BY <4>0, <4>1, <4>2, <4>3, <5>1 DEF Pi!Sleeps, Pi!Asleep
    <3>2. \A w \in Pi!Writers : /\ w \in Threads
                                /\ pipe_pc'[w] = pipe_pc[w] \/ (pipe_pc[w] = "asleep" /\ pipe_pc'[w] = "woken")
      BY <2>3, <2>4, PiThreads
    <3>3. Pi!ReaderTold'
      <4> SUFFICES ASSUME NEW r \in Readers, Pi!Sleeps(r, {"wake", "wait"})'
                   PROVE  /\ fifo' = 0 \/ \E w \in Pi!Writers : pipe_pc'[w] \in {"wake", "last"}
                          /\ open' \cap Pi!Writers # {}
        BY DEF Pi!ReaderTold
      <4>3. "reader_queue" \notin W /\ Pi!Sleeps(r, {"wake", "wait"})
        BY <3>1
      <4>4. /\ fifo = 0 \/ \E w \in Pi!Writers : pipe_pc[w] \in {"wake", "last"}
            /\ open' \cap Pi!Writers # {}
        BY <2>0, <2>2, <3>0, <4>3 DEF Pi!ReaderTold
      <4> QED
        BY <2>0, <3>2, <4>4
    <3>4. Pi!OneOfBothAwake'
      <4> SUFFICES ASSUME NEW r \in Readers, Pi!Sleeps(r, {"wait"})'
                   PROVE  \/ \E w \in Pi!Writers : pipe_pc'[w] \in {"lock", "again", "wake", "last", "woken"}
                          \/ wakeup_flag'["writer_queue"] /\ \A w \in Pi!Writers : pipe_pc'[w] # "asleep"
        BY DEF Pi!OneOfBothAwake, Pi!Asleep
      <4>3. Pi!Sleeps(r, {"wait"})
        BY <3>1
      <4>4. \/ \E w \in Pi!Writers : pipe_pc[w] \in {"lock", "again", "wake", "last", "woken"}
            \/ wakeup_flag["writer_queue"] /\ \A w \in Pi!Writers : pipe_pc[w] # "asleep"
        BY <3>0, <4>3 DEF Pi!OneOfBothAwake, Pi!Asleep
      <4> QED
        BY <1>3, <2>7, <3>2, <4>4 DEF Pi!Asleep
    <3>5. Pi!HangUpTold'
      <4> SUFFICES ASSUME open' \cap Readers = {}
                   PROVE  \/ \E w \in Pi!Writers : pipe_pc'[w] \in {"idle", "lock", "again", "last", "woken"}
                          \/ wakeup_flag'["writer_queue"] /\ \E w \in Pi!Writers : pipe_pc'[w] # "asleep"
        BY DEF Pi!HangUpTold, Pi!Asleep
      <4>1. "writer_queue" \in W /\ wakeup_flag'["writer_queue"]
        BY <1>3, <2>0, <2>2, <2>7
      <4>2. PICK w \in Pi!Writers : TRUE
        BY <3>0 DEF Pi!OneReader
      <4>3. CASE pipe_pc[w] = "asleep"
        <5>1. PICK v \in PiFirst(W) : Pi!Own(v) = "writer_queue"
          BY <2>3, <3>2, <4>1, <4>3, PiThreads
        <5>2. v \in Pi!Writers
          BY <2>3, <5>1, PiThreads
        <5> QED
          BY <2>4, <3>2, <5>1, <5>2
      <4>4. CASE pipe_pc[w] # "asleep"
        BY <3>2, <4>1, <4>4
      <4> QED
        BY <4>3, <4>4
    <3> QED
      BY <3>3, <3>4, <3>5
  <2> QED
    BY <2>3, <2>5, <2>6, <2>8 DEF Pi!Inv
<1> QED
  BY <1>1, <1>5, <1>7, <1>8, <1>9, <1>10, <1>11, <1>12, <1>13, <1>14

LEMMA PiInit == Pi!Init => Pi!Inv
<1> SUFFICES ASSUME Pi!Init PROVE Pi!Inv
  OBVIOUS
<1>1. /\ fifo = 0 /\ open = {} /\ waiting_list = [q \in Pi!Queues |-> << >>]
      /\ wakeup_flag = [q \in Pi!Queues |-> FALSE] /\ pipe_pc = [t \in Threads |-> "idle"]
      /\ rest = [t \in Threads |-> 0]
  BY DEF Pi!Init
<1>2. 0 \in 0..BufSz /\ 0 \in 0..(BufSz + 1)
  BY PiThreads
<1>3. Pi!TypeOK
  BY <1>1, <1>2, EmptySeq DEF Pi!TypeOK, Pi!PC
<1>4. Pi!QueuesHoldSleepers
  <2>1. Elements(<< >>) = {} /\ NoRepeat(<< >>)
    BY EmptySeq DEF Elements, NoRepeat
  <2> QED
    BY <1>1, <2>1, PiList DEF Pi!QueuesHoldSleepers, Pi!Asleep
<1>5. Pi!CallsHaveItOpen
  BY <1>1 DEF Pi!CallsHaveItOpen
<1>6. Pi!OneReader => Pi!ReaderTold /\ Pi!OneOfBothAwake /\ Pi!HangUpTold
  BY <1>1, PiThreads
     DEF Pi!OneReader, Pi!ReaderTold, Pi!OneOfBothAwake, Pi!HangUpTold, Pi!Sleeps, Pi!Asleep
<1> QED
  BY <1>3, <1>4, <1>5, <1>6 DEF Pi!Inv

\* The invariant keeps every wake-up of a pipe with one reader.
LEMMA PiKeeps == Pi!Inv /\ Pi!OneReader => Pi!NoWakeupLost
<1> SUFFICES ASSUME Pi!Inv, Pi!OneReader PROVE Pi!NoWakeupLost
  OBVIOUS
<1>1. Pi!ReaderTold /\ Pi!OneOfBothAwake /\ Pi!HangUpTold /\ open \subseteq Threads
  BY DEF Pi!Inv, Pi!TypeOK
<1>2. /\ Pi!Count(Pi!Writers) \in Nat /\ (Pi!Count(Pi!Writers) = 0 <=> open \cap Pi!Writers = {})
      /\ Pi!Count(Readers) = 0 <=> open \cap Readers = {}
  BY <1>1, PiCount, PiThreads
<1>3. ASSUME NEW r \in Readers, pipe_pc[r] = "asleep"
      PROVE  /\ fifo = 0 \/ \E w \in Pi!Writers : pipe_pc[w] \in {"wake", "last"}
             /\ Pi!Count(Pi!Writers) > 0
             /\ \A w \in Pi!Writers : pipe_pc[w] = "asleep" =>
                  \E t \in Threads : pipe_pc[t] \notin {"idle", "asleep"}
  <2>1. Pi!Sleeps(r, {"wake", "wait"}) /\ Pi!Sleeps(r, {"wait"})
    BY <1>3 DEF Pi!Sleeps, Pi!Asleep
  <2>2. /\ fifo = 0 \/ \E w \in Pi!Writers : pipe_pc[w] \in {"wake", "last"}
        /\ open \cap Pi!Writers # {}
    BY <1>1, <2>1 DEF Pi!ReaderTold
  <2>3. \/ \E w \in Pi!Writers : pipe_pc[w] \in {"lock", "again", "wake", "last", "woken"}
        \/ \A w \in Pi!Writers : pipe_pc[w] # "asleep"
    BY <1>1, <2>1 DEF Pi!OneOfBothAwake, Pi!Asleep
  <2> QED
    BY <1>2, <2>2, <2>3, PiThreads
<1>4. Pi!Count(Readers) = 0 => \E w \in Pi!Writers : pipe_pc[w] # "asleep"
  BY <1>1, <1>2 DEF Pi!HangUpTold, Pi!Asleep
<1> QED
  BY <1>3, <1>4 DEF Pi!NoWakeupLost, Pi!Asleep

-----------------------------------------------------------------------------
(* Work queues.                                                            *)

LEMMA WqList ==
  \A q : /\ Wq!Elements(q) = Elements(q) /\ (Wq!NoRepeat(q) <=> NoRepeat(q))
         /\ \A w : Wq!Unlink(q, w) = Unlink(q, w)
BY DEF Wq!Elements, Elements, Wq!NoRepeat, NoRepeat, Wq!Unlink, Unlink

\* A work leaves the list, wherever it is, and may join it again at the end.
LEMMA WqUnlink ==
  ASSUME NEW q \in Seq(Works), NoRepeat(q), NEW w \in Works
  PROVE  /\ Wq!Unlink(q, w) \in Seq(Works) /\ NoRepeat(Wq!Unlink(q, w))
         /\ Elements(Wq!Unlink(q, w)) = Elements(q) \ {w}
         /\ Append(Wq!Unlink(q, w), w) \in Seq(Works) /\ NoRepeat(Append(Wq!Unlink(q, w), w))
         /\ Elements(Append(Wq!Unlink(q, w), w)) = Elements(q) \cup {w}
         /\ Append(Wq!Unlink(q, w), w) # << >>
<1> DEFINE r == Unlink(q, w)
<1>1. r = Wq!Unlink(q, w)
  BY WqList
<1>2. r \in Seq(Works) /\ NoRepeat(r) /\ Elements(r) = Elements(q) \ {w}
  BY UnlinkProperties
<1> HIDE DEF r
<1>3. /\ Append(r, w) \in Seq(Works) /\ NoRepeat(Append(r, w))
      /\ Elements(Append(r, w)) = Elements(r) \cup {w}
  BY <1>2, AppendKeepsNoRepeat
<1>4. Append(r, w) # << >>
  BY <1>3, EmptySeq DEF Elements
<1> QED
  BY <1>1, <1>2, <1>3, <1>4

LEMMA WqInit == Wq!Init => Wq!Inv
<1> SUFFICES ASSUME Wq!Init PROVE Wq!Inv
  OBVIOUS
<1>1. Elements(<< >>) = {} /\ NoRepeat(<< >>) /\ << >> \in Seq(Works)
  BY EmptySeq DEF Elements, NoRepeat
<1> QED
  BY <1>1, WqList
     DEF Wq!Init, Wq!Inv, Wq!TypeOK, Wq!PendingMeansQueued, Wq!NoWorkStranded,
         Wq!Stages, Wq!PC, Wq!Ways

LEMMA WqShape ==
  ASSUME Wq!Inv
  PROVE  /\ work_list \in Seq(Works) /\ NoRepeat(work_list)
         /\ work_current \in Works \cup {None} /\ None \notin Works
         /\ pending \cup submitting \cup timed \cup unlinked \subseteq Works
         /\ attached \subseteq Delayed /\ Delayed \subseteq Works
         /\ worker \in Wq!Stages
         /\ wq_pc \in [Threads -> Wq!PC] /\ arg \in [Threads -> Works \cup {None}]
         /\ broken \in Wq!Ways /\ missed \in BOOLEAN
         /\ \A w \in pending \ unlinked : w \in Elements(work_list)
         /\ work_current # None <=> worker = "run"
         /\ \A t \in Threads : wq_pc[t] = "sync" => worker \in {"run", "ack"}
         /\ worker = "asleep" /\ work_list # << >> =>
              missed \/ \E t \in Threads : wq_pc[t] = "resume"
BY WqList, DeviceAssumption
   DEF Wq!Inv, Wq!TypeOK, Wq!PendingMeansQueued, Wq!NoWorkStranded, Wq!Queued,
       Wq!WorkQueueAssumption

\* The same after a step, to be shown part by part.
LEMMA WqAfter ==
  ASSUME work_list' \in Seq(Works), NoRepeat(work_list'),
         (work_current \in Works \cup {None})',
         (pending \cup submitting \cup timed \cup unlinked \subseteq Works)',
         attached' \subseteq Delayed, worker' \in Wq!Stages,
         wq_pc' \in [Threads -> Wq!PC], arg' \in [Threads -> Works \cup {None}],
         broken' \in Wq!Ways, missed' \in BOOLEAN,
         \A w \in pending' \ unlinked' : w \in Elements(work_list'),
         work_current' # None <=> worker' = "run",
         \A t \in Threads : wq_pc'[t] = "sync" => worker' \in {"run", "ack"},
         worker' = "asleep" /\ work_list' # << >> =>
              missed' \/ \E t \in Threads : wq_pc'[t] = "resume"
  PROVE  Wq!Inv'
BY WqList DEF Wq!Inv, Wq!TypeOK, Wq!PendingMeansQueued, Wq!NoWorkStranded, Wq!Queued

\* A thread goes on, and the list with its works is as before.
LEMMA WqGoesOn ==
  ASSUME Wq!Inv, UNCHANGED <<work_list, work_current, worker, missed>>,
         (pending \cup submitting \cup timed \cup unlinked \subseteq Works)',
         pending' \ unlinked' \subseteq pending \ unlinked,
         attached' \subseteq Delayed, broken' \in Wq!Ways,
         NEW t \in Threads, NEW label \in Wq!PC, label = "sync" => worker = "run",
         wq_pc[t] # "resume",
         wq_pc' = [wq_pc EXCEPT ![t] = label], arg' \in [Threads -> Works \cup {None}]
  PROVE  Wq!Inv'
<1>1. /\ wq_pc' \in [Threads -> Wq!PC] /\ wq_pc'[t] = label
      /\ \A u \in Threads \ {t} : wq_pc'[u] = wq_pc[u]
  BY WqShape
<1>2. \A u \in Threads : wq_pc'[u] = "sync" => worker \in {"run", "ack"}
  BY <1>1, WqShape
<1>3. (\E u \in Threads : wq_pc[u] = "resume") => \E u \in Threads : wq_pc'[u] = "resume"
  BY <1>1
<1>4. pending' \subseteq Works /\ unlinked' \subseteq Works
  OBVIOUS
<1> QED
  BY <1>1, <1>2, <1>3, WqShape, WqAfter

\* w is put at the end of the list, and if no work runs the worker is about to be resumed.
LEMMA WqJoins ==
  ASSUME Wq!Inv, NEW w \in Works, work_list' = Append(Wq!Unlink(work_list, w), w),
         (pending \cup submitting \cup timed \cup unlinked \subseteq Works)',
         \A v \in pending' \ unlinked' : v = w \/ v \in pending \ unlinked,
         attached' \subseteq Delayed, UNCHANGED <<broken, work_current, worker, missed>>,
         NEW t \in Threads,
         wq_pc' = [wq_pc EXCEPT ![t] = IF work_current = None THEN "resume" ELSE "run"],
         arg' \in [Threads -> Works \cup {None}]
  PROVE  Wq!Inv'
<1>0. work_list \in Seq(Works) /\ NoRepeat(work_list) /\ wq_pc \in [Threads -> Wq!PC]
  BY WqShape
<1>1. /\ work_list' \in Seq(Works) /\ NoRepeat(work_list')
      /\ Elements(work_list') = Elements(work_list) \cup {w}
  BY <1>0, WqUnlink
<1>2. \A v \in pending' \ unlinked' : v \in Elements(work_list')
  BY <1>1, WqShape
<1>3. /\ wq_pc' \in [Threads -> Wq!PC]
      /\ \A u \in Threads \ {t} : wq_pc'[u] = wq_pc[u]
      /\ wq_pc'[t] = IF work_current = None THEN "resume" ELSE "run"
  BY <1>0 DEF Wq!PC
<1>4. \A u \in Threads : wq_pc'[u] = "sync" => worker \in {"run", "ack"}
  BY <1>3, WqShape
<1>5. worker = "asleep" => wq_pc'[t] = "resume"
  BY <1>3, WqShape
<1> QED
  BY <1>1, <1>2, <1>3, <1>4, <1>5, WqShape, WqAfter

LEMMA WqNext ==
  ASSUME Wq!Inv, Wq!Next
  PROVE  Wq!Inv'
<1>0. /\ work_list \in Seq(Works) /\ NoRepeat(work_list)
      /\ work_current \in Works \cup {None} /\ None \notin Works
      /\ pending \cup submitting \cup timed \cup unlinked \subseteq Works
      /\ attached \subseteq Delayed /\ Delayed \subseteq Works
      /\ worker \in Wq!Stages
      /\ wq_pc \in [Threads -> Wq!PC] /\ arg \in [Threads -> Works \cup {None}]
      /\ broken \in Wq!Ways /\ missed \in BOOLEAN
      /\ \A w \in pending \ unlinked : w \in Elements(work_list)
      /\ work_current # None <=> worker = "run"
      /\ \A t \in Threads : wq_pc[t] = "sync" => worker \in {"run", "ack"}
      /\ worker = "asleep" /\ work_list # << >> =>
           missed \/ \E t \in Threads : wq_pc[t] = "resume"
  BY WqShape
<1>1. ASSUME Wq!WorkerTests \/ Wq!WorkerSuspends \/ Wq!WorkerDone \/ Wq!WorkerAcks
      PROVE  Wq!Inv'
  <2>1. UNCHANGED <<work_list, pending, submitting, timed, attached, broken, unlinked>>
    BY <1>1 DEF Wq!WorkerTests, Wq!WorkerSuspends, Wq!WorkerDone, Wq!WorkerAcks, Wq!timerVars
  <2>2. CASE Wq!WorkerTests
    <3>1. UNCHANGED <<work_current, wq_pc, arg, missed>> /\ worker = "test" /\ worker' \in {"suspend", "take"}
      BY <2>2 DEF Wq!WorkerTests
    <3> QED
      BY <1>0, <2>1, <3>1, WqAfter DEF Wq!Stages
  <2>3. CASE Wq!WorkerSuspends
    <3>1. /\ UNCHANGED <<work_current, wq_pc, arg>> /\ worker = "suspend" /\ worker' = "asleep"
          /\ missed' = (work_list # << >>)
      BY <2>3 DEF Wq!WorkerSuspends
    <3> QED
      BY <1>0, <2>1, <3>1, WqAfter DEF Wq!Stages
  <2>4. CASE Wq!WorkerDone
    <3>1. /\ UNCHANGED <<missed, wq_pc, arg>> /\ worker = "run" /\ worker' = "ack"
          /\ work_current' = None
      BY <2>4 DEF Wq!WorkerDone
    <3> QED
      BY <1>0, <2>1, <3>1, WqAfter DEF Wq!Stages
  <2>5. CASE Wq!WorkerAcks
    <3>1. /\ UNCHANGED <<missed, work_current>> /\ worker = "ack" /\ worker' = "test"
          /\ wq_pc' = [t \in Threads |-> IF wq_pc[t] = "sync" THEN "run" ELSE wq_pc[t]]
          /\ arg' = [t \in Threads |-> IF wq_pc[t] = "sync" THEN None ELSE arg[t]]
      BY <2>5 DEF Wq!WorkerAcks
    <3>2. wq_pc' \in [Threads -> Wq!PC] /\ arg' \in [Threads -> Works \cup {None}]
      BY <1>0, <3>1 DEF Wq!PC
    <3> QED
      BY <1>0, <2>1, <3>1, <3>2, WqAfter DEF Wq!Stages
  <2> QED
    BY <1>1, <2>2, <2>3, <2>4, <2>5
<1>2. ASSUME Wq!WorkerTakes PROVE Wq!Inv'
  <2>1. UNCHANGED <<submitting, timed, attached, wq_pc, arg, missed>> /\ worker = "take"
    BY <1>2 DEF Wq!WorkerTakes, Wq!timerVars
  <2>2. CASE work_list = << >>
    <3>1. broken' = "head" /\ UNCHANGED <<work_list, work_current, pending, unlinked, worker>>
      BY <1>2, <2>2 DEF Wq!WorkerTakes
    <3> QED
      BY <1>0, <2>1, <3>1, WqAfter DEF Wq!Ways
  <2>3. CASE work_list # << >>
    <3> DEFINE w == Head(work_list)
    <3>1. /\ work_current' = w /\ work_list' = Tail(work_list) /\ worker' = "run"
          /\ pending' = pending \ {w} /\ unlinked' = unlinked \ {w} /\ UNCHANGED broken
      BY <1>2, <2>3 DEF Wq!WorkerTakes
    <3>2. /\ w \in Works /\ work_list' \in Seq(Works) /\ NoRepeat(work_list')
          /\ Elements(work_list') = Elements(work_list) \ {w}
      BY <1>0, <2>3, <3>1, TailProperties
    <3> HIDE DEF w
    <3>3. \A v \in pending' \ unlinked' : v \in Elements(work_list')
      BY <1>0, <3>1, <3>2
    <3> QED
      BY <1>0, <2>1, <3>1, <3>2, <3>3, WqAfter DEF Wq!Stages
  <2> QED
    BY <2>2, <2>3
<1>3. ASSUME NEW t \in Threads,
             \/ Wq!CancelSeesPending(t) \/ Wq!CancelSeesSubmitting(t)
             \/ Wq!CancelStopsTimer(t) \/ Wq!CancelDetaches(t)
             \/ \E w \in Works : Wq!CancelDelayed(t, w)
      PROVE  Wq!Inv'
  <2>1. /\ UNCHANGED <<work_list, work_current, worker, missed>>
        /\ (pending \cup submitting \cup timed \cup unlinked \subseteq Works)'
        /\ pending' \ unlinked' \subseteq pending \ unlinked
        /\ attached' \subseteq Delayed /\ broken' \in Wq!Ways
    BY <1>0, <1>3
       DEF Wq!CancelSeesPending, Wq!CancelSeesSubmitting, Wq!CancelStopsTimer, Wq!CancelDetaches,
           Wq!CancelDelayed, Wq!workerVars, Wq!timerVars, Wq!Ways, Wq!Sound
  <2>2. /\ wq_pc[t] # "resume" /\ arg' \in [Threads -> Works \cup {None}]
        /\ \E label \in Wq!PC : label # "sync" /\ wq_pc' = [wq_pc EXCEPT ![t] = label]
    <3>0. arg[t] \in Works \cup {None}
      BY <1>0
    <3>1. wq_pc' = wq_pc => wq_pc' = [wq_pc EXCEPT ![t] = wq_pc[t]]
      BY <1>0
    <3>2. CASE Wq!CancelSeesPending(t)
      BY <1>0, <3>0, <3>1, <3>2 DEF Wq!CancelSeesPending, Wq!Goto, Wq!PC
    <3>3. CASE Wq!CancelSeesSubmitting(t)
      BY <1>0, <3>0, <3>1, <3>3 DEF Wq!CancelSeesSubmitting, Wq!Goto, Wq!PC
    <3>4. CASE Wq!CancelStopsTimer(t)
      BY <1>0, <3>0, <3>1, <3>4 DEF Wq!CancelStopsTimer, Wq!Goto, Wq!PC
    <3>5. CASE Wq!CancelDetaches(t)
      BY <1>0, <3>0, <3>1, <3>5 DEF Wq!CancelDetaches, Wq!Goto, Wq!PC
    <3>6. CASE \E w \in Works : Wq!CancelDelayed(t, w)
      BY <1>0, <3>0, <3>1, <3>6 DEF Wq!CancelDelayed, Wq!Free, Wq!Goto, Wq!PC
    <3> QED
      BY <1>3, <3>2, <3>3, <3>4, <3>5, <3>6
  <2> QED
    BY <1>0, <2>1, <2>2, WqGoesOn
\* What rt_workqueue_submit_work does to the list for a work that is given its place.
<1>4. ASSUME NEW t \in Threads, NEW w \in Works, wq_pc[t] # "resume", Wq!SubmitFor(t, w),
             (submitting \cup timed \subseteq Works)', attached' \subseteq Delayed,
             UNCHANGED <<work_current, worker, missed, broken>>
      PROVE  Wq!Inv'
  <2>0. arg' = [arg EXCEPT ![t] = None] /\ arg' \in [Threads -> Works \cup {None}]
    BY <1>0, <1>4 DEF Wq!SubmitFor, Wq!Goto
  <2>1. CASE Wq!Busy(w)
    <3>1. /\ UNCHANGED <<work_list, pending, unlinked>> /\ "run" \in Wq!PC
          /\ wq_pc' = [wq_pc EXCEPT ![t] = "run"]
      BY <1>4, <2>1 DEF Wq!SubmitFor, Wq!Goto, Wq!PC
    <3> QED
      BY <1>0, <1>4, <2>0, <3>1, WqGoesOn
  <2>2. CASE ~Wq!Busy(w)
    <3>1. /\ work_list' = Append(Wq!Unlink(work_list, w), w)
          /\ pending' = pending \cup {w} /\ unlinked' = unlinked \ {w}
          /\ wq_pc' = [wq_pc EXCEPT ![t] = IF work_current = None THEN "resume" ELSE "run"]
      BY <1>4, <2>2 DEF Wq!SubmitFor, Wq!Accept, Wq!Goto
    <3> QED
      BY <1>0, <1>4, <2>0, <3>1, WqJoins
  <2> QED
    BY <2>1, <2>2
<1>5. ASSUME NEW t \in Threads, NEW w \in Works, Wq!Submit(t, w) PROVE Wq!Inv'
  <2>1. /\ wq_pc[t] # "resume" /\ Wq!SubmitFor(t, w)
        /\ UNCHANGED <<submitting, timed, attached, work_current, worker, missed, broken>>
    BY <1>5 DEF Wq!Submit, Wq!Free, Wq!workerVars, Wq!timerVars
  <2> QED
    BY <1>0, <1>4, <2>1
<1>6. ASSUME NEW t \in Threads, NEW w \in Works, NEW at_once \in BOOLEAN, Wq!SubmitDelayed(t, w, at_once)
      PROVE  Wq!Inv'
  <2> DEFINE label == IF at_once THEN "submit" ELSE "arm"
  <2>1. /\ wq_pc[t] # "resume" /\ attached' \subseteq Delayed
        /\ UNCHANGED <<work_list, pending, unlinked, submitting, timed, work_current, worker, missed, broken>>
        /\ wq_pc' = [wq_pc EXCEPT ![t] = label] /\ arg' = [arg EXCEPT ![t] = w]
    BY <1>0, <1>6 DEF Wq!SubmitDelayed, Wq!Free, Wq!Goto, Wq!workerVars
  <2>2. label \in Wq!PC /\ label # "sync"
    BY DEF Wq!PC
  <2> HIDE DEF label
  <2>3. arg' \in [Threads -> Works \cup {None}]
    BY <1>0, <2>1
  <2> QED
    BY <1>0, <2>1, <2>2, <2>3, WqGoesOn
<1>12. ASSUME NEW t \in Threads, NEW w \in Works, Wq!SubmitsAttached(t, w) PROVE Wq!Inv'
  <2>1. /\ wq_pc[t] # "resume"
        /\ UNCHANGED <<submitting, timed, attached, work_current, worker, missed>>
    BY <1>12 DEF Wq!SubmitsAttached, Wq!workerVars, Wq!timerVars
  <2>2. CASE Wq!Astray(w)
    <3>1. broken' = "null" /\ UNCHANGED <<work_list, pending, unlinked, wq_pc, arg>>
      BY <1>12, <2>2 DEF Wq!SubmitsAttached
    <3> QED
      BY <1>0, <2>1, <3>1, WqAfter DEF Wq!Ways
  <2>3. CASE ~Wq!Astray(w)
    <3>1. Wq!SubmitFor(t, w) /\ UNCHANGED broken
      BY <1>12, <2>3 DEF Wq!SubmitsAttached
    <3> QED
      BY <1>0, <1>4, <2>1, <3>1
  <2> QED
    BY <2>2, <2>3
<1>13. ASSUME NEW t \in Threads, NEW w \in Works, Wq!ArmsTimer(t, w) PROVE Wq!Inv'
  <2>1. /\ wq_pc[t] # "resume" /\ submitting' = submitting \cup {w} /\ timed' = timed \cup {w}
        /\ UNCHANGED <<work_list, pending, unlinked, attached, work_current, worker, missed>>
        /\ broken' \in Wq!Ways /\ "run" \in Wq!PC
        /\ wq_pc' = [wq_pc EXCEPT ![t] = "run"] /\ arg' = [arg EXCEPT ![t] = None]
    BY <1>13 DEF Wq!ArmsTimer, Wq!Goto, Wq!Ways, Wq!PC, Wq!workerVars
  <2>2. /\ arg' \in [Threads -> Works \cup {None}]
        /\ (pending \cup submitting \cup timed \cup unlinked \subseteq Works)'
    BY <1>0, <2>1
  <2> QED
    BY <1>0, <2>1, <2>2, WqGoesOn
<1>7. ASSUME NEW t \in Threads, NEW w \in Works, Wq!CriticalWork(t, w) PROVE Wq!Inv'
  <2>1. /\ work_list' = Append(Wq!Unlink(work_list, w), w)
        /\ wq_pc' = [wq_pc EXCEPT ![t] = IF work_current = None THEN "resume" ELSE "run"]
        /\ arg' = [arg EXCEPT ![t] = None]
        /\ UNCHANGED <<pending, unlinked, submitting, timed, attached, worker, work_current, missed, broken>>
    BY <1>7 DEF Wq!CriticalWork, Wq!Goto, Wq!workerVars, Wq!timerVars
  <2>2. arg' \in [Threads -> Works \cup {None}]
    BY <1>0, <2>1
  <2> QED
    BY <1>0, <2>1, <2>2, WqJoins
<1>8. ASSUME NEW t \in Threads, Wq!Resumes(t) PROVE Wq!Inv'
  <2>1. /\ wq_pc[t] = "resume" /\ worker' = (IF worker = "asleep" THEN "take" ELSE worker)
        /\ missed' = (missed /\ worker # "asleep")
        /\ wq_pc' = [wq_pc EXCEPT ![t] = "run"] /\ arg' = [arg EXCEPT ![t] = None]
        /\ UNCHANGED <<work_list, work_current, pending, submitting, timed, attached, broken, unlinked>>
    BY <1>8 DEF Wq!Resumes, Wq!ResumeWorker, Wq!Goto, Wq!timerVars
  <2>2. wq_pc' \in [Threads -> Wq!PC] /\ arg' \in [Threads -> Works \cup {None}] /\ worker' \in Wq!Stages
    BY <1>0, <2>1 DEF Wq!PC, Wq!Stages
  <2>3. /\ worker' # "asleep" /\ (worker' = "run" <=> worker = "run")
        /\ worker \in {"run", "ack"} => worker' = worker
        /\ \A u \in Threads : wq_pc'[u] = "sync" => wq_pc[u] = "sync"
    BY <1>0, <2>1
  <2> QED
    BY <1>0, <2>1, <2>2, <2>3, WqAfter
\* Works are taken off the list.
<1>9. ASSUME NEW t \in Threads, NEW w \in Works, Wq!Cancel(t, w) \/ Wq!CancelSync(t, w) PROVE Wq!Inv'
  <2>1. /\ pending' = pending \ {w} /\ unlinked' = unlinked \ {w} /\ wq_pc[t] = "run"
        /\ UNCHANGED <<submitting, timed, attached, worker, work_current, missed, broken>>
    BY <1>9 DEF Wq!Cancel, Wq!CancelSync, Wq!Free, Wq!workerVars, Wq!timerVars
  <2>2. CASE work_current = w
    <3>1. /\ UNCHANGED work_list /\ worker = "run" /\ "sync" \in Wq!PC
          /\ wq_pc' = [wq_pc EXCEPT ![t] = "sync"] /\ arg' = [arg EXCEPT ![t] = w]
      BY <1>0, <1>9, <2>2 DEF Wq!Cancel, Wq!CancelSync, Wq!Goto, Wq!PC
    <3>2. arg' \in [Threads -> Works \cup {None}] /\ pending' \ unlinked' \subseteq pending \ unlinked
      BY <1>0, <2>1, <3>1
    <3> QED
      BY <1>0, <2>1, <3>1, <3>2, WqGoesOn
  <2>3. CASE work_current # w
    <3>1. work_list' = Wq!Unlink(work_list, w) /\ UNCHANGED <<wq_pc, arg>>
      BY <1>9, <2>3 DEF Wq!Cancel, Wq!CancelSync
    <3>2. /\ work_list' \in Seq(Works) /\ NoRepeat(work_list')
          /\ Elements(work_list') = Elements(work_list) \ {w}
      BY <1>0, <3>1, WqUnlink
    <3>3. work_list' # << >> => work_list # << >>
      <4>1. work_list = << >> => Elements(work_list) = {}
        BY EmptySeq DEF Elements
      <4>2. Elements(work_list') = {} => work_list' = << >>
        BY <3>2, NoElements
      <4> QED
        BY <3>2, <4>1, <4>2
    <3> QED
      BY <1>0, <2>1, <3>1, <3>2, <3>3, WqAfter
  <2> QED
    BY <2>2, <2>3
<1>10. ASSUME NEW t \in Threads, Wq!CancelAll(t) PROVE Wq!Inv'
  <2>1. /\ work_list' = << >> /\ unlinked' = pending
        /\ UNCHANGED <<pending, submitting, timed, attached, worker, work_current, missed, wq_pc, arg, broken>>
    BY <1>10 DEF Wq!CancelAll, Wq!workerVars, Wq!timerVars
  <2>2. NoRepeat(<< >>) /\ << >> \in Seq(Works)
    BY EmptySeq DEF NoRepeat
  <2> QED
    BY <1>0, <2>1, <2>2, WqAfter
<1>11. ASSUME NEW w \in Works, Wq!TimerFires(w) PROVE Wq!Inv'
  <2>1. /\ timed' \subseteq timed /\ submitting' \subseteq submitting /\ broken' \in Wq!Ways
        /\ UNCHANGED <<attached, work_current, wq_pc, arg>>
    BY <1>11 DEF Wq!TimerFires, Wq!Ways
  <2>2. CASE w \notin attached \/ Wq!Busy(w)
    <3>1. UNCHANGED <<work_list, pending, unlinked, worker, missed>>
      BY <1>11, <2>2 DEF Wq!TimerFires
    <3> QED
      BY <1>0, <2>1, <3>1, WqAfter
  <2>3. CASE ~(w \notin attached \/ Wq!Busy(w))
    <3>1. /\ work_list' = Append(Wq!Unlink(work_list, w), w)
          /\ pending' = pending \cup {w} /\ unlinked' = unlinked \ {w}
          /\ IF work_current = None
             THEN /\ worker' = IF worker = "asleep" THEN "take" ELSE worker
                  /\ missed' = (missed /\ worker # "asleep")
             ELSE UNCHANGED <<worker, missed>>
      BY <1>11, <2>3 DEF Wq!TimerFires, Wq!Accept, Wq!ResumeWorker
    <3>2. /\ work_list' \in Seq(Works) /\ NoRepeat(work_list')
          /\ Elements(work_list') = Elements(work_list) \cup {w}
      BY <1>0, <3>1, WqUnlink
    <3>3. /\ worker' \in Wq!Stages /\ worker' # "asleep" /\ missed' \in BOOLEAN
          /\ worker' = "run" <=> worker = "run"
          /\ worker \in {"run", "ack"} => worker' = worker
      BY <1>0, <3>1 DEF Wq!Stages
    <3>4. \A v \in pending' \ unlinked' : v \in Elements(work_list')
      BY <1>0, <3>1, <3>2
    <3>5. (pending \cup submitting \cup timed \cup unlinked \subseteq Works)'
      BY <1>0, <2>1, <3>1
    <3> QED
      BY <1>0, <2>1, <3>2, <3>3, <3>4, <3>5, WqAfter
  <2> QED
    BY <2>2, <2>3
<1> QED
  BY <1>1, <1>2, <1>3, <1>5, <1>6, <1>7, <1>8, <1>9, <1>10, <1>11, <1>12, <1>13 DEF Wq!Next, Wq!WorkerStep

-----------------------------------------------------------------------------
(* The WLAN manager.                                                       *)

LEMMA MgCount ==
  /\ \A S : Mg!Cardinality(S) = Cardinality(S) /\ (Mg!IsFiniteSet(S) <=> IsFiniteSet(S))
BY DEF Mg!Cardinality, Cardinality, Mg!IsFiniteSet, IsFiniteSet

LEMMA MgTypesOfConstants ==
  /\ None \notin Stations /\ None \notin Mg!Callers /\ None \notin Mg!Events
  /\ Worker \in Mg!Callers
  /\ Joiners \subseteq Mg!Callers /\ Worker \notin Joiners
  /\ Mg!Callers = Joiners \cup {Worker}
BY DeviceAssumption DEF Mg!WlanManagerAssumption, Mg!Callers

-----------------------------------------------------------------------------
(* A step of the call of t: the other calls stay where they are.           *)
MgCallTypes ==
  /\ mg_call \in [Mg!Callers -> Mg!Calls] /\ mg_pc \in [Mg!Callers -> Mg!Stages]
  /\ target \in [Mg!Callers -> Stations \cup {None}]
  /\ seen \in [Mg!Callers -> SUBSET Mg!Flags]
  /\ complete \in [Mg!Callers -> SUBSET Mg!Events]
  /\ mg_timer \in BOOLEAN /\ work \in BOOLEAN

MgOthersStay(t) ==
  \A u \in Mg!Callers \ {t} : /\ mg_pc'[u] = mg_pc[u] /\ mg_call'[u] = mg_call[u]
                             /\ target'[u] = target[u] /\ complete'[u] = complete[u]

LEMMA MgGoto ==
  ASSUME MgCallTypes, NEW t \in Mg!Callers, NEW stage \in Mg!Stages, Mg!Goto(t, stage)
  PROVE  /\ MgCallTypes' /\ MgOthersStay(t) /\ mg_timer' = mg_timer
         /\ mg_pc'[t] = stage /\ mg_call'[t] = mg_call[t] /\ target'[t] = target[t]
         /\ complete'[t] = complete[t]
BY DEF Mg!Goto, MgCallTypes, MgOthersStay, Mg!timerVars

LEMMA MgExit ==
  ASSUME MgCallTypes, NEW t \in Mg!Callers, Mg!Exit(t)
  PROVE  /\ MgCallTypes' /\ MgOthersStay(t) /\ mg_timer' = mg_timer
         /\ mg_pc'[t] = "out" /\ mg_call'[t] = "none" /\ target'[t] = None
         /\ complete'[t] = {}
<1>1. "out" \in Mg!Stages /\ "none" \in Mg!Calls
  BY DEF Mg!Stages, Mg!Calls
<1> QED
  BY <1>1 DEF Mg!Exit, MgCallTypes, MgOthersStay

\* How often each call has the mutex, stage by stage.
MgDepthOf == [t \in Mg!Callers |-> Mg!Depth(t)]

MgDepths ==
  /\ MgDepthOf \in [Mg!Callers -> 0..3]
  /\ \A t \in Mg!Callers :
       /\ mg_pc[t] \in {"out", "lock", "ready"} <=> MgDepthOf[t] = 0
       /\ mg_pc[t] \in {"search", "found", "adv", "wait"} => MgDepthOf[t] = 1
       /\ mg_pc[t] \in {"save", "flag", "command", "undo"} => MgDepthOf[t] = 2
       /\ mg_pc[t] = "scan" => MgDepthOf[t] = IF mg_call[t] = "connect" THEN 3 ELSE 2
       /\ mg_pc[t] = "drop" => MgDepthOf[t] = IF mg_call[t] = "disconnect" THEN 1 ELSE 3

LEMMA MgDepth == MgCallTypes => MgDepths
<1> SUFFICES ASSUME MgCallTypes PROVE MgDepths
  OBVIOUS
<1>1. ASSUME NEW t \in Mg!Callers
      PROVE  /\ Mg!Depth(t) \in 0..3
             /\ mg_pc[t] \in {"out", "lock", "ready"} <=> Mg!Depth(t) = 0
             /\ mg_pc[t] \in {"search", "found", "adv", "wait"} => Mg!Depth(t) = 1
             /\ mg_pc[t] \in {"save", "flag", "command", "undo"} => Mg!Depth(t) = 2
             /\ mg_pc[t] = "scan" => Mg!Depth(t) = IF mg_call[t] = "connect" THEN 3 ELSE 2
             /\ mg_pc[t] = "drop" => Mg!Depth(t) = IF mg_call[t] = "disconnect" THEN 1 ELSE 3
  <2>1. mg_pc[t] \in Mg!Stages
    BY <1>1 DEF MgCallTypes
  <2>2. CASE mg_pc[t] \in {"out", "lock", "ready"}
    BY <2>2 DEF Mg!Depth
  <2>3. CASE mg_pc[t] \in {"search", "found", "adv", "wait"}
    BY <2>3 DEF Mg!Depth
  <2>4. CASE mg_pc[t] = "scan"
    BY <2>4 DEF Mg!Depth
  <2>5. CASE mg_pc[t] = "drop"
    BY <2>5 DEF Mg!Depth
  <2>6. CASE mg_pc[t] \in {"save", "flag", "command", "undo"}
    BY <2>6 DEF Mg!Depth
  <2> QED
    BY <2>1, <2>2, <2>3, <2>4, <2>5, <2>6 DEF Mg!Stages
<1> QED
  BY <1>1 DEF MgDepths, MgDepthOf

LEMMA MgDepthNext == MgCallTypes' => MgDepths'
BY MgDepth, PTL

\* MutexHeld, with the depths as a function.
MgHeld ==
  /\ mg_owner = None <=> hold = 0
  /\ mg_owner # None => hold <= MgDepthOf[mg_owner]
  /\ "memory" \notin mishaps =>
       \A t \in Mg!Callers : MgDepthOf[t] > 0 => mg_owner = t /\ hold = MgDepthOf[t]
  /\ \A t \in Mg!Callers :
       /\ mg_pc[t] \in {"drop", "save", "flag", "command", "undo"} => mg_owner = t
       /\ mg_pc[t] = "drop" /\ mg_call[t] # "disconnect" => hold > 1

LEMMA MgHeldSame == mg_owner \in Mg!Callers \cup {None} => (Mg!MutexHeld <=> MgHeld)
BY DEF Mg!MutexHeld, MgHeld, MgDepthOf

LEMMA MgHeldSameNext == (mg_owner \in Mg!Callers \cup {None} => (Mg!MutexHeld <=> MgHeld))'
BY MgHeldSame, PTL

\* What a step of t does to the mutex, and how deep t is inside then.
MgMutexMoves(t) ==
  \/ /\ UNCHANGED <<mg_owner, hold>>
     /\ MgDepthOf'[t] = MgDepthOf[t]
  \/ \E n \in 1..3 : Mg!Take(t, n) /\ MgDepthOf'[t] = MgDepthOf[t] + n
  \/ \E n \in 1..3 : /\ Mg!Release(t, n)
                     /\ MgDepthOf'[t] >= MgDepthOf[t] - n
                     /\ MgDepthOf'[t] = MgDepthOf[t] - n \/ "memory" \in mishaps'

LEMMA MgMutexStep ==
  ASSUME mg_owner \in Mg!Callers \cup {None}, hold \in 0..3, None \notin Mg!Callers,
         MgDepths, MgDepths', MgHeld,
         NEW t \in Mg!Callers, MgOthersStay(t), MgMutexMoves(t), mishaps \subseteq mishaps',
         mg_pc'[t] \in {"drop", "save", "flag", "command", "undo"} => mg_owner' = t,
         mg_pc'[t] = "drop" /\ mg_call'[t] # "disconnect" => hold' > 1
  PROVE  mg_owner' \in Mg!Callers \cup {None} /\ hold' \in 0..3 /\ MgHeld'
<1>1. ASSUME NEW u \in Mg!Callers \ {t} PROVE MgDepthOf'[u] = MgDepthOf[u]
  BY <1>1 DEF MgDepthOf, MgOthersStay, Mg!Depth
<1>2. /\ \A u \in Mg!Callers : MgDepthOf[u] \in 0..3
      /\ \A u \in Mg!Callers : MgDepthOf'[u] \in 0..3
  BY DEF MgDepths
<1>3. mg_owner = t \/ mg_owner = None
      => \A u \in Mg!Callers \ {t} : mg_pc[u] \notin {"drop", "save", "flag", "command", "undo"}
  BY DEF MgHeld
<1>4. /\ mg_owner = None <=> hold = 0
      /\ mg_owner # None => hold <= MgDepthOf[mg_owner]
      /\ "memory" \notin mishaps =>
           \A u \in Mg!Callers : MgDepthOf[u] > 0 => mg_owner = u /\ hold = MgDepthOf[u]
  BY DEF MgHeld
<1>5. ASSUME mg_owner' = None <=> hold' = 0,
             mg_owner' # None => hold' <= MgDepthOf'[mg_owner'],
             "memory" \notin mishaps' =>
               \A u \in Mg!Callers : MgDepthOf'[u] > 0 => mg_owner' = u /\ hold' = MgDepthOf'[u],
             \A u \in Mg!Callers \ {t} :
               mg_pc[u] \in {"drop", "save", "flag", "command", "undo"}
               => mg_owner' = mg_owner /\ hold' = hold
      PROVE  MgHeld'
  <2>1. ASSUME NEW u \in Mg!Callers
        PROVE  /\ mg_pc'[u] \in {"drop", "save", "flag", "command", "undo"} => mg_owner' = u
               /\ mg_pc'[u] = "drop" /\ mg_call'[u] # "disconnect" => hold' > 1
    BY <1>5 DEF MgHeld, MgOthersStay
  <2> QED
    BY <1>5, <2>1 DEF MgHeld
<1>6. CASE UNCHANGED <<mg_owner, hold>> /\ MgDepthOf'[t] = MgDepthOf[t]
  <2>1. \A u \in Mg!Callers : MgDepthOf'[u] = MgDepthOf[u]
    BY <1>1, <1>6
  <2>2. /\ mg_owner' = None <=> hold' = 0
        /\ mg_owner' # None => hold' <= MgDepthOf'[mg_owner']
        /\ "memory" \notin mishaps' =>
             \A u \in Mg!Callers : MgDepthOf'[u] > 0 => mg_owner' = u /\ hold' = MgDepthOf'[u]
    BY <1>4, <1>6, <2>1
  <2> QED
    BY <1>5, <1>6, <2>2
<1>7. ASSUME NEW n \in 1..3, Mg!Take(t, n), MgDepthOf'[t] = MgDepthOf[t] + n
      PROVE  mg_owner' \in Mg!Callers \cup {None} /\ hold' \in 0..3 /\ MgHeld'
  <2>1. (mg_owner = None \/ mg_owner = t) /\ mg_owner' = t /\ hold' = hold + n
    BY <1>7 DEF Mg!Take, Mg!CanLock
  <2>2. hold <= MgDepthOf[t]
    BY <1>2, <1>4, <2>1
  <2>3. "memory" \notin mishaps => hold = MgDepthOf[t]
    BY <1>2, <1>4, <2>2
  <2>4. /\ mg_owner' = None <=> hold' = 0
        /\ hold' <= MgDepthOf'[t] /\ hold' \in 0..3
        /\ "memory" \notin mishaps' => hold' = MgDepthOf'[t]
    BY <1>2, <1>7, <2>1, <2>2, <2>3
  <2>5. "memory" \notin mishaps' => \A u \in Mg!Callers \ {t} : MgDepthOf'[u] = 0
    BY <1>1, <1>2, <1>4, <2>1
  <2>6. "memory" \notin mishaps' =>
          \A u \in Mg!Callers : MgDepthOf'[u] > 0 => mg_owner' = u /\ hold' = MgDepthOf'[u]
    BY <2>1, <2>4, <2>5
  <2>7. mg_owner' # None => hold' <= MgDepthOf'[mg_owner']
    BY <2>1, <2>4
  <2>8. MgHeld'
    BY <1>3, <1>5, <2>1, <2>4, <2>6, <2>7
  <2> QED
    BY <2>1, <2>4, <2>8
<1>8. ASSUME NEW n \in 1..3, Mg!Release(t, n), MgDepthOf'[t] >= MgDepthOf[t] - n,
             MgDepthOf'[t] = MgDepthOf[t] - n \/ "memory" \in mishaps'
      PROVE  mg_owner' \in Mg!Callers \cup {None} /\ hold' \in 0..3 /\ MgHeld'
  <2>1. CASE mg_owner # t
    <3>1. mg_owner' = mg_owner /\ hold' = hold
      BY <1>8, <2>1 DEF Mg!Release, Mg!mutexVars
    <3>2. "memory" \notin mishaps => MgDepthOf[t] = 0
      BY <1>2, <1>4, <2>1
    <3>3. "memory" \in mishaps'
      BY <1>2, <1>8, <3>2
    <3>4. mg_owner' # None => hold' <= MgDepthOf'[mg_owner']
      BY <1>1, <1>4, <2>1, <3>1
    <3> QED
      BY <1>4, <1>5, <3>1, <3>3, <3>4
  <2>2. CASE mg_owner = t
    <3>1. /\ hold' = IF hold > n THEN hold - n ELSE 0
          /\ mg_owner' = IF hold > n THEN t ELSE None
      BY <1>8, <2>2 DEF Mg!Release
    <3>2. hold <= MgDepthOf[t] /\ ("memory" \notin mishaps => hold = MgDepthOf[t] \/ MgDepthOf[t] = 0)
      BY <1>2, <1>4, <2>2
    <3>3. /\ mg_owner' = None <=> hold' = 0
          /\ hold' \in 0..3
      BY <3>1
    <3>4. mg_owner' # None => mg_owner' = t /\ hold' <= MgDepthOf'[t]
      BY <1>2, <1>8, <3>1, <3>2
    <3>5. "memory" \notin mishaps' /\ MgDepthOf'[t] > 0 => mg_owner' = t /\ hold' = MgDepthOf'[t]
      BY <1>2, <1>8, <3>1, <3>2
    <3>6. "memory" \notin mishaps' => \A u \in Mg!Callers \ {t} : MgDepthOf'[u] = 0
      BY <1>1, <1>2, <1>4, <2>2
    <3>7. "memory" \notin mishaps' =>
            \A u \in Mg!Callers : MgDepthOf'[u] > 0 => mg_owner' = u /\ hold' = MgDepthOf'[u]
      BY <3>5, <3>6
    <3>8. MgHeld'
      BY <1>3, <1>5, <2>2, <3>3, <3>4, <3>7
    <3> QED
      BY <3>1, <3>3, <3>8
  <2> QED
    BY <2>1, <2>2
<1> QED
  BY <1>6, <1>7, <1>8 DEF MgMutexMoves

-----------------------------------------------------------------------------
(* Types, the mutex and the stages, kept by every step.                    *)
MgRestTypes ==
  /\ mg_state \subseteq Mg!Flags /\ auto \in BOOLEAN /\ info \in Stations \cup {None}
  /\ leaving \in BOOLEAN /\ scanning \in BOOLEAN
  /\ joining \in Stations \cup {None} /\ link \in Stations \cup {None}
  /\ event \in Mg!Events \cup {None} /\ report \in {"begun", "read", "written"}
  /\ old \subseteq Mg!Flags /\ mishaps \subseteq Mg!Mishaps

\* What StagesFit says of one call, and of the report.
MgFits(t) ==
  /\ mg_pc[t] = "lock" => mg_call[t] \in {"connect", "disconnect", "scan"}
  /\ mg_pc[t] \in {"search", "found", "wait"} => mg_call[t] = "connect"
  /\ mg_pc[t] = "scan" => mg_call[t] \in {"connect", "scan"}
  /\ mg_pc[t] = "drop" => mg_call[t] \in {"connect", "disconnect", "auto"}
  /\ mg_pc[t] \in {"adv", "save", "flag", "command", "undo"} => mg_call[t] \in {"connect", "auto"}
  /\ mg_call[t] \in {"connect", "auto"} => target[t] # None
  /\ t \in Joiners => mg_pc[t] # "ready"

MgReportFits == event \in {None, "SCAN_DONE"} => report = "begun"

LEMMA MgStages == Mg!StagesFit <=> (\A t \in Mg!Callers : MgFits(t)) /\ MgReportFits
BY MgTypesOfConstants DEF Mg!StagesFit, MgFits, MgReportFits

MgBase == MgCallTypes /\ MgRestTypes /\ mg_owner \in Mg!Callers \cup {None} /\ hold \in 0..3
          /\ MgHeld /\ (\A t \in Mg!Callers : MgFits(t)) /\ MgReportFits

LEMMA MgBaseIs == MgBase <=> Mg!TypeOK /\ Mg!MutexHeld /\ Mg!StagesFit
<1>1. Mg!TypeOK <=> MgCallTypes /\ MgRestTypes /\ mg_owner \in Mg!Callers \cup {None} /\ hold \in 0..3
  BY DEF Mg!TypeOK, MgCallTypes, MgRestTypes
<1> QED
  BY <1>1, MgHeldSame, MgStages DEF MgBase

LEMMA MgBaseIsNext == (MgBase <=> Mg!TypeOK /\ Mg!MutexHeld /\ Mg!StagesFit)'
BY MgBaseIs, PTL

LEMMA MgShape ==
  ASSUME MgBase, NEW t \in Mg!Callers, MgCallTypes', MgRestTypes', MgOthersStay(t),
         MgMutexMoves(t), mishaps \subseteq mishaps', MgFits(t)', MgReportFits',
         mg_pc'[t] \in {"drop", "save", "flag", "command", "undo"} => mg_owner' = t,
         mg_pc'[t] = "drop" /\ mg_call'[t] # "disconnect" => hold' > 1
  PROVE  MgBase'
<1>1. mg_owner' \in Mg!Callers \cup {None} /\ hold' \in 0..3 /\ MgHeld'
  BY MgDepth, MgDepthNext, MgMutexStep, MgTypesOfConstants DEF MgBase
<1>2. ASSUME NEW u \in Mg!Callers \ {t} PROVE MgFits(u)'
  BY <1>2 DEF MgBase, MgFits, MgOthersStay
<1> QED
  BY <1>1, <1>2 DEF MgBase

\* t has gone to another stage of the same call.
MgMoved(t, stage) ==
  /\ MgCallTypes' /\ MgOthersStay(t) /\ mg_timer' = mg_timer
  /\ mg_pc'[t] = stage /\ mg_call'[t] = mg_call[t] /\ target'[t] = target[t]

LEMMA MgGoes ==
  ASSUME MgBase, NEW t \in Mg!Callers, NEW stage \in Mg!Stages, MgMoved(t, stage), MgRestTypes',
         MgMutexMoves(t), mishaps \subseteq mishaps', MgFits(t)', MgReportFits',
         stage \in {"drop", "save", "flag", "command", "undo"} => mg_owner' = t,
         stage = "drop" /\ mg_call[t] # "disconnect" => hold' > 1
  PROVE  MgBase'
BY MgShape DEF MgMoved

\* What else there is stays as it is, but for what goes wrong.
MgRestStays == /\ UNCHANGED <<mg_state, auto, info, joining, link, leaving, scanning, event, report, old>>
               /\ mishaps \subseteq mishaps' /\ mishaps' \subseteq Mg!Mishaps

LEMMA MgRest ==
  ASSUME MgBase, MgRestStays
  PROVE  MgRestTypes' /\ MgReportFits' /\ mishaps \subseteq mishaps'
BY DEF MgBase, MgRestStays, MgRestTypes, MgReportFits

\* A call ends, and the mutex is released as often as it was taken.
MgExitMoves(t) ==
  \/ UNCHANGED <<mg_owner, hold>> /\ MgDepthOf[t] = 0
  \/ \E n \in 1..3 : /\ Mg!Release(t, n)
                     /\ n = MgDepthOf[t] \/ (n > MgDepthOf[t] /\ "memory" \in mishaps')

LEMMA MgExitsAny ==
  ASSUME MgBase, NEW t \in Mg!Callers, Mg!Exit(t), MgExitMoves(t),
         MgRestTypes', MgReportFits', mishaps \subseteq mishaps'
  PROVE  MgBase'
<1>1. /\ MgCallTypes' /\ MgOthersStay(t)
      /\ mg_pc'[t] = "out" /\ mg_call'[t] = "none"
  BY MgExit DEF MgBase
<1>2. MgDepthOf[t] \in 0..3 /\ MgDepthOf'[t] = 0
  BY <1>1, MgDepth, MgDepthNext DEF MgBase, MgDepths
<1>3. MgMutexMoves(t)
  <2>1. CASE UNCHANGED <<mg_owner, hold>> /\ MgDepthOf[t] = 0
    BY <1>2, <2>1 DEF MgMutexMoves
  <2>2. ASSUME NEW n \in 1..3, Mg!Release(t, n),
               n = MgDepthOf[t] \/ (n > MgDepthOf[t] /\ "memory" \in mishaps')
        PROVE  MgMutexMoves(t)
    <3>1. /\ MgDepthOf'[t] >= MgDepthOf[t] - n
          /\ MgDepthOf'[t] = MgDepthOf[t] - n \/ "memory" \in mishaps'
      BY <1>2, <2>2
    <3> QED
      BY <2>2, <3>1 DEF MgMutexMoves
  <2> QED
    BY <2>1, <2>2 DEF MgExitMoves
<1>4. MgFits(t)'
  BY <1>1 DEF MgFits
<1> QED
  BY <1>1, <1>3, <1>4, MgShape

LEMMA MgExits ==
  ASSUME MgBase, NEW t \in Mg!Callers, Mg!Exit(t), MgRestStays, MgExitMoves(t)
  PROVE  MgBase'
BY MgRest, MgExitsAny

\* The end of rt_wlan_connect_adv as the work calls it
LEMMA MgEnds ==
  ASSUME MgBase, NEW t \in Mg!Callers, Mg!Exit(t), Mg!Release(t, 2), MgDepthOf[t] = 2,
         MgRestTypes', MgReportFits', mishaps \subseteq mishaps'
  PROVE  MgBase'
<1>1. MgExitMoves(t)
  BY DEF MgExitMoves
<1> QED
  BY <1>1, MgExitsAny

LEMMA MgDepthAt ==
  ASSUME MgBase, NEW t \in Mg!Callers
  PROVE  /\ MgDepthOf[t] \in 0..3
         /\ mg_pc[t] \in {"out", "lock", "ready"} => MgDepthOf[t] = 0
         /\ mg_pc[t] \in {"search", "found", "adv", "wait"} => MgDepthOf[t] = 1
         /\ mg_pc[t] \in {"save", "flag", "command", "undo"} => MgDepthOf[t] = 2
         /\ mg_pc[t] = "scan" => MgDepthOf[t] = IF mg_call[t] = "connect" THEN 3 ELSE 2
         /\ mg_pc[t] = "drop" => MgDepthOf[t] = IF mg_call[t] = "disconnect" THEN 1 ELSE 3
BY MgDepth DEF MgBase, MgDepths

LEMMA MgDepthThen ==
  ASSUME NEW t \in Mg!Callers, NEW stage, MgMoved(t, stage)
  PROVE  /\ stage \in {"out", "lock", "ready"} => MgDepthOf'[t] = 0
         /\ stage \in {"search", "found", "adv", "wait"} => MgDepthOf'[t] = 1
         /\ stage \in {"save", "flag", "command", "undo"} => MgDepthOf'[t] = 2
         /\ stage = "scan" => MgDepthOf'[t] = IF mg_call[t] = "connect" THEN 3 ELSE 2
         /\ stage = "drop" => MgDepthOf'[t] = IF mg_call[t] = "disconnect" THEN 1 ELSE 3
BY MgDepthNext DEF MgMoved, MgDepths

LEMMA MgGotoMoves ==
  ASSUME MgBase, NEW t \in Mg!Callers, NEW stage \in Mg!Stages, Mg!Goto(t, stage)
  PROVE  MgMoved(t, stage) /\ complete'[t] = complete[t]
BY MgGoto DEF MgBase, MgMoved

LEMMA MgQuiet ==
  ASSUME MgBase, UNCHANGED <<Mg!stationVars, Mg!driverVars, Mg!reportVars>>,
         mishaps' = mishaps \/ mishaps' = mishaps \cup {"memory"} \/ mishaps' = mishaps \cup {"vain"}
  PROVE  MgRestStays
BY DEF MgBase, MgRestTypes, MgRestStays, Mg!stationVars, Mg!driverVars, Mg!reportVars, Mg!Mishaps

\* A command to disconnect, which changes the driver only.
LEMMA MgLeaves ==
  ASSUME MgBase, Mg!Leave, UNCHANGED <<Mg!stationVars, Mg!reportVars>>
  PROVE  MgRestTypes' /\ MgReportFits' /\ mishaps \subseteq mishaps'
BY DEF MgBase, MgRestTypes, MgReportFits, Mg!Leave, Mg!Unless, Mg!Mishaps, Mg!stationVars, Mg!reportVars

(* One step for each action of a call.                                     *)
LEMMA MgBaseCalls ==
  ASSUME MgBase, NEW t \in Mg!Callers, Mg!CallStep(t)
  PROVE  MgBase'
<1>0. /\ MgFits(t) /\ mg_owner \in Mg!Callers \cup {None} /\ hold \in 0..3 /\ None \notin Mg!Callers
      /\ mg_owner = None <=> hold = 0
      /\ mg_owner # None => hold <= MgDepthOf[mg_owner]
      /\ mg_pc[t] \in {"drop", "save", "flag", "command", "undo"} => mg_owner = t
      /\ mg_pc[t] = "drop" /\ mg_call[t] # "disconnect" => hold > 1
      /\ Mg!Stages = {"out", "lock", "search", "scan", "found", "adv", "drop", "save", "flag",
                      "command", "undo", "wait", "ready"}
  BY MgTypesOfConstants DEF MgBase, MgHeld, Mg!Stages
<1>1. ASSUME Mg!ConnectLocks(t) PROVE MgBase'
  <2>1. /\ mg_pc[t] = "lock" /\ mg_call[t] = "connect"
        /\ Mg!Take(t, 1) /\ Mg!Goto(t, "search") /\ MgRestStays
    BY <1>1, MgQuiet DEF Mg!ConnectLocks
  <2>2. MgMoved(t, "search")
    BY <1>0, <2>1, MgGotoMoves
  <2>3. MgMutexMoves(t)
    BY <2>1, <2>2, MgDepthAt, MgDepthThen DEF MgMutexMoves
  <2>4. MgFits(t)'
    BY <1>0, <2>1, <2>2 DEF MgFits, MgMoved
  <2> QED
    BY <1>0, <2>1, <2>2, <2>3, <2>4, MgRest, MgGoes
<1>2. ASSUME Mg!Scan(t) PROVE MgBase'
  <2>0. /\ (mg_pc[t] = "search" /\ mg_call[t] = "connect") \/ (mg_pc[t] = "lock" /\ mg_call[t] = "scan")
        /\ Mg!CanLock(t)
    BY <1>0, <1>2 DEF Mg!Scan, MgFits
  <2>1. MgDepthOf[t] \in 0..3 /\ MgDepthOf[t] = IF mg_call[t] = "connect" THEN 1 ELSE 0
    BY <2>0, MgDepthAt
  <2>2. ASSUME Mg!Goto(t, "found"), mg_call[t] = "connect", MgRestStays,
               UNCHANGED <<mg_owner, hold>> \/ (Mg!Release(t, 1) /\ "memory" \in mishaps')
        PROVE  MgBase'
    <3>1. MgMoved(t, "found")
      BY <1>0, <2>2, MgGotoMoves
    <3>2. MgDepthOf'[t] = 1 /\ MgDepthOf[t] = 1
      BY <2>1, <2>2, <3>1, MgDepthThen
    <3>3. MgMutexMoves(t)
      BY <2>2, <3>2 DEF MgMutexMoves
    <3>4. MgFits(t)'
      BY <1>0, <2>2, <3>1 DEF MgFits, MgMoved
    <3> QED
      BY <1>0, <2>2, <3>1, <3>3, <3>4, MgRest, MgGoes
  <2>3. ASSUME Mg!NoMemory(t, 1), Mg!AfterScan(t) PROVE MgBase'
    <3>1. Mg!Release(t, 1) /\ MgRestStays /\ "memory" \in mishaps'
      BY <2>3, MgQuiet DEF Mg!NoMemory
    <3>2. CASE mg_call[t] = "connect"
      BY <2>2, <2>3, <3>1, <3>2 DEF Mg!AfterScan
    <3>3. CASE mg_call[t] # "connect"
      <4>1. MgExitMoves(t)
        BY <2>1, <3>1, <3>3 DEF MgExitMoves
      <4> QED
        BY <2>3, <3>1, <3>3, <4>1, MgExits DEF Mg!AfterScan
    <3> QED
      BY <3>2, <3>3
  <2>4. ASSUME Mg!AfterScan(t), UNCHANGED <<Mg!mutexVars, Mg!stationVars, Mg!driverVars, Mg!reportVars, mishaps>>
        PROVE  MgBase'
    <3>1. MgRestStays /\ UNCHANGED <<mg_owner, hold>>
      BY <2>4, MgQuiet DEF Mg!mutexVars
    <3>2. CASE mg_call[t] = "connect"
      BY <2>2, <2>4, <3>1, <3>2 DEF Mg!AfterScan
    <3>3. CASE mg_call[t] # "connect"
      <4>1. MgExitMoves(t)
        BY <2>1, <3>1, <3>3 DEF MgExitMoves
      <4> QED
        BY <2>4, <3>1, <3>3, <4>1, MgExits DEF Mg!AfterScan
    <3> QED
      BY <3>2, <3>3
  <2>5. ASSUME Mg!Take(t, 2), Mg!Goto(t, "scan"), scanning' = TRUE,
               UNCHANGED <<Mg!stationVars, joining, link, leaving, Mg!reportVars, mishaps>>
        PROVE  MgBase'
    <3>1. MgMoved(t, "scan")
      BY <1>0, <2>5, MgGotoMoves
    <3>2. MgRestTypes' /\ MgReportFits' /\ mishaps \subseteq mishaps'
      BY <2>5 DEF MgBase, MgRestTypes, MgReportFits, Mg!stationVars, Mg!reportVars
    <3>3. MgDepthOf'[t] = MgDepthOf[t] + 2
      BY <2>1, <3>1, MgDepthThen
    <3>4. MgMutexMoves(t)
      BY <2>5, <3>3 DEF MgMutexMoves
    <3>5. MgFits(t)'
      BY <1>0, <2>0, <3>1 DEF MgFits, MgMoved
    <3> QED
      BY <1>0, <3>1, <3>2, <3>4, <3>5, MgGoes
  <2> QED
    BY <1>2, <2>3, <2>4, <2>5 DEF Mg!Scan
<1>3. ASSUME Mg!ScanEnds(t) PROVE MgBase'
  <2>1. mg_pc[t] = "scan" /\ Mg!Release(t, 2) /\ MgRestStays
    BY <1>3, MgQuiet DEF Mg!ScanEnds
  <2>2. CASE mg_call[t] = "connect"
    <3>1. MgMoved(t, "found")
      BY <1>0, <1>3, <2>2 DEF Mg!ScanEnds, MgMoved, MgCallTypes, MgOthersStay, MgBase, Mg!timerVars
    <3>2. MgDepthOf[t] = 3 /\ MgDepthOf'[t] = 1
      BY <2>1, <2>2, <3>1, MgDepthAt, MgDepthThen
    <3>3. MgMutexMoves(t)
      BY <2>1, <3>2 DEF MgMutexMoves
    <3>4. MgFits(t)'
      BY <1>0, <2>2, <3>1 DEF MgFits, MgMoved
    <3> QED
      BY <1>0, <2>1, <3>1, <3>3, <3>4, MgRest, MgGoes
  <2>3. CASE mg_call[t] # "connect"
    <3>1. MgExitMoves(t)
      BY <2>1, <2>3, MgDepthAt DEF MgExitMoves
    <3> QED
      BY <1>3, <2>1, <2>3, <3>1, MgExits DEF Mg!ScanEnds
  <2> QED
    BY <2>2, <2>3
<1>4. ASSUME Mg!NotFound(t) PROVE MgBase'
  <2>1. mg_pc[t] = "found" /\ Mg!Release(t, 1) /\ Mg!Exit(t) /\ MgRestStays
    BY <1>4, MgQuiet DEF Mg!NotFound
  <2>2. MgExitMoves(t)
    BY <2>1, MgDepthAt DEF MgExitMoves
  <2> QED
    BY <2>1, <2>2, MgExits
<1>5. ASSUME Mg!Found(t) PROVE MgBase'
  <2>0. mg_pc[t] \in {"search", "found"} /\ mg_call[t] = "connect" /\ MgDepthOf[t] = 1
    BY <1>0, <1>5, MgDepthAt DEF Mg!Found, MgFits
  <2>1. ASSUME Mg!NoMemory(t, 2), Mg!Exit(t) PROVE MgBase'
    <3>1. Mg!Release(t, 2) /\ MgRestStays /\ "memory" \in mishaps'
      BY <2>1, MgQuiet DEF Mg!NoMemory
    <3>2. MgExitMoves(t)
      BY <2>0, <3>1 DEF MgExitMoves
    <3> QED
      BY <2>1, <3>1, <3>2, MgExits
  <2>2. ASSUME Mg!Goto(t, "adv"),
               UNCHANGED <<Mg!mutexVars, Mg!stationVars, Mg!driverVars, Mg!reportVars, mishaps>>
        PROVE  MgBase'
    <3>1. MgRestStays /\ UNCHANGED <<mg_owner, hold>>
      BY <2>2, MgQuiet DEF Mg!mutexVars
    <3>2. MgMoved(t, "adv")
      BY <1>0, <2>2, MgGotoMoves
    <3>3. MgDepthOf'[t] = 1
      BY <3>2, MgDepthThen
    <3>4. MgMutexMoves(t)
      BY <2>0, <3>1, <3>3 DEF MgMutexMoves
    <3>5. MgFits(t)'
      BY <1>0, <2>0, <3>2 DEF MgFits, MgMoved
    <3> QED
      BY <1>0, <3>1, <3>2, <3>4, <3>5, MgRest, MgGoes
  <2> QED
    BY <1>5, <2>1, <2>2 DEF Mg!Found
<1>6. ASSUME Mg!DisconnectLocks(t) PROVE MgBase'
  <2>0. mg_pc[t] = "lock" /\ mg_call[t] = "disconnect" /\ MgDepthOf[t] = 0
    BY <1>6, MgDepthAt DEF Mg!DisconnectLocks
  <2>1. ASSUME Mg!NoMemory(t, 1), Mg!Exit(t) PROVE MgBase'
    <3>1. Mg!Release(t, 1) /\ MgRestStays /\ "memory" \in mishaps'
      BY <2>1, MgQuiet DEF Mg!NoMemory
    <3>2. MgExitMoves(t)
      BY <2>0, <3>1 DEF MgExitMoves
    <3> QED
      BY <2>1, <3>1, <3>2, MgExits
  <2>2. ASSUME Mg!Exit(t),
               UNCHANGED <<Mg!mutexVars, Mg!stationVars, Mg!driverVars, Mg!reportVars, mishaps>>
        PROVE  MgBase'
    <3>1. MgRestStays /\ MgExitMoves(t)
      BY <2>0, <2>2, MgQuiet DEF Mg!mutexVars, MgExitMoves
    <3> QED
      BY <2>2, <3>1, MgExits
  <2>3. ASSUME Mg!Take(t, 1), Mg!Goto(t, "drop"), Mg!Leave, UNCHANGED <<Mg!stationVars, Mg!reportVars>>
        PROVE  MgBase'
    <3>1. MgMoved(t, "drop") /\ MgRestTypes' /\ MgReportFits' /\ mishaps \subseteq mishaps'
      BY <1>0, <2>3, MgGotoMoves, MgLeaves
    <3>2. MgDepthOf'[t] = 1
      BY <2>0, <3>1, MgDepthThen
    <3>3. MgMutexMoves(t) /\ mg_owner' = t
      BY <2>0, <2>3, <3>2 DEF MgMutexMoves, Mg!Take
    <3>4. MgFits(t)'
      BY <1>0, <2>0, <3>1 DEF MgFits, MgMoved
    <3> QED
      BY <1>0, <2>0, <3>1, <3>3, <3>4, MgGoes
  <2> QED
    BY <1>6, <2>1, <2>2, <2>3 DEF Mg!DisconnectLocks
<1>7. ASSUME Mg!AdvJoined(t) PROVE MgBase'
  <2>0. mg_pc[t] = "adv" /\ MgDepthOf[t] = 1 /\ MgRestStays
    BY <1>7, MgDepthAt, MgQuiet DEF Mg!AdvJoined
  <2>1. CASE mg_call[t] = "connect"
    <3>1. MgMoved(t, "wait") /\ UNCHANGED <<mg_owner, hold>>
      BY <1>0, <1>7, <2>1, MgGotoMoves DEF Mg!AdvJoined, Mg!mutexVars
    <3>2. MgDepthOf'[t] = 1
      BY <3>1, MgDepthThen
    <3>3. MgMutexMoves(t)
      BY <2>0, <3>1, <3>2 DEF MgMutexMoves
    <3>4. MgFits(t)'
      BY <1>0, <2>1, <3>1 DEF MgFits, MgMoved
    <3> QED
      BY <1>0, <2>0, <3>1, <3>3, <3>4, MgRest, MgGoes
  <2>2. CASE mg_call[t] # "connect"
    <3>1. Mg!Release(t, 1) /\ Mg!Exit(t)
      BY <1>7, <2>2 DEF Mg!AdvJoined
    <3>2. MgExitMoves(t)
      BY <2>0, <3>1 DEF MgExitMoves
    <3> QED
      BY <2>0, <3>1, <3>2, MgExits
  <2> QED
    BY <2>1, <2>2
<1>8. ASSUME Mg!AdvDrops(t) PROVE MgBase'
  <2>0. /\ mg_pc[t] = "adv" /\ MgDepthOf[t] = 1 /\ mg_call[t] \in {"connect", "auto"}
        /\ target[t] # None /\ mg_owner \in {None, t}
    BY <1>0, <1>8, MgDepthAt DEF Mg!AdvDrops, MgFits, Mg!CanLock
  <2>1. ASSUME Mg!NoMemory(t, 2), Mg!Exit(t) PROVE MgBase'
    <3>1. Mg!Release(t, 2) /\ MgRestStays /\ "memory" \in mishaps'
      BY <2>1, MgQuiet DEF Mg!NoMemory
    <3>2. MgExitMoves(t)
      BY <2>0, <3>1 DEF MgExitMoves
    <3> QED
      BY <2>1, <3>1, <3>2, MgExits
  <2>2. ASSUME Mg!Release(t, 1), Mg!Exit(t),
               UNCHANGED <<Mg!stationVars, Mg!driverVars, Mg!reportVars, mishaps>>
        PROVE  MgBase'
    <3>1. MgRestStays /\ MgExitMoves(t)
      BY <2>0, <2>2, MgQuiet DEF MgExitMoves
    <3> QED
      BY <2>2, <3>1, MgExits
  <2>3. ASSUME Mg!Take(t, 2), Mg!Goto(t, "drop"), Mg!Leave, UNCHANGED <<Mg!stationVars, Mg!reportVars>>
        PROVE  MgBase'
    <3>1. MgMoved(t, "drop") /\ MgRestTypes' /\ MgReportFits' /\ mishaps \subseteq mishaps'
      BY <1>0, <2>3, MgGotoMoves, MgLeaves
    <3>2. MgDepthOf'[t] = 3
      BY <2>0, <3>1, MgDepthThen
    <3>3. MgMutexMoves(t) /\ mg_owner' = t /\ hold' > 1
      BY <1>0, <2>0, <2>3, <3>2 DEF MgMutexMoves, Mg!Take
    <3>4. MgFits(t)'
      BY <1>0, <2>0, <3>1 DEF MgFits, MgMoved
    <3> QED
      BY <1>0, <2>0, <3>1, <3>3, <3>4, MgGoes
  <2> QED
    BY <1>8, <2>1, <2>2, <2>3 DEF Mg!AdvDrops
<1>9. ASSUME Mg!AdvBegins(t) PROVE MgBase'
  <2>0. /\ mg_pc[t] = "adv" /\ MgDepthOf[t] = 1 /\ mg_call[t] \in {"connect", "auto"}
        /\ target[t] # None /\ Mg!Take(t, 1) /\ mg_owner' = t /\ MgRestStays
    BY <1>0, <1>9, MgDepthAt, MgQuiet DEF Mg!AdvBegins, MgFits, Mg!Take
  <2>1. MgMoved(t, "save")
    BY <1>0, <1>9, MgGotoMoves DEF Mg!AdvBegins
  <2>2. MgDepthOf'[t] = 2
    BY <2>1, MgDepthThen
  <2>3. MgMutexMoves(t)
    BY <2>0, <2>2 DEF MgMutexMoves
  <2>4. MgFits(t)'
    BY <1>0, <2>0, <2>1 DEF MgFits, MgMoved
  <2> QED
    BY <1>0, <2>0, <2>1, <2>3, <2>4, MgRest, MgGoes
<1>10. ASSUME Mg!DropEnds(t) PROVE MgBase'
  <2>0. mg_pc[t] = "drop" /\ mg_owner = t /\ MgRestStays
    BY <1>0, <1>10, MgQuiet DEF Mg!DropEnds
  <2>1. CASE mg_call[t] = "disconnect"
    <3>1. Mg!Release(t, 1) /\ Mg!Exit(t)
      BY <1>10, <2>1 DEF Mg!DropEnds
    <3>2. MgExitMoves(t)
      BY <2>0, <2>1, <3>1, MgDepthAt DEF MgExitMoves
    <3> QED
      BY <2>0, <3>1, <3>2, MgExits
  <2>2. CASE mg_call[t] # "disconnect" /\ "DISCONNECT" \in complete[t]
    <3>1. Mg!Release(t, 1)
      BY <1>10, <2>2 DEF Mg!DropEnds
    <3>2. MgMoved(t, "save")
      BY <1>0, <1>10, <2>2 DEF Mg!DropEnds, MgMoved, MgCallTypes, MgOthersStay, MgBase, Mg!timerVars
    <3>3. MgDepthOf[t] = 3 /\ MgDepthOf'[t] = 2
      BY <2>0, <2>2, <3>2, MgDepthAt, MgDepthThen
    <3>4. MgMutexMoves(t)
      BY <3>1, <3>3 DEF MgMutexMoves
    <3>5. hold > 1
      BY <1>0, <2>0, <2>2
    <3>6. mg_owner' = t
      BY <1>0, <2>0, <3>1, <3>5 DEF Mg!Release
    <3>7. MgFits(t)'
      BY <1>0, <2>0, <2>2, <3>2 DEF MgFits, MgMoved
    <3> QED
      BY <1>0, <2>0, <3>2, <3>4, <3>6, <3>7, MgRest, MgGoes
  <2>3. CASE mg_call[t] # "disconnect" /\ "DISCONNECT" \notin complete[t]
    <3>1. Mg!Release(t, 3) /\ Mg!Exit(t)
      BY <1>10, <2>3 DEF Mg!DropEnds
    <3>2. MgExitMoves(t)
      BY <2>0, <2>3, <3>1, MgDepthAt DEF MgExitMoves
    <3> QED
      BY <2>0, <3>1, <3>2, MgExits
  <2> QED
    BY <2>1, <2>2, <2>3
<1>11. ASSUME Mg!SaveInfo(t) PROVE MgBase'
  <2>0. /\ mg_pc[t] = "save" /\ UNCHANGED <<mg_owner, hold>> /\ MgDepthOf[t] = 2
        /\ mg_owner = t /\ mg_call[t] \in {"connect", "auto"} /\ target[t] # None
    BY <1>0, <1>11, MgDepthAt DEF Mg!SaveInfo, Mg!mutexVars, MgFits
  <2>1. MgMoved(t, "flag")
    BY <1>0, <1>11 DEF Mg!SaveInfo, MgMoved, MgCallTypes, MgOthersStay, MgBase, MgRestTypes, Mg!timerVars
  <2>2. MgDepthOf'[t] = 2
    BY <2>1, MgDepthThen
  <2>3. MgMutexMoves(t)
    BY <2>0, <2>2 DEF MgMutexMoves
  <2>4. MgFits(t)'
    BY <1>0, <2>0, <2>1 DEF MgFits, MgMoved
  <2>5. target[t] \in Stations \cup {None}
    BY DEF MgBase, MgCallTypes
  <2>6. MgRestTypes' /\ MgReportFits' /\ mishaps \subseteq mishaps'
    BY <1>11, <2>5 DEF Mg!SaveInfo, MgBase, MgRestTypes, MgReportFits, Mg!driverVars, Mg!reportVars,
       Mg!Unless, Mg!Mishaps
  <2> QED
    BY <1>0, <2>0, <2>1, <2>3, <2>4, <2>6, MgGoes
<1>12. ASSUME Mg!SetConnecting(t) PROVE MgBase'
  <2>0. /\ mg_pc[t] = "flag" /\ UNCHANGED <<mg_owner, hold>> /\ MgDepthOf[t] = 2
        /\ mg_owner = t /\ mg_call[t] \in {"connect", "auto"} /\ target[t] # None
    BY <1>0, <1>12, MgDepthAt DEF Mg!SetConnecting, Mg!mutexVars, MgFits
  <2>1. MgMoved(t, "command")
    BY <1>0, <1>12, MgGotoMoves DEF Mg!SetConnecting
  <2>2. MgDepthOf'[t] = 2
    BY <2>1, MgDepthThen
  <2>3. MgMutexMoves(t)
    BY <2>0, <2>2 DEF MgMutexMoves
  <2>4. MgFits(t)'
    BY <1>0, <2>0, <2>1 DEF MgFits, MgMoved
  <2>5. seen[t] \subseteq Mg!Flags /\ "CONNECTING" \in Mg!Flags
    BY DEF MgBase, MgCallTypes, Mg!Flags
  <2>6. MgRestTypes' /\ MgReportFits' /\ mishaps \subseteq mishaps'
    BY <1>12, <2>5 DEF Mg!SetConnecting, MgBase, MgRestTypes, MgReportFits, Mg!driverVars, Mg!reportVars,
       Mg!Unless, Mg!Mishaps
  <2> QED
    BY <1>0, <2>0, <2>1, <2>3, <2>4, <2>6, MgGoes
<1>13. ASSUME Mg!Command(t) PROVE MgBase'
  <2>0. /\ mg_pc[t] = "command" /\ MgDepthOf[t] = 2 /\ target[t] \in Stations \cup {None}
        /\ UNCHANGED <<Mg!stationVars, leaving, scanning, Mg!reportVars, mishaps>>
        /\ joining' = target[t] /\ link' = None
    BY <1>13, MgDepthAt DEF Mg!Command, MgBase, MgCallTypes
  <2>1. MgRestTypes' /\ MgReportFits' /\ mishaps \subseteq mishaps'
    BY <2>0 DEF MgBase, MgRestTypes, MgReportFits, Mg!stationVars, Mg!reportVars
  <2>2. CASE mg_call[t] = "connect"
    <3>1. Mg!Release(t, 1) /\ MgMoved(t, "wait")
      BY <1>0, <1>13, <2>2, MgGotoMoves DEF Mg!Command
    <3>2. MgDepthOf'[t] = 1
      BY <3>1, MgDepthThen
    <3>3. MgMutexMoves(t)
      BY <2>0, <3>1, <3>2 DEF MgMutexMoves
    <3>4. MgFits(t)'
      BY <1>0, <2>2, <3>1 DEF MgFits, MgMoved
    <3> QED
      BY <1>0, <2>1, <3>1, <3>3, <3>4, MgGoes
  <2>3. CASE mg_call[t] # "connect"
    <3>1. Mg!Release(t, 2) /\ Mg!Exit(t)
      BY <1>13, <2>3 DEF Mg!Command
    <3> QED
      BY <2>0, <2>1, <3>1, MgEnds
  <2> QED
    BY <2>2, <2>3
<1>14. ASSUME Mg!Refused(t) PROVE MgBase'
  <2>0. /\ mg_pc[t] = "command" /\ UNCHANGED <<mg_owner, hold>> /\ MgDepthOf[t] = 2
        /\ mg_owner = t /\ mg_call[t] \in {"connect", "auto"} /\ target[t] # None
    BY <1>0, <1>14, MgDepthAt DEF Mg!Refused, Mg!mutexVars, MgFits
  <2>1. MgMoved(t, "undo")
    BY <1>0, <1>14 DEF Mg!Refused, MgMoved, MgCallTypes, MgOthersStay, MgBase, MgRestTypes, Mg!timerVars
  <2>2. MgDepthOf'[t] = 2
    BY <2>1, MgDepthThen
  <2>3. MgMutexMoves(t)
    BY <2>0, <2>2 DEF MgMutexMoves
  <2>4. MgFits(t)'
    BY <1>0, <2>0, <2>1 DEF MgFits, MgMoved
  <2>5. MgRestTypes' /\ MgReportFits' /\ mishaps \subseteq mishaps'
    BY <1>14 DEF Mg!Refused, MgBase, MgRestTypes, MgReportFits, Mg!driverVars, Mg!reportVars
  <2> QED
    BY <1>0, <2>0, <2>1, <2>3, <2>4, <2>5, MgGoes
<1>15. ASSUME Mg!ClearConnecting(t) PROVE MgBase'
  <2>0. mg_pc[t] = "undo" /\ MgDepthOf[t] = 2 /\ Mg!Release(t, 2) /\ Mg!Exit(t)
    BY <1>15, MgDepthAt DEF Mg!ClearConnecting
  <2>1. seen[t] \subseteq Mg!Flags
    BY DEF MgBase, MgCallTypes
  <2>2. MgRestTypes' /\ MgReportFits' /\ mishaps \subseteq mishaps'
    BY <1>15, <2>1 DEF Mg!ClearConnecting, MgBase, MgRestTypes, MgReportFits, Mg!driverVars, Mg!reportVars,
       Mg!Unless, Mg!Mishaps
  <2> QED
    BY <2>0, <2>2, MgEnds
<1>16. ASSUME Mg!WaitEnds(t) PROVE MgBase'
  <2>1. mg_pc[t] = "wait" /\ Mg!Release(t, 1) /\ Mg!Exit(t) /\ MgRestStays
    BY <1>16, MgQuiet DEF Mg!WaitEnds
  <2>2. MgExitMoves(t)
    BY <2>1, MgDepthAt DEF MgExitMoves
  <2> QED
    BY <2>1, <2>2, MgExits
<1> QED
  BY <1>1, <1>2, <1>3, <1>4, <1>5, <1>6, <1>7, <1>8, <1>9, <1>10, <1>11, <1>12, <1>13, <1>14,
     <1>15, <1>16 DEF Mg!CallStep

\* No call goes on: the driver's thread, the timer or a setting.
LEMMA MgStill ==
  ASSUME MgBase, MgCallTypes', MgRestTypes', MgReportFits', mishaps \subseteq mishaps',
         UNCHANGED <<mg_owner, hold, mg_call, mg_pc, target>>
  PROVE  MgBase'
<1>1. \A t \in Mg!Callers : MgFits(t)'
  BY DEF MgBase, MgFits
<1>2. MgDepthOf' = MgDepthOf
  BY DEF MgDepthOf, Mg!Depth
<1>3. MgHeld'
  BY <1>2 DEF MgBase, MgHeld
<1> QED
  BY <1>1, <1>3 DEF MgBase

LEMMA MgBaseNext ==
  ASSUME MgBase, Mg!Next
  PROVE  MgBase'
<1>0. /\ MgCallTypes /\ MgRestTypes /\ MgReportFits
      /\ \A t \in Mg!Callers : MgFits(t)
  BY DEF MgBase
<1>1. ASSUME NEW t \in Joiners, NEW c \in {"connect", "disconnect", "scan"}, NEW a \in Stations \cup {None},
             c = "connect" => a # None, Mg!Begin(t, c, a)
      PROVE  MgBase'
  <2>1. t \in Mg!Callers /\ "lock" \in Mg!Stages /\ c \in Mg!Calls
    BY <1>1, MgTypesOfConstants DEF Mg!Stages, Mg!Calls
  <2>2. MgCallTypes' /\ MgOthersStay(t) /\ mg_pc'[t] = "lock" /\ mg_call'[t] = c /\ target'[t] = a
    BY <1>0, <1>1, <2>1 DEF Mg!Begin, MgCallTypes, MgOthersStay, Mg!timerVars
  <2>3. mg_pc[t] = "out" /\ MgRestStays /\ UNCHANGED <<mg_owner, hold>>
    BY <1>1, MgQuiet DEF Mg!Begin, Mg!mutexVars
  <2>4. MgDepthOf[t] = 0 /\ MgDepthOf'[t] = 0
    BY <2>1, <2>2, <2>3, MgDepthAt, MgDepthNext DEF MgDepths
  <2>5. MgMutexMoves(t)
    BY <2>3, <2>4 DEF MgMutexMoves
  <2>6. MgFits(t)'
    BY <1>1, <2>2 DEF MgFits
  <2> QED
    BY <2>1, <2>2, <2>3, <2>5, <2>6, MgRest, MgShape
<1>2. ASSUME NEW t \in Joiners, Mg!ConfigAutoreconnect(t) PROVE MgBase'
  <2>1. MgCallTypes' /\ MgRestTypes' /\ MgReportFits' /\ mishaps \subseteq mishaps'
    BY <1>0, <1>2 DEF Mg!ConfigAutoreconnect, MgCallTypes, MgRestTypes, MgReportFits, Mg!callVars,
       Mg!timerVars, Mg!driverVars, Mg!reportVars
  <2> QED
    BY <1>2, <2>1, MgStill DEF Mg!ConfigAutoreconnect, Mg!mutexVars, Mg!callVars
<1>3. ASSUME Mg!DriverReports PROVE MgBase'
  <2>1. MgCallTypes'
    BY <1>0, <1>3 DEF Mg!DriverReports, MgCallTypes, Mg!callVars, Mg!timerVars
  <2>2. MgRestTypes'
    BY <1>0, <1>3 DEF Mg!DriverReports, Mg!Joins, Mg!Fails, Mg!LosesLink, Mg!Scanned, MgRestTypes,
       Mg!stationVars, Mg!Events
  <2>3. MgReportFits' /\ mishaps \subseteq mishaps'
    BY <1>0, <1>3 DEF Mg!DriverReports, MgReportFits
  <2> QED
    BY <1>3, <2>1, <2>2, <2>3, MgStill DEF Mg!DriverReports, Mg!mutexVars, Mg!callVars
<1>4. ASSUME Mg!DispatchReads PROVE MgBase'
  <2>1. MgCallTypes' /\ MgRestTypes' /\ MgReportFits' /\ mishaps \subseteq mishaps'
    BY <1>0, <1>4 DEF Mg!DispatchReads, MgCallTypes, MgRestTypes, MgReportFits, Mg!callVars,
       Mg!timerVars, Mg!driverVars, Mg!stationVars
  <2> QED
    BY <1>4, <2>1, MgStill DEF Mg!DispatchReads, Mg!mutexVars, Mg!callVars
<1>5. ASSUME Mg!DispatchWrites PROVE MgBase'
  <2>1. event \in {"CONNECT", "CONNECT_FAIL", "DISCONNECT"}
    BY <1>0, <1>5 DEF Mg!DispatchWrites, MgRestTypes, MgReportFits, Mg!Events
  <2>2. mg_state' \subseteq Mg!Flags
    BY <1>0, <1>5, <2>1 DEF Mg!DispatchWrites, Mg!NewState, MgRestTypes, Mg!Flags
  <2>3. MgRestTypes'
    BY <1>0, <1>5, <2>2 DEF Mg!DispatchWrites, MgRestTypes, Mg!driverVars, Mg!Unless, Mg!Mishaps
  <2>4. MgCallTypes' /\ MgReportFits' /\ mishaps \subseteq mishaps'
    BY <1>0, <1>5, <2>1 DEF Mg!DispatchWrites, MgCallTypes, MgReportFits, Mg!callVars
  <2> QED
    BY <1>5, <2>3, <2>4, MgStill DEF Mg!DispatchWrites, Mg!mutexVars, Mg!callVars
<1>6. ASSUME Mg!DispatchSends PROVE MgBase'
  <2>1. event \in Mg!Events
    <3>1. event = "SCAN_DONE" \/ event # None
      BY <1>0, <1>6 DEF Mg!DispatchSends, MgReportFits
    <3> QED
      BY <1>0, <3>1 DEF MgRestTypes, Mg!Events
  <2>2. \A t \in Mg!Callers : complete[t] \cup (Mg!Awaits(t) \cap {event}) \in SUBSET Mg!Events
    BY <1>0, <2>1 DEF MgCallTypes
  <2>3. complete' \in [Mg!Callers -> SUBSET Mg!Events]
    BY <1>6, <2>2 DEF Mg!DispatchSends
  <2>4. MgCallTypes' /\ MgRestTypes' /\ MgReportFits' /\ mishaps \subseteq mishaps'
    BY <1>0, <1>6, <2>3 DEF Mg!DispatchSends, MgCallTypes, MgRestTypes, MgReportFits,
       Mg!timerVars, Mg!driverVars, Mg!stationVars
  <2> QED
    BY <1>6, <2>4, MgStill DEF Mg!DispatchSends, Mg!mutexVars
<1>7. ASSUME Mg!CyclicCheck \/ Mg!AutoReturns PROVE MgBase'
  <2>1. MgCallTypes' /\ MgRestTypes' /\ MgReportFits' /\ mishaps \subseteq mishaps'
    BY <1>0, <1>7 DEF Mg!CyclicCheck, Mg!AutoReturns, MgCallTypes, MgRestTypes, MgReportFits, Mg!callVars,
       Mg!driverVars, Mg!stationVars, Mg!reportVars
  <2> QED
    BY <1>7, <2>1, MgStill DEF Mg!CyclicCheck, Mg!AutoReturns, Mg!mutexVars, Mg!callVars
<1>8. ASSUME NEW a \in Stations, Mg!AutoRuns(a) PROVE MgBase'
  <2>1. Worker \in Mg!Callers /\ "adv" \in Mg!Stages /\ "auto" \in Mg!Calls /\ a # None /\ Worker \notin Joiners
    BY MgTypesOfConstants DEF Mg!Stages, Mg!Calls
  <2>2. /\ MgCallTypes' /\ MgOthersStay(Worker)
        /\ mg_pc'[Worker] = "adv" /\ mg_call'[Worker] = "auto" /\ target'[Worker] = a
    BY <1>0, <1>8, <2>1 DEF Mg!AutoRuns, MgCallTypes, MgOthersStay, Mg!timerVars
  <2>3. mg_pc[Worker] = "out" /\ MgRestStays /\ Mg!Take(Worker, 1)
    BY <1>8, MgQuiet DEF Mg!AutoRuns
  <2>4. MgDepthOf[Worker] = 0 /\ MgDepthOf'[Worker] = 1
    BY <2>1, <2>2, <2>3, MgDepthAt, MgDepthNext DEF MgDepths
  <2>5. MgMutexMoves(Worker)
    BY <2>3, <2>4 DEF MgMutexMoves
  <2>6. MgFits(Worker)'
    BY <2>1, <2>2 DEF MgFits
  <2> QED
    BY <2>1, <2>2, <2>3, <2>5, <2>6, MgRest, MgShape
<1>9. ASSUME Mg!ReadyTests PROVE MgBase'
  <2>1. Worker \in Mg!Callers /\ "ready" \in Mg!Stages /\ Worker \notin Joiners
    BY MgTypesOfConstants DEF Mg!Stages
  <2>2. MgMoved(Worker, "ready") /\ mg_pc[Worker] = "out" /\ MgRestStays /\ UNCHANGED <<mg_owner, hold>>
    BY <1>9, <2>1, MgGotoMoves, MgQuiet DEF Mg!ReadyTests, Mg!mutexVars
  <2>3. MgDepthOf[Worker] = 0 /\ MgDepthOf'[Worker] = 0
    BY <2>1, <2>2, MgDepthAt, MgDepthThen
  <2>4. MgMutexMoves(Worker)
    BY <2>2, <2>3 DEF MgMutexMoves
  <2>5. MgFits(Worker)'
    BY <1>0, <2>1, <2>2 DEF MgFits, MgMoved
  <2> QED
    BY <2>1, <2>2, <2>4, <2>5, MgRest, MgGoes
<1>10. ASSUME Mg!SetsReady PROVE MgBase'
  <2>1. Worker \in Mg!Callers /\ "out" \in Mg!Stages /\ Worker \notin Joiners
    BY MgTypesOfConstants DEF Mg!Stages
  <2>2. MgMoved(Worker, "out") /\ mg_pc[Worker] = "ready" /\ UNCHANGED <<mg_owner, hold>>
    BY <1>0, <1>10, <2>1 DEF Mg!SetsReady, Mg!mutexVars, MgMoved, MgCallTypes, MgOthersStay, Mg!timerVars
  <2>3. MgRestTypes' /\ MgReportFits' /\ mishaps \subseteq mishaps'
    BY <1>0, <1>10 DEF Mg!SetsReady, MgRestTypes, MgReportFits, Mg!driverVars, Mg!reportVars,
       Mg!Unless, Mg!Mishaps, Mg!Flags
  <2>4. MgDepthOf[Worker] = 0 /\ MgDepthOf'[Worker] = 0
    BY <2>1, <2>2, MgDepthAt, MgDepthThen
  <2>5. MgMutexMoves(Worker)
    BY <2>2, <2>4 DEF MgMutexMoves
  <2>6. MgFits(Worker)'
    BY <1>0, <2>1, <2>2 DEF MgFits, MgMoved
  <2> QED
    BY <2>1, <2>2, <2>3, <2>5, <2>6, MgGoes
<1>11. ASSUME NEW t \in Joiners,
              Mg!Disconnect(t) \/ Mg!ScanSync(t) \/ \E a \in Stations : Mg!Connect(t, a)
       PROVE  MgBase'
  <2>1. \E c \in {"connect", "disconnect", "scan"}, a \in Stations \cup {None} :
          (c = "connect" => a # None) /\ Mg!Begin(t, c, a)
    BY <1>11, MgTypesOfConstants DEF Mg!Disconnect, Mg!ScanSync, Mg!Connect
  <2> QED
    BY <1>1, <2>1
<1> QED
  BY <1>2, <1>3, <1>4, <1>5, <1>6, <1>7, <1>8, <1>9, <1>10, <1>11, MgBaseCalls DEF Mg!Next

-----------------------------------------------------------------------------
(* What the steps do to the driver, to the state and to who waits.         *)
MgEffects(t) ==
  /\ MgOthersStay(t) /\ mishaps \subseteq mishaps'
  /\ mg_pc[t] \notin {"flag", "command", "undo"} /\ mg_pc'[t] \notin {"flag", "command", "undo"}
  /\ UNCHANGED <<mg_state, info, mg_timer, event, report>>

\* A step of a call that does not command the driver but to scan
MgCallMoves(t) ==
  /\ MgEffects(t) /\ UNCHANGED <<joining, link, leaving>>
  /\ \/ mg_pc'[t] \notin {"scan", "drop", "wait"} /\ scanning' = scanning
     \/ mg_pc'[t] = "scan" /\ scanning' = TRUE
     \/ mg_pc'[t] = "wait" /\ "vain" \in mishaps' /\ scanning' = scanning

\* and one that commands it to disconnect
MgCallLeaves(t) == MgEffects(t) /\ Mg!Leave /\ mg_pc'[t] = "drop" /\ mg_owner' = t

MgNothingMoves ==
  /\ UNCHANGED <<mg_pc, complete, mg_state, info, mg_timer, event, report, target,
                 joining, link, leaving, scanning>>
  /\ mishaps \subseteq mishaps'

MgJoinStep(t) ==
  Mg!SaveInfo(t) \/ Mg!SetConnecting(t) \/ Mg!Command(t) \/ Mg!Refused(t) \/ Mg!ClearConnecting(t)

MgDriverStep ==
  Mg!DriverReports \/ Mg!DispatchReads \/ Mg!DispatchWrites \/ Mg!DispatchSends \/ Mg!SetsReady

LEMMA MgQuietMoves ==
  ASSUME NEW t \in Mg!Callers, MgOthersStay(t), mg_timer' = mg_timer,
         mg_pc[t] \notin {"flag", "command", "undo"},
         mg_pc'[t] \notin {"flag", "command", "undo", "scan", "drop", "wait"},
         UNCHANGED <<Mg!stationVars, Mg!driverVars, Mg!reportVars>>, mishaps \subseteq mishaps'
  PROVE  MgCallMoves(t)
BY DEF MgCallMoves, MgEffects, Mg!stationVars, Mg!driverVars, Mg!reportVars

LEMMA MgClasses ==
  ASSUME MgBase, Mg!Next
  PROVE  \/ \E t \in Mg!Callers : MgJoinStep(t) \/ MgCallMoves(t) \/ MgCallLeaves(t)
         \/ MgDriverStep
         \/ MgNothingMoves
<1>0. /\ MgCallTypes /\ "found" \in Mg!Stages /\ "search" \in Mg!Stages /\ "scan" \in Mg!Stages
      /\ "drop" \in Mg!Stages /\ "adv" \in Mg!Stages /\ "save" \in Mg!Stages /\ "wait" \in Mg!Stages
      /\ "ready" \in Mg!Stages
      /\ Worker \in Mg!Callers /\ Joiners \subseteq Mg!Callers
  BY MgTypesOfConstants DEF MgBase, Mg!Stages
<1>1. ASSUME NEW t \in Mg!Callers, Mg!Exit(t), mg_pc[t] \notin {"flag", "command", "undo"},
             UNCHANGED <<Mg!stationVars, Mg!driverVars, Mg!reportVars>>, mishaps \subseteq mishaps'
      PROVE  MgCallMoves(t)
  BY <1>0, <1>1, MgExit, MgQuietMoves
<1>2. ASSUME NEW t \in Mg!Callers, NEW stage \in {"search", "found", "adv", "save", "ready"},
             Mg!Goto(t, stage), mg_pc[t] \notin {"flag", "command", "undo"},
             UNCHANGED <<Mg!stationVars, Mg!driverVars, Mg!reportVars>>, mishaps \subseteq mishaps'
      PROVE  MgCallMoves(t)
  <2>1. MgOthersStay(t) /\ mg_timer' = mg_timer /\ mg_pc'[t] = stage
    BY <1>0, <1>2, MgGoto
  <2> QED
    BY <1>2, <2>1, MgQuietMoves
<1>3. ASSUME NEW t \in Mg!Callers, Mg!Goto(t, "drop"), mg_pc[t] \in {"lock", "adv"}, Mg!Leave,
             UNCHANGED <<Mg!stationVars, Mg!reportVars>>, NEW n, Mg!Take(t, n)
      PROVE  MgCallLeaves(t)
  <2>1. MgOthersStay(t) /\ mg_timer' = mg_timer /\ mg_pc'[t] = "drop"
    BY <1>0, <1>3, MgGoto
  <2>2. mishaps \subseteq mishaps' /\ mg_owner' = t
    BY <1>3 DEF Mg!Leave, Mg!Take
  <2> QED
    BY <1>3, <2>1, <2>2 DEF MgCallLeaves, MgEffects, Mg!stationVars, Mg!reportVars
<1>4. ASSUME NEW t \in Mg!Callers, Mg!ConnectLocks(t) PROVE MgCallMoves(t)
  BY <1>2, <1>4 DEF Mg!ConnectLocks
<1>5. ASSUME NEW t \in Mg!Callers, Mg!Scan(t) PROVE MgCallMoves(t)
  <2>1. mg_pc[t] \in {"search", "lock"}
    BY <1>5 DEF Mg!Scan
  <2>2. CASE /\ Mg!AfterScan(t) /\ UNCHANGED <<Mg!stationVars, Mg!driverVars, Mg!reportVars>>
             /\ mishaps \subseteq mishaps'
    BY <1>1, <1>2, <2>1, <2>2 DEF Mg!AfterScan
  <2>3. CASE /\ Mg!Goto(t, "scan") /\ scanning' = TRUE
             /\ UNCHANGED <<Mg!stationVars, joining, link, leaving, Mg!reportVars, mishaps>>
    <3>1. MgOthersStay(t) /\ mg_timer' = mg_timer /\ mg_pc'[t] = "scan"
      BY <1>0, <2>3, MgGoto
    <3> QED
      BY <2>1, <2>3, <3>1 DEF MgCallMoves, MgEffects, Mg!stationVars, Mg!reportVars
  <2> QED
    BY <1>5, <2>2, <2>3 DEF Mg!Scan, Mg!NoMemory
<1>6. ASSUME NEW t \in Mg!Callers, Mg!ScanEnds(t) PROVE MgCallMoves(t)
  <2>1. /\ mg_pc[t] = "scan" /\ UNCHANGED <<Mg!stationVars, Mg!driverVars, Mg!reportVars>>
        /\ mishaps \subseteq mishaps'
    BY <1>6 DEF Mg!ScanEnds
  <2>2. CASE mg_call[t] = "connect"
    <3>1. MgOthersStay(t) /\ mg_timer' = mg_timer /\ mg_pc'[t] = "found"
      BY <1>0, <1>6, <2>2 DEF Mg!ScanEnds, MgCallTypes, MgOthersStay, Mg!timerVars
    <3> QED
      BY <2>1, <3>1, MgQuietMoves
  <2>3. CASE mg_call[t] # "connect"
    BY <1>1, <1>6, <2>1, <2>3 DEF Mg!ScanEnds
  <2> QED
    BY <2>2, <2>3
<1>7. ASSUME NEW t \in Mg!Callers, Mg!NotFound(t) \/ Mg!Found(t) \/ Mg!WaitEnds(t) PROVE MgCallMoves(t)
  <2>1. mg_pc[t] \in {"found", "search", "wait"} /\ (Mg!Exit(t) \/ Mg!Goto(t, "adv"))
    BY <1>7 DEF Mg!NotFound, Mg!Found, Mg!WaitEnds
  <2>2. UNCHANGED <<Mg!stationVars, Mg!driverVars, Mg!reportVars>> /\ mishaps \subseteq mishaps'
    BY <1>7 DEF Mg!NotFound, Mg!Found, Mg!WaitEnds, Mg!NoMemory
  <2> QED
    BY <1>1, <1>2, <2>1, <2>2
<1>8. ASSUME NEW t \in Mg!Callers, Mg!DisconnectLocks(t) PROVE MgCallMoves(t) \/ MgCallLeaves(t)
  BY <1>1, <1>3, <1>8 DEF Mg!DisconnectLocks, Mg!NoMemory
<1>9. ASSUME NEW t \in Mg!Callers, Mg!AdvJoined(t) PROVE MgCallMoves(t)
  <2>1. /\ mg_pc[t] = "adv" /\ UNCHANGED <<Mg!stationVars, Mg!driverVars, Mg!reportVars>>
        /\ mishaps \subseteq mishaps'
    BY <1>9 DEF Mg!AdvJoined
  <2>2. CASE mg_call[t] = "connect"
    <3>1. Mg!Goto(t, "wait") /\ "vain" \in mishaps'
      BY <1>9, <2>2 DEF Mg!AdvJoined
    <3>2. MgOthersStay(t) /\ mg_timer' = mg_timer /\ mg_pc'[t] = "wait"
      BY <1>0, <3>1, MgGoto
    <3> QED
      BY <2>1, <3>1, <3>2 DEF MgCallMoves, MgEffects, Mg!stationVars, Mg!driverVars, Mg!reportVars
  <2>3. CASE mg_call[t] # "connect"
    BY <1>1, <1>9, <2>1, <2>3 DEF Mg!AdvJoined
  <2> QED
    BY <2>2, <2>3
<1>10. ASSUME NEW t \in Mg!Callers, Mg!AdvDrops(t) PROVE MgCallMoves(t) \/ MgCallLeaves(t)
  BY <1>1, <1>3, <1>10 DEF Mg!AdvDrops, Mg!NoMemory
<1>11. ASSUME NEW t \in Mg!Callers, Mg!AdvBegins(t) PROVE MgCallMoves(t)
  BY <1>2, <1>11 DEF Mg!AdvBegins
<1>12. ASSUME NEW t \in Mg!Callers, Mg!DropEnds(t) PROVE MgCallMoves(t)
  <2>1. /\ mg_pc[t] = "drop" /\ UNCHANGED <<Mg!stationVars, Mg!driverVars, Mg!reportVars>>
        /\ mishaps \subseteq mishaps'
    BY <1>12 DEF Mg!DropEnds
  <2>2. CASE mg_call[t] # "disconnect" /\ "DISCONNECT" \in complete[t]
    <3>1. MgOthersStay(t) /\ mg_timer' = mg_timer /\ mg_pc'[t] = "save"
      BY <1>0, <1>12, <2>2 DEF Mg!DropEnds, MgCallTypes, MgOthersStay, Mg!timerVars
    <3> QED
      BY <2>1, <3>1, MgQuietMoves
  <2>3. CASE ~(mg_call[t] # "disconnect" /\ "DISCONNECT" \in complete[t])
    BY <1>1, <1>12, <2>1, <2>3 DEF Mg!DropEnds
  <2> QED
    BY <2>2, <2>3
<1>13. ASSUME NEW t \in Mg!Callers, NEW c, NEW a, Mg!Begin(t, c, a) PROVE MgCallMoves(t)
  <2>1. /\ mg_pc[t] = "out" /\ mg_pc'[t] = "lock" /\ MgOthersStay(t) /\ mg_timer' = mg_timer
        /\ UNCHANGED <<Mg!stationVars, Mg!driverVars, Mg!reportVars>> /\ mishaps \subseteq mishaps'
    BY <1>0, <1>13 DEF Mg!Begin, MgCallTypes, MgOthersStay, Mg!timerVars
  <2> QED
    BY <2>1, MgQuietMoves
<1>14. ASSUME NEW a, Mg!AutoRuns(a) PROVE MgCallMoves(Worker)
  <2>1. /\ mg_pc[Worker] = "out" /\ mg_pc'[Worker] = "adv" /\ MgOthersStay(Worker) /\ mg_timer' = mg_timer
        /\ UNCHANGED <<Mg!stationVars, Mg!driverVars, Mg!reportVars>> /\ mishaps \subseteq mishaps'
    BY <1>0, <1>14 DEF Mg!AutoRuns, MgCallTypes, MgOthersStay, Mg!timerVars
  <2> QED
    BY <1>0, <2>1, MgQuietMoves
<1>15. ASSUME Mg!ReadyTests PROVE MgCallMoves(Worker)
  BY <1>0, <1>2, <1>15 DEF Mg!ReadyTests
<1>16. ASSUME Mg!CyclicCheck \/ Mg!AutoReturns \/ \E t \in Joiners : Mg!ConfigAutoreconnect(t)
       PROVE  MgNothingMoves
  BY <1>16 DEF Mg!CyclicCheck, Mg!AutoReturns, Mg!ConfigAutoreconnect, MgNothingMoves, Mg!callVars,
     Mg!timerVars, Mg!driverVars, Mg!stationVars, Mg!reportVars
<1>17. ASSUME NEW t \in Mg!Callers, Mg!CallStep(t)
       PROVE  MgJoinStep(t) \/ MgCallMoves(t) \/ MgCallLeaves(t)
  BY <1>4, <1>5, <1>6, <1>7, <1>8, <1>9, <1>10, <1>11, <1>12, <1>17 DEF Mg!CallStep, MgJoinStep
<1>18. ASSUME NEW t \in Joiners,
              Mg!Disconnect(t) \/ Mg!ScanSync(t) \/ \E a \in Stations : Mg!Connect(t, a)
       PROVE  MgCallMoves(t)
  BY <1>0, <1>13, <1>18 DEF Mg!Disconnect, Mg!ScanSync, Mg!Connect
<1> QED
  BY <1>0, <1>14, <1>15, <1>16, <1>17, <1>18 DEF Mg!Next, MgDriverStep

-----------------------------------------------------------------------------
(* The parts of the invariant about the driver, kept by every step.        *)
LEMMA MgReports ==
  ASSUME MgBase, Mg!ReportsTrue, Mg!Next
  PROVE  Mg!ReportsTrue'
<1>1. ASSUME UNCHANGED <<joining, link, leaving, event>> PROVE Mg!ReportsTrue'
  BY <1>1 DEF Mg!ReportsTrue
<1>2. ASSUME NEW t \in Mg!Callers, Mg!Command(t) PROVE Mg!ReportsTrue'
  <2>1. target[t] # None
    BY <1>2 DEF MgBase, MgFits, Mg!Command
  <2> QED
    BY <1>2, <2>1 DEF Mg!ReportsTrue, Mg!Command, Mg!reportVars
<1>3. ASSUME NEW t \in Mg!Callers, MgCallLeaves(t) PROVE Mg!ReportsTrue'
  BY <1>3 DEF Mg!ReportsTrue, MgCallLeaves, MgEffects, Mg!Leave
<1>4. ASSUME Mg!DriverReports PROVE Mg!ReportsTrue'
  BY <1>4 DEF Mg!ReportsTrue, Mg!DriverReports, Mg!Joins, Mg!Fails, Mg!LosesLink, Mg!Scanned
<1>5. ASSUME Mg!DispatchSends PROVE Mg!ReportsTrue'
  <2>1. event' = None /\ UNCHANGED <<joining, link, leaving>>
    BY <1>5 DEF Mg!DispatchSends, Mg!driverVars
  <2>2. event' \notin {"CONNECT", "CONNECT_FAIL", "DISCONNECT"}
    BY <2>1, MgTypesOfConstants DEF Mg!Events
  <2> QED
    BY <2>1, <2>2 DEF Mg!ReportsTrue
<1>6. ASSUME Mg!DispatchReads \/ Mg!DispatchWrites \/ Mg!SetsReady PROVE Mg!ReportsTrue'
  BY <1>1, <1>6 DEF Mg!DispatchReads, Mg!DispatchWrites, Mg!SetsReady, Mg!driverVars, Mg!reportVars
<1>7. ASSUME NEW t \in Mg!Callers,
             Mg!SaveInfo(t) \/ Mg!SetConnecting(t) \/ Mg!Refused(t) \/ Mg!ClearConnecting(t)
      PROVE  Mg!ReportsTrue'
  BY <1>1, <1>7 DEF Mg!SaveInfo, Mg!SetConnecting, Mg!Refused, Mg!ClearConnecting, Mg!driverVars, Mg!reportVars
<1>8. ASSUME NEW t \in Mg!Callers, MgCallMoves(t) PROVE Mg!ReportsTrue'
  BY <1>1, <1>8 DEF MgCallMoves, MgEffects
<1>9. ASSUME MgNothingMoves PROVE Mg!ReportsTrue'
  BY <1>1, <1>9 DEF MgNothingMoves
<1> QED
  BY <1>2, <1>3, <1>4, <1>5, <1>6, <1>7, <1>8, <1>9, MgClasses DEF MgDriverStep, MgJoinStep

\* AnswersCome, stage by stage.
MgAnswered(t) ==
  /\ mg_pc[t] = "scan" => scanning \/ event = "SCAN_DONE" \/ "SCAN_DONE" \in complete[t]
  /\ mg_pc[t] = "drop" => leaving \/ event = "DISCONNECT" \/ "DISCONNECT" \in complete[t]
  /\ mg_pc[t] = "wait" => \/ joining # None \/ event \in {"CONNECT", "CONNECT_FAIL"}
                          \/ "CONNECT" \in complete[t] \/ "CONNECT_FAIL" \in complete[t]

MgAllAnswered ==
  "memory" \notin mishaps /\ "vain" \notin mishaps => \A t \in Mg!Callers : MgAnswered(t)

LEMMA MgAnswersAre == Mg!AnswersCome <=> MgAllAnswered
<1>1. ASSUME NEW t \in Mg!Callers PROVE Mg!AnswerComes(t) <=> MgAnswered(t)
  <2>1. CASE mg_pc[t] = "scan"
    BY <2>1 DEF Mg!AnswerComes, MgAnswered
  <2>2. CASE mg_pc[t] = "drop"
    BY <2>2 DEF Mg!AnswerComes, MgAnswered
  <2>3. CASE mg_pc[t] = "wait"
    BY <2>3 DEF Mg!AnswerComes, MgAnswered
  <2>4. CASE mg_pc[t] \notin {"scan", "drop", "wait"}
    BY <2>4 DEF Mg!AnswerComes, MgAnswered
  <2> QED
    BY <2>1, <2>2, <2>3, <2>4
<1> QED
  BY <1>1 DEF Mg!AnswersCome, MgAllAnswered

LEMMA MgAnswersAreNext == (Mg!AnswersCome <=> MgAllAnswered)'
BY MgAnswersAre, PTL

LEMMA MgAnswers ==
  ASSUME MgBase, MgBase', MgAllAnswered, Mg!Next
  PROVE  MgAllAnswered'
<1>0. SUFFICES ASSUME "memory" \notin mishaps' /\ "vain" \notin mishaps' PROVE \A u \in Mg!Callers : MgAnswered(u)'
  BY DEF MgAllAnswered
<1>1. MgCallTypes /\ None \notin Mg!Events
  BY MgTypesOfConstants DEF MgBase
<1>2. ASSUME mishaps \subseteq mishaps' PROVE \A u \in Mg!Callers : MgAnswered(u)
  BY <1>0, <1>2 DEF MgAllAnswered
<1>3. ASSUME NEW t \in Mg!Callers, MgOthersStay(t), mishaps \subseteq mishaps',
             UNCHANGED <<event, leaving, joining>> \/ (UNCHANGED event /\ leaving' = leaving /\ joining' # None),
             scanning' = scanning \/ scanning' = TRUE, MgAnswered(t)'
      PROVE  \A u \in Mg!Callers : MgAnswered(u)'
  <2>1. ASSUME NEW u \in Mg!Callers \ {t} PROVE MgAnswered(u)'
    <3>1. MgAnswered(u) /\ mg_pc'[u] = mg_pc[u] /\ complete'[u] = complete[u]
      BY <1>2, <1>3, <2>1 DEF MgOthersStay
    <3> QED
      BY <1>3, <3>1 DEF MgAnswered
  <2> QED
    BY <1>3, <2>1
<1>4. ASSUME NEW t \in Mg!Callers, MgCallMoves(t) PROVE \A u \in Mg!Callers : MgAnswered(u)'
  <2>1. MgAnswered(t)'
    BY <1>0, <1>4 DEF MgCallMoves, MgAnswered
  <2> QED
    BY <1>3, <1>4, <2>1 DEF MgCallMoves, MgEffects
<1>5. ASSUME NEW t \in Mg!Callers, MgCallLeaves(t) PROVE \A u \in Mg!Callers : MgAnswered(u)'
  <2>1. /\ MgOthersStay(t) /\ mishaps \subseteq mishaps' /\ UNCHANGED <<event, scanning>>
        /\ leaving' = TRUE /\ mg_pc'[t] = "drop" /\ mg_owner' = t
    BY <1>5 DEF MgCallLeaves, MgEffects, Mg!Leave
  <2>2. ASSUME NEW u \in Mg!Callers \ {t} PROVE MgAnswered(u)'
    <3>1. MgAnswered(u) /\ mg_pc'[u] = mg_pc[u] /\ complete'[u] = complete[u]
      BY <1>2, <2>1, <2>2 DEF MgOthersStay
    <3>2. mg_pc'[u] # "wait"
      <4>1. MgDepthOf'[u] > 0 => mg_owner' = u
        BY <1>0 DEF MgBase, MgHeld
      <4>2. mg_pc'[u] = "wait" => MgDepthOf'[u] = 1
        BY MgDepthNext DEF MgBase, MgDepths
      <4> QED
        BY <2>1, <4>1, <4>2
    <3> QED
      BY <2>1, <3>1, <3>2 DEF MgAnswered
  <2>3. MgAnswered(t)'
    BY <2>1 DEF MgAnswered
  <2> QED
    BY <2>2, <2>3
<1>6. ASSUME NEW t \in Mg!Callers, Mg!Command(t) PROVE \A u \in Mg!Callers : MgAnswered(u)'
  <2>1. target[t] # None
    BY <1>6 DEF MgBase, MgFits, Mg!Command
  <2>2. /\ joining' # None /\ UNCHANGED <<event, leaving, scanning, mishaps>>
    BY <1>6, <2>1 DEF Mg!Command, Mg!reportVars
  <2>3. MgOthersStay(t) /\ mg_pc'[t] \in {"wait", "out"}
    <3>1. CASE mg_call[t] = "connect"
      BY <1>1, <1>6, <3>1, MgGoto DEF Mg!Command, Mg!Stages
    <3>2. CASE mg_call[t] # "connect"
      BY <1>1, <1>6, <3>2, MgExit DEF Mg!Command
    <3> QED
      BY <3>1, <3>2
  <2>4. MgAnswered(t)'
    BY <2>2, <2>3 DEF MgAnswered
  <2> QED
    BY <1>3, <2>2, <2>3, <2>4
<1>7. ASSUME NEW t \in Mg!Callers,
             Mg!SaveInfo(t) \/ Mg!SetConnecting(t) \/ Mg!Refused(t) \/ Mg!ClearConnecting(t)
      PROVE  \A u \in Mg!Callers : MgAnswered(u)'
  <2>1. UNCHANGED <<event, leaving, joining, scanning>> /\ mishaps \subseteq mishaps'
    BY <1>7 DEF Mg!SaveInfo, Mg!SetConnecting, Mg!Refused, Mg!ClearConnecting, Mg!driverVars, Mg!reportVars
  <2>2. MgOthersStay(t) /\ mg_pc'[t] \in {"flag", "command", "undo", "out"}
    <3>1. CASE Mg!SetConnecting(t)
      BY <1>1, <3>1, MgGoto DEF Mg!SetConnecting, Mg!Stages
    <3>2. CASE Mg!ClearConnecting(t)
      BY <1>1, <3>2, MgExit DEF Mg!ClearConnecting
    <3>3. CASE Mg!SaveInfo(t)
      BY <1>1, <3>3 DEF Mg!SaveInfo, MgCallTypes, MgOthersStay
    <3>4. CASE Mg!Refused(t)
      BY <1>1, <3>4 DEF Mg!Refused, MgCallTypes, MgOthersStay
    <3> QED
      BY <1>7, <3>1, <3>2, <3>3, <3>4
  <2>3. MgAnswered(t)'
    BY <2>2 DEF MgAnswered
  <2> QED
    BY <1>3, <2>1, <2>2, <2>3
<1>8. ASSUME Mg!DriverReports PROVE \A u \in Mg!Callers : MgAnswered(u)'
  <2>1. UNCHANGED <<mg_pc, complete, mishaps>> /\ event = None
    BY <1>8 DEF Mg!DriverReports, Mg!callVars
  <2>2. ASSUME NEW u \in Mg!Callers PROVE MgAnswered(u)'
    <3>1. MgAnswered(u) /\ event \notin Mg!Events
      BY <1>1, <1>2, <2>1
    <3> QED
      BY <1>8, <2>1, <3>1 DEF MgAnswered, Mg!DriverReports, Mg!Joins, Mg!Fails, Mg!LosesLink, Mg!Scanned, Mg!Events
  <2> QED
    BY <2>2
<1>9. ASSUME Mg!DispatchSends PROVE \A u \in Mg!Callers : MgAnswered(u)'
  <2>1. UNCHANGED <<mg_pc, mg_call, mishaps, joining, leaving, scanning>>
    BY <1>9 DEF Mg!DispatchSends, Mg!driverVars
  <2>2. ASSUME NEW u \in Mg!Callers PROVE MgAnswered(u)'
    <3>1. MgAnswered(u) /\ MgFits(u)
      BY <1>2, <2>1 DEF MgBase
    <3>2. complete'[u] = complete[u] \cup (Mg!Awaits(u) \cap {event})
      BY <1>9 DEF Mg!DispatchSends
    <3>3. /\ mg_pc[u] = "scan" => "SCAN_DONE" \in Mg!Awaits(u)
          /\ mg_pc[u] = "drop" => "DISCONNECT" \in Mg!Awaits(u)
          /\ mg_pc[u] = "wait" => "CONNECT" \in Mg!Awaits(u) /\ "CONNECT_FAIL" \in Mg!Awaits(u)
      <4>1. ASSUME mg_pc[u] = "scan" PROVE "SCAN_DONE" \in Mg!Awaits(u)
        BY <4>1 DEF Mg!Awaits
      <4>2. ASSUME mg_pc[u] = "drop" PROVE "DISCONNECT" \in Mg!Awaits(u)
        BY <4>2 DEF Mg!Awaits
      <4>3. ASSUME mg_pc[u] = "wait" PROVE Mg!Awaits(u) = {"CONNECT", "CONNECT_FAIL"}
        BY <3>1, <4>3 DEF Mg!Awaits, MgFits
      <4> QED
        BY <4>1, <4>2, <4>3
    <3> QED
      BY <2>1, <3>1, <3>2, <3>3 DEF MgAnswered
  <2> QED
    BY <2>2
<1>10. ASSUME Mg!DispatchReads \/ Mg!DispatchWrites \/ MgNothingMoves PROVE \A u \in Mg!Callers : MgAnswered(u)'
  <2>1. /\ UNCHANGED <<mg_pc, complete, event, leaving, joining, scanning>> /\ mishaps \subseteq mishaps'
    BY <1>10 DEF Mg!DispatchReads, Mg!DispatchWrites, MgNothingMoves, Mg!callVars, Mg!driverVars
  <2> QED
    BY <1>2, <2>1 DEF MgAnswered
<1>11. ASSUME Mg!SetsReady PROVE \A u \in Mg!Callers : MgAnswered(u)'
  <2>1. /\ UNCHANGED <<complete, event, leaving, joining, scanning>> /\ mishaps \subseteq mishaps'
    BY <1>11 DEF Mg!SetsReady, Mg!driverVars, Mg!reportVars
  <2>2. Worker \in Mg!Callers /\ MgOthersStay(Worker) /\ mg_pc'[Worker] = "out"
    BY <1>1, <1>11, MgTypesOfConstants DEF Mg!SetsReady, MgCallTypes, MgOthersStay
  <2>3. MgAnswered(Worker)'
    BY <2>2 DEF MgAnswered
  <2> QED
    BY <1>3, <2>1, <2>2, <2>3
<1> QED
  BY <1>4, <1>5, <1>6, <1>7, <1>8, <1>9, <1>10, <1>11, MgClasses DEF MgDriverStep, MgJoinStep

LEMMA MgJoinMoves ==
  ASSUME MgBase, NEW t \in Mg!Callers, MgJoinStep(t)
  PROVE  /\ MgOthersStay(t) /\ mishaps \subseteq mishaps'
         /\ Mg!SaveInfo(t) => mg_pc'[t] = "flag" /\ target'[t] = target[t]
         /\ Mg!SetConnecting(t) => mg_pc'[t] = "command" /\ target'[t] = target[t]
         /\ Mg!Command(t) => mg_pc'[t] \in {"wait", "out"}
         /\ Mg!Refused(t) => mg_pc'[t] = "undo"
         /\ Mg!ClearConnecting(t) => mg_pc'[t] = "out"
<1>1. MgCallTypes /\ "command" \in Mg!Stages /\ "wait" \in Mg!Stages
  BY DEF MgBase, Mg!Stages
<1>2. ASSUME Mg!SaveInfo(t)
      PROVE MgOthersStay(t) /\ mishaps \subseteq mishaps' /\ mg_pc'[t] = "flag" /\ target'[t] = target[t]
            /\ mg_pc[t] = "save"
  BY <1>1, <1>2 DEF Mg!SaveInfo, MgCallTypes, MgOthersStay
<1>3. ASSUME Mg!SetConnecting(t)
      PROVE MgOthersStay(t) /\ mishaps \subseteq mishaps' /\ mg_pc'[t] = "command" /\ target'[t] = target[t]
            /\ mg_pc[t] = "flag"
  BY <1>1, <1>3, MgGoto DEF Mg!SetConnecting
<1>4. ASSUME Mg!Command(t)
      PROVE MgOthersStay(t) /\ mishaps \subseteq mishaps' /\ mg_pc'[t] \in {"wait", "out"} /\ mg_pc[t] = "command"
  <2>1. CASE mg_call[t] = "connect"
    BY <1>1, <1>4, <2>1, MgGoto DEF Mg!Command
  <2>2. CASE mg_call[t] # "connect"
    BY <1>1, <1>4, <2>2, MgExit DEF Mg!Command
  <2> QED
    BY <2>1, <2>2
<1>5. ASSUME Mg!Refused(t)
      PROVE MgOthersStay(t) /\ mishaps \subseteq mishaps' /\ mg_pc'[t] = "undo" /\ mg_pc[t] = "command"
  BY <1>1, <1>5 DEF Mg!Refused, MgCallTypes, MgOthersStay
<1>6. ASSUME Mg!ClearConnecting(t)
      PROVE MgOthersStay(t) /\ mishaps \subseteq mishaps' /\ mg_pc'[t] = "out" /\ mg_pc[t] = "undo"
  BY <1>1, <1>6, MgExit DEF Mg!ClearConnecting
<1> QED
  BY <1>2, <1>3, <1>4, <1>5, <1>6 DEF MgJoinStep

\* The three parts of StateFollows.
MgStateOfLink ==
  joining = None /\ ~leaving /\ ~Mg!Unwritten({"CONNECT", "CONNECT_FAIL", "DISCONNECT"}) =>
    /\ "CONNECT" \in mg_state <=> link # None
    /\ mg_timer <=> link = None

MgStateConnecting ==
  "CONNECTING" \in mg_state =>
    \/ "aborted" \in mishaps
    \/ joining # None \/ Mg!Unwritten({"CONNECT", "CONNECT_FAIL"})
    \/ \E t \in Mg!Callers : mg_pc[t] \in {"command", "undo"}

MgStateReady == "READY" \in mg_state => "CONNECT" \in mg_state \/ "ready" \in mishaps

LEMMA MgStateIs ==
  Mg!StateFollows <=> ("update" \notin mishaps => MgStateOfLink /\ MgStateConnecting /\ MgStateReady)
BY DEF Mg!StateFollows, MgStateOfLink, MgStateConnecting, MgStateReady

LEMMA MgStateIsNext ==
  (Mg!StateFollows <=> ("update" \notin mishaps => MgStateOfLink /\ MgStateConnecting /\ MgStateReady))'
BY MgStateIs, PTL

LEMMA MgState ==
  ASSUME MgBase, Mg!ReportsTrue, Mg!StateFollows, Mg!Next
  PROVE  Mg!StateFollows'
<1>0. SUFFICES ASSUME "update" \notin mishaps' PROVE MgStateOfLink' /\ MgStateConnecting' /\ MgStateReady'
  BY MgStateIsNext
<1>1. None \notin Mg!Events /\ MgReportFits /\ MgRestTypes
  BY MgTypesOfConstants DEF MgBase
<1>2. ASSUME mishaps \subseteq mishaps' PROVE MgStateOfLink /\ MgStateConnecting /\ MgStateReady
  BY <1>0, <1>2, MgStateIs
<1>3. ASSUME UNCHANGED <<mg_state, mg_timer, joining, link, leaving, event, report>>,
             mishaps \subseteq mishaps',
             \A u \in Mg!Callers :
               mg_pc[u] \in {"command", "undo"} => mg_pc'[u] \in {"command", "undo"}
      PROVE  MgStateOfLink' /\ MgStateConnecting' /\ MgStateReady'
  BY <1>2, <1>3 DEF MgStateOfLink, MgStateConnecting, MgStateReady, Mg!Unwritten
<1>4. ASSUME MgNothingMoves PROVE MgStateOfLink' /\ MgStateConnecting' /\ MgStateReady'
  BY <1>3, <1>4 DEF MgNothingMoves
<1>5. ASSUME NEW t \in Mg!Callers, MgCallMoves(t) PROVE MgStateOfLink' /\ MgStateConnecting' /\ MgStateReady'
  <2>1. \A u \in Mg!Callers : mg_pc[u] \in {"command", "undo"} => mg_pc'[u] \in {"command", "undo"}
    BY <1>5 DEF MgCallMoves, MgEffects, MgOthersStay
  <2> QED
    BY <1>3, <1>5, <2>1 DEF MgCallMoves, MgEffects
<1>6. ASSUME NEW t \in Mg!Callers, MgCallLeaves(t) PROVE MgStateOfLink' /\ MgStateConnecting' /\ MgStateReady'
  <2>1. \A u \in Mg!Callers : mg_pc[u] \in {"command", "undo"} => mg_pc'[u] \in {"command", "undo"}
    BY <1>6 DEF MgCallLeaves, MgEffects, MgOthersStay
  <2>2. /\ UNCHANGED <<mg_state, event, report>> /\ mishaps \subseteq mishaps' /\ leaving' = TRUE
        /\ joining # None => "aborted" \in mishaps'
    BY <1>6 DEF MgCallLeaves, MgEffects, Mg!Leave, Mg!Unless
  <2> QED
    BY <1>2, <2>1, <2>2 DEF MgStateOfLink, MgStateConnecting, MgStateReady, Mg!Unwritten
<1>7. ASSUME NEW t \in Mg!Callers, Mg!SaveInfo(t) \/ Mg!Refused(t)
      PROVE  MgStateOfLink' /\ MgStateConnecting' /\ MgStateReady'
  <2>1. UNCHANGED <<mg_state, mg_timer, joining, link, leaving, event, report>> /\ mishaps \subseteq mishaps'
    BY <1>7 DEF Mg!SaveInfo, Mg!Refused, Mg!timerVars, Mg!driverVars, Mg!reportVars
  <2>2. \A u \in Mg!Callers : mg_pc[u] \in {"command", "undo"} => mg_pc'[u] \in {"command", "undo"}
    <3>1. mg_pc'[t] \in {"command", "undo"} \/ mg_pc[t] = "save"
      BY <1>7, MgJoinMoves DEF MgJoinStep, Mg!SaveInfo
    <3> QED
      BY <1>7, <3>1, MgJoinMoves DEF MgJoinStep, MgOthersStay
  <2> QED
    BY <1>3, <2>1, <2>2
<1>8. ASSUME NEW t \in Mg!Callers, Mg!SetConnecting(t)
      PROVE  MgStateOfLink' /\ MgStateConnecting' /\ MgStateReady'
  <2>1. /\ mg_state' = mg_state \cup {"CONNECTING"} /\ mishaps \subseteq mishaps'
        /\ UNCHANGED <<mg_timer, joining, link, leaving, event, report>>
    BY <1>0, <1>8 DEF Mg!SetConnecting, Mg!Unless, Mg!Goto, Mg!timerVars, Mg!driverVars, Mg!reportVars
  <2>2. mg_pc'[t] = "command"
    BY <1>8, MgJoinMoves DEF MgJoinStep
  <2> QED
    BY <1>2, <2>1, <2>2 DEF MgStateOfLink, MgStateConnecting, MgStateReady, Mg!Unwritten
<1>9. ASSUME NEW t \in Mg!Callers, Mg!Command(t)
      PROVE  MgStateOfLink' /\ MgStateConnecting' /\ MgStateReady'
  <2>1. target[t] # None
    BY <1>9 DEF MgBase, MgFits, Mg!Command
  <2>2. UNCHANGED <<mg_state, mishaps>> /\ joining' # None
    BY <1>9, <2>1 DEF Mg!Command, Mg!stationVars
  <2> QED
    BY <1>2, <2>2 DEF MgStateOfLink, MgStateConnecting, MgStateReady
<1>10. ASSUME NEW t \in Mg!Callers, Mg!ClearConnecting(t)
       PROVE  MgStateOfLink' /\ MgStateConnecting' /\ MgStateReady'
  <2>1. /\ mg_state' = mg_state \ {"CONNECTING"} /\ mishaps \subseteq mishaps'
        /\ UNCHANGED <<mg_timer, joining, link, leaving, event, report>>
    BY <1>0, <1>10 DEF Mg!ClearConnecting, Mg!Unless, Mg!Exit, Mg!driverVars, Mg!reportVars
  <2> QED
    BY <1>2, <2>1 DEF MgStateOfLink, MgStateConnecting, MgStateReady, Mg!Unwritten
<1>11. ASSUME Mg!DriverReports PROVE MgStateOfLink' /\ MgStateConnecting' /\ MgStateReady'
  <2>1. /\ UNCHANGED <<mg_pc, mg_state, mg_timer, report, mishaps>> /\ event = None
    BY <1>11 DEF Mg!DriverReports, Mg!callVars, Mg!stationVars, Mg!timerVars
  <2>2. report = "begun" /\ event \notin {"CONNECT", "CONNECT_FAIL", "DISCONNECT"}
    BY <1>1, <2>1 DEF MgReportFits, Mg!Events
  <2>3. MgStateReady'
    BY <1>2, <2>1 DEF MgStateReady
  <2>4. CASE Mg!Joins \/ Mg!Fails
    <3>1. event' \in {"CONNECT", "CONNECT_FAIL"} /\ report' # "written"
      BY <2>1, <2>2, <2>4 DEF Mg!Joins, Mg!Fails
    <3> QED
      BY <2>3, <3>1 DEF MgStateOfLink, MgStateConnecting, Mg!Unwritten
  <2>5. CASE Mg!LosesLink
    <3>1. event' = "DISCONNECT" /\ report' # "written" /\ joining' = joining
      BY <2>1, <2>2, <2>5 DEF Mg!LosesLink
    <3> QED
      BY <1>2, <2>1, <2>2, <2>3, <3>1 DEF MgStateOfLink, MgStateConnecting, Mg!Unwritten
  <2>6. CASE Mg!Scanned
    <3>1. event' = "SCAN_DONE" /\ UNCHANGED <<joining, link, leaving>>
      BY <2>6 DEF Mg!Scanned
    <3> QED
      BY <1>2, <2>1, <2>2, <2>3, <3>1 DEF MgStateOfLink, MgStateConnecting, Mg!Unwritten
  <2> QED
    BY <1>11, <2>4, <2>5, <2>6 DEF Mg!DriverReports
<1>12. ASSUME Mg!DispatchReads PROVE MgStateOfLink' /\ MgStateConnecting' /\ MgStateReady'
  <2>1. /\ UNCHANGED <<mg_pc, mg_state, mg_timer, joining, link, leaving, event, mishaps>>
        /\ report = "begun" /\ report' = "read"
    BY <1>12 DEF Mg!DispatchReads, Mg!callVars, Mg!stationVars, Mg!timerVars, Mg!driverVars
  <2> QED
    BY <1>2, <2>1 DEF MgStateOfLink, MgStateConnecting, MgStateReady, Mg!Unwritten
<1>13. ASSUME Mg!DispatchWrites PROVE MgStateOfLink' /\ MgStateConnecting' /\ MgStateReady'
  <2>1. /\ UNCHANGED <<mg_pc, joining, link, leaving, event>> /\ mishaps \subseteq mishaps'
        /\ report = "read" /\ report' = "written" /\ old = mg_state
        /\ mg_state' = Mg!NewState /\ mg_timer' = (event # "CONNECT")
    BY <1>0, <1>13 DEF Mg!DispatchWrites, Mg!callVars, Mg!driverVars, Mg!Unless
  <2>2. event \in {"CONNECT", "CONNECT_FAIL", "DISCONNECT"}
    BY <1>1, <2>1 DEF MgReportFits, MgRestTypes, Mg!Events
  <2>3. CASE event = "CONNECT"
    <3>1. mg_state' = (mg_state \ {"CONNECTING"}) \cup {"CONNECT"} /\ mg_timer' = FALSE
      BY <2>1, <2>3 DEF Mg!NewState
    <3>2. joining = None /\ ~leaving => link # None
      BY <2>3 DEF Mg!ReportsTrue
    <3> QED
      BY <2>1, <3>1, <3>2 DEF MgStateOfLink, MgStateConnecting, MgStateReady
  <2>4. CASE event = "CONNECT_FAIL"
    <3>1. mg_state' = {} /\ mg_timer' = TRUE /\ link' = None
      BY <2>1, <2>4 DEF Mg!NewState, Mg!ReportsTrue
    <3> QED
      BY <3>1 DEF MgStateOfLink, MgStateConnecting, MgStateReady
  <2>5. CASE event = "DISCONNECT"
    <3>1. mg_state' = mg_state \ {"CONNECT", "READY"} /\ mg_timer' = TRUE /\ link' = None
      BY <2>1, <2>5 DEF Mg!NewState, Mg!ReportsTrue
    <3> QED
      BY <1>2, <2>1, <2>5, <3>1 DEF MgStateOfLink, MgStateConnecting, MgStateReady, Mg!Unwritten
  <2> QED
    BY <2>2, <2>3, <2>4, <2>5
<1>14. ASSUME Mg!DispatchSends PROVE MgStateOfLink' /\ MgStateConnecting' /\ MgStateReady'
  <2>1. /\ UNCHANGED <<mg_pc, mg_state, mg_timer, joining, link, leaving, mishaps>>
        /\ event' = None /\ (event = "SCAN_DONE" \/ report = "written")
    BY <1>14 DEF Mg!DispatchSends, Mg!stationVars, Mg!timerVars, Mg!driverVars
  <2>2. event' \notin {"CONNECT", "CONNECT_FAIL", "DISCONNECT"}
    BY <1>1, <2>1 DEF Mg!Events
  <2> QED
    BY <1>2, <2>1, <2>2 DEF MgStateOfLink, MgStateConnecting, MgStateReady, Mg!Unwritten
<1>15. ASSUME Mg!SetsReady PROVE MgStateOfLink' /\ MgStateConnecting' /\ MgStateReady'
  <2>1. /\ UNCHANGED <<mg_timer, joining, link, leaving, event, report>> /\ mishaps \subseteq mishaps'
        /\ mg_state' = mg_state \cup {"READY"}
        /\ "CONNECT" \in mg_state \/ "ready" \in mishaps'
    BY <1>15 DEF Mg!SetsReady, Mg!timerVars, Mg!driverVars, Mg!reportVars, Mg!Unless
  <2>2. \A u \in Mg!Callers : mg_pc[u] \in {"command", "undo"} => mg_pc'[u] = mg_pc[u]
    BY <1>15 DEF Mg!SetsReady, MgBase, MgCallTypes
  <2>3. MgStateOfLink' /\ MgStateReady'
    BY <1>2, <2>1 DEF MgStateOfLink, MgStateReady, Mg!Unwritten
  <2>4. MgStateConnecting'
    BY <1>2, <2>1, <2>2 DEF MgStateConnecting, Mg!Unwritten
  <2> QED
    BY <2>3, <2>4
<1> QED
  BY <1>4, <1>5, <1>6, <1>7, <1>8, <1>9, <1>10, <1>11, <1>12, <1>13, <1>14, <1>15, MgClasses
  DEF MgDriverStep, MgJoinStep

LEMMA MgSaved ==
  ASSUME MgBase, Mg!InfoSaved, Mg!Next
  PROVE  Mg!InfoSaved'
<1>0. SUFFICES ASSUME "late" \notin mishaps'
               PROVE  /\ joining' # None => info' = joining'
                      /\ link' # None => info' = link'
                      /\ \A u \in Mg!Callers : mg_pc'[u] \in {"flag", "command", "undo"}
                                               => joining' = None /\ link' = None
                      /\ \A u \in Mg!Callers : mg_pc'[u] \in {"flag", "command"} => info' = target'[u]
  BY DEF Mg!InfoSaved
<1> DEFINE Saved == /\ joining # None => info = joining
                    /\ link # None => info = link
                    /\ \A u \in Mg!Callers : mg_pc[u] \in {"flag", "command", "undo"}
                                             => joining = None /\ link = None
                    /\ \A u \in Mg!Callers : mg_pc[u] \in {"flag", "command"} => info = target[u]
<1>1. SUFFICES Saved'
  BY <1>0
<1>2. ASSUME mishaps \subseteq mishaps' PROVE Saved
  BY <1>0, <1>2 DEF Mg!InfoSaved
\* No other call is between SaveInfo and its end.
<1>3. ASSUME NEW t \in Mg!Callers, mg_pc[t] \in {"save", "flag", "command", "undo"}, MgOthersStay(t)
      PROVE  \A u \in Mg!Callers \ {t} : mg_pc'[u] \notin {"flag", "command", "undo"}
  BY <1>3 DEF MgBase, MgHeld, MgOthersStay
<1>4. ASSUME UNCHANGED <<joining, link, info, target, mg_pc>>, mishaps \subseteq mishaps' PROVE Saved'
  BY <1>2, <1>4
<1>5. ASSUME MgNothingMoves PROVE Saved'
  BY <1>4, <1>5 DEF MgNothingMoves
<1>6. ASSUME NEW t \in Mg!Callers, MgCallMoves(t) \/ MgCallLeaves(t) PROVE Saved'
  <2>1. /\ mg_pc'[t] \notin {"flag", "command", "undo"} /\ MgOthersStay(t)
        /\ info' = info /\ link' = link /\ joining' \in {joining, None} /\ mishaps \subseteq mishaps'
    BY <1>6 DEF MgCallMoves, MgCallLeaves, MgEffects, Mg!Leave
  <2>2. \A u \in Mg!Callers : mg_pc'[u] \in {"flag", "command", "undo"}
                              => mg_pc'[u] = mg_pc[u] /\ target'[u] = target[u]
    BY <2>1 DEF MgOthersStay
  <2> QED
    BY <1>2, <2>1, <2>2
<1>7. ASSUME NEW t \in Mg!Callers, Mg!SaveInfo(t) PROVE Saved'
  <2>1. /\ mg_pc[t] = "save" /\ info' = target[t] /\ joining' = None /\ link' = None
    BY <1>0, <1>7 DEF Mg!SaveInfo, Mg!Unless, Mg!driverVars
  <2>2. MgOthersStay(t) /\ target'[t] = target[t]
    BY <1>7, MgJoinMoves DEF MgJoinStep
  <2>3. \A u \in Mg!Callers \ {t} : mg_pc'[u] \notin {"flag", "command", "undo"}
    BY <1>3, <2>1, <2>2
  <2> QED
    BY <2>1, <2>2, <2>3
<1>8. ASSUME NEW t \in Mg!Callers, Mg!SetConnecting(t) PROVE Saved'
  <2>1. mg_pc[t] = "flag" /\ UNCHANGED <<info, joining, link>>
    BY <1>8 DEF Mg!SetConnecting, Mg!driverVars
  <2>2. MgOthersStay(t) /\ target'[t] = target[t] /\ mishaps \subseteq mishaps'
    BY <1>8, MgJoinMoves DEF MgJoinStep
  <2>3. \A u \in Mg!Callers \ {t} : mg_pc'[u] \notin {"flag", "command", "undo"}
    BY <1>3, <2>1, <2>2
  <2> QED
    BY <1>2, <2>1, <2>2, <2>3
<1>9. ASSUME NEW t \in Mg!Callers, Mg!Command(t) PROVE Saved'
  <2>1. /\ mg_pc[t] = "command" /\ joining' = target[t] /\ link' = None /\ info' = info
    BY <1>9 DEF Mg!Command, Mg!stationVars
  <2>2. MgOthersStay(t) /\ mg_pc'[t] \in {"wait", "out"} /\ mishaps \subseteq mishaps'
    BY <1>9, MgJoinMoves DEF MgJoinStep
  <2>3. \A u \in Mg!Callers : mg_pc'[u] \notin {"flag", "command", "undo"}
    BY <1>3, <2>1, <2>2
  <2> QED
    BY <1>2, <2>1, <2>2, <2>3
<1>10. ASSUME NEW t \in Mg!Callers, Mg!Refused(t) PROVE Saved'
  <2>1. mg_pc[t] = "command" /\ info' = None /\ UNCHANGED <<joining, link>>
    BY <1>10 DEF Mg!Refused, Mg!driverVars
  <2>2. MgOthersStay(t) /\ mg_pc'[t] = "undo" /\ mishaps \subseteq mishaps'
    BY <1>10, MgJoinMoves DEF MgJoinStep
  <2>3. \A u \in Mg!Callers \ {t} : mg_pc'[u] \notin {"flag", "command", "undo"}
    BY <1>3, <2>1, <2>2
  <2> QED
    BY <1>2, <2>1, <2>2, <2>3
<1>11. ASSUME NEW t \in Mg!Callers, Mg!ClearConnecting(t) PROVE Saved'
  <2>1. mg_pc[t] = "undo" /\ UNCHANGED <<info, joining, link>>
    BY <1>11 DEF Mg!ClearConnecting, Mg!driverVars
  <2>2. MgOthersStay(t) /\ mg_pc'[t] = "out" /\ mishaps \subseteq mishaps'
    BY <1>11, MgJoinMoves DEF MgJoinStep
  <2>3. \A u \in Mg!Callers : mg_pc'[u] \notin {"flag", "command", "undo"}
    BY <1>3, <2>1, <2>2
  <2> QED
    BY <1>2, <2>1, <2>2, <2>3
<1>12. ASSUME Mg!DriverReports PROVE Saved'
  <2>1. UNCHANGED <<mg_pc, target, info, mishaps>>
    BY <1>12 DEF Mg!DriverReports, Mg!callVars, Mg!stationVars
  <2>2. CASE Mg!Joins
    BY <1>2, <2>1, <2>2 DEF Mg!Joins
  <2>3. CASE Mg!Fails \/ Mg!LosesLink \/ Mg!Scanned
    BY <1>2, <2>1, <2>3 DEF Mg!Fails, Mg!LosesLink, Mg!Scanned
  <2> QED
    BY <1>12, <2>2, <2>3 DEF Mg!DriverReports
<1>13. ASSUME Mg!DispatchReads \/ Mg!DispatchWrites \/ Mg!DispatchSends PROVE Saved'
  <2>1. UNCHANGED <<mg_pc, target, info, joining, link>> /\ mishaps \subseteq mishaps'
    BY <1>13 DEF Mg!DispatchReads, Mg!DispatchWrites, Mg!DispatchSends, Mg!callVars, Mg!stationVars, Mg!driverVars
  <2> QED
    BY <1>4, <2>1
<1>14. ASSUME Mg!SetsReady PROVE Saved'
  <2>1. UNCHANGED <<target, info, joining, link>> /\ mishaps \subseteq mishaps'
    BY <1>14 DEF Mg!SetsReady, Mg!driverVars
  <2>2. \A u \in Mg!Callers : mg_pc'[u] \in {"flag", "command", "undo"} => mg_pc'[u] = mg_pc[u]
    BY <1>14 DEF Mg!SetsReady, MgBase, MgCallTypes
  <2> QED
    BY <1>2, <2>1, <2>2
<1> QED
  BY <1>5, <1>6, <1>7, <1>8, <1>9, <1>10, <1>11, <1>12, <1>13, <1>14, MgClasses DEF MgDriverStep, MgJoinStep

-----------------------------------------------------------------------------
LEMMA MgInvIs ==
  Mg!Inv <=> MgBase /\ Mg!ReportsTrue /\ MgAllAnswered /\ Mg!StateFollows /\ Mg!InfoSaved
BY MgBaseIs, MgAnswersAre DEF Mg!Inv

LEMMA MgInvIsNext ==
  (Mg!Inv <=> MgBase /\ Mg!ReportsTrue /\ MgAllAnswered /\ Mg!StateFollows /\ Mg!InfoSaved)'
BY MgInvIs, PTL

LEMMA MgInit == Mg!Init => Mg!Inv
<1> SUFFICES ASSUME Mg!Init PROVE Mg!Inv
  OBVIOUS
<1>1. /\ mg_owner = None /\ hold = 0
      /\ mg_state = {} /\ auto = FALSE /\ info = None
      /\ mg_call = [t \in Mg!Callers |-> "none"] /\ mg_pc = [t \in Mg!Callers |-> "out"]
      /\ target = [t \in Mg!Callers |-> None] /\ seen = [t \in Mg!Callers |-> {}]
      /\ complete = [t \in Mg!Callers |-> {}]
      /\ mg_timer = TRUE /\ work = FALSE
      /\ joining = None /\ link = None /\ leaving = FALSE /\ scanning = FALSE
      /\ event = None /\ report = "begun" /\ old = {} /\ mishaps = {}
  BY DEF Mg!Init
<1>2. MgCallTypes /\ MgRestTypes /\ MgReportFits
  BY <1>1 DEF MgCallTypes, MgRestTypes, MgReportFits, Mg!Calls, Mg!Stages
<1>3. MgHeld
  BY <1>1, <1>2, MgDepth DEF MgHeld, MgDepths
<1>4. \A t \in Mg!Callers : MgFits(t) /\ MgAnswered(t)
  BY <1>1 DEF MgFits, MgAnswered
<1>5. event \notin {"CONNECT", "CONNECT_FAIL", "DISCONNECT"}
  BY <1>1, MgTypesOfConstants DEF Mg!Events
<1>6. Mg!ReportsTrue /\ Mg!InfoSaved
  BY <1>1, <1>5 DEF Mg!ReportsTrue, Mg!InfoSaved
<1>7. Mg!StateFollows
  BY <1>1, <1>5, MgStateIs DEF MgStateOfLink, MgStateConnecting, MgStateReady
<1> QED
  BY <1>1, <1>2, <1>3, <1>4, <1>6, <1>7, MgInvIs DEF MgBase, MgAllAnswered

LEMMA MgNext ==
  ASSUME Mg!Inv, Mg!Next \/ UNCHANGED mgVars
  PROVE  Mg!Inv'
<1>1. CASE Mg!Next
  <2>1. MgBase /\ Mg!ReportsTrue /\ MgAllAnswered /\ Mg!StateFollows /\ Mg!InfoSaved
    BY MgInvIs
  <2>2. MgBase'
    BY <1>1, <2>1, MgBaseNext
  <2>3. Mg!ReportsTrue'
    BY <1>1, <2>1, MgReports
  <2>4. MgAllAnswered'
    BY <1>1, <2>1, <2>2, MgAnswers
  <2>5. Mg!StateFollows'
    BY <1>1, <2>1, MgState
  <2>6. Mg!InfoSaved'
    BY <1>1, <2>1, MgSaved
  <2> QED
    BY <2>2, <2>3, <2>4, <2>5, <2>6, MgInvIsNext
<1>2. CASE UNCHANGED mgVars
  BY <1>2 DEF mgVars, Mg!Inv, Mg!TypeOK, Mg!MutexHeld, Mg!Depth, Mg!StagesFit, Mg!ReportsTrue,
     Mg!AnswersCome, Mg!AnswerComes, Mg!StateFollows, Mg!Unwritten, Mg!InfoSaved
<1> QED
  BY <1>1, <1>2

\* What the invariant is for.
LEMMA MgKeeps ==
  ASSUME Mg!Inv
  PROVE  Mg!CallsKeepMutex /\ Mg!StationStateTrue
<1>0. /\ MgBase /\ MgHeld /\ MgDepths /\ Mg!AnswersCome
      /\ MgDepthOf = [t \in Mg!Callers |-> Mg!Depth(t)]
  BY MgInvIs, MgDepth DEF MgBase, Mg!Inv, MgDepthOf
<1>1. ASSUME mg_owner # None PROVE mg_pc[mg_owner] \notin {"out", "lock", "ready"}
  <2>1. mg_owner \in Mg!Callers /\ hold \in 0..3 /\ hold # 0 /\ hold <= MgDepthOf[mg_owner]
    BY <1>0, <1>1 DEF MgBase, MgHeld
  <2> QED
    BY <1>0, <2>1 DEF MgDepths
<1>2. ASSUME "memory" \notin mishaps, NEW t \in Mg!Callers
      PROVE  hold * Mg!Cardinality({mg_owner} \cap {t}) = Mg!Depth(t)
  <2>1. /\ MgDepthOf[t] \in 0..3 /\ Mg!Depth(t) = MgDepthOf[t] /\ hold \in 0..3
        /\ MgDepthOf[t] > 0 => mg_owner = t /\ hold = MgDepthOf[t]
        /\ mg_owner = t => hold <= MgDepthOf[t] /\ hold # 0
    BY <1>0, <1>2, MgTypesOfConstants DEF MgBase, MgHeld, MgDepths
  <2>2. CASE mg_owner = t
    <3>1. Mg!Cardinality({mg_owner} \cap {t}) = 1
      <4>1. {mg_owner} \cap {t} = {t}
        BY <2>2
      <4> QED
        BY <4>1, MgCount, FS_Singleton
    <3> QED
      BY <2>1, <2>2, <3>1
  <2>3. CASE mg_owner # t
    <3>1. Mg!Cardinality({mg_owner} \cap {t}) = 0
      <4>1. {mg_owner} \cap {t} = {}
        BY <2>3
      <4> QED
        BY <4>1, MgCount, FS_EmptySet
    <3> QED
      BY <2>1, <2>3, <3>1
  <2> QED
    BY <2>2, <2>3
<1>3. Mg!CallsKeepMutex
  BY <1>0, <1>1, <1>2 DEF Mg!CallsKeepMutex, Mg!AnswersCome
<1>4. Mg!StationStateTrue
  <2>1. SUFFICES ASSUME Mg!Settled, "update" \notin mishaps
                 PROVE  /\ "CONNECT" \in mg_state <=> link # None
                        /\ mg_timer <=> link = None
                        /\ "CONNECTING" \in mg_state => "aborted" \in mishaps
                        /\ "READY" \in mg_state => "CONNECT" \in mg_state \/ "ready" \in mishaps
                        /\ link # None => info = link \/ "late" \in mishaps
    BY DEF Mg!StationStateTrue
  <2>2. /\ joining = None /\ ~leaving /\ event = None
        /\ \A t \in Mg!Callers : mg_pc[t] \notin {"flag", "command", "undo", "ready"}
    BY <2>1 DEF Mg!Settled
  <2>3. event \notin {"CONNECT", "CONNECT_FAIL", "DISCONNECT"}
    BY <2>2, MgTypesOfConstants DEF Mg!Events
  <2>4. MgStateOfLink /\ MgStateConnecting /\ MgStateReady
    BY <2>1, MgStateIs DEF Mg!Inv
  <2>5. link # None => info = link \/ "late" \in mishaps
    BY DEF Mg!Inv, Mg!InfoSaved
  <2> QED
    BY <2>2, <2>3, <2>4, <2>5 DEF MgStateOfLink, MgStateConnecting, MgStateReady, Mg!Unwritten
<1> QED
  BY <1>3, <1>4

-----------------------------------------------------------------------------
(* Serial devices.  First the transmission.                                *)

\* The invariant, with what heads the queue.
TxParts ==
  /\ data_queue \in Seq(Threads) /\ Len(data_queue) <= QueueSize
  /\ activated \in BOOLEAN /\ dma \in Threads \cup {None}
  /\ tx_pc \in [Threads -> {"out", "pushed", "start"}] /\ overtaken \in BOOLEAN
  /\ data_queue # << >> => activated \/ \E t \in Threads : tx_pc[t] = "pushed"
  /\ activated => dma # None \/ \E t \in Threads : tx_pc[t] = "start"
  /\ \A t, u \in Threads : tx_pc[t] = "start" /\ tx_pc[u] = "start" => t = u
  /\ dma # None /\ ~overtaken => data_queue # << >> /\ Head(data_queue) = dma
  /\ dma # None => activated
  /\ \A t \in Threads : tx_pc[t] = "start" => activated /\ dma = None

LEMMA TxInvParts == Tx!Inv <=> TxParts
BY DEF Tx!Inv, Tx!TypeOK, Tx!Stages, Tx!TransmitsHead, Tx!DmaClaimed, Tx!Heads, TxParts

LEMMA TxInvPartsNext == (Tx!Inv <=> TxParts)'
BY TxInvParts, PTL

LEMMA TxInit == Tx!Init => Tx!Inv
<1> SUFFICES ASSUME Tx!Init PROVE TxParts
  BY TxInvParts
<1>1. << >> \in Seq(Threads) /\ Len(<< >>) = 0 /\ QueueSize \in Nat \ {0}
  BY DeviceAssumption DEF Tx!SerialTransmitAssumption
<1>2. tx_pc = [t \in Threads |-> "out"]
  BY DEF Tx!Init
<1>3. tx_pc \in [Threads -> {"out", "pushed", "start"}] /\ \A t \in Threads : tx_pc[t] = "out"
  BY <1>2
<1>4. data_queue = << >> /\ activated = FALSE /\ dma = None /\ overtaken = FALSE
  BY DEF Tx!Init
<1>5. data_queue \in Seq(Threads) /\ Len(data_queue) <= QueueSize
  BY <1>1, <1>4
<1> QED
  BY <1>3, <1>4, <1>5 DEF TxParts

LEMMA TxNext ==
  ASSUME Tx!Inv, Tx!Next
  PROVE  Tx!Inv'
<1>0. /\ data_queue \in Seq(Threads) /\ Len(data_queue) <= QueueSize /\ QueueSize \in Nat
      /\ activated \in BOOLEAN /\ dma \in Threads \cup {None} /\ None \notin Threads
      /\ tx_pc \in [Threads -> {"out", "pushed", "start"}] /\ overtaken \in BOOLEAN
  BY TxInvParts, DeviceAssumption DEF TxParts, Tx!SerialTransmitAssumption
<1>1. /\ data_queue # << >> => activated \/ \E t \in Threads : tx_pc[t] = "pushed"
      /\ activated => dma # None \/ \E t \in Threads : tx_pc[t] = "start"
      /\ \A t, u \in Threads : tx_pc[t] = "start" /\ tx_pc[u] = "start" => t = u
      /\ dma # None /\ ~overtaken => data_queue # << >> /\ Head(data_queue) = dma
  BY TxInvParts DEF TxParts
<1>2. /\ dma # None => activated
      /\ \A t \in Threads : tx_pc[t] = "start" => activated /\ dma = None
  BY TxInvParts DEF TxParts
<1>3. SUFFICES TxParts'
  BY TxInvPartsNext
<1>4. ASSUME NEW t \in Threads, Tx!Push(t)
      PROVE  TxParts'
  <2>1. /\ tx_pc[t] = "out" /\ Len(data_queue) < QueueSize
        /\ data_queue' = Append(data_queue, t) /\ tx_pc' = [tx_pc EXCEPT ![t] = "pushed"]
        /\ activated' = activated /\ dma' = dma /\ overtaken' = overtaken
    BY <1>4 DEF Tx!Push
  <2>2. /\ data_queue' \in Seq(Threads) /\ Len(data_queue') = Len(data_queue) + 1
        /\ data_queue # << >> => Head(data_queue') = Head(data_queue)
        /\ data_queue' # << >>
    BY <1>0, <2>1
  <2>3. tx_pc'[t] = "pushed" /\ \A u \in Threads : u # t => tx_pc'[u] = tx_pc[u]
    BY <1>0, <2>1
  <2>4. Len(data_queue) \in Nat
    BY <1>0
  <2>5. Len(data_queue') <= QueueSize
    BY <1>0, <2>1, <2>2, <2>4
  <2>6. tx_pc' \in [Threads -> {"out", "pushed", "start"}]
    BY <1>0, <2>1
  <2> QED
    BY <1>0, <1>1, <1>2, <2>1, <2>2, <2>3, <2>5, <2>6 DEF TxParts
<1>5. ASSUME NEW t \in Threads, Tx!Look(t)
      PROVE  TxParts'
  <2>1. /\ tx_pc[t] = "pushed" /\ activated' = TRUE
        /\ tx_pc' = [tx_pc EXCEPT ![t] = IF activated THEN "out" ELSE "start"]
        /\ data_queue' = data_queue /\ dma' = dma /\ overtaken' = overtaken
    BY <1>5 DEF Tx!Look
  <2>2. tx_pc'[t] = (IF activated THEN "out" ELSE "start") /\ \A u \in Threads : u # t => tx_pc'[u] = tx_pc[u]
    BY <1>0, <2>1
  <2>3. tx_pc' \in [Threads -> {"out", "pushed", "start"}]
    BY <1>0, <2>1
  <2> QED
    BY <1>0, <1>1, <1>2, <2>1, <2>2, <2>3 DEF TxParts
<1>6. ASSUME NEW t \in Threads, Tx!Start(t)
      PROVE  TxParts'
  <2>1. /\ tx_pc[t] = "start" /\ dma' = t /\ tx_pc' = [tx_pc EXCEPT ![t] = "out"]
        /\ overtaken' = (overtaken \/ ~Tx!Heads(t))
        /\ data_queue' = data_queue /\ activated' = activated
    BY <1>6 DEF Tx!Start
  <2>2. tx_pc'[t] = "out" /\ \A u \in Threads : u # t => tx_pc'[u] = tx_pc[u]
    BY <1>0, <2>1
  <2>3. tx_pc' \in [Threads -> {"out", "pushed", "start"}] /\ overtaken' \in BOOLEAN
    BY <1>0, <2>1
  <2>4. ~overtaken' => data_queue # << >> /\ Head(data_queue) = t
    BY <1>0, <2>1 DEF Tx!Heads
  <2> QED
    BY <1>0, <1>1, <1>2, <2>1, <2>2, <2>3, <2>4 DEF TxParts
<1>7. ASSUME Tx!DmaDone
      PROVE  TxParts'
  <2> DEFINE remains == IF data_queue = << >> THEN << >> ELSE Tail(data_queue)
  <2>1. /\ dma # None /\ data_queue' = remains
        /\ dma' = (IF remains = << >> THEN None ELSE Head(remains))
        /\ activated' = (remains # << >>)
        /\ tx_pc' = tx_pc /\ overtaken' = overtaken
    BY <1>7 DEF Tx!DmaDone
  <2>2. remains \in Seq(Threads) /\ Len(remains) <= QueueSize /\ (remains # << >> => Head(remains) \in Threads)
    BY <1>0, EmptySeq
  <2> HIDE DEF remains
  <2> QED
    BY <1>0, <1>1, <1>2, <2>1, <2>2 DEF TxParts
<1> QED
  BY <1>4, <1>5, <1>6, <1>7 DEF Tx!Next

LEMMA TxStays == ASSUME Tx!Inv, UNCHANGED txVars PROVE Tx!Inv'
BY DEF txVars, Tx!Inv, Tx!TypeOK, Tx!TransmitsHead, Tx!DmaClaimed, Tx!Heads

-----------------------------------------------------------------------------
(* Reception.                                                              *)
RxTypes ==
  /\ open_flag \in {"closed", "interrupts", "dma"}
  /\ rx_buffer \in [0..(Bufsz - 1) -> Bytes \cup {None}]
  /\ rx_put_index \in 0..(Bufsz - 1) /\ rx_get_index \in 0..(Bufsz - 1)
  /\ dma_index \in 0..(Bufsz - 1) /\ last_index \in 0..(Bufsz - 1)
  /\ is_full \in BOOLEAN /\ complete_irq \in BOOLEAN /\ in_isr \in BOOLEAN /\ miscounted \in BOOLEAN
  /\ unread \in Seq(Bytes) /\ Len(unread) <= Bufsz
  /\ arriving \in Seq(Bytes) /\ Len(arriving) <= Bufsz

RxKept == Kept(Bufsz, rx_buffer, rx_get_index, unread \o arriving)

RxParts ==
  /\ RxTypes
  /\ miscounted => open_flag = "dma" /\ complete_irq /\ ~in_isr
  /\ ~miscounted => Rx!IndicesMeet /\ Rx!DmaAhead /\ RxKept

LEMMA RxSize == Bufsz \in Nat \ {0} /\ Bufsz >= 2
BY DeviceAssumption DEF Rx!SerialReceiveAssumption

LEMMA RxInvParts == Rx!Inv <=> RxParts
<1>2. Rx!TypeOK <=> RxTypes
  BY DEF Rx!TypeOK, RxTypes
<1>3. Rx!InSlots <=> RxKept
  BY DEF Rx!InSlots, RxKept, Kept
<1> QED
  BY <1>2, <1>3 DEF Rx!Inv, RxParts

LEMMA RxInvPartsNext == (Rx!Inv <=> RxParts)'
BY RxInvParts, PTL

LEMMA RxInit == Rx!Init => Rx!Inv
<1> SUFFICES ASSUME Rx!Init PROVE RxParts
  BY RxInvParts
<1>1. /\ open_flag = "closed" /\ rx_put_index = 0 /\ rx_get_index = 0 /\ is_full = FALSE
      /\ dma_index = 0 /\ last_index = 0 /\ complete_irq = FALSE /\ in_isr = FALSE
      /\ unread = << >> /\ arriving = << >> /\ miscounted = FALSE
      /\ rx_buffer = [i \in 0..(Bufsz - 1) |-> None]
  BY DEF Rx!Init
<1>2. << >> \in Seq(Bytes) /\ Len(<< >>) = 0 /\ << >> \o << >> = << >>
  OBVIOUS
<1>3. RxTypes
  <2>1. rx_buffer \in [0..(Bufsz - 1) -> Bytes \cup {None}]
    BY <1>1
  <2>2. unread \in Seq(Bytes) /\ arriving \in Seq(Bytes) /\ Len(unread) = 0 /\ Len(arriving) = 0
    BY <1>1, <1>2
  <2>3. 0 \in 0..(Bufsz - 1) /\ Len(unread) <= Bufsz /\ Len(arriving) <= Bufsz
    BY <2>2, RxSize
  <2>4. /\ is_full \in BOOLEAN /\ complete_irq \in BOOLEAN /\ in_isr \in BOOLEAN /\ miscounted \in BOOLEAN
        /\ open_flag \in {"closed", "interrupts", "dma"}
    BY <1>1
  <2>5. /\ rx_put_index \in 0..(Bufsz - 1) /\ rx_get_index \in 0..(Bufsz - 1)
        /\ dma_index \in 0..(Bufsz - 1) /\ last_index \in 0..(Bufsz - 1)
    BY <1>1, <2>3
  <2> QED
    BY <2>1, <2>2, <2>3, <2>4, <2>5 DEF RxTypes
<1>4. 0 % Bufsz = 0
  BY RxSize, ModOnce
<1>5. Rx!IndicesMeet /\ Rx!DmaAhead
  BY <1>1, <1>2, <1>4, RxSize DEF Rx!IndicesMeet, Rx!DmaAhead
<1>6. RxKept
  BY <1>1, <1>2 DEF RxKept, Kept
<1> QED
  BY <1>1, <1>3, <1>5, <1>6 DEF RxParts

\* An index and one n slots on meet if n is none or all of them.
LEMMA RxMeet ==
  ASSUME NEW g \in 0..(Bufsz - 1), NEW n \in 0..Bufsz
  PROVE  /\ (g + n) % Bufsz = IF g + n < Bufsz THEN g + n ELSE g + n - Bufsz
         /\ (g + n) % Bufsz = g <=> n = 0 \/ n = Bufsz
         /\ (g + n) % Bufsz \in 0..(Bufsz - 1)
<1>1. g + n \in 0..(2 * Bufsz - 1)
  BY RxSize
<1>2. (g + n) % Bufsz = IF g + n < Bufsz THEN g + n ELSE g + n - Bufsz
  <2> DEFINE a == g + n
  <2> HIDE DEF a
  <2>1. a \in 0..(2 * Bufsz - 1)
    BY <1>1 DEF a
  <2>2. a % Bufsz = IF a < Bufsz THEN a ELSE a - Bufsz
    BY <2>1, RxSize, ModOnce
  <2>3. (g + n) % Bufsz = a % Bufsz /\ a = g + n
    BY DEF a
  <2> QED
    BY <1>1, <2>1, <2>2, <2>3, RxSize
<1> DEFINE r == (g + n) % Bufsz
<1>3. r = IF g + n < Bufsz THEN g + n ELSE g + n - Bufsz
  BY <1>2
<1> HIDE DEF r
<1>4. (r = g <=> n = 0 \/ n = Bufsz) /\ r \in 0..(Bufsz - 1)
  BY <1>3, RxSize
<1> QED
  BY <1>2, <1>4 DEF r

LEMMA RxShape ==
  ASSUME RxParts, ~miscounted
  PROVE  /\ RxTypes /\ Rx!IndicesMeet /\ Rx!DmaAhead /\ RxKept
         /\ Bufsz \in Nat \ {0} /\ Bufsz >= 2
         /\ rx_get_index \in 0..(Bufsz - 1) /\ rx_put_index \in 0..(Bufsz - 1)
         /\ unread \in Seq(Bytes) /\ Len(unread) \in 0..Bufsz
         /\ arriving \in Seq(Bytes) /\ Len(arriving) \in 0..Bufsz
         /\ rx_put_index = IF rx_get_index + Len(unread) < Bufsz THEN rx_get_index + Len(unread)
                           ELSE rx_get_index + Len(unread) - Bufsz
         /\ rx_put_index = rx_get_index <=> Len(unread) \in {0, Bufsz}
         /\ is_full /\ open_flag # "interrupts" => Len(unread) = Bufsz
         /\ Len(unread) = Bufsz => is_full /\ open_flag # "interrupts"
<1>1. RxTypes /\ Rx!IndicesMeet /\ Rx!DmaAhead /\ RxKept
  BY DEF RxParts
<1>2. /\ unread \in Seq(Bytes) /\ Len(unread) \in 0..Bufsz
      /\ arriving \in Seq(Bytes) /\ Len(arriving) \in 0..Bufsz
      /\ rx_get_index \in 0..(Bufsz - 1) /\ rx_put_index \in 0..(Bufsz - 1)
  BY <1>1, RxSize DEF RxTypes
<1>3. rx_put_index = (rx_get_index + Len(unread)) % Bufsz
  BY <1>1 DEF Rx!IndicesMeet
<1>4. /\ rx_put_index = IF rx_get_index + Len(unread) < Bufsz THEN rx_get_index + Len(unread)
                        ELSE rx_get_index + Len(unread) - Bufsz
      /\ rx_put_index = rx_get_index <=> Len(unread) = 0 \/ Len(unread) = Bufsz
  BY <1>2, <1>3, RxMeet
<1>5. /\ is_full /\ open_flag # "interrupts" => Len(unread) = Bufsz
      /\ Len(unread) = Bufsz => is_full /\ open_flag # "interrupts"
  BY <1>1, <1>2, RxSize DEF Rx!IndicesMeet
<1> QED
  BY <1>1, <1>2, <1>4, <1>5, RxSize

\* What the interface counts is what is unread.
LEMMA RxCounts ==
  ASSUME RxParts, ~miscounted
  PROVE  Rx!RecvedLen = Len(unread)
<1>1. /\ Bufsz \in Nat \ {0} /\ Bufsz >= 2
      /\ rx_get_index \in 0..(Bufsz - 1) /\ rx_put_index \in 0..(Bufsz - 1)
      /\ Len(unread) \in 0..Bufsz
      /\ rx_put_index = IF rx_get_index + Len(unread) < Bufsz THEN rx_get_index + Len(unread)
                        ELSE rx_get_index + Len(unread) - Bufsz
      /\ rx_put_index = rx_get_index <=> Len(unread) \in {0, Bufsz}
  BY RxShape
<1>2. Len(unread) = Bufsz <=> is_full /\ rx_put_index = rx_get_index
  BY RxShape DEF Rx!IndicesMeet
<1>3. CASE rx_put_index = rx_get_index
  BY <1>1, <1>2, <1>3 DEF Rx!RecvedLen
<1>4. CASE rx_put_index # rx_get_index
  <2> DEFINE n == Len(unread)
             d == rx_put_index - rx_get_index
             k == IF rx_get_index + n < Bufsz THEN 0 ELSE -1
  <2>1. n \in 0..(Bufsz - 1) /\ d \in Int /\ k \in Int /\ d = Bufsz * k + n
    BY <1>1, <1>4
  <2> HIDE DEF n, d, k
  <2>2. d % Bufsz = n
    BY <1>1, <2>1, ModUnique
  <2> QED
    BY <1>4, <2>2 DEF Rx!RecvedLen, n, d
<1> QED
  BY <1>3, <1>4

LEMMA RxStaysKept ==
  ASSUME RxKept, UNCHANGED <<rx_buffer, rx_get_index, unread, arriving>>
  PROVE  RxKept'
BY DEF RxKept, Kept

\* A byte by an interrupt: it is added, and the oldest dropped if there is no room.
LEMMA RxReceiveByte ==
  ASSUME RxParts, ~miscounted, NEW b \in Bytes, Rx!ReceiveByte(b)
  PROVE  RxParts'
<1> DEFINE n == Len(unread)
           g == rx_get_index
           meets == (rx_put_index + 1) % Bufsz = g
           longer == Append(unread, b)
<1>0. /\ RxTypes /\ Rx!IndicesMeet /\ Rx!DmaAhead /\ RxKept
      /\ Bufsz \in Nat \ {0} /\ Bufsz >= 2
      /\ g \in 0..(Bufsz - 1) /\ rx_put_index \in 0..(Bufsz - 1)
      /\ unread \in Seq(Bytes) /\ n \in 0..Bufsz
      /\ rx_put_index = IF g + n < Bufsz THEN g + n ELSE g + n - Bufsz
  BY RxShape
<1>1. /\ open_flag = "interrupts" /\ open_flag' = open_flag
      /\ rx_buffer' = [rx_buffer EXCEPT ![rx_put_index] = b]
      /\ rx_put_index' = (rx_put_index + 1) % Bufsz
      /\ rx_get_index' = IF meets THEN (g + 1) % Bufsz ELSE g
      /\ is_full' = (is_full \/ meets)
      /\ unread' = Rx!Newest(longer, Bufsz - 1)
      /\ dma_index' = dma_index /\ last_index' = last_index /\ complete_irq' = complete_irq
      /\ in_isr' = in_isr /\ arriving' = arriving /\ miscounted' = miscounted
  BY <1>0 DEF Rx!ReceiveByte, Rx!dmaVars
<1>2. n < Bufsz /\ arriving = << >> /\ ~complete_irq /\ ~in_isr
  BY <1>0, <1>1 DEF Rx!IndicesMeet, Rx!DmaAhead
<1>3. /\ longer \in Seq(Bytes) /\ Len(longer) = n + 1
      /\ unread \o arriving = unread
  BY <1>0, <1>2
<1>4. rx_put_index = (g + n) % Bufsz
  BY <1>0 DEF Rx!IndicesMeet
<1>5. rx_put_index' = IF rx_put_index + 1 < Bufsz THEN rx_put_index + 1 ELSE 0
  <2> DEFINE p == rx_put_index
             r == (p + 1) % Bufsz
  <2>1. p \in 0..(Bufsz - 1) /\ Bufsz \in Nat /\ 1 \in 0..Bufsz /\ rx_put_index' = r
    BY <1>0, <1>1
  <2> HIDE DEF p
  <2>2. r = IF p + 1 < Bufsz THEN p + 1 ELSE p + 1 - Bufsz
    BY <2>1, RxMeet
  <2> HIDE DEF r
  <2>3. r = IF p + 1 < Bufsz THEN p + 1 ELSE 0
    BY <2>1, <2>2
  <2> QED
    BY <2>1, <2>3 DEF p
<1>a. rx_put_index' \in 0..(Bufsz - 1)
  BY <1>0, <1>5
<1>6. meets <=> n = Bufsz - 1
  <2> HIDE DEF n, g
  <2>1. rx_put_index' = g <=> n = Bufsz - 1
    BY <1>0, <1>2, <1>5
  <2> QED
    BY <1>1, <2>1
<1>7. Kept(Bufsz, rx_buffer', g, longer)
  <2>1. Kept(Bufsz, rx_buffer, g, unread)
    BY <1>0, <1>3 DEF RxKept
  <2>2. rx_buffer \in [0..(Bufsz - 1) -> Bytes \cup {None}]
    BY <1>0 DEF RxTypes
  <2>3. rx_buffer' = [rx_buffer EXCEPT ![(g + Len(unread)) % Bufsz] = b]
    BY <1>1, <1>4
  <2>4. g \in Nat /\ Len(unread) < 2 * Bufsz
    BY <1>0, <1>2
  <2> HIDE DEF g
  <2> QED
    BY <1>0, <2>1, <2>2, <2>3, <2>4, KeptAppend
<1>8. /\ rx_buffer' \in [0..(Bufsz - 1) -> Bytes \cup {None}]
      /\ is_full' \in BOOLEAN
  BY <1>0, <1>1 DEF RxTypes
<1>9. CASE n # Bufsz - 1
  <2>1. unread' = longer /\ rx_get_index' = g /\ is_full' = is_full
    <3>1. Len(longer) <= Bufsz - 1
      BY <1>0, <1>2, <1>3, <1>9
    <3>2. Rx!Newest(longer, Bufsz - 1) = longer
      BY <3>1 DEF Rx!Newest
    <3>3. is_full \in BOOLEAN
      BY <1>0 DEF RxTypes
    <3> HIDE DEF longer, n, g
    <3> QED
      BY <1>1, <1>6, <1>9, <3>2, <3>3
  <2>2. rx_put_index' = (g + (n + 1)) % Bufsz
    <3> HIDE DEF g, n
    <3>1. n + 1 \in 0..Bufsz
      BY <1>0, <1>2
    <3>2. (g + (n + 1)) % Bufsz = IF g + (n + 1) < Bufsz THEN g + (n + 1) ELSE g + (n + 1) - Bufsz
      BY <1>0, <3>1, RxMeet
    <3> QED
      BY <1>0, <1>2, <1>5, <3>2
  <2>3. rx_put_index' # rx_get_index'
    BY <1>1, <1>6, <1>9, <2>1
  <2>4. RxTypes'
    <3>1. unread' \in Seq(Bytes) /\ Len(unread') <= Bufsz /\ rx_get_index' \in 0..(Bufsz - 1)
      BY <1>0, <1>2, <1>3, <2>1
    <3> QED
      BY <1>0, <1>1, <1>8, <1>a, <3>1 DEF RxTypes
  <2>5. Rx!IndicesMeet' /\ Rx!DmaAhead'
    <3>1. Len(unread') = n + 1 /\ n + 1 < Bufsz
      BY <1>0, <1>2, <1>3, <1>9, <2>1
    <3>2. rx_put_index' = (rx_get_index' + Len(unread')) % Bufsz
      BY <2>1, <2>2, <3>1
    <3>3. Len(unread') < Bufsz /\ Len(unread') # Bufsz
      BY <1>0, <3>1
    <3>4. open_flag' = "interrupts" /\ arriving' = << >> /\ ~complete_irq' /\ ~in_isr'
      BY <1>1, <1>2
    <3> QED
      BY <2>3, <3>2, <3>3, <3>4 DEF Rx!IndicesMeet, Rx!DmaAhead
  <2>6. RxKept'
    <3>1. longer \o << >> = longer
      BY <1>3
    <3>2. unread' \o arriving' = longer
      BY <1>1, <1>2, <2>1, <3>1
    <3> QED
      BY <1>7, <2>1, <3>2 DEF RxKept
  <2> QED
    BY <1>1, <2>4, <2>5, <2>6 DEF RxParts
<1>10. CASE n = Bufsz - 1
  <2>1. /\ unread' = SubSeq(longer, 2, Len(longer)) /\ Len(longer) = Bufsz
        /\ unread' \in Seq(Bytes) /\ Len(unread') = Bufsz - 1
        /\ \A i \in 1..Len(unread') : unread'[i] = longer[1 + i]
    <3>1. Len(longer) = Bufsz /\ ~(Len(longer) <= Bufsz - 1) /\ Len(longer) - (Bufsz - 1) + 1 = 2
      BY <1>0, <1>3, <1>10
    <3>2. unread' = SubSeq(longer, 2, Len(longer))
      BY <1>1, <3>1 DEF Rx!Newest
    <3> HIDE DEF longer
    <3> QED
      BY <1>0, <1>3, <3>1, <3>2
  <2>2. rx_get_index' = (g + 1) % Bufsz /\ rx_put_index' = g
    BY <1>1, <1>6, <1>10
  <2>3. rx_get_index' \in 0..(Bufsz - 1) /\ rx_get_index' # rx_put_index'
    BY <1>0, <2>2, RxMeet
  <2>4. rx_put_index' = (rx_get_index' + (Bufsz - 1)) % Bufsz
    <3>1. rx_get_index' = IF g + 1 < Bufsz THEN g + 1 ELSE g + 1 - Bufsz
      BY <1>0, <2>2, RxMeet
    <3>2. Bufsz - 1 \in 0..Bufsz
      BY <1>0
    <3>3. (rx_get_index' + (Bufsz - 1)) % Bufsz
            = IF rx_get_index' + (Bufsz - 1) < Bufsz THEN rx_get_index' + (Bufsz - 1)
              ELSE rx_get_index' + (Bufsz - 1) - Bufsz
      BY <2>3, <3>2, RxMeet
    <3> DEFINE r == (rx_get_index' + (Bufsz - 1)) % Bufsz
               h == rx_get_index'
    <3>4. r = IF h + (Bufsz - 1) < Bufsz THEN h + (Bufsz - 1) ELSE h + (Bufsz - 1) - Bufsz
      BY <3>3
    <3>5. h = IF g + 1 < Bufsz THEN g + 1 ELSE g + 1 - Bufsz
      BY <3>1
    <3> HIDE DEF r, h, g
    <3>6. r = g
      BY <1>0, <3>4, <3>5
    <3> QED
      BY <2>2, <3>6 DEF r
  <2>5. RxTypes'
    <3>1. Len(unread') <= Bufsz
      BY <1>0, <2>1
    <3> QED
      BY <1>0, <1>1, <1>8, <1>a, <2>1, <2>3, <3>1 DEF RxTypes
  <2>6. Rx!IndicesMeet' /\ Rx!DmaAhead'
    <3>1. Len(unread') < Bufsz /\ Len(unread') # Bufsz
      BY <1>0, <2>1
    <3>2. rx_put_index' = (rx_get_index' + Len(unread')) % Bufsz
      BY <2>1, <2>4
    <3>3. open_flag' = "interrupts" /\ arriving' = << >> /\ ~complete_irq' /\ ~in_isr'
      BY <1>1, <1>2
    <3> QED
      BY <2>3, <3>1, <3>2, <3>3 DEF Rx!IndicesMeet, Rx!DmaAhead
  <2>7. RxKept'
    <3>1. Kept(Bufsz, rx_buffer', (g + 1) % Bufsz, unread')
      <4>1. g \in Nat /\ 1 \in 0..Len(longer) /\ Drops(unread', longer, 1)
        BY <1>0, <2>1 DEF Drops
      <4> HIDE DEF g, longer
      <4> QED
        BY <1>0, <1>3, <1>7, <2>1, <4>1, KeptDrop
    <3>2. unread' \o arriving' = unread'
      BY <1>1, <1>2, <2>1
    <3> QED
      BY <2>2, <3>1, <3>2 DEF RxKept
  <2> QED
    BY <1>1, <2>5, <2>6, <2>7 DEF RxParts
<1> QED
  BY <1>9, <1>10

\* Taking n from the front of what is unread, as both ways of reading do.
LEMMA RxTakes ==
  ASSUME RxParts, ~miscounted, NEW n \in 1..Len(unread),
         rx_get_index' = (rx_get_index + n) % Bufsz, is_full' = FALSE,
         unread' = SubSeq(unread, n + 1, Len(unread)), open_flag # "closed",
         UNCHANGED <<open_flag, rx_buffer, rx_put_index, dma_index, last_index, complete_irq, in_isr,
                     arriving, miscounted>>
  PROVE  RxParts'
<1> DEFINE g == rx_get_index
           m == Len(unread)
           remains == unread' \o arriving'
           stream == unread \o arriving
<1>0. /\ RxTypes /\ Rx!IndicesMeet /\ Rx!DmaAhead /\ RxKept
      /\ Bufsz \in Nat \ {0} /\ Bufsz >= 2
      /\ g \in 0..(Bufsz - 1) /\ rx_put_index \in 0..(Bufsz - 1)
      /\ unread \in Seq(Bytes) /\ m \in 0..Bufsz
      /\ arriving \in Seq(Bytes) /\ Len(arriving) \in 0..Bufsz
      /\ rx_put_index = IF g + m < Bufsz THEN g + m ELSE g + m - Bufsz
  BY RxShape
<1>1. /\ unread' \in Seq(Bytes) /\ Len(unread') = m - n
      /\ \A i \in 1..(m - n) : unread'[i] = unread[n + i]
  <2>1. n \in 0..Len(unread)
    BY <1>0
  <2>2. unread' \in Seq(Bytes) /\ Drops(unread', unread, n)
    BY <1>0, <2>1, DropsSubSeq
  <2> HIDE DEF m
  <2> QED
    BY <2>2 DEF Drops, m
<1>2. n \in 1..Bufsz /\ m - n \in 0..(Bufsz - 1) /\ m \in Nat
  BY <1>0
<1>3. /\ (g + n) % Bufsz = (IF g + n < Bufsz THEN g + n ELSE g + n - Bufsz)
      /\ (g + n) % Bufsz \in 0..(Bufsz - 1)
  <2>1. n \in 0..Bufsz
    BY <1>2
  <2> HIDE DEF g
  <2> QED
    BY <1>0, <2>1, RxMeet
<1>4. /\ rx_get_index' \in 0..(Bufsz - 1)
      /\ rx_get_index' = IF g + n < Bufsz THEN g + n ELSE g + n - Bufsz
  BY <1>3
<1>5. rx_put_index = (rx_get_index' + Len(unread')) % Bufsz
  <2> DEFINE h == rx_get_index'
             k == m - n
             r == (h + k) % Bufsz
  <2>1. h \in 0..(Bufsz - 1) /\ k \in 0..Bufsz
    BY <1>0, <1>2, <1>4
  <2> HIDE DEF h, k
  <2>2. r = IF h + k < Bufsz THEN h + k ELSE h + k - Bufsz
    BY <2>1, RxMeet
  <2>3. h = (IF g + n < Bufsz THEN g + n ELSE g + n - Bufsz) /\ k = m - n
    BY <1>4 DEF h, k
  <2> HIDE DEF r, g, m
  <2>4. r = rx_put_index
    BY <1>0, <1>2, <2>1, <2>2, <2>3
  <2>5. r = (rx_get_index' + Len(unread')) % Bufsz
    BY <1>1 DEF r, h, k
  <2> QED
    BY <2>4, <2>5
<1>6. RxTypes'
  <2>1. Len(unread') <= Bufsz
    BY <1>0, <1>1, <1>2
  <2>2. is_full' \in BOOLEAN /\ miscounted' \in BOOLEAN
    BY <1>0 DEF RxTypes
  <2> QED
    BY <1>0, <1>1, <1>4, <2>1, <2>2 DEF RxTypes
<1>7. Rx!IndicesMeet'
  <2>1. Len(unread') < Bufsz /\ Len(unread') # Bufsz
    BY <1>0, <1>1, <1>2
  <2> QED
    BY <1>5, <2>1 DEF Rx!IndicesMeet
<1>8. Rx!DmaAhead'
  BY <1>0 DEF Rx!DmaAhead
<1>9. RxKept'
  <2>1. stream \in Seq(Bytes) /\ Len(stream) = m + Len(arriving)
    BY <1>0
  <2>2. arriving' = arriving /\ remains = unread' \o arriving
    OBVIOUS
  <2>3. remains \in Seq(Bytes)
    BY <1>0, <1>1, <2>2
  <2>a. n \in 0..Len(unread) /\ Drops(unread', unread, n)
    BY <1>0, <1>1, <1>2 DEF Drops
  <2>b. Drops(remains, stream, n)
    <3> HIDE DEF m
    <3> QED
      BY <1>0, <1>1, <2>2, <2>a, DropsConcat
  <2>4. Kept(Bufsz, rx_buffer, g, stream)
    BY <1>0 DEF RxKept
  <2>5. n \in 0..Len(stream) /\ g \in Nat
    BY <1>0, <1>2, <2>1
  <2> HIDE DEF remains, stream, g
  <2>6. Kept(Bufsz, rx_buffer, (g + n) % Bufsz, remains)
    BY <1>0, <2>1, <2>3, <2>4, <2>5, <2>b, KeptDrop
  <2> QED
    BY <2>6 DEF RxKept, g, remains
<1> QED
  BY <1>6, <1>7, <1>8, <1>9 DEF RxParts

LEMMA RxReadByte ==
  ASSUME RxParts, ~miscounted, Rx!ReadByte
  PROVE  RxParts'
<1>1. /\ open_flag = "interrupts"
      /\ rx_get_index # rx_put_index \/ is_full
      /\ rx_get_index' = (rx_get_index + 1) % Bufsz /\ is_full' = FALSE /\ unread' = Tail(unread)
      /\ UNCHANGED <<open_flag, rx_buffer, rx_put_index, dma_index, last_index, complete_irq, in_isr,
                     arriving, miscounted>>
  BY DEF Rx!ReadByte, Rx!dmaVars
<1>2. /\ unread \in Seq(Bytes) /\ Len(unread) \in 0..Bufsz /\ Bufsz \in Nat
      /\ rx_put_index = rx_get_index <=> Len(unread) \in {0, Bufsz}
      /\ Len(unread) = Bufsz <=> is_full /\ rx_put_index = rx_get_index
      /\ Len(unread) < Bufsz
  BY <1>1, RxShape DEF Rx!IndicesMeet
<1>3. Len(unread) # 0
  BY <1>1, <1>2
<1>4. 1 \in 1..Len(unread) /\ unread' = SubSeq(unread, 1 + 1, Len(unread))
  BY <1>1, <1>2, <1>3
<1> QED
  BY <1>1, <1>4, RxTakes

LEMMA RxDmaRead ==
  ASSUME RxParts, ~miscounted, NEW length \in 1..Bufsz, Rx!DmaRead(length)
  PROVE  RxParts'
<1> DEFINE n == IF length < Rx!RecvedLen THEN length ELSE Rx!RecvedLen
<1>1. /\ open_flag = "dma" /\ n > 0 /\ is_full' = FALSE
      /\ rx_get_index' = (rx_get_index + n) % Bufsz
      /\ unread' = SubSeq(unread, n + 1, Len(unread))
      /\ UNCHANGED <<open_flag, rx_buffer, rx_put_index, dma_index, last_index, complete_irq, in_isr,
                     arriving, miscounted>>
  BY DEF Rx!DmaRead, Rx!dmaVars
<1>2. Rx!RecvedLen = Len(unread) /\ Len(unread) \in 0..Bufsz /\ Bufsz \in Nat
  BY RxShape, RxCounts
<1>3. n \in 1..Len(unread)
  BY <1>1, <1>2
<1> HIDE DEF n
<1> QED
  BY <1>1, <1>3, RxTakes

\* The DMA writes where the stream ends.
LEMMA RxDmaWrites ==
  ASSUME RxParts, ~miscounted, NEW b \in Bytes, Rx!DmaWrites(b)
  PROVE  RxParts'
<1> DEFINE g == rx_get_index
           m == Len(unread)
           n == Len(arriving)
           stream == unread \o arriving
<1>0. /\ RxTypes /\ Rx!IndicesMeet /\ Rx!DmaAhead /\ RxKept
      /\ Bufsz \in Nat \ {0} /\ Bufsz >= 2
      /\ g \in 0..(Bufsz - 1) /\ rx_put_index \in 0..(Bufsz - 1)
      /\ unread \in Seq(Bytes) /\ m \in 0..Bufsz
      /\ arriving \in Seq(Bytes) /\ n \in 0..Bufsz
      /\ rx_put_index = IF g + m < Bufsz THEN g + m ELSE g + m - Bufsz
  BY RxShape
<1>1. /\ open_flag = "dma" /\ n < Bufsz /\ (complete_irq => dma_index # Bufsz - 1)
      /\ rx_buffer' = [rx_buffer EXCEPT ![dma_index] = b]
      /\ dma_index' = (dma_index + 1) % Bufsz
      /\ complete_irq' = (complete_irq \/ dma_index = Bufsz - 1)
      /\ arriving' = Append(arriving, b)
      /\ open_flag' = open_flag /\ rx_put_index' = rx_put_index /\ rx_get_index' = g
      /\ is_full' = is_full /\ last_index' = last_index /\ in_isr' = in_isr /\ unread' = unread
      /\ miscounted' = miscounted
  BY DEF Rx!DmaWrites
<1>2. /\ dma_index \in 0..(Bufsz - 1) /\ last_index \in 0..(Bufsz - 1)
      /\ rx_buffer \in [0..(Bufsz - 1) -> Bytes \cup {None}] /\ complete_irq \in BOOLEAN
  BY <1>0 DEF RxTypes
<1>3. /\ rx_put_index = last_index
      /\ n = dma_index - last_index + IF complete_irq THEN Bufsz ELSE 0
  BY <1>0, <1>1 DEF Rx!DmaAhead
<1>4. dma_index' = IF dma_index + 1 < Bufsz THEN dma_index + 1 ELSE 0
  <2> DEFINE d == dma_index
             r == (d + 1) % Bufsz
  <2>1. d \in 0..(Bufsz - 1) /\ 1 \in 0..Bufsz
    BY <1>0, <1>2
  <2> HIDE DEF d
  <2>2. r = IF d + 1 < Bufsz THEN d + 1 ELSE d + 1 - Bufsz
    BY <2>1, RxMeet
  <2> HIDE DEF r
  <2>3. r = IF d + 1 < Bufsz THEN d + 1 ELSE 0
    BY <1>0, <2>1, <2>2
  <2> QED
    BY <1>1, <2>3 DEF r, d
<1>5. /\ arriving' \in Seq(Bytes) /\ Len(arriving') = n + 1 /\ Len(arriving') <= Bufsz
  BY <1>0, <1>1
<1>6. dma_index' \in 0..(Bufsz - 1)
  BY <1>0, <1>2, <1>4
<1>7. RxTypes'
  <2>1. rx_buffer' \in [0..(Bufsz - 1) -> Bytes \cup {None}] /\ complete_irq' \in BOOLEAN
    BY <1>1, <1>2
  <2> QED
    BY <1>0, <1>1, <1>5, <1>6, <2>1 DEF RxTypes
<1>8. Rx!IndicesMeet'
  BY <1>0, <1>1 DEF Rx!IndicesMeet
<1>9. Rx!DmaAhead'
  <2> HIDE DEF n
  <2>1. n + 1 = dma_index' - last_index + IF complete_irq' THEN Bufsz ELSE 0
    <3>1. CASE dma_index = Bufsz - 1
      <4>0. complete_irq' = TRUE /\ ~complete_irq
        BY <1>1, <3>1
      <4>1. ~complete_irq /\ complete_irq' = TRUE /\ dma_index' = 0
        BY <1>0, <1>4, <3>1, <4>0
      <4>2. n = Bufsz - 1 - last_index
        BY <1>0, <1>2, <1>3, <3>1, <4>1
      <4> QED
        BY <1>0, <1>2, <3>1, <4>1, <4>2
    <3>2. CASE dma_index # Bufsz - 1
      <4>1. complete_irq' = complete_irq /\ dma_index' = dma_index + 1
        BY <1>0, <1>1, <1>2, <1>4, <3>2
      <4> QED
        BY <1>0, <1>2, <1>3, <3>2, <4>1
    <3> QED
      BY <3>1, <3>2
  <2> QED
    BY <1>1, <1>3, <1>5, <2>1 DEF Rx!DmaAhead
<1>10. RxKept'
  <2>1. stream \in Seq(Bytes) /\ Len(stream) = m + n /\ Len(stream) < 2 * Bufsz /\ g \in Nat
    BY <1>0, <1>1
  <2>2. unread' \o arriving' = Append(stream, b)
    <3>1. unread \o Append(arriving, b) = Append(stream, b)
      BY <1>0, AppendToConcat
    <3> QED
      BY <1>1, <3>1
  <2>3. dma_index = (g + Len(stream)) % Bufsz
    <3> DEFINE a == g + m
               r == a % Bufsz
               k == IF complete_irq THEN 1 ELSE 0
    <3>1. a \in Int /\ n \in Int /\ r = rx_put_index /\ a + n \in Int
      BY <1>0 DEF Rx!IndicesMeet
    <3>2. (r + n) % Bufsz = (a + n) % Bufsz
      <4> HIDE DEF a, n
      <4> QED
        BY <1>0, <3>1, ModSum
    <3> HIDE DEF a, r, n
    <3>3. k \in Int /\ r + n \in Int /\ r + n = Bufsz * k + dma_index
      BY <1>0, <1>2, <1>3, <3>1
    <3>4. (r + n) % Bufsz = dma_index
      BY <1>0, <1>2, <3>3, ModUnique
    <3>5. g + Len(stream) = a + n
      BY <1>0, <2>1 DEF a
    <3> QED
      BY <3>2, <3>4, <3>5
  <2>4. rx_buffer' = [rx_buffer EXCEPT ![(g + Len(stream)) % Bufsz] = b]
    BY <1>1, <2>3
  <2>5. Kept(Bufsz, rx_buffer, g, stream)
    BY <1>0 DEF RxKept
  <2> HIDE DEF stream, g
  <2>6. Kept(Bufsz, rx_buffer', g, Append(stream, b))
    BY <1>0, <1>2, <2>1, <2>4, <2>5, KeptAppend
  <2> QED
    BY <1>1, <2>2, <2>6 DEF RxKept
<1> QED
  BY <1>1, <1>7, <1>8, <1>9, <1>10 DEF RxParts

\* A report moves len bytes from what arrives to what is unread.
LEMMA RxReports ==
  ASSUME RxParts, ~miscounted, open_flag # "interrupts", NEW len \in 0..Len(arriving),
         Rx!DmaReported(len), UNCHANGED rx_buffer
  PROVE  /\ rx_put_index' = (rx_put_index + len) % Bufsz
         /\ rx_put_index' \in 0..(Bufsz - 1) /\ rx_get_index' \in 0..(Bufsz - 1)
         /\ is_full' \in BOOLEAN
         /\ unread' \in Seq(Bytes) /\ Len(unread') \in 0..Bufsz
         /\ arriving' \in Seq(Bytes) /\ Len(arriving') = Len(arriving) - len
         /\ rx_put_index' = (rx_get_index' + Len(unread')) % Bufsz
         /\ Len(unread') = Bufsz <=> is_full' /\ rx_put_index' = rx_get_index'
         /\ is_full' => rx_put_index' = rx_get_index'
         /\ RxKept'
<1> DEFINE g == rx_get_index
           p == rx_put_index
           m == Len(unread)
           n == Len(arriving)
           r == (p + len) % Bufsz
           passes == IF g <= p THEN p + len >= Bufsz /\ r >= g ELSE p + len >= g
           first == SubSeq(arriving, 1, len)
           longer == unread \o first
<1>0. /\ RxTypes /\ Rx!IndicesMeet /\ Rx!DmaAhead /\ RxKept
      /\ Bufsz \in Nat \ {0} /\ Bufsz >= 2
      /\ g \in 0..(Bufsz - 1) /\ p \in 0..(Bufsz - 1)
      /\ unread \in Seq(Bytes) /\ m \in 0..Bufsz
      /\ arriving \in Seq(Bytes) /\ n \in 0..Bufsz
      /\ p = IF g + m < Bufsz THEN g + m ELSE g + m - Bufsz
      /\ is_full <=> m = Bufsz
  BY RxShape
<1>1. /\ rx_put_index' = r
      /\ is_full' = (is_full \/ passes)
      /\ rx_get_index' = IF is_full' THEN r ELSE g
      /\ unread' = Rx!Newest(longer, Bufsz)
      /\ arriving' = SubSeq(arriving, len + 1, n)
      /\ rx_buffer' = rx_buffer
  BY DEF Rx!DmaReported, Rx!UpdatePutIndex
<1>2. len \in 0..Bufsz /\ len \in 0..n
  BY <1>0
<1>3. r = (IF p + len < Bufsz THEN p + len ELSE p + len - Bufsz) /\ r \in 0..(Bufsz - 1)
  <2> HIDE DEF p
  <2> QED
    BY <1>0, <1>2, RxMeet
<1>4. passes \in BOOLEAN /\ is_full \in BOOLEAN
  BY <1>0 DEF RxTypes
<1>5. is_full \/ passes <=> m + len >= Bufsz
  <2> HIDE DEF r, g, p, m, n
  <2>1. CASE m = Bufsz
    BY <1>0, <1>2, <2>1
  <2>2. CASE m # Bufsz /\ g <= p
    <3>1. p = g + m
      BY <1>0, <2>2
    <3> QED
      BY <1>0, <1>2, <1>3, <2>2, <3>1
  <2>3. CASE m # Bufsz /\ ~(g <= p)
    <3>1. p = g + m - Bufsz
      BY <1>0, <2>3
    <3> QED
      BY <1>0, <1>2, <1>3, <2>3, <3>1
  <2> QED
    BY <2>1, <2>2, <2>3
<1>6. is_full' = (m + len >= Bufsz)
  <2>1. is_full' = (is_full \/ passes)
    BY <1>1
  <2> HIDE DEF passes, m
  <2> QED
    BY <1>4, <1>5, <2>1
<1>7. /\ first \in Seq(Bytes) /\ Len(first) = len
      /\ longer \in Seq(Bytes) /\ Len(longer) = m + len
      /\ arriving' \in Seq(Bytes) /\ Len(arriving') = n - len
      /\ longer \o arriving' = unread \o arriving
  <2>1. first \in Seq(Bytes) /\ Len(first) = len
    BY <1>0, <1>2
  <2>2. arriving' \in Seq(Bytes) /\ Len(arriving') = n - len
    BY <1>0, <1>1, <1>2
  <2>3. first \o arriving' = arriving
    <3>1. 1 \in 1..(Len(arriving) + 1) /\ len \in (1 - 1)..Len(arriving) /\ Len(arriving) \in len..Len(arriving)
      BY <1>0, <1>2
    <3>2. first \o SubSeq(arriving, len + 1, Len(arriving)) = SubSeq(arriving, 1, Len(arriving))
      BY <1>0, <3>1, ConcatAdjacentSubSeq
    <3> QED
      BY <1>0, <1>1, <3>2, SubSeqFull
  <2> HIDE DEF first
  <2>4. longer \in Seq(Bytes) /\ Len(longer) = m + len
    <3>1. unread \o first \in Seq(Bytes) /\ Len(unread \o first) = Len(unread) + Len(first)
      BY <1>0, <2>1, ConcatProperties
    <3>2. Len(first) = len /\ m \in Nat /\ len \in Nat
      BY <1>0, <1>2, <2>1
    <3> QED
      BY <3>1, <3>2
  <2>5. longer \o arriving' = unread \o arriving
    <3> DEFINE remains == arriving'
    <3>1. remains \in Seq(Bytes) /\ unread \in Seq(Bytes) /\ first \in Seq(Bytes)
      BY <1>0, <2>1, <2>2
    <3> HIDE DEF remains
    <3>2. (unread \o first) \o remains = unread \o (first \o remains)
      BY <3>1, ConcatAssociative
    <3> QED
      BY <2>3, <3>2 DEF remains
  <2> QED
    BY <2>1, <2>2, <2>4, <2>5
<1> DEFINE d == IF m + len >= Bufsz THEN m + len - Bufsz ELSE 0
<1>8. /\ unread' \in Seq(Bytes) /\ Len(unread') = m + len - d
      /\ Drops(unread', longer, d) /\ d \in 0..(m + len) /\ d \in 0..Len(longer) /\ d \in 0..Bufsz
      /\ Len(unread') \in 0..Bufsz
  <2>0. /\ d \in 0..(m + len) /\ d \in 0..Len(longer) /\ d \in 0..Bufsz
        /\ m + len - d \in 0..Bufsz
    <3> HIDE DEF longer, m
    <3> QED
      BY <1>0, <1>2, <1>7
  <2>1. unread' = SubSeq(longer, d + 1, Len(longer))
    <3> HIDE DEF longer, m
    <3>1. CASE Len(longer) <= Bufsz
      <4>1. d = 0 /\ unread' = longer
        BY <1>0, <1>1, <1>2, <1>7, <3>1 DEF Rx!Newest
      <4> QED
        BY <1>7, <4>1, SubSeqFull
    <3>2. CASE ~(Len(longer) <= Bufsz)
      <4>1. d + 1 = Len(longer) - Bufsz + 1
        BY <1>0, <1>2, <1>7, <3>2
      <4> QED
        BY <1>1, <3>2, <4>1 DEF Rx!Newest
    <3> QED
      BY <3>1, <3>2
  <2> HIDE DEF longer, d
  <2>2. unread' \in Seq(Bytes) /\ Drops(unread', longer, d)
    BY <1>7, <2>0, <2>1, DropsSubSeq
  <2>3. Len(unread') = m + len - d
    <3>1. Len(unread') = Len(longer) - d
      BY <2>2 DEF Drops
    <3>2. Len(longer) = m + len
      BY <1>7
    <3>3. m \in Int /\ len \in Int /\ d \in Int
      BY <1>0, <1>2, <2>0
    <3> HIDE DEF m
    <3> QED
      BY <3>1, <3>2, <3>3
  <2> QED
    BY <2>0, <2>2, <2>3
<1>9. rx_get_index' = (g + d) % Bufsz
  <2> DEFINE q == (g + d) % Bufsz
  <2>1. q = IF g + d < Bufsz THEN g + d ELSE g + d - Bufsz
    <3> HIDE DEF g, d
    <3> QED
      BY <1>0, <1>8, RxMeet
  <2> HIDE DEF q, r, g, p, m, n
  <2>2. CASE m + len >= Bufsz
    <3>1. rx_get_index' = r
      BY <1>1, <1>6, <2>2
    <3>2. d = m + len - Bufsz
      BY <2>2
    <3> HIDE DEF d
    <3>3. q = r
      BY <1>0, <1>2, <1>3, <2>1, <2>2, <3>2
    <3> QED
      BY <3>1, <3>3 DEF q
  <2>3. CASE ~(m + len >= Bufsz)
    <3>1. rx_get_index' = g
      BY <1>1, <1>6, <2>3
    <3>2. d = 0
      BY <2>3
    <3> HIDE DEF d
    <3>3. q = g
      BY <1>0, <2>1, <3>2
    <3> QED
      BY <3>1, <3>3 DEF q
  <2> QED
    BY <2>2, <2>3
<1>10. rx_get_index' \in 0..(Bufsz - 1)
  BY <1>0, <1>1, <1>3
<1>11. rx_put_index' = (rx_get_index' + Len(unread')) % Bufsz
  <2> DEFINE h == rx_get_index'
             k == m + len - d
             q == (h + k) % Bufsz
  <2>1. h \in 0..(Bufsz - 1) /\ k \in 0..Bufsz
    BY <1>8, <1>10
  <2>2. h = IF is_full' THEN r ELSE g
    BY <1>1
  <2> HIDE DEF h, k
  <2>3. q = IF h + k < Bufsz THEN h + k ELSE h + k - Bufsz
    BY <2>1, RxMeet
  <2> HIDE DEF q, r, g, p, m, n
  <2>4. CASE m + len >= Bufsz
    <3>0. is_full'
      BY <1>6, <2>4
    <3>1. h = r
      BY <2>2, <3>0
    <3>2. d = m + len - Bufsz
      BY <2>4
    <3> HIDE DEF d
    <3>3. k = Bufsz
      BY <1>0, <1>2, <3>2 DEF k
    <3>4. q = r
      BY <1>0, <1>3, <2>3, <3>1, <3>3
    <3>5. (rx_get_index' + Len(unread')) % Bufsz = q
      BY <1>8 DEF q, h, k
    <3> QED
      BY <1>1, <3>4, <3>5
  <2>5. CASE ~(m + len >= Bufsz)
    <3>0. ~is_full'
      BY <1>6, <2>5
    <3>1. h = g
      BY <2>2, <3>0
    <3>2. d = 0
      BY <2>5
    <3> HIDE DEF d
    <3>3. k = m + len
      BY <1>0, <1>2, <3>2 DEF k
    <3>4. q = r
      BY <1>0, <1>2, <1>3, <2>3, <2>5, <3>1, <3>3
    <3>5. (rx_get_index' + Len(unread')) % Bufsz = q
      BY <1>8 DEF q, h, k
    <3> QED
      BY <1>1, <3>4, <3>5
  <2> QED
    BY <2>4, <2>5
<1>12. /\ Len(unread') = Bufsz <=> is_full' /\ rx_put_index' = rx_get_index'
       /\ is_full' => rx_put_index' = rx_get_index'
  <2> HIDE DEF r, g, m
  <2>1. is_full' => rx_put_index' = rx_get_index'
    BY <1>1
  <2>2. Len(unread') = Bufsz <=> m + len >= Bufsz
    BY <1>0, <1>2, <1>8
  <2> QED
    BY <1>6, <2>1, <2>2
<1>13. RxKept'
  <2>1. Kept(Bufsz, rx_buffer, g, unread \o arriving)
    BY <1>0 DEF RxKept
  <2>2. Drops(unread' \o arriving', unread \o arriving, d)
    <3> HIDE DEF longer, d
    <3>1. Drops(unread' \o arriving', longer \o arriving', d)
      BY <1>7, <1>8, DropsConcat
    <3> QED
      BY <1>7, <3>1
  <2>3. /\ unread \o arriving \in Seq(Bytes) /\ unread' \o arriving' \in Seq(Bytes)
        /\ d \in 0..Len(unread \o arriving) /\ g \in Nat
    BY <1>0, <1>2, <1>7, <1>8
  <2> HIDE DEF d, g
  <2>4. Kept(Bufsz, rx_buffer, (g + d) % Bufsz, unread' \o arriving')
    BY <1>0, <2>1, <2>2, <2>3, KeptDrop
  <2> QED
    BY <1>1, <1>9, <2>4 DEF RxKept
<1> QED
  BY <1>1, <1>3, <1>4, <1>6, <1>7, <1>8, <1>10, <1>11, <1>12, <1>13

LEMMA RxCallback ==
  ASSUME RxParts, ~miscounted, Rx!RxCpltCallback
  PROVE  RxParts'
<1>1. /\ complete_irq /\ ~in_isr /\ complete_irq' = FALSE /\ last_index' = 0
      /\ Rx!DmaReported(Bufsz - last_index)
      /\ open_flag' = open_flag /\ rx_buffer' = rx_buffer /\ dma_index' = dma_index
      /\ in_isr' = in_isr /\ miscounted' = miscounted
  BY DEF Rx!RxCpltCallback
<1>2. /\ RxTypes /\ Rx!DmaAhead /\ Bufsz \in Nat \ {0} /\ Len(arriving) \in 0..Bufsz
  BY RxShape
<1>3. /\ open_flag = "dma" /\ rx_put_index = last_index
      /\ Len(arriving) = dma_index - last_index + Bufsz
      /\ dma_index \in 0..(Bufsz - 1) /\ last_index \in 0..(Bufsz - 1)
  BY <1>1, <1>2 DEF Rx!DmaAhead, RxTypes
<1> DEFINE len == Bufsz - last_index
<1>4. len \in 0..Len(arriving) /\ Len(arriving) - len = dma_index
  BY <1>2, <1>3
<1>5. /\ rx_put_index' = (rx_put_index + len) % Bufsz
      /\ rx_put_index' \in 0..(Bufsz - 1) /\ rx_get_index' \in 0..(Bufsz - 1)
      /\ is_full' \in BOOLEAN
      /\ unread' \in Seq(Bytes) /\ Len(unread') \in 0..Bufsz
      /\ arriving' \in Seq(Bytes) /\ Len(arriving') = Len(arriving) - len
      /\ rx_put_index' = (rx_get_index' + Len(unread')) % Bufsz
      /\ Len(unread') = Bufsz <=> is_full' /\ rx_put_index' = rx_get_index'
      /\ is_full' => rx_put_index' = rx_get_index'
      /\ RxKept'
  <2> HIDE DEF len
  <2> QED
    BY <1>1, <1>3, <1>4, RxReports DEF len
<1>6. rx_put_index' = 0
  <2>1. rx_put_index + len = Bufsz * 1 + 0 /\ rx_put_index + len = Bufsz
    BY <1>2, <1>3
  <2>2. Bufsz % Bufsz = 0
    <3>1. Bufsz \in 0..(2 * Bufsz - 1)
      BY <1>2
    <3> QED
      BY <1>2, <3>1, ModOnce
  <2> QED
    BY <1>5, <2>1, <2>2
<1>7. RxTypes'
  <2>1. Len(unread') <= Bufsz /\ Len(arriving') <= Bufsz /\ last_index' \in 0..(Bufsz - 1)
    BY <1>1, <1>2, <1>3, <1>4, <1>5
  <2>2. complete_irq' \in BOOLEAN
    BY <1>1
  <2> QED
    BY <1>1, <1>2, <1>5, <2>1, <2>2 DEF RxTypes
<1>8. Rx!IndicesMeet'
  BY <1>1, <1>3, <1>5 DEF Rx!IndicesMeet
<1>9. Rx!DmaAhead'
  <2>1. Len(arriving') = dma_index' - last_index' + 0
    BY <1>1, <1>2, <1>3, <1>4, <1>5
  <2> QED
    BY <1>1, <1>3, <1>6, <2>1 DEF Rx!DmaAhead
<1> QED
  BY <1>1, <1>5, <1>7, <1>8, <1>9 DEF RxParts

LEMMA RxIdleReports ==
  ASSUME RxParts, ~miscounted, Rx!IdleReports
  PROVE  RxParts'
<1>1. /\ in_isr /\ in_isr' = FALSE
      /\ open_flag' = open_flag /\ rx_buffer' = rx_buffer /\ dma_index' = dma_index
      /\ complete_irq' = complete_irq
  BY DEF Rx!IdleReports
<1>2. /\ RxTypes /\ Rx!DmaAhead /\ Bufsz \in Nat \ {0} /\ Len(arriving) \in 0..Bufsz
      /\ rx_put_index \in 0..(Bufsz - 1)
  BY RxShape
<1>3. /\ open_flag = "dma" /\ rx_put_index = last_index
      /\ Len(arriving) = dma_index - last_index + IF complete_irq THEN Bufsz ELSE 0
      /\ dma_index \in 0..(Bufsz - 1) /\ last_index \in 0..(Bufsz - 1)
  BY <1>1, <1>2 DEF Rx!DmaAhead, RxTypes
<1>4. CASE complete_irq
  <2>1. /\ miscounted' = TRUE
        /\ rx_put_index' = rx_put_index /\ rx_get_index' = rx_get_index /\ is_full' = is_full
        /\ last_index' = last_index /\ unread' = unread /\ arriving' = arriving
    BY <1>4 DEF Rx!IdleReports
  <2>2. RxTypes'
    BY <1>1, <1>2, <2>1 DEF RxTypes
  <2> QED
    BY <1>1, <1>3, <1>4, <2>1, <2>2 DEF RxParts
<1>5. CASE ~complete_irq
  <2> DEFINE len == dma_index - last_index
  <2>1. last_index' = dma_index /\ Rx!DmaReported(len) /\ miscounted' = miscounted
    BY <1>5 DEF Rx!IdleReports
  <2>2. len \in 0..Len(arriving) /\ Len(arriving) = len
    BY <1>2, <1>3, <1>5
  <2>3. /\ rx_put_index' = (rx_put_index + len) % Bufsz
        /\ rx_put_index' \in 0..(Bufsz - 1) /\ rx_get_index' \in 0..(Bufsz - 1)
        /\ is_full' \in BOOLEAN
        /\ unread' \in Seq(Bytes) /\ Len(unread') \in 0..Bufsz
        /\ arriving' \in Seq(Bytes) /\ Len(arriving') = Len(arriving) - len
        /\ rx_put_index' = (rx_get_index' + Len(unread')) % Bufsz
        /\ Len(unread') = Bufsz <=> is_full' /\ rx_put_index' = rx_get_index'
        /\ is_full' => rx_put_index' = rx_get_index'
        /\ RxKept'
    <3> HIDE DEF len
    <3> QED
      BY <1>1, <1>3, <2>1, <2>2, RxReports
  <2>4. rx_put_index' = dma_index
    <3>1. rx_put_index + len = dma_index
      BY <1>3
    <3>a. dma_index \in 0..(2 * Bufsz - 1) /\ dma_index < Bufsz
      BY <1>2, <1>3
    <3>2. dma_index % Bufsz = dma_index
      BY <1>2, <3>a, ModOnce
    <3> QED
      BY <2>3, <3>1, <3>2
  <2>5. Len(arriving') = 0
    <3> HIDE DEF len
    <3>1. Len(arriving') = Len(arriving) - Len(arriving)
      BY <2>2, <2>3
    <3> QED
      BY <1>2, <3>1
  <2>6. RxTypes'
    <3>a. Len(unread') \in 0..Bufsz
      BY <2>3
    <3>1. Len(unread') <= Bufsz /\ Len(arriving') <= Bufsz
      BY <1>2, <2>5, <3>a
    <3> QED
      BY <1>1, <1>2, <1>3, <2>1, <2>3, <3>1 DEF RxTypes
  <2>7. Rx!IndicesMeet'
    BY <1>1, <1>3, <2>3 DEF Rx!IndicesMeet
  <2>8. Rx!DmaAhead'
    <3>1. Len(arriving') = dma_index' - last_index' + 0
      BY <1>1, <1>3, <2>1, <2>5
    <3> QED
      BY <1>1, <1>3, <1>5, <2>1, <2>4, <3>1 DEF Rx!DmaAhead
  <2> QED
    BY <2>1, <2>3, <2>6, <2>7, <2>8 DEF RxParts
<1> QED
  BY <1>4, <1>5

LEMMA RxOpen ==
  ASSUME RxParts, ~miscounted, NEW f \in {"interrupts", "dma"}, Rx!Open(f)
  PROVE  RxParts'
<1>1. /\ open_flag = "closed" /\ open_flag' = f
      /\ rx_buffer' = rx_buffer /\ rx_put_index' = rx_put_index /\ rx_get_index' = rx_get_index
      /\ is_full' = is_full /\ dma_index' = dma_index /\ last_index' = last_index
      /\ complete_irq' = complete_irq /\ in_isr' = in_isr
      /\ unread' = unread /\ arriving' = arriving /\ miscounted' = miscounted
  BY DEF Rx!Open, Rx!fifoVars, Rx!dmaVars
<1>2. RxTypes /\ Rx!IndicesMeet /\ Rx!DmaAhead /\ RxKept /\ Bufsz \in Nat \ {0}
  BY RxShape
<1>3. RxTypes'
  BY <1>1, <1>2 DEF RxTypes
<1>4. Len(unread) = 0 /\ Len(arriving) = 0
  BY <1>1, <1>2 DEF Rx!IndicesMeet, Rx!DmaAhead
<1>5. Rx!IndicesMeet'
  BY <1>1, <1>2, <1>4 DEF Rx!IndicesMeet
<1>6. Rx!DmaAhead'
  BY <1>1, <1>2 DEF Rx!DmaAhead
<1>7. RxKept'
  BY <1>1, <1>2, RxStaysKept
<1> QED
  BY <1>1, <1>3, <1>5, <1>6, <1>7 DEF RxParts

LEMMA RxIdleBegins ==
  ASSUME RxParts, ~miscounted, Rx!IdleBegins
  PROVE  RxParts'
<1>1. /\ open_flag = "dma" /\ ~complete_irq /\ in_isr' = TRUE
      /\ rx_buffer' = rx_buffer /\ rx_put_index' = rx_put_index /\ rx_get_index' = rx_get_index
      /\ is_full' = is_full /\ dma_index' = dma_index /\ last_index' = last_index
      /\ complete_irq' = complete_irq /\ open_flag' = open_flag
      /\ unread' = unread /\ arriving' = arriving /\ miscounted' = miscounted
  BY DEF Rx!IdleBegins, Rx!fifoVars
<1>2. RxTypes /\ Rx!IndicesMeet /\ Rx!DmaAhead /\ RxKept
  BY RxShape
<1>3. RxTypes'
  BY <1>1, <1>2 DEF RxTypes
<1>4. Rx!IndicesMeet' /\ Rx!DmaAhead'
  BY <1>1, <1>2 DEF Rx!IndicesMeet, Rx!DmaAhead
<1>5. RxKept'
  BY <1>1, <1>2, RxStaysKept
<1> QED
  BY <1>1, <1>3, <1>4, <1>5 DEF RxParts

LEMMA RxNext ==
  ASSUME Rx!Inv, Rx!Next
  PROVE  Rx!Inv'
<1>1. RxParts
  BY RxInvParts
<1>2. ~miscounted
  <2> SUFFICES ASSUME miscounted PROVE FALSE
    OBVIOUS
  <2>1. open_flag = "dma" /\ complete_irq /\ ~in_isr
    BY <1>1 DEF RxParts
  <2> QED
    BY <2>1 DEF Rx!Next, Rx!ReceiveByte, Rx!DmaWrites, Rx!ReadByte, Rx!Open, Rx!RxCpltCallback,
                Rx!IdleBegins, Rx!IdleReports, Rx!DmaRead
<1>3. ASSUME NEW b \in Bytes, Rx!ReceiveByte(b) PROVE RxParts'
  BY <1>1, <1>2, <1>3, RxReceiveByte
<1>4. ASSUME NEW b \in Bytes, Rx!DmaWrites(b) PROVE RxParts'
  BY <1>1, <1>2, <1>4, RxDmaWrites
<1>5. ASSUME Rx!ReadByte PROVE RxParts'
  BY <1>1, <1>2, <1>5, RxReadByte
<1>6. ASSUME NEW f \in {"interrupts", "dma"}, Rx!Open(f) PROVE RxParts'
  BY <1>1, <1>2, <1>6, RxOpen
<1>7. ASSUME Rx!RxCpltCallback PROVE RxParts'
  BY <1>1, <1>2, <1>7, RxCallback
<1>8. ASSUME Rx!IdleBegins PROVE RxParts'
  BY <1>1, <1>2, <1>8, RxIdleBegins
<1>9. ASSUME Rx!IdleReports PROVE RxParts'
  BY <1>1, <1>2, <1>9, RxIdleReports
<1>10. ASSUME NEW length \in 1..Bufsz, Rx!DmaRead(length) PROVE RxParts'
  BY <1>1, <1>2, <1>10, RxDmaRead
<1>11. RxParts'
  BY <1>3, <1>4, <1>5, <1>6, <1>7, <1>8, <1>9, <1>10 DEF Rx!Next
<1> QED
  BY <1>11, RxInvPartsNext

LEMMA RxStays == ASSUME Rx!Inv, UNCHANGED rxVars PROVE Rx!Inv'
<1>1. RxParts
  BY RxInvParts
<1>2. RxParts'
  BY <1>1 DEF rxVars, RxParts, RxTypes, Rx!IndicesMeet, Rx!DmaAhead, RxKept, Kept
<1> QED
  BY <1>2, RxInvPartsNext

LEMMA RxKeepsNewest == Rx!Inv => Rx!KeepsNewest
<1> SUFFICES ASSUME Rx!Inv, ~miscounted PROVE
        /\ Rx!RecvedLen = Len(unread)
        /\ \A i \in DOMAIN unread : rx_buffer[(rx_get_index + i - 1) % Bufsz] # unread[i] =>
                                      i + Bufsz <= Len(unread) + Len(arriving)
  BY DEF Rx!KeepsNewest
<1>1. RxParts
  BY RxInvParts
<1>2. Rx!RecvedLen = Len(unread)
  BY <1>1, RxCounts
<1>3. unread \in Seq(Bytes) /\ arriving \in Seq(Bytes) /\ RxKept
  BY <1>1, RxShape
<1>4. ASSUME NEW i \in DOMAIN unread, rx_buffer[(rx_get_index + i - 1) % Bufsz] # unread[i]
      PROVE  i + Bufsz <= Len(unread) + Len(arriving)
  <2>1. /\ Len(unread) \in Nat /\ Len(arriving) \in Nat /\ i \in 1..Len(unread)
        /\ Len(unread \o arriving) = Len(unread) + Len(arriving)
        /\ (unread \o arriving)[i] = unread[i]
    BY <1>3
  <2>2. i \in 1..Len(unread \o arriving)
    BY <2>1
  <2> QED
    BY <1>3, <1>4, <2>1, <2>2 DEF RxKept, Kept
<1> QED
  BY <1>2, <1>4

-----------------------------------------------------------------------------
(* Ring buffers.                                                           *)
LEMMA RbSize == BufferSize \in Nat \ {0} /\ None \notin Bytes
BY DeviceAssumption DEF Rb!RingBufferAssumption

\* Is the write index, in the mirror, ahead by a whole buffer?
RbTurned == IF rb.read_mirror = rb.write_mirror THEN 0 ELSE BufferSize

LEMMA RbShape ==
  ASSUME Rb!Inv
  PROVE  /\ rb = [read_mirror |-> rb.read_mirror, read_index |-> rb.read_index,
                  write_mirror |-> rb.write_mirror, write_index |-> rb.write_index]
         /\ rb.read_mirror \in BOOLEAN /\ rb.write_mirror \in BOOLEAN
         /\ rb.read_index \in 0..(BufferSize - 1) /\ rb.write_index \in 0..(BufferSize - 1)
         /\ Rb!DataLen \in 0..BufferSize
         /\ rb.write_index = rb.read_index + Rb!DataLen - RbTurned
         /\ rb.write_index = (rb.read_index + Rb!DataLen) % BufferSize
         /\ rb.read_mirror = rb.write_mirror => Rb!DataLen < BufferSize
         /\ buffer \in [0..(BufferSize - 1) -> Bytes \cup {None}] /\ data \in Seq(Bytes)
<1>1. /\ rb \in [read_mirror : BOOLEAN, read_index : Rb!Cells, write_mirror : BOOLEAN, write_index : Rb!Cells]
      /\ buffer \in [Rb!Cells -> Bytes \cup {None}] /\ data \in Seq(Bytes)
  BY DEF Rb!Inv, Rb!TypeOK
<1>2. /\ rb = [read_mirror |-> rb.read_mirror, read_index |-> rb.read_index,
               write_mirror |-> rb.write_mirror, write_index |-> rb.write_index]
      /\ rb.read_mirror \in BOOLEAN /\ rb.write_mirror \in BOOLEAN
      /\ rb.read_index \in 0..(BufferSize - 1) /\ rb.write_index \in 0..(BufferSize - 1)
  BY <1>1 DEF Rb!Cells
<1> DEFINE r == rb.read_index
           w == rb.write_index
           n == Rb!DataLen
<1>3. IF rb.read_mirror = rb.write_mirror THEN r <= w ELSE w <= r
  BY DEF Rb!Inv, Rb!MirrorsTell
<1>4. ASSUME rb.read_mirror = rb.write_mirror
      PROVE  n \in 0..BufferSize /\ w = r + n - RbTurned /\ n < BufferSize
  <2>1. n = w - r
    BY <1>2, <1>3, <1>4 DEF Rb!DataLen
  <2>a. RbTurned = 0
    BY <1>4 DEF RbTurned
  <2>b. r \in 0..(BufferSize - 1) /\ w \in 0..(BufferSize - 1) /\ r <= w /\ BufferSize \in Nat
    BY <1>2, <1>3, <1>4, RbSize
  <2> HIDE DEF n, r, w
  <2>2. n \in 0..BufferSize /\ w = r + n - RbTurned /\ n < BufferSize
    BY <2>a, <2>b, <2>1
  <2> QED
    BY <2>2
<1>5. ASSUME rb.read_mirror # rb.write_mirror
      PROVE  n \in 0..BufferSize /\ w = r + n - RbTurned
  <2>1. n = BufferSize - (r - w)
    BY <1>2, <1>3, <1>5, RbSize DEF Rb!DataLen
  <2>a. RbTurned = BufferSize
    BY <1>5 DEF RbTurned
  <2>b. r \in 0..(BufferSize - 1) /\ w \in 0..(BufferSize - 1) /\ w <= r /\ BufferSize \in Nat
    BY <1>2, <1>3, <1>5, RbSize
  <2> HIDE DEF n, r, w
  <2>2. n \in 0..BufferSize /\ w = r + n - RbTurned
    BY <2>a, <2>b, <2>1
  <2> QED
    BY <2>2
<1>6. n \in 0..BufferSize /\ w = r + n - RbTurned /\ (rb.read_mirror = rb.write_mirror => n < BufferSize)
  BY <1>4, <1>5
<1>7. w = (r + n) % BufferSize
  <2> DEFINE a == r + n
             k == IF rb.read_mirror = rb.write_mirror THEN 0 ELSE 1
  <2> HIDE DEF n, r, w
  <2>1. a \in Int /\ k \in Int /\ w \in 0..(BufferSize - 1) /\ a = BufferSize * k + w
    BY <1>2, <1>6, RbSize DEF RbTurned, r, w
  <2> HIDE DEF a, k
  <2>2. a % BufferSize = w
    BY <2>1, RbSize, ModUnique
  <2> QED
    BY <2>2 DEF a
<1> QED
  BY <1>1, <1>2, <1>6, <1>7 DEF Rb!Cells

\* The slot of the k-th byte from the read index, counted from the write index.
LEMMA RbSlot ==
  ASSUME Rb!Inv, NEW j \in Int, NEW k \in Int,
         k = Rb!DataLen + j \/ k + BufferSize = Rb!DataLen + j
  PROVE  (rb.write_index + j) % BufferSize = (rb.read_index + k) % BufferSize
<1> DEFINE r == rb.read_index
           n == Rb!DataLen
           a == r + n
<1>1. r \in Int /\ n \in Int /\ rb.write_index = a % BufferSize /\ a \in Int
  BY RbShape
<1>2. (rb.write_index + j) % BufferSize = (a + j) % BufferSize
  <2> HIDE DEF a
  <2>1. ((a % BufferSize) + j) % BufferSize = (a + j) % BufferSize
    BY <1>1, RbSize, ModSum
  <2> QED
    BY <1>1, <2>1
<1>3. (a + j) % BufferSize = (r + k) % BufferSize
  <2>0. k = n + j \/ k + BufferSize = n + j
    OBVIOUS
  <2> HIDE DEF r, n
  <2>1. CASE k = n + j
    <3>1. a + j = r + k
      BY <1>1, <2>1
    <3> QED
      BY <3>1
  <2>2. CASE k + BufferSize = n + j
    <3> DEFINE q == (r + k) \div BufferSize
               x == (r + k) % BufferSize
    <3>1. r + k \in Int
      BY <1>1
    <3>2. q \in Int /\ x \in 0..(BufferSize - 1) /\ r + k = BufferSize * q + x
      BY <3>1, RbSize, DivMod
    <3> HIDE DEF q, x
    <3>3. a + j \in Int /\ q + 1 \in Int /\ a + j = BufferSize * (q + 1) + x
      BY <1>1, <2>2, <3>2, RbSize
    <3> HIDE DEF a
    <3>4. (a + j) % BufferSize = x
      BY <3>2, <3>3, RbSize, ModUnique
    <3> QED
      BY <3>4 DEF x
  <2> QED
    BY <2>0, <2>1, <2>2
<1> QED
  BY <1>2, <1>3

\* What is copied starts at the write index; the other cells stay.
LEMMA RbCopied ==
  ASSUME Rb!Inv, NEW s \in Seq(Bytes), Len(s) \in 0..BufferSize, NEW j \in 0..(BufferSize - 1)
  PROVE  Rb!Copied(s)[(rb.write_index + j) % BufferSize]
           = IF j < Len(s) THEN s[j + 1] ELSE buffer[(rb.write_index + j) % BufferSize]
<1> DEFINE w == rb.write_index
           a == w + j
           c == a % BufferSize
<1>1. w \in 0..(BufferSize - 1) /\ a \in Int /\ -w \in Int
  BY RbShape
<1>2. c \in 0..(BufferSize - 1)
  <2> HIDE DEF a
  <2> QED
    BY <1>1, RbSize, DivMod
<1>3. (c - w) % BufferSize = j
  <2> DEFINE m == -w
  <2>1. m \in Int
    BY <1>1
  <2> HIDE DEF a, m
  <2>2. (c + m) % BufferSize = (a + m) % BufferSize
    BY <1>1, <2>1, RbSize, ModSum
  <2>3. c - w = c + m
    <3> HIDE DEF c
    <3> QED
      BY <1>1, <1>2 DEF m
  <2>4. a + m = j
    BY <1>1 DEF a, m
  <2>5. j % BufferSize = j
    <3>1. j \in 0..(2 * BufferSize - 1) /\ j < BufferSize
      BY RbSize
    <3> QED
      BY <3>1, RbSize, ModOnce
  <2> HIDE DEF c
  <2> QED
    BY <2>2, <2>3, <2>4, <2>5
<1>4. Rb!Copied(s)[c] = IF (c - w) % BufferSize < Len(s) THEN s[((c - w) % BufferSize) + 1] ELSE buffer[c]
  BY <1>2 DEF Rb!Copied, Rb!Cells
<1> HIDE DEF c, w
<1>5. Rb!Copied(s)[c] = IF j < Len(s) THEN s[j + 1] ELSE buffer[c]
  BY <1>3, <1>4
<1> QED
  BY <1>5 DEF c, w

LEMMA RbCopiedType ==
  ASSUME Rb!Inv, NEW s \in Seq(Bytes)
  PROVE  Rb!Copied(s) \in [Rb!Cells -> Bytes \cup {None}]
<1>1. ASSUME NEW c \in Rb!Cells
      PROVE  LET i == (c - rb.write_index) % BufferSize
             IN  (IF i < Len(s) THEN s[i + 1] ELSE buffer[c]) \in Bytes \cup {None}
  <2> DEFINE a == c - rb.write_index
             i == a % BufferSize
  <2>1. a \in Int
    BY RbShape, RbSize DEF Rb!Cells
  <2> HIDE DEF a
  <2>2. i \in 0..(BufferSize - 1)
    BY <2>1, RbSize, DivMod
  <2> HIDE DEF i
  <2>3. i < Len(s) => i + 1 \in 1..Len(s)
    BY <2>2, RbSize
  <2>4. i < Len(s) => s[i + 1] \in Bytes
    BY <2>3
  <2>5. buffer[c] \in Bytes \cup {None}
    BY RbShape DEF Rb!Cells
  <2> QED
    BY <2>4, <2>5 DEF i, a
<1> QED
  BY <1>1 DEF Rb!Copied

\* The write index moved n on, and what the buffer would hold then.
LEMMA RbWritten ==
  ASSUME Rb!Inv, NEW n \in 1..BufferSize
  PROVE  /\ Rb!Written(n).read_mirror = rb.read_mirror /\ Rb!Written(n).read_index = rb.read_index
         /\ Rb!Written(n).write_mirror
              = IF rb.write_index + n < BufferSize THEN rb.write_mirror ELSE ~rb.write_mirror
         /\ Rb!Written(n).write_index
              = IF rb.write_index + n < BufferSize THEN rb.write_index + n ELSE rb.write_index + n - BufferSize
         /\ Rb!Written(n) \in [read_mirror : BOOLEAN, read_index : Rb!Cells,
                               write_mirror : BOOLEAN, write_index : Rb!Cells]
<1>1. /\ rb = [read_mirror |-> rb.read_mirror, read_index |-> rb.read_index,
               write_mirror |-> rb.write_mirror, write_index |-> rb.write_index]
      /\ rb.read_mirror \in BOOLEAN /\ rb.write_mirror \in BOOLEAN
      /\ rb.read_index \in 0..(BufferSize - 1) /\ rb.write_index \in 0..(BufferSize - 1)
  BY RbShape
<1>2. BufferSize - rb.write_index > n <=> rb.write_index + n < BufferSize
  BY <1>1, RbSize
<1>3. CASE rb.write_index + n < BufferSize
  <2>1. Rb!Written(n) = [rb EXCEPT !.write_index = rb.write_index + n]
    BY <1>2, <1>3 DEF Rb!Written
  <2>2. Rb!Written(n) = [read_mirror |-> rb.read_mirror, read_index |-> rb.read_index,
                         write_mirror |-> rb.write_mirror, write_index |-> rb.write_index + n]
    BY <1>1, <2>1
  <2>3. rb.write_index + n \in 0..(BufferSize - 1)
    BY <1>1, <1>3, RbSize
  <2> QED
    BY <1>1, <1>3, <2>2, <2>3 DEF Rb!Cells
<1>4. CASE ~(rb.write_index + n < BufferSize)
  <2>1. Rb!Written(n) = [rb EXCEPT !.write_mirror = ~rb.write_mirror,
                                   !.write_index = n - (BufferSize - rb.write_index)]
    BY <1>2, <1>4 DEF Rb!Written
  <2>2. Rb!Written(n) = [read_mirror |-> rb.read_mirror, read_index |-> rb.read_index,
                         write_mirror |-> ~rb.write_mirror,
                         write_index |-> n - (BufferSize - rb.write_index)]
    BY <1>1, <2>1
  <2>3. /\ n - (BufferSize - rb.write_index) \in 0..(BufferSize - 1)
        /\ n - (BufferSize - rb.write_index) = rb.write_index + n - BufferSize
    BY <1>1, <1>4, RbSize
  <2> QED
    BY <1>1, <1>4, <2>2, <2>3 DEF Rb!Cells
<1> QED
  BY <1>3, <1>4

\* The buffer holds data, byte by byte.
RbTells ==
  /\ Rb!DataLen = Len(data)
  /\ \A i \in 1..Len(data) : buffer[(rb.read_index + (i - 1)) % BufferSize] = data[i]

LEMMA RbFaithful == ASSUME Rb!Inv PROVE Rb!Faithful <=> RbTells
<1>1. /\ Rb!DataLen \in Nat /\ rb.read_index \in Int /\ data \in Seq(Bytes)
  BY RbShape
<1>2. Rb!Contents = [i \in 1..Rb!DataLen |-> buffer[(rb.read_index + i - 1) % BufferSize]]
  BY DEF Rb!Contents
<1>3. ASSUME NEW i \in 1..Rb!DataLen
      PROVE  Rb!Contents[i] = buffer[(rb.read_index + (i - 1)) % BufferSize]
  <2>1. rb.read_index + i - 1 = rb.read_index + (i - 1)
    BY <1>1
  <2> QED
    BY <1>2, <2>1
<1>4. data = [i \in 1..Len(data) |-> data[i]] /\ Len(data) \in Nat /\ DOMAIN data = 1..Len(data)
  BY <1>1
<1>5. ASSUME Rb!Contents = data PROVE RbTells
  <2>1. DOMAIN Rb!Contents = 1..Rb!DataLen
    BY <1>2
  <2>2. 1..Rb!DataLen = 1..Len(data)
    BY <1>4, <1>5, <2>1
  <2>3. Rb!DataLen = Len(data)
    BY <1>1, <1>4, <2>2
  <2> QED
    BY <1>3, <1>5, <2>3 DEF RbTells
<1>6. ASSUME RbTells PROVE Rb!Contents = data
  <2>1. Rb!Contents = [i \in 1..Len(data) |-> Rb!Contents[i]]
    BY <1>2, <1>6 DEF RbTells
  <2>2. \A i \in 1..Len(data) : Rb!Contents[i] = data[i]
    BY <1>3, <1>6 DEF RbTells
  <2> QED
    BY <1>4, <2>1, <2>2
<1> QED
  BY <1>5, <1>6 DEF Rb!Faithful

LEMMA RbFaithfulNext == (Rb!Inv => (Rb!Faithful <=> RbTells))'
<1>1. Rb!Inv => (Rb!Faithful <=> RbTells)
  BY RbFaithful
<1> QED
  BY <1>1, PTL

\* How much the buffer holds, by its indices.
LEMMA RbLength == Rb!Inv => Rb!DataLen = rb.write_index - rb.read_index + RbTurned
<1> SUFFICES ASSUME Rb!Inv PROVE Rb!DataLen = rb.write_index - rb.read_index + RbTurned
  OBVIOUS
<1> DEFINE n == Rb!DataLen
           t == RbTurned
<1>1. /\ n \in Int /\ rb.read_index \in Int /\ rb.write_index \in Int
      /\ rb.write_index = rb.read_index + n - t
  BY RbShape
<1>2. t \in Int
  BY RbSize DEF RbTurned
<1> HIDE DEF n, t
<1>3. n = rb.write_index - rb.read_index + t
  BY <1>1, <1>2
<1> QED
  BY <1>3 DEF n, t

LEMMA RbLengthNext == (Rb!Inv => Rb!DataLen = rb.write_index - rb.read_index + RbTurned)'
BY RbLength, PTL

\* New indices that agree with the mirrors are a state of the buffer.
LEMMA RbAfter ==
  ASSUME Rb!Inv, NEW s \in Seq(Bytes), NEW d \in Seq(Bytes),
         buffer' = Rb!Copied(s) \/ buffer' = buffer, data' = d,
         rb' \in [read_mirror : BOOLEAN, read_index : Rb!Cells,
                  write_mirror : BOOLEAN, write_index : Rb!Cells],
         IF rb'.read_mirror = rb'.write_mirror THEN rb'.read_index <= rb'.write_index
         ELSE rb'.write_index <= rb'.read_index
  PROVE  Rb!Inv'
<1>1. buffer' \in [Rb!Cells -> Bytes \cup {None}]
  BY RbCopiedType, RbShape DEF Rb!Cells
<1>2. Rb!Cells' = Rb!Cells
  BY DEF Rb!Cells
<1> QED
  BY <1>1, <1>2 DEF Rb!Inv, Rb!TypeOK, Rb!MirrorsTell

\* What fits is added.
LEMMA RbStores ==
  ASSUME Rb!Inv, Rb!Faithful, NEW s \in Seq(Bytes), Len(s) \in 1..Rb!Space,
         buffer' = Rb!Copied(s), rb' = Rb!Written(Len(s)), data' = data \o s
  PROVE  Rb!Inv' /\ Rb!Faithful'
<1> DEFINE n == Len(s)
           D == Rb!DataLen
           r == rb.read_index
           w == rb.write_index
<1>1. /\ r \in 0..(BufferSize - 1) /\ w \in 0..(BufferSize - 1) /\ D \in 0..BufferSize
      /\ w = r + D - RbTurned /\ n \in 1..(BufferSize - D) /\ BufferSize \in Nat \ {0}
      /\ rb.read_mirror \in BOOLEAN /\ rb.write_mirror \in BOOLEAN
      /\ data \in Seq(Bytes) /\ D = Len(data)
  BY RbShape, RbSize, RbFaithful DEF Rb!Space, RbTells
<1>2. /\ rb'.read_mirror = rb.read_mirror /\ rb'.read_index = r
      /\ rb'.write_mirror = IF w + n < BufferSize THEN rb.write_mirror ELSE ~rb.write_mirror
      /\ rb'.write_index = IF w + n < BufferSize THEN w + n ELSE w + n - BufferSize
      /\ rb' \in [read_mirror : BOOLEAN, read_index : Rb!Cells,
                  write_mirror : BOOLEAN, write_index : Rb!Cells]
  <2>1. n \in 1..BufferSize
    BY <1>1
  <2> HIDE DEF n
  <2> QED
    BY <2>1, RbWritten DEF n
<1> HIDE DEF n, D, r, w
<1>3. /\ IF rb'.read_mirror = rb'.write_mirror THEN rb'.read_index <= rb'.write_index
         ELSE rb'.write_index <= rb'.read_index
      /\ rb'.write_index = r + (D + n) - RbTurned'
  <2>0. rb'.read_index = r
    BY <1>2
  <2>1. CASE rb.read_mirror = rb.write_mirror /\ w + n < BufferSize
    <3>1. RbTurned = 0 /\ RbTurned' = 0 /\ rb'.read_mirror = rb'.write_mirror
      BY <1>2, <2>1 DEF RbTurned
    <3>2. rb'.write_index = w + n
      BY <1>2, <2>1
    <3>3. r <= rb'.write_index /\ rb'.write_index = r + (D + n) - RbTurned'
      <4> DEFINE v == rb'.write_index
                 T == RbTurned
                 T1 == RbTurned'
      <4>1. v = w + n /\ T = 0 /\ T1 = 0 /\ w = r + D - T
        BY <1>1, <3>1, <3>2
      <4> HIDE DEF v, T, T1
      <4>2. r <= v /\ v = r + (D + n) - T1
        BY <1>1, <4>1
      <4> QED
        BY <4>2 DEF v, T1
    <3> QED
      BY <2>0, <3>1, <3>3
  <2>2. CASE rb.read_mirror # rb.write_mirror /\ w + n < BufferSize
    <3>1. RbTurned = BufferSize /\ RbTurned' = BufferSize /\ rb'.read_mirror # rb'.write_mirror
      BY <1>2, <2>2 DEF RbTurned
    <3>2. rb'.write_index = w + n
      BY <1>2, <2>2
    <3>3. rb'.write_index <= r /\ rb'.write_index = r + (D + n) - RbTurned'
      <4> DEFINE v == rb'.write_index
                 T == RbTurned
                 T1 == RbTurned'
      <4>1. v = w + n /\ T = BufferSize /\ T1 = BufferSize /\ w = r + D - T
        BY <1>1, <3>1, <3>2
      <4> HIDE DEF v, T, T1, n, D, r, w
      <4>2. v <= r /\ v = r + (D + n) - T1
        BY <1>1, <4>1, SMTT(30)
      <4> QED
        BY <4>2 DEF v, T1
    <3> QED
      BY <2>0, <3>1, <3>3
  <2>3. CASE rb.read_mirror = rb.write_mirror /\ ~(w + n < BufferSize)
    <3>1. RbTurned = 0 /\ RbTurned' = BufferSize /\ rb'.read_mirror # rb'.write_mirror
      BY <1>1, <1>2, <2>3 DEF RbTurned
    <3>2. rb'.write_index = w + n - BufferSize
      BY <1>2, <2>3
    <3>3. rb'.write_index <= r /\ rb'.write_index = r + (D + n) - RbTurned'
      <4> DEFINE v == rb'.write_index
                 T == RbTurned
                 T1 == RbTurned'
      <4>1. v = w + n - BufferSize /\ T = 0 /\ T1 = BufferSize /\ w = r + D - T
        BY <1>1, <3>1, <3>2
      <4> HIDE DEF v, T, T1, n, D, r, w
      <4>2. v <= r /\ v = r + (D + n) - T1
        BY <1>1, <4>1, SMTT(30)
      <4> QED
        BY <4>2 DEF v, T1
    <3> QED
      BY <2>0, <3>1, <3>3
  <2>4. CASE rb.read_mirror # rb.write_mirror /\ ~(w + n < BufferSize)
    <3>1. RbTurned = BufferSize
      BY <2>4 DEF RbTurned
    <3>2. w + n < BufferSize
      BY <1>1, <3>1
    <3> QED
      BY <2>4, <3>2
  <2> QED
    BY <2>1, <2>2, <2>3, <2>4
<1>4. data \o s \in Seq(Bytes) /\ Len(data \o s) = D + n
      /\ \A i \in 1..(D + n) : (data \o s)[i] = IF i <= D THEN data[i] ELSE s[i - D]
  BY <1>1, ConcatProperties DEF n
<1>5. Rb!Inv'
  BY <1>2, <1>3, <1>4, RbAfter
<1>6. Rb!DataLen' = D + n
  <2> DEFINE D1 == Rb!DataLen'
             T1 == RbTurned'
             w1 == rb'.write_index
  <2>1. D1 = w1 - r + T1 /\ w1 = r + (D + n) - T1
    BY <1>2, <1>3, <1>5, RbLengthNext
  <2>2. T1 \in Int /\ w1 \in Int
    BY <1>1, <1>2, RbSize DEF RbTurned, Rb!Cells
  <2> HIDE DEF D1, T1, w1
  <2>3. D1 = D + n
    BY <1>1, <2>1, <2>2
  <2> QED
    BY <2>3 DEF D1
<1>7. ASSUME NEW i \in 1..(D + n)
      PROVE  Rb!Copied(s)[(r + (i - 1)) % BufferSize] = IF i <= D THEN data[i] ELSE s[i - D]
  <2> DEFINE k == i - 1
  <2>1. CASE i <= D
    <3> DEFINE j == k - D + BufferSize
    <3>1. j \in 0..(BufferSize - 1) /\ ~(j < n) /\ k \in Int /\ k + BufferSize = D + j /\ j \in Int
      BY <1>1, <2>1
    <3> HIDE DEF j, k
    <3>2. (w + j) % BufferSize = (r + k) % BufferSize
      BY <3>1, RbSlot DEF w, r, D
    <3>3. Rb!Copied(s)[(w + j) % BufferSize] = buffer[(w + j) % BufferSize]
      <4>1. Len(s) \in 0..BufferSize
        BY <1>1 DEF n
      <4> QED
        BY <3>1, <4>1, RbCopied DEF w, n
    <3>4. buffer[(r + k) % BufferSize] = data[i]
      <4>1. i \in 1..Len(data)
        BY <1>1, <2>1
      <4> QED
        BY <4>1, RbFaithful DEF RbTells, r, k
    <3>5. Rb!Copied(s)[(r + k) % BufferSize] = data[i]
      BY <3>2, <3>3, <3>4
    <3> QED
      BY <2>1, <3>5 DEF k
  <2>2. CASE ~(i <= D)
    <3> DEFINE j == k - D
    <3>1. /\ j \in 0..(BufferSize - 1) /\ j < n /\ k \in Int /\ k = D + j /\ j \in Int /\ j + 1 = i - D
      BY <1>1, <2>2
    <3> HIDE DEF j, k
    <3>2. (w + j) % BufferSize = (r + k) % BufferSize
      BY <3>1, RbSlot DEF w, r, D
    <3>3. Rb!Copied(s)[(w + j) % BufferSize] = s[j + 1]
      <4>1. Len(s) \in 0..BufferSize
        BY <1>1 DEF n
      <4> QED
        BY <3>1, <4>1, RbCopied DEF w, n
    <3>4. Rb!Copied(s)[(r + k) % BufferSize] = s[i - D]
      BY <3>1, <3>2, <3>3
    <3> QED
      BY <2>2, <3>4 DEF k
  <2> QED
    BY <2>1, <2>2
<1>8. RbTells'
  <2>1. Rb!DataLen' = Len(data')
    BY <1>4, <1>6
  <2>2. \A i \in 1..Len(data') : buffer'[(rb'.read_index + (i - 1)) % BufferSize] = data'[i]
    BY <1>2, <1>4, <1>7
  <2> QED
    BY <2>1, <2>2 DEF RbTells
<1> QED
  BY <1>5, <1>8, RbFaithfulNext

\* What is forced in beyond the room there is: the mirrors decide.
LEMMA RbForces ==
  ASSUME Rb!Inv, Rb!Faithful, NEW s \in Seq(Bytes), Len(s) \in 1..BufferSize, ~(Len(s) <= Rb!Space),
         NEW after, after = Rb!Written(Len(s)),
         buffer' = Rb!Copied(s), data' = Rb!LastOf(data \o s, BufferSize),
         rb' = [after EXCEPT !.read_index = after.write_index,
                             !.read_mirror = IF after.write_mirror # rb.write_mirror THEN ~@ ELSE @]
  PROVE  /\ Rb!Inv'
         /\ \/ Rb!Faithful'
            \/ /\ rb.read_mirror = rb.write_mirror
               /\ rb.read_index <= rb.write_index
               /\ Rb!Contents' = << >>
<1> DEFINE n == Len(s)
           D == Rb!DataLen
           r == rb.read_index
           w == rb.write_index
           e == D + n - BufferSize
           v == rb'.write_index
<1>1. /\ r \in 0..(BufferSize - 1) /\ w \in 0..(BufferSize - 1) /\ D \in 0..BufferSize
      /\ w = r + D - RbTurned /\ n \in 1..BufferSize /\ BufferSize \in Nat \ {0}
      /\ rb.read_mirror \in BOOLEAN /\ rb.write_mirror \in BOOLEAN
      /\ data \in Seq(Bytes) /\ D = Len(data)
  BY RbShape, RbSize, RbFaithful DEF RbTells
<1>2. D + n > BufferSize
  <2>1. ~(n <= BufferSize - D)
    BY DEF Rb!Space
  <2> HIDE DEF n, D
  <2> QED
    BY <1>1, <2>1
<1>3. /\ rb' \in [read_mirror : BOOLEAN, read_index : Rb!Cells,
                  write_mirror : BOOLEAN, write_index : Rb!Cells]
      /\ v = IF w + n < BufferSize THEN w + n ELSE w + n - BufferSize
      /\ rb'.read_index = v
      /\ rb'.write_mirror = IF w + n < BufferSize THEN rb.write_mirror ELSE ~rb.write_mirror
      /\ rb'.read_mirror = IF w + n < BufferSize THEN rb.read_mirror ELSE ~rb.read_mirror
  <2>1. /\ after.read_mirror = rb.read_mirror /\ after.read_index = r
        /\ after.write_mirror = IF w + n < BufferSize THEN rb.write_mirror ELSE ~rb.write_mirror
        /\ after.write_index = IF w + n < BufferSize THEN w + n ELSE w + n - BufferSize
        /\ after \in [read_mirror : BOOLEAN, read_index : Rb!Cells,
                      write_mirror : BOOLEAN, write_index : Rb!Cells]
    <3> HIDE DEF n
    <3> QED
      BY <1>1, RbWritten DEF n
  <2>2. after.write_mirror # rb.write_mirror <=> ~(w + n < BufferSize)
    BY <1>1, <2>1
  <2>3. /\ rb'.write_mirror = after.write_mirror /\ rb'.write_index = after.write_index
        /\ rb'.read_index = after.write_index
        /\ rb'.read_mirror = IF after.write_mirror # rb.write_mirror THEN ~after.read_mirror
                             ELSE after.read_mirror
        /\ rb' \in [read_mirror : BOOLEAN, read_index : Rb!Cells,
                    write_mirror : BOOLEAN, write_index : Rb!Cells]
    BY <2>1
  <2> QED
    BY <2>1, <2>2, <2>3
<1> HIDE DEF n, D, r, w, v
<1>4. rb'.read_mirror = rb'.write_mirror <=> rb.read_mirror = rb.write_mirror
  BY <1>1, <1>3
<1>5. v \in 0..(BufferSize - 1) /\ rb'.write_index = v
  BY <1>3 DEF Rb!Cells, v
<1>6. /\ data \o s \in Seq(Bytes) /\ Len(data \o s) = D + n
      /\ \A i \in 1..(D + n) : (data \o s)[i] = IF i <= D THEN data[i] ELSE s[i - D]
  BY <1>1, ConcatProperties DEF n
<1>7. /\ e \in 0..Len(data \o s) /\ data' = SubSeq(data \o s, e + 1, Len(data \o s))
  <2> DEFINE m == Len(data \o s)
  <2>0. data' = IF m <= BufferSize THEN data \o s ELSE SubSeq(data \o s, m - BufferSize + 1, m)
    BY DEF Rb!LastOf
  <2>a. m = D + n
    BY <1>6
  <2> HIDE DEF m
  <2>1. ~(m <= BufferSize) /\ m - BufferSize + 1 = e + 1 /\ e \in 0..m
    BY <1>1, <1>2, <2>a
  <2>2. data' = SubSeq(data \o s, e + 1, m)
    BY <2>0, <2>1
  <2> QED
    BY <2>1, <2>2 DEF m
<1> HIDE DEF e
<1>8. data' \in Seq(Bytes) /\ Drops(data', data \o s, e)
  BY <1>6, <1>7, DropsSubSeq
<1>9. /\ Len(data') = BufferSize
      /\ \A i \in 1..BufferSize : data'[i] = IF e + i <= D THEN data[e + i] ELSE s[(e + i) - D]
  <2>1. Len(data') = Len(data \o s) - e /\ \A i \in 1..Len(data') : data'[i] = (data \o s)[e + i]
    BY <1>8 DEF Drops
  <2>2. Len(data') = BufferSize
    BY <1>1, <1>6, <2>1 DEF e
  <2>3. ASSUME NEW i \in 1..BufferSize PROVE e + i \in 1..(D + n)
    BY <1>1, <1>2 DEF e
  <2> QED
    BY <1>6, <2>1, <2>2, <2>3
<1>10. Rb!Inv'
  <2>1. rb'.read_index <= rb'.write_index /\ rb'.write_index <= rb'.read_index
    BY <1>3, <1>5
  <2> QED
    BY <1>3, <1>8, <2>1, RbAfter
<1>11. Rb!DataLen' = RbTurned'
  <2> DEFINE m == Rb!DataLen'
             t == RbTurned'
  <2>1. m = v - v + t /\ t \in Int
    BY <1>3, <1>5, <1>10, RbLengthNext, RbSize DEF RbTurned
  <2> HIDE DEF m, t
  <2>2. m = t
    BY <1>5, <2>1
  <2> QED
    BY <2>2 DEF m, t
<1>12. CASE rb.read_mirror = rb.write_mirror
  <2>1. RbTurned' = 0 /\ RbTurned = 0
    BY <1>4, <1>12 DEF RbTurned
  <2>2. Rb!Contents' = << >>
    <3>1. Rb!DataLen' = 0
      BY <1>11, <2>1
    <3>2. 1..Rb!DataLen' = {}
      BY <3>1
    <3> QED
      BY <3>2 DEF Rb!Contents
  <2>3. r <= w
    BY <1>1, <2>1
  <2> QED
    BY <1>10, <1>12, <2>2, <2>3 DEF r, w
<1>13. CASE rb.read_mirror # rb.write_mirror
  <2>1. RbTurned' = BufferSize /\ RbTurned = BufferSize
    BY <1>4, <1>13 DEF RbTurned
  <2>2. ASSUME NEW i \in 1..BufferSize
        PROVE  Rb!Copied(s)[(v + (i - 1)) % BufferSize] = data'[i]
    <3> DEFINE j == n + (i - 1)
    <3>1. (v + (i - 1)) % BufferSize = (w + j) % BufferSize
      <4> DEFINE h == i - 1
                 c == v + h
      <4>1. CASE w + n < BufferSize
        <5>1. c = w + j
          BY <1>1, <1>3, <4>1
        <5> QED
          BY <5>1
      <4>2. CASE ~(w + n < BufferSize)
        <5>1. v = w + n - BufferSize
          BY <1>3, <4>2
        <5>2. c + BufferSize = w + j /\ c \in Int
          BY <1>1, <1>5, <5>1, SMTT(30)
        <5> HIDE DEF c, j
        <5>3. (c + BufferSize) % BufferSize = c % BufferSize
          BY <5>2, RbSize, ModAround
        <5>4. c % BufferSize = (w + j) % BufferSize
          BY <5>2, <5>3
        <5> QED
          BY <5>4 DEF c
      <4> QED
        BY <4>1, <4>2
    <3>2. CASE e + i <= D
      <4> DEFINE k == (e + i) - 1
      <4>0. e = D + n - BufferSize /\ i \in 1..BufferSize /\ D \in Int /\ n \in Int
        BY <1>1 DEF e
      <4>a. e \in Int /\ e >= 0 /\ n + i <= BufferSize
        BY <1>1, <1>2, <3>2, <4>0, SMTT(30)
      <4>b. j \in 0..(BufferSize - 1) /\ ~(j < n) /\ j \in Int
        BY <1>1, <4>0, <4>a, SMTT(30)
      <4>c. e + i \in 1..D /\ k \in Int
        <5>1. i \in Int /\ i >= 1
          BY <4>0
        <5>2. e + i <= D
          BY <3>2
        <5> HIDE DEF e, D
        <5>3. e + i \in Int /\ e + i >= 1
          BY <4>a, <5>1
        <5>4. e + i \in 1..D
          BY <4>0, <5>2, <5>3
        <5>5. k \in Int
          BY <5>3
        <5> QED
          BY <5>4, <5>5
      <4>d. k + BufferSize = D + j
        <5> HIDE DEF e, D, n
        <5> QED
          BY <4>0, RbSize
      <4>1. /\ j \in 0..(BufferSize - 1) /\ ~(j < n) /\ k \in Int /\ k + BufferSize = D + j /\ j \in Int
            /\ e + i \in 1..D
        BY <4>b, <4>c, <4>d
      <4> HIDE DEF j, k
      <4>2. (w + j) % BufferSize = (r + k) % BufferSize
        BY <4>1, RbSlot DEF w, r, D
      <4>3. Rb!Copied(s)[(w + j) % BufferSize] = buffer[(w + j) % BufferSize]
        <5>1. Len(s) \in 0..BufferSize
          BY <1>1 DEF n
        <5> QED
          BY <4>1, <5>1, RbCopied DEF w, n
      <4>4. buffer[(r + k) % BufferSize] = data[e + i]
        <5>1. e + i \in 1..Len(data)
          BY <1>1, <4>1
        <5> QED
          BY <5>1, RbFaithful DEF RbTells, r, k
      <4>5. data'[i] = data[e + i]
        BY <1>9, <3>2
      <4> QED
        BY <3>1, <4>2, <4>3, <4>4, <4>5
    <3>3. CASE ~(e + i <= D)
      <4> DEFINE h == j - BufferSize
      <4>0. /\ e = D + n - BufferSize /\ i \in 1..BufferSize /\ D \in Int
            /\ n \in 1..BufferSize /\ w \in Int /\ BufferSize \in Nat
        BY <1>1 DEF e
      <4>a. e \in Int /\ n + i > BufferSize
        BY <1>1, <3>3, <4>0
      <4>e. h \in Int /\ h = n + i - 1 - BufferSize /\ w \in Int
        <5> HIDE DEF e, D, n, w
        <5> QED
          BY <4>0
      <4>b. h \in 0..(BufferSize - 1) /\ h < n /\ h \in Int
        <5> HIDE DEF e, D, n, h
        <5> QED
          BY <4>0, <4>a, <4>e
      <4>c. h + 1 = (e + i) - D
        <5> HIDE DEF e, D, n, h
        <5> QED
          BY <4>0, <4>e
      <4>d. w + j = w + h + BufferSize /\ w + h \in Int
        <5> HIDE DEF e, D, n, w
        <5> QED
          BY <4>0
      <4>1. /\ h \in 0..(BufferSize - 1) /\ h < n /\ h \in Int /\ h + 1 = (e + i) - D
            /\ w + j = w + h + BufferSize /\ w + h \in Int
        BY <4>b, <4>c, <4>d
      <4> HIDE DEF h, j
      <4>2. (w + j) % BufferSize = (w + h) % BufferSize
        <5> DEFINE c == w + h
        <5>1. c \in Int /\ w + j = c + BufferSize
          BY <4>1
        <5> HIDE DEF c
        <5>2. (c + BufferSize) % BufferSize = c % BufferSize
          BY <5>1, RbSize, ModAround
        <5>3. (w + j) % BufferSize = c % BufferSize
          BY <5>1, <5>2
        <5> QED
          BY <5>3 DEF c
      <4>3. Rb!Copied(s)[(w + h) % BufferSize] = s[h + 1]
        <5>1. Len(s) \in 0..BufferSize
          BY <1>1 DEF n
        <5> QED
          BY <4>1, <5>1, RbCopied DEF w, n
      <4>4. data'[i] = s[(e + i) - D]
        BY <1>9, <3>3
      <4> QED
        BY <3>1, <4>1, <4>2, <4>3, <4>4
    <3> QED
      BY <3>2, <3>3
  <2>3. Rb!DataLen' = Len(data')
    BY <1>9, <1>11, <2>1
  <2>4. \A i \in 1..Len(data') : buffer'[(rb'.read_index + (i - 1)) % BufferSize] = data'[i]
    BY <1>3, <1>9, <2>2
  <2>5. RbTells'
    BY <2>3, <2>4 DEF RbTells
  <2> QED
    BY <1>10, <2>5, RbFaithfulNext
<1> QED
  BY <1>12, <1>13

\* What is read is gone.
LEMMA RbRecord ==
  ASSUME NEW ring, NEW a \in BOOLEAN, NEW i \in 0..(BufferSize - 1), NEW b \in BOOLEAN,
         NEW j \in 0..(BufferSize - 1),
         ring = [read_mirror |-> a, read_index |-> i, write_mirror |-> b, write_index |-> j]
  PROVE  /\ ring \in [read_mirror : BOOLEAN, read_index : Rb!Cells,
                      write_mirror : BOOLEAN, write_index : Rb!Cells]
         /\ ring.read_mirror = a /\ ring.read_index = i /\ ring.write_mirror = b /\ ring.write_index = j
BY DEF Rb!Cells

LEMMA RbGets ==
  ASSUME Rb!Inv, Rb!Faithful, NEW n \in 1..Rb!DataLen,
         rb' = IF BufferSize - rb.read_index > n
               THEN [rb EXCEPT !.read_index = @ + n]
               ELSE [rb EXCEPT !.read_mirror = ~@, !.read_index = n - (BufferSize - @)],
         data' = SubSeq(data, n + 1, Len(data)), buffer' = buffer
  PROVE  Rb!Inv' /\ Rb!Faithful'
<1> DEFINE D == Rb!DataLen
           r == rb.read_index
           w == rb.write_index
           v == rb'.read_index
<1>1. /\ rb = [read_mirror |-> rb.read_mirror, read_index |-> rb.read_index,
               write_mirror |-> rb.write_mirror, write_index |-> rb.write_index]
      /\ r \in 0..(BufferSize - 1) /\ w \in 0..(BufferSize - 1) /\ D \in 0..BufferSize
      /\ w = r + D - RbTurned /\ n \in 1..D /\ BufferSize \in Nat \ {0}
      /\ rb.read_mirror \in BOOLEAN /\ rb.write_mirror \in BOOLEAN
      /\ data \in Seq(Bytes) /\ D = Len(data)
  BY RbShape, RbSize, RbFaithful DEF RbTells
<1>2. /\ rb' \in [read_mirror : BOOLEAN, read_index : Rb!Cells,
                  write_mirror : BOOLEAN, write_index : Rb!Cells]
      /\ v = IF r + n < BufferSize THEN r + n ELSE r + n - BufferSize
      /\ rb'.write_index = w
      /\ rb'.write_mirror = rb.write_mirror
      /\ rb'.read_mirror = IF r + n < BufferSize THEN rb.read_mirror ELSE ~rb.read_mirror
  <2> HIDE DEF D
  <2>1. BufferSize - rb.read_index > n <=> r + n < BufferSize
    BY <1>1
  <2>2. CASE r + n < BufferSize
    <3>1. rb' = [rb EXCEPT !.read_index = r + n]
      BY <2>1, <2>2
    <3>2. rb' = [read_mirror |-> rb.read_mirror, read_index |-> r + n,
                 write_mirror |-> rb.write_mirror, write_index |-> w]
      BY <1>1, <3>1
    <3>3. r + n \in 0..(BufferSize - 1)
      BY <1>1, <2>2
    <3> DEFINE x == r + n
               ring == rb'
    <3>4. /\ ring = [read_mirror |-> rb.read_mirror, read_index |-> x,
                     write_mirror |-> rb.write_mirror, write_index |-> w]
          /\ x \in 0..(BufferSize - 1)
      BY <3>2, <3>3
    <3> HIDE DEF x, ring
    <3>5. /\ ring \in [read_mirror : BOOLEAN, read_index : Rb!Cells,
                       write_mirror : BOOLEAN, write_index : Rb!Cells]
          /\ ring.read_index = x /\ ring.write_index = w
          /\ ring.write_mirror = rb.write_mirror /\ ring.read_mirror = rb.read_mirror
      BY <1>1, <3>4, RbRecord
    <3> QED
      BY <2>2, <3>5 DEF x, ring
  <2>3. CASE ~(r + n < BufferSize)
    <3>1. rb' = [rb EXCEPT !.read_mirror = ~rb.read_mirror, !.read_index = n - (BufferSize - r)]
      BY <2>1, <2>3
    <3>2. rb' = [read_mirror |-> ~rb.read_mirror, read_index |-> n - (BufferSize - r),
                 write_mirror |-> rb.write_mirror, write_index |-> w]
      BY <1>1, <3>1
    <3>3. n - (BufferSize - r) \in 0..(BufferSize - 1) /\ n - (BufferSize - r) = r + n - BufferSize
      <4>1. n \in 1..BufferSize /\ r \in 0..(BufferSize - 1) /\ BufferSize \in Nat /\ ~(r + n < BufferSize)
        BY <1>1, <2>3
      <4> HIDE DEF r
      <4> QED
        BY <4>1
    <3> DEFINE x == n - (BufferSize - r)
               ring == rb'
    <3>4. /\ ring = [read_mirror |-> ~rb.read_mirror, read_index |-> x,
                     write_mirror |-> rb.write_mirror, write_index |-> w]
      BY <3>2
    <3>a. x \in 0..(BufferSize - 1) /\ x = r + n - BufferSize
      BY <3>3
    <3>b. (~rb.read_mirror) \in BOOLEAN
      OBVIOUS
    <3> HIDE DEF x, ring
    <3>5. /\ ring \in [read_mirror : BOOLEAN, read_index : Rb!Cells,
                       write_mirror : BOOLEAN, write_index : Rb!Cells]
          /\ ring.read_index = x /\ ring.write_index = w
          /\ ring.write_mirror = rb.write_mirror /\ ring.read_mirror = ~rb.read_mirror
      BY <1>1, <3>4, <3>a, <3>b, RbRecord
    <3> QED
      BY <2>3, <3>a, <3>5 DEF ring
  <2> QED
    BY <2>2, <2>3
<1> HIDE DEF D, r, w, v
<1>3. v \in 0..(BufferSize - 1)
  BY <1>2 DEF Rb!Cells, v
<1>4. /\ IF rb'.read_mirror = rb'.write_mirror THEN v <= w ELSE w <= v
      /\ w = v + (D - n) - RbTurned'
  <2>1. CASE rb.read_mirror = rb.write_mirror
    <3>1. RbTurned = 0
      BY <2>1 DEF RbTurned
    <3>2. r + n < BufferSize
      BY <1>1, <3>1
    <3>3. RbTurned' = 0 /\ rb'.read_mirror = rb'.write_mirror /\ v = r + n
      BY <1>2, <2>1, <3>2 DEF RbTurned
    <3> DEFINE T == RbTurned
               T1 == RbTurned'
    <3>4. T = 0 /\ T1 = 0 /\ w = r + D - T
      BY <1>1, <3>1, <3>3
    <3> HIDE DEF T, T1
    <3>5. v <= w /\ w = v + (D - n) - T1
      BY <1>1, <3>3, <3>4
    <3> QED
      BY <3>3, <3>5 DEF T1
  <2>2. CASE rb.read_mirror # rb.write_mirror /\ r + n < BufferSize
    <3>1. RbTurned = BufferSize
      BY <2>2 DEF RbTurned
    <3>3. RbTurned' = BufferSize /\ rb'.read_mirror # rb'.write_mirror /\ v = r + n
      BY <1>2, <2>2 DEF RbTurned
    <3> DEFINE T == RbTurned
               T1 == RbTurned'
    <3>4. T = BufferSize /\ T1 = BufferSize /\ w = r + D - T
      BY <1>1, <3>1, <3>3
    <3> HIDE DEF T, T1
    <3>5. w <= v /\ w = v + (D - n) - T1
      BY <1>1, <3>3, <3>4
    <3> QED
      BY <3>3, <3>5 DEF T1
  <2>3. CASE rb.read_mirror # rb.write_mirror /\ ~(r + n < BufferSize)
    <3>1. RbTurned = BufferSize
      BY <2>3 DEF RbTurned
    <3>3. RbTurned' = 0 /\ rb'.read_mirror = rb'.write_mirror /\ v = r + n - BufferSize
      BY <1>1, <1>2, <2>3 DEF RbTurned
    <3> DEFINE T == RbTurned
               T1 == RbTurned'
    <3>4. T = BufferSize /\ T1 = 0 /\ w = r + D - T
      BY <1>1, <3>1, <3>3
    <3> HIDE DEF T, T1
    <3>5. v <= w /\ w = v + (D - n) - T1
      BY <1>1, <3>3, <3>4
    <3> QED
      BY <3>3, <3>5 DEF T1
  <2> QED
    BY <2>1, <2>2, <2>3
<1>5. n \in 0..Len(data)
  BY <1>1
<1>6. data' \in Seq(Bytes) /\ Drops(data', data, n)
  BY <1>1, <1>5, DropsSubSeq
<1>7. Rb!Inv'
  <2>1. << >> \in Seq(Bytes)
    OBVIOUS
  <2>2. IF rb'.read_mirror = rb'.write_mirror THEN rb'.read_index <= rb'.write_index
        ELSE rb'.write_index <= rb'.read_index
    BY <1>2, <1>4 DEF v
  <2> QED
    BY <1>2, <1>6, <2>1, <2>2, RbAfter
<1>8. Rb!DataLen' = D - n
  <2> DEFINE m == Rb!DataLen'
             t == RbTurned'
  <2>1. m = w - v + t /\ w = v + (D - n) - t /\ t \in Int
    BY <1>2, <1>4, <1>7, RbLengthNext, RbSize DEF RbTurned, v
  <2>a. w \in Int /\ v \in Int /\ D \in Int /\ n \in Int
    BY <1>1, <1>3
  <2> HIDE DEF m, t, D, w, v
  <2>2. m = D - n
    BY <2>1, <2>a
  <2> QED
    BY <2>2 DEF m
<1>9. Len(data') = D - n /\ \A i \in 1..Len(data') : data'[i] = data[n + i]
  BY <1>1, <1>6 DEF Drops
<1>10. ASSUME NEW i \in 1..(D - n)
       PROVE  buffer[(v + (i - 1)) % BufferSize] = data[n + i]
  <2> DEFINE a == r + ((n + i) - 1)
             c == v + (i - 1)
  <2>1. c % BufferSize = a % BufferSize
    <3>1. CASE r + n < BufferSize
      <4>1. c = a
        BY <1>1, <1>2, <3>1
      <4> QED
        BY <4>1
    <3>2. CASE ~(r + n < BufferSize)
      <4>1. v = r + n - BufferSize
        BY <1>2, <3>2
      <4>2. c + BufferSize = a /\ c \in Int
        <5>1. r \in Int /\ n \in Int /\ i \in Int /\ BufferSize \in Int
          BY <1>1
        <5> HIDE DEF r, v
        <5> QED
          BY <4>1, <5>1
      <4> HIDE DEF a, c
      <4>3. (c + BufferSize) % BufferSize = c % BufferSize
        BY <4>2, RbSize, ModAround
      <4> QED
        BY <4>2, <4>3
    <3> QED
      BY <3>1, <3>2
  <2>2. n + i \in 1..Len(data)
    BY <1>1
  <2>3. buffer[a % BufferSize] = data[n + i]
    <3> DEFINE k == n + i
    <3> HIDE DEF k
    <3>1. \A q \in 1..Len(data) : buffer[(r + (q - 1)) % BufferSize] = data[q]
      BY RbFaithful DEF RbTells, r
    <3>2. buffer[(r + (k - 1)) % BufferSize] = data[k]
      BY <2>2, <3>1 DEF k
    <3> QED
      BY <3>2 DEF k
  <2> QED
    BY <2>1, <2>3
<1>11. RbTells'
  <2>1. Rb!DataLen' = Len(data')
    BY <1>8, <1>9
  <2>2. \A i \in 1..Len(data') : buffer'[(rb'.read_index + (i - 1)) % BufferSize] = data'[i]
    BY <1>9, <1>10 DEF v
  <2> QED
    BY <2>1, <2>2 DEF RbTells
<1> QED
  BY <1>7, <1>11, RbFaithfulNext

LEMMA RbInit == Rb!Init => Rb!Inv /\ Rb!Faithful
<1> SUFFICES ASSUME Rb!Init PROVE Rb!Inv /\ Rb!Faithful
  OBVIOUS
<1>1. /\ rb = [read_mirror |-> FALSE, read_index |-> 0, write_mirror |-> FALSE, write_index |-> 0]
      /\ data = << >> /\ buffer = [c \in Rb!Cells |-> None] /\ 0 \in Rb!Cells
  BY RbSize DEF Rb!Init, Rb!Empty, Rb!Cells
<1>2. Rb!Inv
  <2>1. << >> \in Seq(Bytes) /\ rb.read_mirror = rb.write_mirror /\ rb.read_index <= rb.write_index
    BY <1>1
  <2> QED
    BY <1>1, <2>1 DEF Rb!Inv, Rb!TypeOK, Rb!MirrorsTell
<1>3. Rb!DataLen = 0 /\ Len(data) = 0
  BY <1>1 DEF Rb!DataLen
<1>4. RbTells
  BY <1>3 DEF RbTells
<1> QED
  BY <1>2, <1>4, RbFaithful

LEMMA RbStrings == ASSUME NEW s \in Rb!Strings PROVE s \in Seq(Bytes) /\ Len(s) \in 1..(BufferSize + 1)
<1>1. PICK n \in 1..(BufferSize + 1) : s \in [1..n -> Bytes]
  BY DEF Rb!Strings
<1>2. n \in Nat
  BY <1>1, RbSize
<1> QED
  BY <1>1, <1>2

LEMMA RbLast ==
  ASSUME NEW s \in Seq(Bytes), NEW n \in Nat
  PROVE  /\ Rb!LastOf(s, n) \in Seq(Bytes)
         /\ Len(Rb!LastOf(s, n)) = IF Len(s) <= n THEN Len(s) ELSE n
<1>1. CASE Len(s) <= n
  BY <1>1 DEF Rb!LastOf
<1>2. CASE ~(Len(s) <= n)
  <2>1. Rb!LastOf(s, n) = SubSeq(s, (Len(s) - n) + 1, Len(s)) /\ Len(s) - n \in 0..Len(s)
    BY <1>2 DEF Rb!LastOf
  <2>2. Rb!LastOf(s, n) \in Seq(Bytes) /\ Drops(Rb!LastOf(s, n), s, Len(s) - n)
    BY <2>1, DropsSubSeq
  <2> QED
    BY <1>2, <2>2 DEF Drops
<1> QED
  BY <1>1, <1>2

\* Any sequence of bytes put by force.
LEMMA RbForced ==
  ASSUME Rb!Inv, Rb!Faithful, NEW s \in Seq(Bytes), Len(s) >= 1, Rb!PutForce(s)
  PROVE  /\ Rb!Inv'
         /\ \/ Rb!Faithful'
            \/ /\ rb.read_mirror = rb.write_mirror
               /\ rb.read_index <= rb.write_index
               /\ ~(Len(s) <= Rb!Space)
               /\ Rb!Contents' = << >>
<1> DEFINE p == Rb!LastOf(s, BufferSize)
           after == Rb!Written(Len(p))
<1>1. /\ buffer' = Rb!Copied(p)
      /\ rb' = IF Len(p) <= Rb!Space THEN after
               ELSE [after EXCEPT !.read_index = after.write_index,
                                  !.read_mirror = IF after.write_mirror # rb.write_mirror THEN ~@ ELSE @]
      /\ data' = Rb!LastOf(data \o p, BufferSize)
  BY DEF Rb!PutForce
<1>2. p \in Seq(Bytes) /\ Len(p) \in 1..BufferSize /\ Len(p) = IF Len(s) <= BufferSize THEN Len(s) ELSE BufferSize
  <2>1. p \in Seq(Bytes) /\ Len(p) = IF Len(s) <= BufferSize THEN Len(s) ELSE BufferSize
    BY RbSize, RbLast
  <2> HIDE DEF p
  <2> QED
    BY <2>1, RbSize
<1>3. /\ data \in Seq(Bytes) /\ Len(data) \in 0..BufferSize /\ Rb!Space = BufferSize - Len(data)
      /\ data \o p \in Seq(Bytes) /\ Len(data \o p) = Len(data) + Len(p)
  <2>1. /\ data \in Seq(Bytes) /\ Len(data) \in 0..BufferSize /\ Rb!Space = BufferSize - Len(data)
    BY RbShape, RbFaithful DEF RbTells, Rb!Space
  <2> HIDE DEF p
  <2> QED
    BY <1>2, <2>1, ConcatProperties
<1> HIDE DEF p
<1>4. CASE Len(p) <= Rb!Space
  <2>1. Len(p) \in 1..Rb!Space /\ rb' = Rb!Written(Len(p))
    <3>1. Len(p) \in 1..Rb!Space
      BY <1>2, <1>3, <1>4
    <3>2. rb' = after
      <4> HIDE DEF after
      <4> QED
        BY <1>1, <1>4
    <3> QED
      BY <3>1, <3>2
  <2>2. data' = data \o p
    <3> DEFINE m == Len(data)
               n == Len(p)
    <3>a. m \in Int /\ n \in Int /\ n <= BufferSize - m /\ Len(data \o p) = m + n
      BY <1>2, <1>3, <1>4
    <3> HIDE DEF m, n
    <3>1. Len(data \o p) <= BufferSize
      BY <3>a, RbSize
    <3> QED
      BY <1>1, <3>1 DEF Rb!LastOf
  <2> QED
    BY <1>1, <1>2, <2>1, <2>2, RbStores
<1>5. CASE ~(Len(p) <= Rb!Space)
  <2>1. rb' = [after EXCEPT !.read_index = after.write_index,
                            !.read_mirror = IF after.write_mirror # rb.write_mirror THEN ~@ ELSE @]
    BY <1>1, <1>5
  <2>2. ~(Len(s) <= Rb!Space)
    BY <1>2, <1>3, <1>5, RbSize
  <2>3. after = Rb!Written(Len(p))
    OBVIOUS
  <2> HIDE DEF after
  <2>4. /\ Rb!Inv'
        /\ \/ Rb!Faithful'
           \/ /\ rb.read_mirror = rb.write_mirror
              /\ rb.read_index <= rb.write_index
              /\ Rb!Contents' = << >>
    BY <1>1, <1>2, <1>5, <2>1, <2>3, RbForces
  <2> QED
    BY <2>2, <2>4
<1> QED
  BY <1>4, <1>5

LEMMA RbCharForce ==
  ASSUME Rb!Inv, Rb!Faithful, NEW b \in Bytes, Rb!PutCharForce(b)
  PROVE  Rb!PutForce(<<b>>)
<1>1. <<b>> \in Seq(Bytes) /\ Len(<<b>>) = 1 /\ data \in Seq(Bytes)
  BY RbShape
<1>2. Rb!LastOf(<<b>>, BufferSize) = <<b>>
  BY <1>1, RbSize DEF Rb!LastOf
<1>3. Append(data, b) = data \o <<b>>
  BY <1>1, AppendIsConcat
<1>4. Rb!Space \in Int
  BY RbShape, RbSize DEF Rb!Space
<1>5. Rb!Space > 0 <=> 1 <= Rb!Space
  BY <1>4
<1> DEFINE after == Rb!Written(1)
           over == [after EXCEPT !.read_index = after.write_index,
                                 !.read_mirror = IF after.write_mirror # rb.write_mirror THEN ~@ ELSE @]
<1>6. /\ buffer' = Rb!Copied(<<b>>)
      /\ rb' = IF Rb!Space > 0 THEN after ELSE over
      /\ data' = Rb!LastOf(Append(data, b), BufferSize)
  BY DEF Rb!PutCharForce
<1>7. rb' = IF Len(<<b>>) <= Rb!Space THEN Rb!Written(Len(<<b>>)) ELSE over
  <2> HIDE DEF after, over
  <2>1. rb' = IF 1 <= Rb!Space THEN after ELSE over
    BY <1>5, <1>6
  <2> QED
    BY <1>1, <2>1 DEF after
<1> QED
  BY <1>1, <1>2, <1>3, <1>6, <1>7 DEF Rb!PutForce

LEMMA RbNext ==
  ASSUME Rb!Inv, Rb!Next
  PROVE  /\ Rb!Faithful
         /\ Rb!Inv'
         /\ \/ Rb!Faithful'
            \/ /\ rb.read_mirror = rb.write_mirror
               /\ rb.read_index <= rb.write_index
               /\ (\E s \in Rb!Strings : Len(s) > Rb!Space /\ Rb!PutForce(s))
               /\ Rb!Contents' = << >>
<1>0. Rb!Faithful
  BY DEF Rb!Next
<1>a. /\ data \in Seq(Bytes) /\ Len(data) \in 0..BufferSize /\ Rb!DataLen = Len(data)
      /\ Rb!Space = BufferSize - Len(data) /\ BufferSize \in Nat
  BY <1>0, RbShape, RbFaithful, RbSize DEF RbTells, Rb!Space
<1>1. ASSUME NEW s \in Rb!Strings, Rb!Put(s) PROVE Rb!Inv' /\ Rb!Faithful'
  <2> DEFINE n == Rb!Least(Rb!Space, Len(s))
             p == SubSeq(s, 1, n)
  <2>1. n > 0 /\ buffer' = Rb!Copied(p) /\ rb' = Rb!Written(n) /\ data' = data \o p
    BY <1>1 DEF Rb!Put
  <2>2. s \in Seq(Bytes) /\ Len(s) \in Nat
    BY RbStrings
  <2>3. n \in Int /\ n <= Rb!Space /\ n <= Len(s)
    BY <1>a, <2>2 DEF Rb!Least
  <2> HIDE DEF n
  <2>4. p \in Seq(Bytes) /\ Len(p) = n
    BY <2>1, <2>2, <2>3
  <2> HIDE DEF p
  <2>5. Len(p) \in 1..Rb!Space
    BY <1>a, <2>1, <2>3, <2>4
  <2> QED
    BY <1>0, <2>1, <2>4, <2>5, RbStores
<1>2. ASSUME NEW s \in Rb!Strings, Rb!PutForce(s)
      PROVE  /\ Rb!Inv'
             /\ \/ Rb!Faithful'
                \/ /\ rb.read_mirror = rb.write_mirror
                   /\ rb.read_index <= rb.write_index
                   /\ (\E z \in Rb!Strings : Len(z) > Rb!Space /\ Rb!PutForce(z))
                   /\ Rb!Contents' = << >>
  <2>1. s \in Seq(Bytes) /\ Len(s) >= 1 /\ Len(s) \in Nat
    BY RbStrings, RbSize
  <2>2. ~(Len(s) <= Rb!Space) => Len(s) > Rb!Space
    BY <1>a, <2>1
  <2>3. /\ Rb!Inv'
        /\ \/ Rb!Faithful'
           \/ /\ rb.read_mirror = rb.write_mirror
              /\ rb.read_index <= rb.write_index
              /\ ~(Len(s) <= Rb!Space)
              /\ Rb!Contents' = << >>
    BY <1>0, <1>2, <2>1, RbForced
  <2> QED
    BY <1>2, <2>2, <2>3
<1>3. ASSUME NEW b \in Bytes, Rb!PutCharForce(b)
      PROVE  Rb!PutForce(<<b>>) /\ <<b>> \in Rb!Strings
  <2>1. <<b>> \in [1..1 -> Bytes] /\ 1 \in 1..(BufferSize + 1)
    BY RbSize
  <2> QED
    BY <1>0, <1>3, <2>1, RbCharForce DEF Rb!Strings
<1>4. ASSUME NEW length \in 1..(BufferSize + 1), Rb!Get(length) PROVE Rb!Inv' /\ Rb!Faithful'
  <2> DEFINE n == Rb!Least(Rb!DataLen, length)
  <2>1. /\ n > 0 /\ data' = SubSeq(data, n + 1, Len(data)) /\ buffer' = buffer
        /\ rb' = IF BufferSize - rb.read_index > n
                 THEN [rb EXCEPT !.read_index = @ + n]
                 ELSE [rb EXCEPT !.read_mirror = ~@, !.read_index = n - (BufferSize - @)]
    BY <1>4 DEF Rb!Get
  <2>2. n \in Int /\ n <= Rb!DataLen
    BY <1>a DEF Rb!Least
  <2> HIDE DEF n
  <2>3. n \in 1..Rb!DataLen
    BY <1>a, <2>1, <2>2
  <2> QED
    BY <1>0, <2>1, <2>3, RbGets
<1>5. ASSUME Rb!Reset PROVE Rb!Inv' /\ Rb!Faithful'
  <2>1. /\ rb' = [read_mirror |-> FALSE, read_index |-> 0, write_mirror |-> FALSE, write_index |-> 0]
        /\ data' = << >> /\ buffer' = buffer /\ 0 \in Rb!Cells /\ << >> \in Seq(Bytes)
    BY <1>5, RbSize DEF Rb!Reset, Rb!Empty, Rb!Cells
  <2>2. Rb!Inv'
    <3>1. rb'.read_mirror = rb'.write_mirror /\ rb'.read_index <= rb'.write_index
      BY <2>1
    <3>2. rb' \in [read_mirror : BOOLEAN, read_index : Rb!Cells,
                   write_mirror : BOOLEAN, write_index : Rb!Cells]
      BY <2>1
    <3> QED
      BY <2>1, <3>1, <3>2, RbAfter
  <2>3. Rb!DataLen' = 0 /\ Len(data') = 0
    BY <2>1 DEF Rb!DataLen
  <2>4. RbTells'
    BY <2>3 DEF RbTells
  <2> QED
    BY <2>2, <2>4, RbFaithfulNext
<1> QED
  BY <1>0, <1>1, <1>2, <1>3, <1>4, <1>5 DEF Rb!Next

LEMMA RbStays ==
  ASSUME UNCHANGED rbVars
  PROVE  (Rb!Inv => Rb!Inv') /\ Rb!Faithful' = Rb!Faithful /\ UNCHANGED <<rb, buffer, data>>
BY DEF rbVars, Rb!Inv, Rb!TypeOK, Rb!MirrorsTell, Rb!Faithful, Rb!Contents, Rb!DataLen

-----------------------------------------------------------------------------
(* Ring block buffers.                                                     *)
LEMMA RbbSizes == BlkMaxNum \in Nat \ {0} /\ RbbSize \in Nat \ {0} /\ Rbb!Blks \subseteq Nat
BY DeviceAssumption DEF Rbb!RingBlocksAssumption, Rbb!Blks

\* p holds, in their order, the elements of q at the places h.
Keeps(p, q, h) ==
  /\ h \in [1..Len(p) -> 1..Len(q)]
  /\ \A i \in 1..Len(p) : p[i] = q[h[i]]
  /\ \A i, j \in 1..Len(p) : i < j => h[i] < h[j]

\* What is left of a list: all but what is gone, in its order.
LEMMA RbbWithout ==
  ASSUME NEW S, NEW q \in Seq(S), NEW gone
  PROVE  /\ Rbb!Without(q, gone) \in Seq(S)
         /\ \E h : Keeps(Rbb!Without(q, gone), q, h)
         /\ Rbb!Elems(Rbb!Without(q, gone)) = Rbb!Elems(q) \ gone
<1> DEFINE n == Len(q)
           R == Seq(S)
           Left(l, e) == IF e \in gone THEN l ELSE Append(l, e)
           step == [i \in 1..n |-> [l \in R |-> Left(l, q[i])]]
           Law(f) == f = [i \in 0..n |-> IF i = 0 THEN << >>
                                         ELSE IF q[i] \in gone THEN f[i - 1]
                                         ELSE Append(f[i - 1], q[i])]
           g == CHOOSE f : Law(f)
<1>0. n \in Nat /\ (\A i \in 1..n : q[i] \in S) /\ << >> \in R /\ Len(<< >>) = 0
  BY LenProperties, ElementOfSeq, EmptySeq
<1>1. \A i \in 1..n : \A l \in R : Left(l, q[i]) \in R
  <2>1. ASSUME NEW i \in 1..n, NEW l \in R PROVE Left(l, q[i]) \in R
    BY <1>0, AppendProperties
  <2> QED
    BY <2>1
<1>2. Rbb!Without(q, gone) = g[n]
  BY DEF Rbb!Without
<1> HIDE DEF n, R
<1>3. step \in [1..n -> [R -> R]]
  BY <1>1 DEF R
<1>4. PICK f \in [0..n -> R] : f[0] = << >> /\ \A i \in 1..n : f[i] = step[i][f[i - 1]]
  <2> HIDE DEF step
  <2>1. HasRun(n, R, << >>, step)
    BY <1>0, <1>3, RecursionAlong
  <2> QED
    BY <2>1 DEF HasRun
<1>5. ASSUME NEW i \in 1..n PROVE f[i] = Left(f[i - 1], q[i])
  <2>1. i - 1 \in 0..n
    BY <1>0
  <2>2. f[i - 1] \in R /\ f[i] = step[i][f[i - 1]]
    <3> HIDE DEF step
    <3> QED
      BY <1>4, <2>1
  <2>3. step[i] = [l \in R |-> Left(l, q[i])]
    OBVIOUS
  <2> HIDE DEF step
  <2> QED
    BY <2>2, <2>3
<1>6. Law(f)
  <2>1. \A i \in 0..n : f[i] = IF i = 0 THEN << >>
                               ELSE IF q[i] \in gone THEN f[i - 1]
                               ELSE Append(f[i - 1], q[i])
    <3>1. TAKE i \in 0..n
    <3> HIDE DEF step
    <3>2. CASE i = 0
      BY <1>4, <3>2
    <3>3. CASE i # 0
      <4>1. i \in 1..n
        BY <1>0, <3>3
      <4> QED
        BY <1>5, <3>3, <4>1
    <3> QED
      BY <3>2, <3>3
  <2>2. f \in [0..n -> R]
    BY <1>4
  <2> HIDE DEF step
  <2> QED
    BY <2>1, <2>2
<1>7. Law(g)
  <2> HIDE DEF Law
  <2> QED
    BY <1>6
<1>8. g[0] = << >> /\ \A i \in 1..n : g[i] = Left(g[i - 1], q[i])
  <2> HIDE DEF g
  <2>1. \A i \in 0..n : g[i] = IF i = 0 THEN << >>
                               ELSE IF q[i] \in gone THEN g[i - 1]
                               ELSE Append(g[i - 1], q[i])
    BY <1>7
  <2> QED
    BY <1>0, <2>1
<1> HIDE DEF g, Law, step
<1> DEFINE Holds(l, m) ==
             /\ l \in Seq(S)
             /\ \E h \in [1..Len(l) -> 1..m] :
                  /\ \A i \in 1..Len(l) : l[i] = q[h[i]] /\ l[i] \notin gone
                  /\ \A i, j \in 1..Len(l) : i < j => h[i] < h[j]
             /\ \A j \in 1..m : q[j] \notin gone => \E i \in 1..Len(l) : l[i] = q[j]
           Good == {m \in 0..n : Holds(g[m], m)}
<1>9. Holds(<< >>, 0)
  <2>1. 1..0 = {} /\ << >> \in Seq(S) /\ Len(<< >>) = 0
    BY <1>0 DEF R
  <2>2. \E h : h \in [{} -> {}]
    <3>1. [x \in {} |-> x] \in [{} -> {}]
      OBVIOUS
    <3> QED
      BY <3>1
  <2> QED
    BY <2>1, <2>2
<1>10. ASSUME NEW m \in 1..n, NEW l, Holds(l, m - 1) PROVE Holds(Left(l, q[m]), m)
  <2>0. m \in Nat /\ q[m] \in S /\ Len(l) \in Nat
    BY <1>0, <1>10, LenProperties
  <2>1. PICK h \in [1..Len(l) -> 1..(m - 1)] :
          /\ \A i \in 1..Len(l) : l[i] = q[h[i]] /\ l[i] \notin gone
          /\ \A i, j \in 1..Len(l) : i < j => h[i] < h[j]
    BY <1>10
  <2>2. CASE q[m] \in gone
    <3>1. Left(l, q[m]) = l
      BY <2>2
    <3>2. h \in [1..Len(l) -> 1..m]
      BY <2>0, <2>1
    <3>3. \A j \in 1..m : q[j] \notin gone => j \in 1..(m - 1)
      BY <2>0, <2>2
    <3>4. Holds(l, m)
      BY <1>10, <2>1, <3>2, <3>3
    <3> QED
      BY <3>1, <3>4
  <2>3. CASE q[m] \notin gone
    <3> DEFINE p == Append(l, q[m])
               k == [i \in 1..(Len(l) + 1) |-> IF i = Len(l) + 1 THEN m ELSE h[i]]
    <3>1. /\ p \in Seq(S) /\ Len(p) = Len(l) + 1
          /\ \A i \in 1..Len(l) : p[i] = l[i]
          /\ p[Len(l) + 1] = q[m]
      BY <1>10, <2>0, AppendProperties
    <3> HIDE DEF p
    <3>2. k \in [1..Len(p) -> 1..m]
      BY <2>0, <2>1, <3>1
    <3>3. \A i \in 1..Len(p) : i \in 1..Len(l) \/ i = Len(l) + 1
      BY <2>0, <3>1
    <3>4. /\ k[Len(l) + 1] = m
          /\ \A i \in 1..Len(l) : k[i] = h[i] /\ h[i] < m
      <4>1. Len(l) + 1 \in 1..(Len(l) + 1) /\ \A i \in 1..Len(l) : i \in 1..(Len(l) + 1) /\ i # Len(l) + 1
        BY <2>0
      <4>2. \A i \in 1..Len(l) : h[i] \in 1..(m - 1)
        BY <2>1
      <4>3. \A x \in 1..(m - 1) : x < m
        BY <2>0
      <4>4. k[Len(l) + 1] = m
        BY <4>1
      <4>5. \A i \in 1..Len(l) : k[i] = h[i]
        BY <4>1
      <4> QED
        BY <4>2, <4>3, <4>4, <4>5
    <3> HIDE DEF k
    <3>5. \A i \in 1..Len(p) : p[i] = q[k[i]] /\ p[i] \notin gone
      BY <2>1, <2>3, <3>1, <3>3, <3>4
    <3>6. \A i, j \in 1..Len(p) : i < j => k[i] < k[j]
      <4>1. ASSUME NEW i \in 1..Len(p), NEW j \in 1..Len(p), i < j PROVE k[i] < k[j]
        <5>1. i \in 1..Len(l)
          BY <2>0, <3>1, <4>1
        <5> QED
          BY <2>1, <3>3, <3>4, <4>1, <5>1
      <4> QED
        BY <4>1
    <3>7. ASSUME NEW j \in 1..m, q[j] \notin gone PROVE \E i \in 1..Len(p) : p[i] = q[j]
      <4>1. CASE j = m
        <5>1. Len(l) + 1 \in 1..Len(p)
          BY <2>0, <3>1
        <5> QED
          BY <3>1, <4>1, <5>1
      <4>2. CASE j # m
        <5>1. j \in 1..(m - 1)
          BY <2>0, <4>2
        <5>2. PICK i \in 1..Len(l) : l[i] = q[j]
          BY <1>10, <3>7, <5>1
        <5>3. i \in 1..Len(p)
          BY <2>0, <3>1
        <5> QED
          BY <3>1, <5>2, <5>3
      <4> QED
        BY <4>1, <4>2
    <3>8. Left(l, q[m]) = p
      BY <2>3 DEF p
    <3>9. Holds(p, m)
      BY <3>1, <3>2, <3>5, <3>6, <3>7
    <3> HIDE DEF Holds, p
    <3> QED
      BY <3>8, <3>9
  <2> QED
    BY <2>2, <2>3
<1> HIDE DEF Holds
<1>11. n \in Good
  <2>1. 0 \in Good
    BY <1>0, <1>8, <1>9
  <2>2. \A m \in 1..n : m - 1 \in Good => m \in Good
    <3>1. ASSUME NEW m \in 1..n, m - 1 \in Good PROVE m \in Good
      <4>1. Holds(g[m - 1], m - 1) /\ m \in 0..n
        BY <1>0, <3>1
      <4>2. Holds(Left(g[m - 1], q[m]), m)
        BY <1>10, <4>1
      <4> QED
        BY <1>8, <4>1, <4>2
    <3> QED
      BY <3>1
  <2> HIDE DEF Good
  <2> QED
    BY <1>0, <2>1, <2>2, KeptAlong
<1> DEFINE p == g[n]
<1>12. Holds(p, n)
  BY <1>11
<1> HIDE DEF p
<1>13. PICK h \in [1..Len(p) -> 1..n] :
         /\ \A i \in 1..Len(p) : p[i] = q[h[i]] /\ p[i] \notin gone
         /\ \A i, j \in 1..Len(p) : i < j => h[i] < h[j]
  BY <1>12 DEF Holds
<1>14. p \in Seq(S) /\ \A j \in 1..n : q[j] \notin gone => \E i \in 1..Len(p) : p[i] = q[j]
  BY <1>12 DEF Holds
<1>15. Keeps(p, q, h)
  BY <1>13 DEF Keeps, n
<1>16. Rbb!Elems(p) = Rbb!Elems(q) \ gone
  <2>1. ASSUME NEW e \in Rbb!Elems(p) PROVE e \in Rbb!Elems(q) \ gone
    <3>1. PICK i \in 1..Len(p) : e = p[i]
      BY DEF Rbb!Elems
    <3>2. h[i] \in 1..n
      BY <1>13
    <3> QED
      BY <1>13, <3>1, <3>2 DEF Rbb!Elems, n
  <2>2. ASSUME NEW e \in Rbb!Elems(q), e \notin gone PROVE e \in Rbb!Elems(p)
    <3>1. PICK j \in 1..n : e = q[j]
      BY DEF Rbb!Elems, n
    <3> QED
      BY <1>14, <2>2, <3>1 DEF Rbb!Elems
  <2> QED
    BY <2>1, <2>2
<1> QED
  BY <1>2, <1>14, <1>15, <1>16 DEF p

\* The list q goes around the buffer once, in the blocks that s describes.
RbbRound(s, q) ==
  /\ \A i \in 1..Len(q) : s[q[i]].size > 0 /\ s[q[i]].buf + s[q[i]].size <= RbbSize
  /\ \A i, j \in 1..Len(q) : i # j =>
       /\ q[i] # q[j]
       /\ \/ s[q[i]].buf + s[q[i]].size <= s[q[j]].buf
          \/ s[q[j]].buf + s[q[j]].size <= s[q[i]].buf
  /\ \A i, j, k \in 1..Len(q) : i < j /\ j < k =>
       \/ Rbb!Rising(s[q[i]].buf, s[q[j]].buf, s[q[k]].buf)
       \/ Rbb!Rising(s[q[j]].buf, s[q[k]].buf, s[q[i]].buf)
       \/ Rbb!Rising(s[q[k]].buf, s[q[i]].buf, s[q[j]].buf)

RbbTypes ==
  /\ blk_set \in [Rbb!Blks -> [status : {"UNUSED", "INITED", "PUT", "GET"}, buf : 0..RbbSize, size : Nat]]
  /\ blk_list \in Seq(Rbb!Blks) /\ taken \in Seq(Rbb!Blks)
  /\ strayed \in BOOLEAN /\ misfit \in BOOLEAN

RbbOdd(s, q) == \E b \in Rbb!Elems(q) : s[b].size = 0 \/ (s[b].size > RbbSize /\ q = <<b>>)

RbbParts ==
  /\ RbbTypes
  /\ ~misfit => RbbRound(blk_set, blk_list)
  /\ misfit => RbbOdd(blk_set, blk_list)
  /\ ~strayed => Rbb!Blks \ Rbb!UnusedBlks = Rbb!Elems(blk_list) \cup Rbb!Elems(taken)
  /\ Rbb!Elems(blk_list) \cap Rbb!Elems(taken) = {}

LEMMA RbbInvParts == Rbb!Inv <=> RbbParts
<1>1. (\A b \in Rbb!Elems(blk_list) : blk_set[b].size > 0 /\ Rbb!EndOf(b) <= RbbSize) <=>
        \A i \in 1..Len(blk_list) :
          blk_set[blk_list[i]].size > 0 /\ blk_set[blk_list[i]].buf + blk_set[blk_list[i]].size <= RbbSize
  BY DEF Rbb!Elems, Rbb!EndOf
<1> USE DEF Rbb!Inv, Rbb!TypeOK, Rbb!BlocksApart, Rbb!InTurn, Rbb!Buf, Rbb!EndOf, RbbRound, RbbParts, RbbTypes, RbbOdd
<1>2. Rbb!Inv => RbbParts
  <2>1. ASSUME Rbb!Inv PROVE RbbTypes
    BY <2>1
  <2>2. ASSUME Rbb!Inv, ~misfit PROVE RbbRound(blk_set, blk_list)
    BY <1>1, <2>2
  <2> QED
    BY <2>1, <2>2
<1>3. RbbParts => Rbb!Inv
  <2>1. ASSUME RbbParts PROVE Rbb!TypeOK
    BY <2>1
  <2>2. ASSUME RbbParts PROVE Rbb!BlocksApart
    BY <1>1, <2>2
  <2>3. ASSUME RbbParts PROVE Rbb!InTurn
    BY <1>1, <2>3
  <2> QED
    BY <2>1, <2>2, <2>3
<1> QED
  BY <1>2, <1>3

LEMMA RbbInvPartsNext == (Rbb!Inv <=> RbbParts)'
BY RbbInvParts, PTL

LEMMA RbbInit == Rbb!Init => Rbb!Inv
<1> SUFFICES ASSUME Rbb!Init PROVE RbbParts
  BY RbbInvParts
<1>1. /\ blk_set = [b \in Rbb!Blks |-> Rbb!Unused] /\ blk_list = << >> /\ taken = << >>
      /\ strayed = FALSE /\ misfit = FALSE
  BY DEF Rbb!Init
<1>2. << >> \in Seq(Rbb!Blks) /\ Len(<< >>) = 0 /\ Rbb!Elems(<< >>) = {}
  BY EmptySeq DEF Rbb!Elems
<1>3. Rbb!Unused \in [status : {"UNUSED", "INITED", "PUT", "GET"}, buf : 0..RbbSize, size : Nat]
      /\ Rbb!Unused.status = "UNUSED"
  BY RbbSizes DEF Rbb!Unused
<1>4. Rbb!UnusedBlks = Rbb!Blks
  BY <1>1, <1>3 DEF Rbb!UnusedBlks, Rbb!Status
<1>5. RbbTypes
  BY <1>1, <1>2, <1>3 DEF RbbTypes
<1>6. RbbRound(blk_set, blk_list)
  <2>1. 1..Len(blk_list) = {}
    BY <1>1, <1>2
  <2> QED
    BY <2>1 DEF RbbRound
<1>7. Rbb!Blks \ Rbb!UnusedBlks = Rbb!Elems(blk_list) \cup Rbb!Elems(taken)
      /\ Rbb!Elems(blk_list) \cap Rbb!Elems(taken) = {}
  BY <1>1, <1>2, <1>4
<1> QED
  BY <1>1, <1>5, <1>6, <1>7 DEF RbbParts

\* What stays of a list goes around the buffer as well.
LEMMA RbbRoundKept ==
  ASSUME NEW s, NEW q, NEW p, NEW h, Keeps(p, q, h), Len(p) \in Nat, Len(q) \in Nat, RbbRound(s, q)
  PROVE  RbbRound(s, p)
<1>0. /\ \A i \in 1..Len(p) : h[i] \in 1..Len(q) /\ p[i] = q[h[i]]
      /\ \A i, j \in 1..Len(p) : i < j => h[i] < h[j]
  BY DEF Keeps
<1>1. \A i, j \in 1..Len(p) : i # j => h[i] # h[j]
  <2>1. ASSUME NEW i \in 1..Len(p), NEW j \in 1..Len(p), i # j PROVE h[i] # h[j]
    <3>1. h[i] \in Int /\ h[j] \in Int /\ (i < j \/ j < i)
      BY <1>0, <2>1
    <3> QED
      BY <1>0, <3>1
  <2> QED
    BY <2>1
<1>2. \A i \in 1..Len(p) : s[p[i]].size > 0 /\ s[p[i]].buf + s[p[i]].size <= RbbSize
  BY <1>0 DEF RbbRound
<1>3. \A i, j \in 1..Len(p) : i # j =>
       /\ p[i] # p[j]
       /\ \/ s[p[i]].buf + s[p[i]].size <= s[p[j]].buf
          \/ s[p[j]].buf + s[p[j]].size <= s[p[i]].buf
  <2>1. ASSUME NEW i \in 1..Len(p), NEW j \in 1..Len(p), i # j
        PROVE  /\ p[i] # p[j]
               /\ \/ s[p[i]].buf + s[p[i]].size <= s[p[j]].buf
                  \/ s[p[j]].buf + s[p[j]].size <= s[p[i]].buf
    <3>1. /\ h[i] \in 1..Len(q) /\ h[j] \in 1..Len(q) /\ h[i] # h[j]
          /\ p[i] = q[h[i]] /\ p[j] = q[h[j]]
      BY <1>0, <1>1, <2>1
    <3>2. /\ q[h[i]] # q[h[j]]
          /\ \/ s[q[h[i]]].buf + s[q[h[i]]].size <= s[q[h[j]]].buf
             \/ s[q[h[j]]].buf + s[q[h[j]]].size <= s[q[h[i]]].buf
      BY <3>1 DEF RbbRound
    <3> QED
      BY <3>1, <3>2
  <2> QED
    BY <2>1
<1>4. \A i, j, k \in 1..Len(p) : i < j /\ j < k =>
       \/ Rbb!Rising(s[p[i]].buf, s[p[j]].buf, s[p[k]].buf)
       \/ Rbb!Rising(s[p[j]].buf, s[p[k]].buf, s[p[i]].buf)
       \/ Rbb!Rising(s[p[k]].buf, s[p[i]].buf, s[p[j]].buf)
  <2>1. ASSUME NEW i \in 1..Len(p), NEW j \in 1..Len(p), NEW k \in 1..Len(p), i < j, j < k
        PROVE  \/ Rbb!Rising(s[p[i]].buf, s[p[j]].buf, s[p[k]].buf)
               \/ Rbb!Rising(s[p[j]].buf, s[p[k]].buf, s[p[i]].buf)
               \/ Rbb!Rising(s[p[k]].buf, s[p[i]].buf, s[p[j]].buf)
    <3>1. /\ h[i] \in 1..Len(q) /\ h[j] \in 1..Len(q) /\ h[k] \in 1..Len(q)
          /\ h[i] < h[j] /\ h[j] < h[k]
          /\ p[i] = q[h[i]] /\ p[j] = q[h[j]] /\ p[k] = q[h[k]]
      BY <1>0, <2>1
    <3>2. \/ Rbb!Rising(s[q[h[i]]].buf, s[q[h[j]]].buf, s[q[h[k]]].buf)
          \/ Rbb!Rising(s[q[h[j]]].buf, s[q[h[k]]].buf, s[q[h[i]]].buf)
          \/ Rbb!Rising(s[q[h[k]]].buf, s[q[h[i]]].buf, s[q[h[j]]].buf)
      BY <3>1 DEF RbbRound
    <3> QED
      BY <3>1, <3>2
  <2> QED
    BY <2>1
<1> QED
  BY <1>2, <1>3, <1>4 DEF RbbRound

\* It depends on the blocks in the list only.
LEMMA RbbRoundSame ==
  ASSUME NEW s, NEW r, NEW q,
         \A i \in 1..Len(q) : r[q[i]].buf = s[q[i]].buf /\ r[q[i]].size = s[q[i]].size,
         RbbRound(s, q)
  PROVE  RbbRound(r, q)
BY DEF RbbRound

\* A block put where Place finds room lies apart and in turn.
LEMMA RbbPlaced ==
  ASSUME RbbTypes, RbbRound(blk_set, blk_list), NEW b \in Rbb!Blks, b \notin Rbb!Elems(blk_list),
         NEW size \in 1..RbbSize, NEW at \in Rbb!Place(size), NEW r,
         r = [blk_set EXCEPT ![b] = [status |-> "INITED", buf |-> at, size |-> size]]
  PROVE  /\ at \in 0..RbbSize /\ RbbRound(r, Append(blk_list, b))
<1> DEFINE n == Len(blk_list)
           q == Append(blk_list, b)
           x == [i \in 1..n |-> blk_set[blk_list[i]].buf]
           z == [i \in 1..n |-> blk_set[blk_list[i]].size]
           e == [i \in 1..n |-> x[i] + z[i]]
<1>0. n \in Nat /\ \A i \in 1..n : blk_list[i] \in Rbb!Blks /\ blk_list[i] # b
  <2>1. n \in Nat /\ \A i \in 1..n : blk_list[i] \in Rbb!Blks
    BY LenProperties, ElementOfSeq DEF RbbTypes
  <2> QED
    BY <2>1 DEF Rbb!Elems
<1>1. /\ q \in Seq(Rbb!Blks) /\ Len(q) = n + 1 /\ q[n + 1] = b
      /\ \A i \in 1..n : q[i] = blk_list[i]
  BY <1>0, AppendProperties DEF RbbTypes
<1> HIDE DEF q
<1>2. \A i \in 1..n : /\ x[i] \in Nat /\ z[i] \in Nat \ {0} /\ e[i] \in Nat /\ x[i] < e[i] /\ e[i] <= RbbSize
                      /\ e[i] = x[i] + z[i]
                      /\ x[i] = blk_set[blk_list[i]].buf /\ z[i] = blk_set[blk_list[i]].size
  <2>1. ASSUME NEW i \in 1..n
        PROVE  /\ blk_set[blk_list[i]].buf \in Nat /\ blk_set[blk_list[i]].size \in Nat
    <3>1. blk_set[blk_list[i]] \in [status : {"UNUSED", "INITED", "PUT", "GET"}, buf : 0..RbbSize, size : Nat]
      BY <1>0 DEF RbbTypes
    <3>2. blk_set[blk_list[i]].buf \in 0..RbbSize /\ blk_set[blk_list[i]].size \in Nat
      BY <3>1
    <3> QED
      BY <3>2, RbbSizes
  <2>2. ASSUME NEW i \in 1..n
        PROVE  /\ blk_set[blk_list[i]].size > 0
               /\ blk_set[blk_list[i]].buf + blk_set[blk_list[i]].size <= RbbSize
    BY DEF RbbRound
  <2>3. ASSUME NEW i \in 1..n
        PROVE  /\ x[i] = blk_set[blk_list[i]].buf /\ z[i] = blk_set[blk_list[i]].size
               /\ e[i] = x[i] + z[i]
    OBVIOUS
  <2> HIDE DEF x, z, e, n
  <2>4. ASSUME NEW i \in 1..n
        PROVE  /\ x[i] \in Nat /\ z[i] \in Nat \ {0} /\ e[i] \in Nat /\ x[i] < e[i] /\ e[i] <= RbbSize
    BY <2>1, <2>2, <2>3, RbbSizes
  <2> QED
    BY <2>3, <2>4
<1> HIDE DEF x, z, e
<1>3. \A i, j \in 1..n : i # j => e[i] <= x[j] \/ e[j] <= x[i]
  <2>1. ASSUME NEW i \in 1..n, NEW j \in 1..n, i # j PROVE e[i] <= x[j] \/ e[j] <= x[i]
    <3>1. \/ blk_set[blk_list[i]].buf + blk_set[blk_list[i]].size <= blk_set[blk_list[j]].buf
          \/ blk_set[blk_list[j]].buf + blk_set[blk_list[j]].size <= blk_set[blk_list[i]].buf
      BY <2>1 DEF RbbRound
    <3>2. /\ e[i] = blk_set[blk_list[i]].buf + blk_set[blk_list[i]].size
          /\ e[j] = blk_set[blk_list[j]].buf + blk_set[blk_list[j]].size
          /\ x[i] = blk_set[blk_list[i]].buf /\ x[j] = blk_set[blk_list[j]].buf
      BY <1>2
    <3> QED
      BY <3>1, <3>2
  <2> QED
    BY <2>1
<1>4. \A i, j, k \in 1..n : i < j /\ j < k =>
        \/ x[i] < x[j] /\ x[j] < x[k]
        \/ x[j] < x[k] /\ x[k] < x[i]
        \/ x[k] < x[i] /\ x[i] < x[j]
  <2>1. ASSUME NEW i \in 1..n, NEW j \in 1..n, NEW k \in 1..n, i < j, j < k
        PROVE  \/ x[i] < x[j] /\ x[j] < x[k]
               \/ x[j] < x[k] /\ x[k] < x[i]
               \/ x[k] < x[i] /\ x[i] < x[j]
    <3>1. \/ Rbb!Rising(blk_set[blk_list[i]].buf, blk_set[blk_list[j]].buf, blk_set[blk_list[k]].buf)
          \/ Rbb!Rising(blk_set[blk_list[j]].buf, blk_set[blk_list[k]].buf, blk_set[blk_list[i]].buf)
          \/ Rbb!Rising(blk_set[blk_list[k]].buf, blk_set[blk_list[i]].buf, blk_set[blk_list[j]].buf)
      BY <2>1 DEF RbbRound
    <3>2. /\ x[i] = blk_set[blk_list[i]].buf
          /\ x[j] = blk_set[blk_list[j]].buf
          /\ x[k] = blk_set[blk_list[k]].buf
      BY <1>2
    <3>3. Rbb!Rising(x[i], x[j], x[k]) \/ Rbb!Rising(x[j], x[k], x[i]) \/ Rbb!Rising(x[k], x[i], x[j])
      BY <3>1, <3>2, Zenon
    <3> QED
      BY <3>3 DEF Rbb!Rising
  <2> QED
    BY <2>1
<1>5. \/ at = 0 /\ n = 0
      \/ n > 0 /\ at = e[n] /\ x[1] > x[n] /\ at + size <= x[1]
      \/ n > 0 /\ at = e[n] /\ ~(x[1] > x[n]) /\ at + size <= RbbSize
      \/ n > 0 /\ at = 0 /\ ~(x[1] > x[n]) /\ x[1] >= size
  <2>1. CASE blk_list = << >>
    <3>1. at = 0
      BY <2>1 DEF Rbb!Place
    <3>2. n = 0
      BY <2>1, EmptySeq
    <3> QED
      BY <3>1, <3>2
  <2>2. CASE blk_list # << >>
    <3>1. n > 0
      BY <1>0, <2>2, EmptySeq DEF RbbTypes
    <3>2. 1 \in 1..n /\ n \in 1..n
      BY <1>0, <3>1
    <3>3. /\ Rbb!Buf(blk_list[1]) = x[1] /\ Rbb!Buf(blk_list[n]) = x[n] /\ Rbb!EndOf(blk_list[n]) = e[n]
          /\ x[1] \in Nat /\ x[n] \in Nat /\ e[n] \in Nat
      BY <1>2, <3>2 DEF Rbb!Buf, Rbb!EndOf
    <3>4. \/ at = e[n] /\ (IF x[1] > x[n] THEN x[1] ELSE RbbSize) - e[n] >= size
          \/ at = 0 /\ ~(x[1] > x[n]) /\ x[1] >= size
      BY <2>2, <3>3 DEF Rbb!Place
    <3> QED
      BY <3>1, <3>3, <3>4, RbbSizes
  <2> QED
    BY <2>1, <2>2
<1> HIDE DEF n
\* Whatever its place, the new block lies within the buffer and apart from the rest.
<1>6. at \in Nat /\ at + size <= RbbSize /\ size \in Nat \ {0}
  <2>1. CASE n = 0
    BY <1>5, <2>1, RbbSizes
  <2>2. CASE n > 0
    <3>1. 1 \in 1..n /\ n \in 1..n
      BY <1>0, <2>2
    <3>2. /\ x[1] \in Nat /\ x[1] <= RbbSize /\ e[n] \in Nat
      BY <1>2, <3>1, RbbSizes
    <3> QED
      BY <1>5, <3>2, RbbSizes
  <2> QED
    BY <1>0, <2>1, <2>2
<1>7. ASSUME NEW i \in 1..n PROVE at + size <= x[i] \/ e[i] <= at
  <2>1. n > 0 /\ 1 \in 1..n /\ n \in 1..n
    BY <1>0
  <2>2. /\ x[i] \in Nat /\ x[1] \in Nat /\ x[n] \in Nat /\ e[i] \in Nat /\ e[n] \in Nat
        /\ x[i] < e[i] /\ x[1] < e[1] /\ x[n] < e[n]
    BY <1>2, <2>1
  <2>3. i = 1 \/ i = n \/ (1 < i /\ i < n)
    BY <1>0
  <2>4. 1 < i /\ i < n =>
          \/ x[1] < x[i] /\ x[i] < x[n]
          \/ x[i] < x[n] /\ x[n] < x[1]
          \/ x[n] < x[1] /\ x[1] < x[i]
    BY <1>4, <2>1
  <2>5. /\ i # n => e[i] <= x[n] \/ e[n] <= x[i]
        /\ i # 1 => e[i] <= x[1] \/ e[1] <= x[i]
        /\ 1 # n => e[1] <= x[n] \/ e[n] <= x[1]
    BY <1>3, <2>1
  <2>6. CASE at = e[n] /\ x[1] > x[n]
    BY <1>5, <1>6, <2>1, <2>2, <2>3, <2>4, <2>5, <2>6
  <2>7. CASE at = e[n] /\ ~(x[1] > x[n])
    BY <1>5, <1>6, <2>1, <2>2, <2>3, <2>4, <2>5, <2>7
  <2>8. CASE at = 0 /\ ~(x[1] > x[n]) /\ x[1] >= size
    BY <1>5, <1>6, <2>1, <2>2, <2>3, <2>4, <2>5, <2>8
  <2> QED
    BY <1>5, <2>1, <2>6, <2>7, <2>8
<1>8. ASSUME NEW i \in 1..n, NEW j \in 1..n, i < j
      PROVE  \/ x[i] < x[j] /\ x[j] < at
             \/ x[j] < at /\ at < x[i]
             \/ at < x[i] /\ x[i] < x[j]
  <2>1. n > 0 /\ 1 \in 1..n /\ n \in 1..n
    BY <1>0
  <2>2. /\ x[i] \in Nat /\ x[j] \in Nat /\ x[1] \in Nat /\ x[n] \in Nat /\ e[n] \in Nat
        /\ x[n] < e[n]
    BY <1>2, <2>1
  <2>3. i = 1 \/ 1 < i
    BY <1>0
  <2>4. j = n \/ j < n
    BY <1>0
  <2>5. 1 < i =>
          \/ x[1] < x[i] /\ x[i] < x[j]
          \/ x[i] < x[j] /\ x[j] < x[1]
          \/ x[j] < x[1] /\ x[1] < x[i]
    BY <1>4, <1>8, <2>1
  <2>6. j < n =>
          \/ x[i] < x[j] /\ x[j] < x[n]
          \/ x[j] < x[n] /\ x[n] < x[i]
          \/ x[n] < x[i] /\ x[i] < x[j]
    BY <1>4, <1>8, <2>1
  <2>7. 1 < j /\ j < n =>
          \/ x[1] < x[j] /\ x[j] < x[n]
          \/ x[j] < x[n] /\ x[n] < x[1]
          \/ x[n] < x[1] /\ x[1] < x[j]
    BY <1>4, <2>1
  <2>8. 1 < j /\ i < n
    BY <1>0, <1>8
  <2>9. 1 < i /\ i < n =>
          \/ x[1] < x[i] /\ x[i] < x[n]
          \/ x[i] < x[n] /\ x[n] < x[1]
          \/ x[n] < x[1] /\ x[1] < x[i]
    BY <1>4, <2>1
  <2>10. /\ i \in Int /\ j \in Int
         /\ at = 0 => x[1] > 0
    BY <1>5, <1>6, <2>1, <2>2
  <2>11. 1 # n => e[1] <= x[n] \/ e[n] <= x[1]
    BY <1>3, <2>1
  <2>12. e[1] \in Nat /\ x[1] < e[1]
    BY <1>2, <2>1
  <2>13. CASE at = e[n] /\ x[1] > x[n] /\ at + size <= x[1]
    <3>1. CASE j = n
      BY <1>6, <2>2, <2>3, <2>8, <2>9, <2>13, <3>1
    <3>2. CASE j < n /\ i = 1
      BY <1>6, <2>2, <2>7, <2>8, <2>13, <3>2
    <3>3. CASE j < n /\ 1 < i
      BY <1>6, <2>2, <2>5, <2>6, <2>7, <2>8, <2>9, <2>13, <3>3
    <3> QED
      BY <2>3, <2>4, <3>1, <3>2, <3>3
  <2>14. CASE at = e[n] /\ ~(x[1] > x[n])
    <3>1. CASE j = n
      BY <1>6, <2>2, <2>3, <2>8, <2>9, <2>11, <2>12, <2>14, <3>1
    <3>2. CASE j < n /\ i = 1
      BY <1>6, <2>2, <2>7, <2>8, <2>11, <2>12, <2>14, <3>2
    <3>3. CASE j < n /\ 1 < i
      BY <1>6, <2>2, <2>5, <2>6, <2>7, <2>8, <2>9, <2>11, <2>12, <2>14, <3>3
    <3> QED
      BY <2>3, <2>4, <3>1, <3>2, <3>3
  <2>15. CASE at = 0 /\ ~(x[1] > x[n]) /\ x[1] >= size
    BY <1>6, <2>2, <2>3, <2>4, <2>5, <2>6, <2>7, <2>8, <2>9, <2>11, <2>12, <2>15
  <2> QED
    BY <1>5, <2>1, <2>13, <2>14, <2>15
\* In the blocks as they are described now.
<1> DEFINE y == [i \in 1..(n + 1) |-> IF i = n + 1 THEN at ELSE x[i]]
           w == [i \in 1..(n + 1) |-> IF i = n + 1 THEN size ELSE z[i]]
<1>9. /\ \A i \in 1..n : i \in 1..(n + 1) /\ i # n + 1 /\ i < n + 1
      /\ n + 1 \in 1..(n + 1)
      /\ \A i \in 1..(n + 1) : i \in 1..n \/ i = n + 1
  BY <1>0
<1>10. /\ \A i \in 1..n : y[i] = x[i] /\ w[i] = z[i]
       /\ y[n + 1] = at /\ w[n + 1] = size
  BY <1>9
<1> HIDE DEF y, w
<1>11. \A i \in 1..(n + 1) : r[q[i]].buf = y[i] /\ r[q[i]].size = w[i]
  <2>1. ASSUME NEW i \in 1..n
        PROVE  r[q[i]].buf = y[i] /\ r[q[i]].size = w[i]
    <3>1. q[i] = blk_list[i] /\ blk_list[i] \in Rbb!Blks /\ blk_list[i] # b
      BY <1>0, <1>1
    <3>2. r[blk_list[i]] = blk_set[blk_list[i]]
      BY <3>1 DEF RbbTypes
    <3> QED
      BY <1>2, <1>10, <3>1, <3>2
  <2>2. r[q[n + 1]].buf = y[n + 1] /\ r[q[n + 1]].size = w[n + 1]
    <3>1. r[b] = [status |-> "INITED", buf |-> at, size |-> size]
      BY DEF RbbTypes
    <3> QED
      BY <1>1, <1>10, <3>1
  <2> QED
    BY <1>9, <2>1, <2>2
<1>12. \A i \in 1..(n + 1) : w[i] > 0 /\ y[i] + w[i] <= RbbSize
  <2>1. ASSUME NEW i \in 1..n PROVE w[i] > 0 /\ y[i] + w[i] <= RbbSize
    <3>1. /\ w[i] = z[i] /\ y[i] = x[i] /\ z[i] \in Nat \ {0} /\ e[i] <= RbbSize /\ e[i] = x[i] + z[i]
      BY <1>2, <1>10
    <3> QED
      BY <3>1
  <2>2. w[n + 1] > 0 /\ y[n + 1] + w[n + 1] <= RbbSize
    BY <1>6, <1>10
  <2> QED
    BY <1>9, <2>1, <2>2
<1>13. ASSUME NEW i \in 1..(n + 1), NEW j \in 1..(n + 1), i # j
       PROVE  /\ q[i] # q[j]
              /\ y[i] + w[i] <= y[j] \/ y[j] + w[j] <= y[i]
  <2>1. CASE i \in 1..n /\ j \in 1..n
    <3>1. /\ y[i] = x[i] /\ y[j] = x[j] /\ w[i] = z[i] /\ w[j] = z[j]
          /\ e[i] = x[i] + z[i] /\ e[j] = x[j] + z[j]
      BY <1>2, <1>10, <2>1
    <3>2. e[i] <= x[j] \/ e[j] <= x[i]
      BY <1>3, <1>13, <2>1
    <3>3. q[i] # q[j]
      BY <1>1, <1>13, <2>1 DEF RbbRound, n
    <3> QED
      BY <3>1, <3>2, <3>3
  <2>2. CASE i \in 1..n /\ j = n + 1
    <3>1. y[i] = x[i] /\ y[j] = at /\ w[i] = z[i] /\ w[j] = size /\ e[i] = x[i] + z[i]
      BY <1>2, <1>10, <2>2
    <3>2. at + size <= x[i] \/ e[i] <= at
      BY <1>7, <2>2
    <3>3. q[i] # q[j]
      BY <1>0, <1>1, <2>2
    <3> QED
      BY <3>1, <3>2, <3>3
  <2>3. CASE i = n + 1 /\ j \in 1..n
    <3>1. y[j] = x[j] /\ y[i] = at /\ w[j] = z[j] /\ w[i] = size /\ e[j] = x[j] + z[j]
      BY <1>2, <1>10, <2>3
    <3>2. at + size <= x[j] \/ e[j] <= at
      BY <1>7, <2>3
    <3>3. q[i] # q[j]
      BY <1>0, <1>1, <2>3
    <3> QED
      BY <3>1, <3>2, <3>3
  <2> QED
    BY <1>9, <1>13, <2>1, <2>2, <2>3
<1>14. ASSUME NEW i \in 1..(n + 1), NEW j \in 1..(n + 1), NEW k \in 1..(n + 1), i < j, j < k
       PROVE  \/ y[i] < y[j] /\ y[j] < y[k]
              \/ y[j] < y[k] /\ y[k] < y[i]
              \/ y[k] < y[i] /\ y[i] < y[j]
  <2>1. i \in 1..n /\ j \in 1..n
    BY <1>0, <1>14
  <2>2. CASE k \in 1..n
    BY <1>4, <1>10, <1>14, <2>1, <2>2
  <2>3. CASE k = n + 1
    BY <1>8, <1>10, <1>14, <2>1, <2>3
  <2> QED
    BY <1>9, <2>2, <2>3
<1>15. at \in 0..RbbSize
  BY <1>6, RbbSizes
<1>16. Len(q) = n + 1
  BY <1>1
<1> DEFINE m == n + 1
<1> HIDE DEF m
<1>17. Len(q) = m /\ \A i \in 1..m : r[q[i]].buf = y[i] /\ r[q[i]].size = w[i]
  BY <1>11, <1>16 DEF m
<1>18. \A i \in 1..m : r[q[i]].size > 0 /\ r[q[i]].buf + r[q[i]].size <= RbbSize
  <2>1. \A i \in 1..m : w[i] > 0 /\ y[i] + w[i] <= RbbSize
    BY <1>12 DEF m
  <2> QED
    BY <1>17, <2>1
<1>19. ASSUME NEW i \in 1..m, NEW j \in 1..m, i # j
       PROVE  /\ q[i] # q[j]
              /\ \/ r[q[i]].buf + r[q[i]].size <= r[q[j]].buf
                 \/ r[q[j]].buf + r[q[j]].size <= r[q[i]].buf
  <2>1. q[i] # q[j] /\ (y[i] + w[i] <= y[j] \/ y[j] + w[j] <= y[i])
    BY <1>13, <1>19 DEF m
  <2>2. r[q[i]].buf = y[i] /\ r[q[i]].size = w[i] /\ r[q[j]].buf = y[j] /\ r[q[j]].size = w[j]
    BY <1>17
  <2> QED
    BY <2>1, <2>2
<1>20. ASSUME NEW i \in 1..m, NEW j \in 1..m, NEW k \in 1..m, i < j, j < k
       PROVE  \/ Rbb!Rising(r[q[i]].buf, r[q[j]].buf, r[q[k]].buf)
              \/ Rbb!Rising(r[q[j]].buf, r[q[k]].buf, r[q[i]].buf)
              \/ Rbb!Rising(r[q[k]].buf, r[q[i]].buf, r[q[j]].buf)
  <2>1. \/ y[i] < y[j] /\ y[j] < y[k]
        \/ y[j] < y[k] /\ y[k] < y[i]
        \/ y[k] < y[i] /\ y[i] < y[j]
    BY <1>14, <1>20 DEF m
  <2>2. r[q[i]].buf = y[i] /\ r[q[j]].buf = y[j] /\ r[q[k]].buf = y[k]
    BY <1>17
  <2> QED
    BY <2>1, <2>2 DEF Rbb!Rising
<1>21. RbbRound(r, q)
  BY <1>17, <1>18, <1>19, <1>20 DEF RbbRound
<1> QED
  BY <1>15, <1>21 DEF q

RbbRecord == [status : {"UNUSED", "INITED", "PUT", "GET"}, buf : 0..RbbSize, size : Nat]

\* The entries' types, and which are in use when entry b becomes e.
LEMMA RbbEntry ==
  ASSUME RbbTypes, NEW b \in Rbb!Blks, NEW e \in RbbRecord, blk_set' = [blk_set EXCEPT ![b] = e]
  PROVE  /\ blk_set' \in [Rbb!Blks -> RbbRecord]
         /\ blk_set'[b] = e /\ \A c \in Rbb!Blks \ {b} : blk_set'[c] = blk_set[c]
         /\ (e.status # "UNUSED" => (Rbb!Blks \ Rbb!UnusedBlks)' = (Rbb!Blks \ Rbb!UnusedBlks) \cup {b})
         /\ (e.status = "UNUSED" => (Rbb!Blks \ Rbb!UnusedBlks)' = (Rbb!Blks \ Rbb!UnusedBlks) \ {b})
<1>1. blk_set \in [Rbb!Blks -> RbbRecord]
  BY DEF RbbTypes, RbbRecord
<1>2. blk_set' \in [Rbb!Blks -> RbbRecord]
  BY <1>1
<1>3. blk_set'[b] = e /\ \A c \in Rbb!Blks \ {b} : blk_set'[c] = blk_set[c]
  BY <1>1
<1>4. Rbb!Blks \ Rbb!UnusedBlks = {c \in Rbb!Blks : blk_set[c].status # "UNUSED"}
  BY DEF Rbb!UnusedBlks, Rbb!Status
<1>5. (Rbb!Blks \ Rbb!UnusedBlks)' = {c \in Rbb!Blks : blk_set'[c].status # "UNUSED"}
  BY DEF Rbb!UnusedBlks, Rbb!Status, Rbb!Blks
<1> QED
  BY <1>2, <1>3, <1>4, <1>5

\* A block in use that is put or got stays where it is.
LEMMA RbbStatus ==
  ASSUME RbbParts, NEW b \in Rbb!Blks, Rbb!Status(b) # "UNUSED", NEW v \in {"PUT", "GET"},
         blk_set' = [blk_set EXCEPT ![b].status = v],
         blk_list' = blk_list, taken' = taken, ~misfit, UNCHANGED <<strayed, misfit>>
  PROVE  RbbParts'
<1> DEFINE e == [blk_set[b] EXCEPT !.status = v]
<1>1. blk_set[b] \in RbbRecord
  BY DEF RbbParts, RbbTypes, RbbRecord
<1>2. e \in RbbRecord /\ e.status = v /\ e.buf = blk_set[b].buf /\ e.size = blk_set[b].size
  BY <1>1 DEF RbbRecord
<1>3. blk_set' = [blk_set EXCEPT ![b] = e]
  OBVIOUS
<1> HIDE DEF e
<1>4. /\ blk_set' \in [Rbb!Blks -> RbbRecord]
      /\ blk_set'[b] = e /\ \A c \in Rbb!Blks \ {b} : blk_set'[c] = blk_set[c]
      /\ (Rbb!Blks \ Rbb!UnusedBlks)' = (Rbb!Blks \ Rbb!UnusedBlks) \cup {b}
  BY <1>2, <1>3, RbbEntry DEF RbbParts
<1>5. b \in Rbb!Blks \ Rbb!UnusedBlks
  BY DEF Rbb!UnusedBlks
<1>6. (Rbb!Blks \ Rbb!UnusedBlks)' = Rbb!Blks \ Rbb!UnusedBlks
  BY <1>4, <1>5
<1>7. RbbRound(blk_set', blk_list)
  <2>1. \A i \in 1..Len(blk_list) : blk_list[i] \in Rbb!Blks
    BY ElementOfSeq DEF RbbParts, RbbTypes
  <2>2. \A c \in Rbb!Blks : blk_set'[c].buf = blk_set[c].buf /\ blk_set'[c].size = blk_set[c].size
    BY <1>2, <1>4
  <2>3. \A i \in 1..Len(blk_list) : /\ blk_set'[blk_list[i]].buf = blk_set[blk_list[i]].buf
                                    /\ blk_set'[blk_list[i]].size = blk_set[blk_list[i]].size
    BY <2>1, <2>2
  <2>4. RbbRound(blk_set, blk_list)
    BY DEF RbbParts
  <2> QED
    BY <2>3, <2>4 DEF RbbRound
<1>8. RbbTypes'
  BY <1>4 DEF RbbParts, RbbTypes, RbbRecord, Rbb!Blks
<1>12. misfit' = misfit
  OBVIOUS
<1>9. (~strayed => Rbb!Blks \ Rbb!UnusedBlks = Rbb!Elems(blk_list) \cup Rbb!Elems(taken))'
  BY <1>6 DEF RbbParts, Rbb!Elems
<1>10. RbbRound(blk_set, blk_list)'
  BY <1>7 DEF RbbRound, Rbb!Rising
<1>11. (Rbb!Elems(blk_list) \cap Rbb!Elems(taken) = {})'
  BY DEF RbbParts, Rbb!Elems
<1> QED
  BY <1>8, <1>9, <1>10, <1>11, <1>12 DEF RbbParts

\* What is left of the list, where the blocks left are as they were.
LEMMA RbbLeft ==
  ASSUME RbbTypes, RbbRound(blk_set, blk_list), NEW gone, blk_list' = Rbb!Without(blk_list, gone),
         \A b \in Rbb!Elems(blk_list) \ gone :
           blk_set'[b].buf = blk_set[b].buf /\ blk_set'[b].size = blk_set[b].size
  PROVE  /\ blk_list' \in Seq(Rbb!Blks)
         /\ Rbb!Elems(blk_list)' = Rbb!Elems(blk_list) \ gone
         /\ RbbRound(blk_set, blk_list)'
<1> DEFINE p == Rbb!Without(blk_list, gone)
<1>1. /\ p \in Seq(Rbb!Blks)
      /\ \E h : Keeps(p, blk_list, h)
      /\ Rbb!Elems(p) = Rbb!Elems(blk_list) \ gone
  BY RbbWithout DEF RbbTypes
<1>2. blk_list' = p
  OBVIOUS
<1> HIDE DEF p
<1>3. PICK h : Keeps(p, blk_list, h)
  BY <1>1
<1>4. Len(p) \in Nat /\ Len(blk_list) \in Nat
  BY <1>1, LenProperties DEF RbbTypes
<1>5. RbbRound(blk_set, p)
  BY <1>3, <1>4, RbbRoundKept
<1>6. \A i \in 1..Len(p) : blk_set'[p[i]].buf = blk_set[p[i]].buf /\ blk_set'[p[i]].size = blk_set[p[i]].size
  BY <1>1 DEF Rbb!Elems
<1>7. RbbRound(blk_set', p)
  BY <1>5, <1>6, RbbRoundSame
<1>8. RbbRound(blk_set, blk_list)'
  BY <1>2, <1>7 DEF RbbRound, Rbb!Rising
<1>9. Rbb!Elems(blk_list)' = Rbb!Elems(p)
  BY <1>2 DEF Rbb!Elems
<1> QED
  BY <1>1, <1>2, <1>8, <1>9

LEMMA RbbAlloc == ASSUME RbbParts, ~strayed, ~misfit, NEW size \in Nat, Rbb!Alloc(size) PROVE RbbParts'
<1> DEFINE b == CHOOSE c \in Rbb!UnusedBlks : \A d \in Rbb!UnusedBlks : c <= d
<1>0. RbbTypes /\ RbbRound(blk_set, blk_list) /\ Rbb!UnusedBlks \subseteq Rbb!Blks
  BY DEF RbbParts, Rbb!UnusedBlks
<1>1. b \in Rbb!UnusedBlks
  <2>1. Rbb!UnusedBlks \in SUBSET Nat /\ Rbb!UnusedBlks # {}
    BY <1>0, RbbSizes DEF Rbb!Alloc
  <2>2. \E c \in Rbb!UnusedBlks : \A d \in Rbb!UnusedBlks : c <= d
    BY <2>1, LeastNatural
  <2> QED
    BY <2>2
<1>2. PICK at \in Rbb!Place(size) :
        blk_set' = [blk_set EXCEPT ![b] = [status |-> "INITED", buf |-> at, size |-> size]]
  BY DEF Rbb!Alloc
<1>3. /\ blk_list' = Append(blk_list, b) /\ taken' = taken /\ strayed' = strayed
      /\ misfit' = (size \notin 1..RbbSize)
  BY DEF Rbb!Alloc
<1> HIDE DEF b
<1>4. b \in Rbb!Blks /\ b \notin Rbb!Elems(blk_list) /\ b \notin Rbb!Elems(taken)
  BY <1>0, <1>1 DEF RbbParts
<1> DEFINE e == [status |-> "INITED", buf |-> at, size |-> size]
<1>5. /\ at \in 0..RbbSize
      /\ size \in 1..RbbSize => RbbRound(blk_set', Append(blk_list, b))
      /\ size > RbbSize => blk_list = << >>
  <2>1. size \in 1..RbbSize => RbbRound(blk_set', Append(blk_list, b))
    BY <1>0, <1>2, <1>4, RbbPlaced
  <2>2. ASSUME blk_list # << >> PROVE at \in 0..RbbSize /\ ~(size > RbbSize)
    <3> DEFINE n == Len(blk_list)
               first == blk_set[blk_list[1]]
               last == blk_set[blk_list[n]]
    <3>1. 1 \in 1..n /\ n \in 1..n
      BY <1>0, <2>2, EmptySeq, LenProperties DEF RbbTypes
    <3>2. /\ first.buf \in 0..RbbSize
          /\ last.buf \in 0..RbbSize /\ last.size \in Nat /\ last.buf + last.size <= RbbSize
      BY <1>0, <3>1, ElementOfSeq DEF RbbTypes, RbbRound
    <3>3. \/ at = last.buf + last.size
             /\ (IF first.buf > last.buf THEN first.buf ELSE RbbSize) - at >= size
          \/ at = 0 /\ first.buf >= size
      BY <2>2 DEF Rbb!Place, Rbb!Buf, Rbb!EndOf
    <3> HIDE DEF first, last
    <3> QED
      BY <3>2, <3>3, RbbSizes
  <2>3. blk_list = << >> => at = 0
    BY DEF Rbb!Place
  <2> QED
    BY <2>1, <2>2, <2>3, RbbSizes
<1>6. e \in RbbRecord /\ e.status = "INITED"
  BY <1>5, RbbSizes DEF RbbRecord
<1>7. blk_set' = [blk_set EXCEPT ![b] = e]
  BY <1>2
<1> HIDE DEF e
<1>8. /\ blk_set' \in [Rbb!Blks -> RbbRecord]
      /\ (Rbb!Blks \ Rbb!UnusedBlks)' = (Rbb!Blks \ Rbb!UnusedBlks) \cup {b}
  BY <1>0, <1>4, <1>6, <1>7, RbbEntry
<1>9. /\ blk_list' \in Seq(Rbb!Blks) /\ Len(blk_list') = Len(blk_list) + 1 /\ Len(blk_list) \in Nat
      /\ blk_list'[Len(blk_list) + 1] = b
      /\ \A i \in 1..Len(blk_list) : blk_list'[i] = blk_list[i]
  <2>1. blk_list \in Seq(Rbb!Blks) /\ Len(blk_list) \in Nat
    BY <1>0, LenProperties DEF RbbTypes
  <2> QED
    BY <1>3, <1>4, <2>1, AppendProperties
<1>10. Rbb!Elems(blk_list)' = Rbb!Elems(blk_list) \cup {b}
  <2>1. \A i \in 1..(Len(blk_list) + 1) : i \in 1..Len(blk_list) \/ i = Len(blk_list) + 1
    BY <1>9
  <2>2. Len(blk_list) + 1 \in 1..(Len(blk_list) + 1) /\ \A i \in 1..Len(blk_list) : i \in 1..(Len(blk_list) + 1)
    BY <1>9
  <2>3. Rbb!Elems(blk_list)' = {blk_list'[i] : i \in 1..(Len(blk_list) + 1)}
    BY <1>9 DEF Rbb!Elems
  <2> QED
    BY <1>9, <2>1, <2>2, <2>3 DEF Rbb!Elems
<1>11. Rbb!Elems(taken)' = Rbb!Elems(taken)
  BY <1>3 DEF Rbb!Elems
<1>12. RbbTypes'
  BY <1>0, <1>3, <1>8, <1>9 DEF RbbTypes, RbbRecord, Rbb!Blks
<1>13. ASSUME ~misfit' PROVE RbbRound(blk_set, blk_list)'
  <2>1. RbbRound(blk_set', blk_list')
    BY <1>3, <1>5, <1>13
  <2> QED
    BY <2>1 DEF RbbRound, Rbb!Rising
<1>14. (~strayed => Rbb!Blks \ Rbb!UnusedBlks = Rbb!Elems(blk_list) \cup Rbb!Elems(taken))'
  BY <1>3, <1>8, <1>10, <1>11 DEF RbbParts
<1>15. (Rbb!Elems(blk_list) \cap Rbb!Elems(taken) = {})'
  BY <1>4, <1>10, <1>11 DEF RbbParts
<1>16. ASSUME misfit' PROVE RbbOdd(blk_set, blk_list)'
  <2>1. blk_set'[b].size = size
    BY <1>0, <1>2, <1>4 DEF RbbTypes
  <2>2. size = 0 \/ size > RbbSize
    <3>1. size \notin 1..RbbSize
      BY <1>3, <1>16, Zenon
    <3> QED
      BY <3>1, RbbSizes
  <2>3. size > RbbSize => blk_list' = <<b>>
    BY <1>3, <1>5
  <2>4. b \in Rbb!Elems(blk_list')
    <3>1. Len(blk_list) + 1 \in 1..Len(blk_list')
      BY <1>9
    <3> QED
      BY <1>9, <3>1 DEF Rbb!Elems
  <2>5. RbbOdd(blk_set', blk_list')
    <3>1. blk_set'[b].size = 0 \/ (blk_set'[b].size > RbbSize /\ blk_list' = <<b>>)
      BY <2>1, <2>2, <2>3
    <3> QED
      BY <2>4, <3>1, Zenon DEF RbbOdd
  <2> QED
    BY <2>5 DEF RbbOdd, Rbb!Elems
<1> QED
  BY <1>12, <1>13, <1>14, <1>15, <1>16 DEF RbbParts

LEMMA RbbFree == ASSUME RbbParts, ~strayed, ~misfit, NEW b \in Rbb!Blks, Rbb!Free(b) PROVE RbbParts'
<1>0. RbbTypes /\ RbbRound(blk_set, blk_list)
  BY DEF RbbParts
<1>1. /\ blk_set' = [blk_set EXCEPT ![b] = Rbb!Unused] /\ blk_list' = Rbb!Without(blk_list, {b})
      /\ taken' = taken /\ strayed' = strayed /\ misfit' = misfit /\ b \notin Rbb!Elems(taken)
  BY DEF Rbb!Free
<1>2. Rbb!Unused \in RbbRecord /\ Rbb!Unused.status = "UNUSED"
  BY RbbSizes DEF Rbb!Unused, RbbRecord
<1>3. /\ blk_set' \in [Rbb!Blks -> RbbRecord]
      /\ \A c \in Rbb!Blks \ {b} : blk_set'[c] = blk_set[c]
      /\ (Rbb!Blks \ Rbb!UnusedBlks)' = (Rbb!Blks \ Rbb!UnusedBlks) \ {b}
  BY <1>0, <1>1, <1>2, RbbEntry
<1>4. \A c \in Rbb!Elems(blk_list) \ {b} : blk_set'[c].buf = blk_set[c].buf /\ blk_set'[c].size = blk_set[c].size
  <2>1. Rbb!Elems(blk_list) \subseteq Rbb!Blks
    BY <1>0, ElementOfSeq DEF RbbTypes, Rbb!Elems
  <2> QED
    BY <1>3, <2>1
<1>5. /\ blk_list' \in Seq(Rbb!Blks)
      /\ Rbb!Elems(blk_list)' = Rbb!Elems(blk_list) \ {b}
      /\ RbbRound(blk_set, blk_list)'
  BY <1>0, <1>1, <1>4, RbbLeft
<1>6. Rbb!Elems(taken)' = Rbb!Elems(taken)
  BY <1>1 DEF Rbb!Elems
<1>7. RbbTypes'
  BY <1>0, <1>1, <1>3, <1>5 DEF RbbTypes, RbbRecord, Rbb!Blks
<1>8. (~strayed => Rbb!Blks \ Rbb!UnusedBlks = Rbb!Elems(blk_list) \cup Rbb!Elems(taken))'
  BY <1>1, <1>3, <1>5, <1>6 DEF RbbParts
<1>9. (Rbb!Elems(blk_list) \cap Rbb!Elems(taken) = {})'
  BY <1>5, <1>6 DEF RbbParts
<1> QED
  BY <1>1, <1>5, <1>7, <1>8, <1>9 DEF RbbParts

\* The run that is taken off the list lies within it.
LEMMA RbbRun ==
  ASSUME NEW i \in 1..Len(blk_list), Len(blk_list) \in Nat, NEW limit
  PROVE  Rbb!LastOfRun(i, limit) \in i..Len(blk_list)
<1> DEFINE n == Len(blk_list)
           T == {k \in i..n : k < n => ~Rbb!Joins(i, k + 1, limit)}
<1>1. T \in SUBSET Nat /\ n \in T
  OBVIOUS
<1>2. PICK k \in T : \A m \in T : k <= m
  <2> HIDE DEF T
  <2> QED
    BY <1>1, LeastNatural
<1>3. k \in i..n /\ (k < n => ~Rbb!Joins(i, k + 1, limit))
  BY <1>2
<1>4. ASSUME NEW m \in (i + 1)..k PROVE Rbb!Joins(i, m, limit)
  <2>1. m - 1 \in i..n /\ m - 1 < k /\ m - 1 < n /\ (m - 1) + 1 = m
    BY <1>3
  <2>2. m - 1 \notin T
    <3>1. m - 1 \in Int /\ k \in Int
      BY <1>3
    <3> QED
      BY <1>2, <2>1, <3>1
  <2> QED
    BY <2>1, <2>2
<1>5. \E c \in i..n : /\ \A m \in (i + 1)..c : Rbb!Joins(i, m, limit)
                      /\ c < n => ~Rbb!Joins(i, c + 1, limit)
  BY <1>3, <1>4
<1> HIDE DEF T
<1> QED
  BY <1>5 DEF Rbb!LastOfRun

LEMMA RbbQueueGet == ASSUME RbbParts, ~strayed, ~misfit, NEW limit, Rbb!QueueGet(limit) PROVE RbbParts'
<1>0. RbbTypes /\ RbbRound(blk_set, blk_list) /\ blk_list \in Seq(Rbb!Blks) /\ Len(blk_list) \in Nat
  BY LenProperties DEF RbbParts, RbbTypes
<1>1. PICK i \in Rbb!FirstPut :
        LET run == SubSeq(blk_list, i, Rbb!LastOfRun(i, limit))
        IN  /\ taken' = run
            /\ blk_list' = Rbb!Without(blk_list, Rbb!Elems(run))
            /\ blk_set' = [b \in Rbb!Blks |-> IF b \in Rbb!Elems(run) THEN [blk_set[b] EXCEPT !.status = "GET"]
                                              ELSE blk_set[b]]
  BY DEF Rbb!QueueGet
<1> DEFINE k == Rbb!LastOfRun(i, limit)
           run == SubSeq(blk_list, i, k)
<1>2. i \in 1..Len(blk_list)
  BY DEF Rbb!FirstPut
<1>3. k \in i..Len(blk_list)
  BY <1>0, <1>2, RbbRun
<1>4. taken' = run /\ strayed' = strayed /\ misfit' = misfit /\ blk_list' = Rbb!Without(blk_list, Rbb!Elems(run))
  BY <1>1 DEF Rbb!QueueGet
<1>5. blk_set' = [b \in Rbb!Blks |-> IF b \in Rbb!Elems(run) THEN [blk_set[b] EXCEPT !.status = "GET"]
                                     ELSE blk_set[b]]
  BY <1>1
<1> HIDE DEF k
<1>6. run \in Seq(Rbb!Blks) /\ Rbb!Elems(run) \subseteq Rbb!Elems(blk_list)
  <2>0. i \in 1..(Len(blk_list) + 1) /\ k \in (i - 1)..Len(blk_list)
    BY <1>0, <1>2, <1>3
  <2>1. /\ run \in Seq(Rbb!Blks) /\ Len(run) = k - i + 1
        /\ \A m \in 1..(k - i + 1) : run[m] = blk_list[i + m - 1]
    BY <1>0, <1>2, <1>3, <2>0, SubSeqProperties
  <2>2. \A m \in 1..(k - i + 1) : i + m - 1 \in 1..Len(blk_list)
    BY <1>0, <1>2, <1>3
  <2> HIDE DEF run
  <2> QED
    BY <2>1, <2>2 DEF Rbb!Elems
<1> HIDE DEF run
<1>7. Rbb!Elems(blk_list) \subseteq Rbb!Blks
  BY <1>0, ElementOfSeq DEF Rbb!Elems
<1>8. taken = << >> /\ Rbb!Elems(taken) = {} /\ Rbb!Blks \ Rbb!UnusedBlks = Rbb!Elems(blk_list)
  <2>1. taken = << >>
    BY DEF Rbb!QueueGet
  <2>2. Rbb!Elems(taken) = {}
    BY <2>1, EmptySeq DEF Rbb!Elems
  <2> QED
    BY <2>1, <2>2 DEF RbbParts
<1>9. ASSUME NEW b \in Rbb!Blks
      PROVE  /\ blk_set'[b] \in RbbRecord /\ blk_set'[b].buf = blk_set[b].buf /\ blk_set'[b].size = blk_set[b].size
             /\ (blk_set'[b].status # "UNUSED" <=> blk_set[b].status # "UNUSED")
  <2>1. blk_set[b] \in RbbRecord
    BY <1>0 DEF RbbTypes, RbbRecord
  <2>2. CASE b \in Rbb!Elems(run)
    <3>1. blk_set'[b] = [blk_set[b] EXCEPT !.status = "GET"]
      BY <1>5, <2>2
    <3>2. blk_set[b].status # "UNUSED"
      BY <1>6, <1>8, <2>2 DEF Rbb!UnusedBlks, Rbb!Status
    <3> QED
      BY <2>1, <3>1, <3>2 DEF RbbRecord
  <2>3. CASE b \notin Rbb!Elems(run)
    BY <1>5, <2>1, <2>3
  <2> QED
    BY <2>2, <2>3
<1>10. /\ blk_list' \in Seq(Rbb!Blks)
       /\ Rbb!Elems(blk_list)' = Rbb!Elems(blk_list) \ Rbb!Elems(run)
       /\ RbbRound(blk_set, blk_list)'
  <2>1. \A b \in Rbb!Elems(blk_list) \ Rbb!Elems(run) :
          blk_set'[b].buf = blk_set[b].buf /\ blk_set'[b].size = blk_set[b].size
    BY <1>7, <1>9
  <2> QED
    BY <1>0, <1>4, <2>1, RbbLeft
<1>11. blk_set' \in [Rbb!Blks -> RbbRecord]
  <2>1. \E f : blk_set' = [b \in Rbb!Blks |-> f[b]]
    <3> DEFINE f == [b \in Rbb!Blks |-> IF b \in Rbb!Elems(run) THEN [blk_set[b] EXCEPT !.status = "GET"]
                                        ELSE blk_set[b]]
    <3>1. f = [b \in Rbb!Blks |-> f[b]]
      OBVIOUS
    <3>2. blk_set' = f
      BY <1>5
    <3> HIDE DEF f
    <3> QED
      BY <3>1, <3>2
  <2> QED
    BY <1>9, <2>1
<1>12. RbbTypes'
  BY <1>0, <1>4, <1>6, <1>10, <1>11 DEF RbbTypes, RbbRecord, Rbb!Blks
<1>13. Rbb!Elems(taken)' = Rbb!Elems(run)
  BY <1>4 DEF Rbb!Elems
<1>14. (Rbb!Blks \ Rbb!UnusedBlks)' = Rbb!Blks \ Rbb!UnusedBlks
  <2>1. (Rbb!Blks \ Rbb!UnusedBlks)' = {c \in Rbb!Blks : blk_set'[c].status # "UNUSED"}
    BY DEF Rbb!UnusedBlks, Rbb!Status, Rbb!Blks
  <2>2. Rbb!Blks \ Rbb!UnusedBlks = {c \in Rbb!Blks : blk_set[c].status # "UNUSED"}
    BY DEF Rbb!UnusedBlks, Rbb!Status
  <2> QED
    BY <1>9, <2>1, <2>2
<1>15. (~strayed => Rbb!Blks \ Rbb!UnusedBlks = Rbb!Elems(blk_list) \cup Rbb!Elems(taken))'
  BY <1>6, <1>8, <1>10, <1>13, <1>14
<1>16. (Rbb!Elems(blk_list) \cap Rbb!Elems(taken) = {})'
  BY <1>10, <1>13
<1> QED
  BY <1>4, <1>10, <1>12, <1>15, <1>16 DEF RbbParts

LEMMA RbbQueueFree == ASSUME RbbParts, ~strayed, ~misfit, Rbb!QueueFree PROVE RbbParts'
<1> DEFINE gone == Rbb!QueueEntries \cap Rbb!Blks
<1>0. RbbTypes /\ RbbRound(blk_set, blk_list) /\ blk_list \in Seq(Rbb!Blks) /\ taken \in Seq(Rbb!Blks)
  BY DEF RbbParts, RbbTypes
<1>1. /\ blk_set' = [b \in Rbb!Blks |-> IF b \in gone THEN Rbb!Unused ELSE blk_set[b]]
      /\ blk_list' = Rbb!Without(blk_list, gone)
      /\ strayed' = (Rbb!QueueEntries # Rbb!Elems(taken))
      /\ taken' = << >> /\ misfit' = misfit
  BY DEF Rbb!QueueFree
<1>2. Rbb!Unused \in RbbRecord /\ Rbb!Unused.status = "UNUSED"
  BY RbbSizes DEF Rbb!Unused, RbbRecord
<1>3. blk_set \in [Rbb!Blks -> RbbRecord]
  BY <1>0 DEF RbbTypes, RbbRecord
<1>4. Rbb!Elems(blk_list) \subseteq Rbb!Blks /\ Rbb!Elems(taken) \subseteq Rbb!Blks
  BY <1>0, ElementOfSeq DEF Rbb!Elems
<1>5. ~strayed' => gone = Rbb!Elems(taken)
  <2>1. ~strayed' => Rbb!QueueEntries = Rbb!Elems(taken)
    BY <1>1
  <2> QED
    BY <1>4, <2>1
<1> HIDE DEF gone
<1>6. blk_set' \in [Rbb!Blks -> RbbRecord]
  BY <1>1, <1>2, <1>3
<1>7. /\ blk_list' \in Seq(Rbb!Blks)
      /\ Rbb!Elems(blk_list)' = Rbb!Elems(blk_list) \ gone
      /\ RbbRound(blk_set, blk_list)'
  <2>1. \A b \in Rbb!Elems(blk_list) \ gone : blk_set'[b] = blk_set[b]
    BY <1>1, <1>4
  <2>2. \A b \in Rbb!Elems(blk_list) \ gone :
          blk_set'[b].buf = blk_set[b].buf /\ blk_set'[b].size = blk_set[b].size
    BY <2>1
  <2> QED
    BY <1>0, <1>1, <2>2, RbbLeft
<1>8. taken' \in Seq(Rbb!Blks) /\ Rbb!Elems(taken)' = {}
  BY <1>1, EmptySeq DEF Rbb!Elems
<1>9. RbbTypes'
  <2>1. strayed' \in BOOLEAN /\ misfit' \in BOOLEAN
    BY <1>0, <1>1 DEF RbbTypes
  <2> QED
    BY <1>6, <1>7, <1>8, <2>1 DEF RbbTypes, RbbRecord, Rbb!Blks
<1>10. (Rbb!Blks \ Rbb!UnusedBlks)' = (Rbb!Blks \ Rbb!UnusedBlks) \ gone
  <2>1. (Rbb!Blks \ Rbb!UnusedBlks)' = {c \in Rbb!Blks : blk_set'[c].status # "UNUSED"}
    BY DEF Rbb!UnusedBlks, Rbb!Status, Rbb!Blks
  <2>2. Rbb!Blks \ Rbb!UnusedBlks = {c \in Rbb!Blks : blk_set[c].status # "UNUSED"}
    BY DEF Rbb!UnusedBlks, Rbb!Status
  <2>3. \A c \in Rbb!Blks : blk_set'[c] = IF c \in gone THEN Rbb!Unused ELSE blk_set[c]
    BY <1>1
  <2>4. \A c \in Rbb!Blks : blk_set'[c].status # "UNUSED" <=> blk_set[c].status # "UNUSED" /\ c \notin gone
    BY <1>2, <2>3
  <2> QED
    BY <2>1, <2>2, <2>4
<1>11. (~strayed => Rbb!Blks \ Rbb!UnusedBlks = Rbb!Elems(blk_list) \cup Rbb!Elems(taken))'
  BY <1>5, <1>7, <1>8, <1>10 DEF RbbParts
<1>12. (Rbb!Elems(blk_list) \cap Rbb!Elems(taken) = {})'
  BY <1>8
<1> QED
  BY <1>1, <1>7, <1>9, <1>11, <1>12 DEF RbbParts

LEMMA RbbNext == Rbb!Inv /\ Rbb!Next => Rbb!Inv'
<1> SUFFICES ASSUME RbbParts, Rbb!Next PROVE RbbParts'
  BY RbbInvParts, RbbInvPartsNext
<1>0. ~strayed /\ ~misfit /\ 0..MaxAlloc \subseteq Nat
  BY DEF Rbb!Next
<1>1. ASSUME NEW size \in 0..MaxAlloc, Rbb!Alloc(size) PROVE RbbParts'
  BY <1>0, <1>1, RbbAlloc
<1>2. ASSUME NEW size \in 0..MaxAlloc, Rbb!QueueGet(size) PROVE RbbParts'
  BY <1>0, <1>2, RbbQueueGet
<1>3. ASSUME NEW b \in Rbb!Blks, Rbb!Put(b) PROVE RbbParts'
  BY <1>0, <1>3, RbbStatus DEF Rbb!Put
<1>4. ASSUME NEW b \in Rbb!Blks, Rbb!Free(b) PROVE RbbParts'
  BY <1>0, <1>4, RbbFree
<1>5. ASSUME Rbb!Get PROVE RbbParts'
  <2>1. PICK i \in Rbb!FirstPut : blk_set' = [blk_set EXCEPT ![blk_list[i]].status = "GET"]
    BY <1>5 DEF Rbb!Get
  <2>2. /\ Rbb!Status(blk_list[i]) # "UNUSED" /\ i \in 1..Len(blk_list)
    BY DEF Rbb!FirstPut
  <2>3. blk_list[i] \in Rbb!Blks
    BY <2>2, ElementOfSeq DEF RbbParts, RbbTypes
  <2> QED
    BY <1>0, <1>5, <2>1, <2>2, <2>3, RbbStatus DEF Rbb!Get
<1>6. ASSUME Rbb!QueueFree PROVE RbbParts'
  BY <1>0, <1>6, RbbQueueFree
<1> QED
  BY <1>1, <1>2, <1>3, <1>4, <1>5, <1>6 DEF Rbb!Next

LEMMA RbbStays == ASSUME Rbb!Inv, UNCHANGED rbbVars PROVE Rbb!Inv'
<1>1. blk_set' = blk_set /\ blk_list' = blk_list /\ taken' = taken /\ strayed' = strayed /\ misfit' = misfit
  BY DEF rbbVars
<1>2. RbbParts
  BY RbbInvParts
<1>3. RbbTypes'
  BY <1>1, <1>2 DEF RbbParts, RbbTypes, Rbb!Blks
<1>4. ((~misfit => RbbRound(blk_set, blk_list)) /\ (misfit => RbbOdd(blk_set, blk_list)))'
  BY <1>1, <1>2 DEF RbbParts, RbbRound, RbbOdd, Rbb!Rising, Rbb!Elems
<1>5. Rbb!UnusedBlks' = Rbb!UnusedBlks /\ Rbb!Elems(blk_list)' = Rbb!Elems(blk_list)
      /\ Rbb!Elems(taken)' = Rbb!Elems(taken)
  BY <1>1 DEF Rbb!UnusedBlks, Rbb!Status, Rbb!Elems, Rbb!Blks
<1>6. (~strayed => Rbb!Blks \ Rbb!UnusedBlks = Rbb!Elems(blk_list) \cup Rbb!Elems(taken))'
  BY <1>1, <1>2, <1>5 DEF RbbParts, Rbb!Blks
<1>7. (Rbb!Elems(blk_list) \cap Rbb!Elems(taken) = {})'
  BY <1>2, <1>5 DEF RbbParts
<1>8. RbbParts'
  BY <1>3, <1>4, <1>6, <1>7 DEF RbbParts
<1> QED
  BY <1>8, RbbInvPartsNext

-----------------------------------------------------------------------------
(* Data queues.                                                            *)
LEMMA DqIpc ==
  /\ Dq!IpcInv <=> IpcInv
  /\ (Dq!IpcInv <=> IpcInv)'
  /\ Dq!IpcTypeOK <=> IpcTypeOK
  /\ (Dq!IpcTypeOK <=> IpcTypeOK)'
  /\ Dq!IpcInit <=> IpcInit
  /\ \A q : Dq!Elements(q) = Elements(q)
  /\ \A l : Dq!ResumeFirst(l) <=> ResumeFirst(l)
  /\ \A l, t, prio, time : Dq!ListSuspend(l, t, "FIFO", prio, time) <=> ListSuspend(l, t, "FIFO", prio, time)
  /\ \A t : Dq!ThreadTimeout(t) <=> ThreadTimeout(t)
  /\ \A l : Dq!BeginTeardown(l) <=> BeginTeardown(l)
  /\ \A l : Dq!TeardownStep(l) <=> TeardownStep(l)
  /\ Dq!WaitTimes = WaitTimes
  /\ Dq!ipcVars = ipcVars
  /\ \A S : Dq!Cardinality(S) = Cardinality(S)
BY DEF Dq!IpcInv, IpcInv, Dq!IpcTypeOK, IpcTypeOK, Dq!LinkedOnce, LinkedOnce,
       Dq!SuspendedIffWaiting, SuspendedIffWaiting, Dq!ArmedOnlyWhileSuspended,
       ArmedOnlyWhileSuspended, Dq!Waiting, Waiting, Dq!Elements, Elements,
       Dq!NoRepeat, NoRepeat, Dq!Errors, Errors, Dq!Teardown, Teardown,
       Dq!IpcInit, IpcInit, Dq!ListResume, ListResume, Dq!ResumeFirst, ResumeFirst,
       Dq!ThreadTimeout, ThreadTimeout, Dq!Unlink, Unlink,
       Dq!ListSuspend, ListSuspend, Dq!Enqueue, Enqueue, Dq!InsertAt, InsertAt,
       Dq!PrioPosition, PrioPosition,
       Dq!BeginTeardown, BeginTeardown, Dq!TeardownTest, TeardownTest,
       Dq!TeardownResume, TeardownResume, Dq!TeardownStep, TeardownStep,
       Dq!WaitTimes, WaitTimes, Dq!ipcVars, ipcVars, Dq!Cardinality, Cardinality

\* The ring, the calls and who waits in them,
DqData ==
  /\ items \in [0..(Size - 1) -> Mails \cup {None}]
  /\ put_index \in 0..(IndexMod - 1) /\ get_index \in 0..(IndexMod - 1)
  /\ dq_received \in Mails \cup {None} /\ overrun \in BOOLEAN

DqCalls ==
  /\ dq_call \in [Threads -> Dq!Calls]
  /\ \A t \in Threads : dq_call[t].op = "none" => dq_call[t] = Dq!NoCall /\ stat[t] = "ready"
  /\ \A t \in Threads : dq_call[t].op = "push" => dq_call[t].mail \in Mails
  /\ \A t \in Elements(suspend_thread[Pushers]) : dq_call[t].op = "push" /\ error[t] = "EOK"
  /\ \A t \in Elements(suspend_thread[Poppers]) : dq_call[t].op = "pop" /\ error[t] = "EOK"

\* who has been woken to go on with which call,
DqWoken(op) ==
  {t \in Threads : dq_call[t].op = op /\ stat[t] = "ready" /\ error[t] = "EOK"}

\* the number of items, and that nobody is stranded.
DqKept == ~overrun => Dq!Count <= Size

DqServed ==
  ~fault /\ ~overrun =>
    /\ suspend_thread[Pushers] # << >> => Dq!Count + Cardinality(DqWoken("push")) > Lwm
    /\ suspend_thread[Poppers] # << >> => Dq!Count <= Cardinality(DqWoken("pop"))

DqAll == IpcInv /\ DqData /\ DqCalls /\ DqKept /\ DqServed

LEMMA DqParts == Dq!Inv <=> DqAll
<1>1. Dq!TypeOK <=> IpcTypeOK /\ DqData /\ dq_call \in [Threads -> Dq!Calls]
  BY DqIpc DEF Dq!TypeOK, DqData, Dq!Slots
<1>2. Dq!CallsWait /\ dq_call \in [Threads -> Dq!Calls] <=> DqCalls
  BY DqIpc DEF Dq!CallsWait, DqCalls
<1>3. \A op : {t \in Threads : Dq!Woken(t, op)} = DqWoken(op)
  BY DEF Dq!Woken, DqWoken
<1>4. Dq!NoneStranded <=> DqServed
  BY <1>3, DqIpc DEF Dq!NoneStranded, DqServed, Dq!Usable
<1>5. Dq!CountKept <=> DqKept
  BY DEF Dq!CountKept, DqKept
<1> QED
  BY <1>1, <1>2, <1>4, <1>5, DqIpc DEF Dq!Inv, DqAll, IpcInv

LEMMA DqPartsNext == (Dq!Inv <=> DqAll)'
BY DqParts, PTL

LEMMA DqSizes ==
  /\ Pushers \in Lists /\ Poppers \in Lists /\ Pushers # Poppers
  /\ Size \in Nat \ {0} /\ Lwm \in 0..(Size - 1) /\ IndexMod \in Nat \ {0}
  /\ IndexMod > Size /\ (IndexMod % Size) = 0
  /\ None \notin Mails /\ None \notin WaitTimes
<1>1. Dq!DataQueueAssumption
  BY DeviceAssumption
<1>2. /\ Pushers \in Lists /\ Poppers \in Lists /\ Pushers # Poppers
      /\ Size \in Nat \ {0} /\ Lwm \in 0..(Size - 1)
      /\ IndexMod \in Nat /\ IndexMod > Size /\ (IndexMod % Size) = 0
  BY <1>1 DEF Dq!DataQueueAssumption
<1>3. IndexMod # 0
  BY <1>2
<1>4. None \notin Mails /\ None \notin WaitTimes
  BY <1>1 DEF Dq!DataQueueAssumption, Dq!WaitTimes, WaitTimes
<1> QED
  BY <1>2, <1>3, <1>4

\* The number of items is the difference of the indices, wrapped or not,
LEMMA DqCountIs ==
  ASSUME NEW a \in Int, NEW c \in 0..(IndexMod - 1), a = c \/ a = c - IndexMod
  PROVE  (a % IndexMod) = c
<1>0. IndexMod \in Nat \ {0}
  BY DqSizes
<1>1. CASE a = c
  <2>1. a = IndexMod * 0 + c
    BY <1>0, <1>1
  <2> QED
    BY <1>0, <2>1, ModUnique
<1>2. CASE a = c - IndexMod
  <2>1. -1 \in Int /\ a = IndexMod * (-1) + c
    BY <1>0, <1>2
  <2> QED
    BY <1>0, <2>1, ModUnique
<1> QED
  BY <1>1, <1>2

LEMMA DqCounts ==
  ASSUME DqData
  PROVE  /\ Dq!Count \in 0..(IndexMod - 1)
         /\ \/ put_index - get_index = Dq!Count
            \/ put_index - get_index = Dq!Count - IndexMod /\ put_index < get_index
<1> DEFINE d == put_index - get_index
<1>1. put_index \in 0..(IndexMod - 1) /\ get_index \in 0..(IndexMod - 1) /\ IndexMod \in Nat \ {0}
  BY DqSizes DEF DqData
<1>2. d \in Int /\ d < IndexMod /\ d > -IndexMod /\ d < 0 => put_index < get_index
  BY <1>1
<1>3. Dq!Count = d % IndexMod /\ d \in Int
  BY <1>1 DEF Dq!Count
<1>4. d < 0 => put_index < get_index
  BY <1>1
<1>5. /\ d >= 0 => d \in 0..(IndexMod - 1)
      /\ ~(d >= 0) => d + IndexMod \in 0..(IndexMod - 1) /\ d = (d + IndexMod) - IndexMod
  BY <1>1
<1> HIDE DEF d
<1>6. CASE d >= 0
  <2>1. Dq!Count = d
    BY <1>3, <1>5, <1>6, DqCountIs
  <2> QED
    BY <1>5, <1>6, <2>1 DEF d
<1>7. CASE ~(d >= 0)
  <2>1. Dq!Count = d + IndexMod
    BY <1>3, <1>5, <1>7, DqCountIs
  <2>2. d = Dq!Count - IndexMod /\ d < 0
    BY <1>1, <1>3, <1>5, <1>7, <2>1
  <2> QED
    BY <1>4, <1>5, <1>7, <2>1, <2>2 DEF d
<1> QED
  BY <1>6, <1>7

\* one more with each item stored and one less with each fetched.
LEMMA DqAdvance ==
  ASSUME NEW i \in 0..(IndexMod - 1)
  PROVE  /\ ((i + 1) % IndexMod) \in 0..(IndexMod - 1)
         /\ \/ ((i + 1) % IndexMod) = i + 1
            \/ ((i + 1) % IndexMod) = (i + 1) - IndexMod /\ i = IndexMod - 1
<1>1. IndexMod \in Nat \ {0} /\ i + 1 \in 0..(2 * IndexMod - 1)
  BY DqSizes
<1>2. ((i + 1) % IndexMod) = IF i + 1 < IndexMod THEN i + 1 ELSE (i + 1) - IndexMod
  BY <1>1, ModOnce
<1> QED
  BY <1>1, <1>2

LEMMA DqStored ==
  ASSUME DqData, Dq!Count < Size, put_index' = (put_index + 1) % IndexMod, get_index' = get_index
  PROVE  Dq!Count' = Dq!Count + 1
<1> DEFINE c == Dq!Count
<1>1. /\ put_index \in 0..(IndexMod - 1) /\ get_index \in 0..(IndexMod - 1)
      /\ Size \in Nat /\ IndexMod \in Nat /\ IndexMod > Size
  BY DqSizes DEF DqData
<1>2. c \in 0..(IndexMod - 1) /\ c < Size
      /\ (put_index - get_index = c \/ (put_index - get_index = c - IndexMod /\ put_index < get_index))
  BY DqCounts
<1>3. put_index' = put_index + 1 \/ (put_index' = (put_index + 1) - IndexMod /\ put_index = IndexMod - 1)
  BY <1>1, DqAdvance
<1> HIDE DEF c
<1>4. /\ c + 1 \in 0..(IndexMod - 1) /\ put_index' - get_index' \in Int
      /\ put_index' - get_index' = c + 1 \/ put_index' - get_index' = (c + 1) - IndexMod
  BY <1>1, <1>2, <1>3
<1>5. ((put_index' - get_index') % IndexMod) = c + 1
  BY <1>4, DqCountIs
<1> QED
  BY <1>5 DEF Dq!Count, c

LEMMA DqFetched ==
  ASSUME DqData, Dq!Count > 0, get_index' = (get_index + 1) % IndexMod, put_index' = put_index
  PROVE  /\ Dq!Count' = Dq!Count - 1
         /\ Dq!Count' <= Lwm => put_index - get_index' <= Lwm
<1> DEFINE c == Dq!Count
<1>1. /\ put_index \in 0..(IndexMod - 1) /\ get_index \in 0..(IndexMod - 1)
      /\ Size \in Nat /\ IndexMod \in Nat /\ IndexMod > Size /\ Lwm \in Nat
  BY DqSizes DEF DqData
<1>2. c \in 0..(IndexMod - 1) /\ c > 0
      /\ (put_index - get_index = c \/ (put_index - get_index = c - IndexMod /\ put_index < get_index))
  BY DqCounts
<1>3. get_index' = get_index + 1 \/ (get_index' = (get_index + 1) - IndexMod /\ get_index = IndexMod - 1)
  BY <1>1, DqAdvance
<1> HIDE DEF c
<1>4. /\ c - 1 \in 0..(IndexMod - 1) /\ put_index' - get_index' \in Int
      /\ put_index' - get_index' = c - 1 \/ put_index' - get_index' = (c - 1) - IndexMod
  BY <1>1, <1>2, <1>3
<1>5. ((put_index' - get_index') % IndexMod) = c - 1
  BY <1>4, DqCountIs
<1>6. Dq!Count' = c - 1
  BY <1>5 DEF Dq!Count
<1>7. c - 1 <= Lwm => put_index - get_index' <= Lwm
  BY <1>1, <1>4
<1> QED
  BY <1>6, <1>7 DEF c

LEMMA DqShape ==
  ASSUME IpcInv
  PROVE  /\ Pushers \in Lists /\ Poppers \in Lists /\ Pushers # Poppers
         /\ suspend_thread \in [Lists -> Seq(Threads)]
         /\ stat \in [Threads -> {"ready", "suspend"}] /\ error \in [Threads -> Errors]
         /\ \A l \in Lists : /\ suspend_thread[l] \in Seq(Threads) /\ NoRepeat(suspend_thread[l])
                             /\ \A t \in Elements(suspend_thread[l]) :
                                  t \in Threads /\ stat[t] = "suspend"
<1>1. /\ suspend_thread \in [Lists -> Seq(Threads)]
      /\ stat \in [Threads -> {"ready", "suspend"}] /\ error \in [Threads -> Errors]
      /\ \A l \in Lists : suspend_thread[l] \in Seq(Threads) /\ NoRepeat(suspend_thread[l])
  BY DEF IpcInv, IpcTypeOK, LinkedOnce
<1>2. \A l \in Lists : \A t \in Elements(suspend_thread[l]) : t \in Threads
  BY <1>1, ElementOfSeq DEF Elements
<1>3. \A l \in Lists : \A t \in Elements(suspend_thread[l]) : stat[t] = "suspend"
  BY <1>2 DEF IpcInv, SuspendedIffWaiting, Waiting
<1> QED
  BY <1>1, <1>2, <1>3, DqSizes

\* The call each list is for.
DqOp(l) == IF l = Pushers THEN "push" ELSE "pop"

(* One list's head may be resumed, and the call of t, which is ready, may  *)
(* end.                                                                    *)
LEMMA DqResumes ==
  ASSUME IpcInv, DqCalls, NEW l \in {Pushers, Poppers},
         ResumeFirst(l) \/ UNCHANGED ipcVars, NEW t,
         \/ dq_call' = dq_call
         \/ t \in Threads /\ stat[t] = "ready" /\ dq_call' = [dq_call EXCEPT ![t] = Dq!NoCall]
  PROVE  /\ IpcInv' /\ DqCalls' /\ fault' = fault
         /\ \A k \in {Pushers, Poppers} : suspend_thread'[k] # << >> => suspend_thread[k] # << >>
         /\ ResumeFirst(l) /\ suspend_thread[l] # << >> =>
              \E h \in Threads : h \notin DqWoken(DqOp(l)) /\ h \in DqWoken(DqOp(l))'
         /\ \A op \in {"push", "pop"} :
              /\ DqWoken(op) \ {t} \subseteq DqWoken(op)'
              /\ dq_call' = dq_call \/ dq_call[t].op # op => DqWoken(op) \subseteq DqWoken(op)'
<1> DEFINE q == suspend_thread[l]
           h == Head(q)
           pops == q # << >> /\ ListResume(l)
<1>0. /\ l \in Lists /\ suspend_thread \in [Lists -> Seq(Threads)]
      /\ stat \in [Threads -> {"ready", "suspend"}] /\ error \in [Threads -> Errors]
      /\ q \in Seq(Threads) /\ NoRepeat(q) /\ Pushers # Poppers
      /\ Pushers \in Lists /\ Poppers \in Lists
      /\ \A k \in {Pushers, Poppers} : \A u \in Elements(suspend_thread[k]) :
           u \in Threads /\ stat[u] = "suspend" /\ dq_call[u].op = DqOp(k) /\ error[u] = "EOK"
      /\ dq_call \in [Threads -> Dq!Calls]
  BY DqShape DEF DqCalls, DqOp
<1>1. Dq!NoCall.op = "none" /\ Dq!NoCall \in Dq!Calls
  BY DEF Dq!NoCall, Dq!Calls
<1>2. /\ dq_call' \in [Threads -> Dq!Calls]
      /\ \A u \in Threads : u # t => dq_call'[u] = dq_call[u]
      /\ \/ t \in Threads /\ stat[t] = "ready" /\ dq_call'[t] = Dq!NoCall
         \/ dq_call' = dq_call
  BY <1>0, <1>1
<1>p. /\ pops \/ UNCHANGED ipcVars
      /\ ResumeFirst(l) /\ q # << >> => pops
  BY DEF ResumeFirst
<1>3. IpcInv'
  <2>1. CASE pops
    BY <1>0, <2>1, ListResumeInv
  <2> QED
    BY <1>p, <2>1, UnchangedInv
<1>4. /\ UNCHANGED <<error, fault>>
      /\ \/ ~pops /\ UNCHANGED <<stat, suspend_thread>>
         \/ /\ pops /\ q # << >> /\ stat' = [stat EXCEPT ![h] = "ready"]
            /\ suspend_thread' = [suspend_thread EXCEPT ![l] = Tail(q)]
  <2>1. CASE pops
    BY <2>1 DEF ListResume
  <2> QED
    BY <1>p, <2>1 DEF ipcVars
<1>5. q # << >> => /\ h \in Elements(q) /\ h \in Threads /\ stat[h] = "suspend"
                   /\ dq_call[h].op = DqOp(l) /\ error[h] = "EOK"
                   /\ Elements(Tail(q)) \subseteq Elements(q)
  BY <1>0, TailProperties
<1> HIDE DEF pops
<1>6. pops => suspend_thread'[l] = Tail(q) /\ dq_call'[h] = dq_call[h]
  BY <1>0, <1>2, <1>4, <1>5
<1>7. \A k \in {Pushers, Poppers} :
        /\ Elements(suspend_thread'[k]) \subseteq Elements(suspend_thread[k])
        /\ suspend_thread'[k] # << >> => suspend_thread[k] # << >>
  <2>1. TAKE k \in {Pushers, Poppers}
  <2>2. CASE k = l
    BY <1>4, <1>5, <1>6, <2>2
  <2>3. CASE k # l
    BY <1>0, <1>4, <2>3
  <2> QED
    BY <2>2, <2>3
<1>8. /\ \A u \in Threads : stat[u] = "ready" => stat'[u] = "ready"
      /\ \A u \in Threads : u # h => stat'[u] = stat[u]
  BY <1>0, <1>4
<1> HIDE DEF q, h
<1>9. \A k \in {Pushers, Poppers} : \A u \in Elements(suspend_thread'[k]) :
        dq_call'[u].op = DqOp(k) /\ error'[u] = "EOK"
  <2>1. TAKE k \in {Pushers, Poppers}
  <2>2. TAKE u \in Elements(suspend_thread'[k])
  <2>3. u \in Elements(suspend_thread[k])
    BY <1>7
  <2>4. u \in Threads /\ stat[u] = "suspend" /\ dq_call[u].op = DqOp(k) /\ error[u] = "EOK"
    BY <1>0, <2>3
  <2>5. dq_call'[u] = dq_call[u]
    BY <1>2, <2>4
  <2> QED
    BY <1>4, <2>4, <2>5
<1>10. DqCalls'
  <2>1. \A u \in Threads : dq_call'[u].op = "none" => dq_call'[u] = Dq!NoCall /\ stat'[u] = "ready"
    BY <1>2, <1>8 DEF DqCalls
  <2>2. \A u \in Threads : dq_call'[u].op = "push" => dq_call'[u].mail \in Mails
    BY <1>1, <1>2 DEF DqCalls
  <2> QED
    BY <1>0, <1>2, <1>9, <2>1, <2>2 DEF DqCalls, DqOp
<1>12. pops => h \in Threads /\ h \notin DqWoken(DqOp(l)) /\ h \in DqWoken(DqOp(l))'
  BY <1>0, <1>4, <1>5, <1>6 DEF DqWoken
<1>13. ASSUME NEW op \in {"push", "pop"}
       PROVE  /\ DqWoken(op) \ {t} \subseteq DqWoken(op)'
              /\ dq_call' = dq_call \/ dq_call[t].op # op => DqWoken(op) \subseteq DqWoken(op)'
  BY <1>2, <1>4, <1>8 DEF DqWoken
<1>14. ResumeFirst(l) /\ suspend_thread[l] # << >> => pops
  BY <1>p DEF q
<1> QED
  BY <1>3, <1>4, <1>7, <1>10, <1>12, <1>13, <1>14

LEMMA DqWokens ==
  /\ \A op : DqWoken(op) \in SUBSET Threads /\ DqWoken(op)' \in SUBSET Threads
  /\ \A op : Cardinality(DqWoken(op)) \in Nat /\ Cardinality(DqWoken(op)') \in Nat
<1>1. \A op : DqWoken(op) \in SUBSET Threads /\ DqWoken(op)' \in SUBSET Threads
  BY DEF DqWoken
<1> QED
  BY <1>1, DeviceAssumption, FiniteCounts

\* The end of rt_data_queue_push, of an interrupt or in the call of t.
LEMMA DqStore ==
  ASSUME DqAll, Dq!Usable, NEW m \in Mails, Dq!Store(m), NEW t,
         \/ dq_call' = dq_call
         \/ t \in DqWoken("push") /\ dq_call' = [dq_call EXCEPT ![t] = Dq!NoCall]
  PROVE  DqAll'
<1> DEFINE c == Dq!Count
           nc == Dq!Count'
<1>0. /\ ResumeFirst(Poppers) /\ put_index' = (put_index + 1) % IndexMod
      /\ items' = [items EXCEPT ![put_index % Size] = m]
      /\ overrun' = (c >= Size) /\ UNCHANGED <<get_index, dq_received>>
      /\ IpcInv /\ DqData /\ DqCalls /\ DqKept /\ DqServed
  BY DqIpc DEF Dq!Store, DqAll
<1>1. /\ Size \in Nat \ {0} /\ Lwm \in Nat /\ Pushers # Poppers
      /\ DqOp(Poppers) = "pop" /\ c \in Int
  BY <1>0, DqSizes, DqCounts DEF DqOp
<1>2. /\ \/ dq_call' = dq_call
         \/ t \in Threads /\ stat[t] = "ready" /\ dq_call' = [dq_call EXCEPT ![t] = Dq!NoCall]
      /\ dq_call' = dq_call \/ dq_call[t].op # "pop"
  BY DEF DqWoken
<1>3. /\ IpcInv' /\ DqCalls' /\ fault' = fault
      /\ suspend_thread'[Pushers] # << >> => suspend_thread[Pushers] # << >>
      /\ suspend_thread'[Poppers] # << >> => suspend_thread[Poppers] # << >>
      /\ suspend_thread[Poppers] # << >> =>
           \E h \in Threads : h \notin DqWoken("pop") /\ h \in DqWoken("pop")'
      /\ DqWoken("push") \ {t} \subseteq DqWoken("push")'
      /\ DqWoken("pop") \subseteq DqWoken("pop")'
  BY <1>0, <1>1, <1>2, DqResumes
<1>4. DqData'
  <2>1. put_index' \in 0..(IndexMod - 1)
    BY <1>0, DqAdvance DEF DqData
  <2>2. items' \in [0..(Size - 1) -> Mails \cup {None}]
    BY <1>0 DEF DqData
  <2>3. overrun' \in BOOLEAN
    BY <1>0
  <2> QED
    BY <1>0, <2>1, <2>2, <2>3 DEF DqData
<1>5. c < Size => nc = c + 1
  BY <1>0, DqStored
<1>a. nc = Dq!Count' /\ c = Dq!Count
  OBVIOUS
<1> HIDE DEF c, nc
<1>6. ~overrun' => c < Size /\ nc = c + 1
  <2>1. ~overrun' => ~(c >= Size)
    BY <1>0, Zenon
  <2>2. ~(c >= Size) => c < Size
    BY <1>1
  <2> QED
    BY <1>5, <2>1, <2>2
<1>7. DqKept'
  BY <1>1, <1>6, <1>a DEF DqKept
<1>b. ~fault /\ ~overrun
  BY DEF Dq!Usable
<1>8. ASSUME ~fault, ~overrun', suspend_thread'[Pushers] # << >>
      PROVE  nc + Cardinality(DqWoken("push")') > Lwm
  <2>0. c + Cardinality(DqWoken("push")) > Lwm
    BY <1>0, <1>3, <1>8, <1>a, <1>b DEF DqServed
  <2>1. Cardinality(DqWoken("push")) - 1 <= Cardinality(DqWoken("push")')
    BY <1>3, DqWokens, DeviceAssumption, FiniteMinusOne
  <2> QED
    BY <1>1, <1>6, <1>8, <2>0, <2>1, DqWokens
<1>9. ASSUME ~fault, ~overrun', suspend_thread'[Poppers] # << >>
      PROVE  nc <= Cardinality(DqWoken("pop")')
  <2>0. c <= Cardinality(DqWoken("pop"))
    BY <1>0, <1>3, <1>9, <1>a, <1>b DEF DqServed
  <2>1. Cardinality(DqWoken("pop")) + 1 <= Cardinality(DqWoken("pop")')
    BY <1>3, <1>9, DqWokens, DeviceAssumption, FinitePlusOne
  <2> QED
    BY <1>1, <1>6, <1>9, <2>0, <2>1, DqWokens
<1>10. DqServed'
  BY <1>3, <1>8, <1>9, <1>a DEF DqServed
<1> QED
  BY <1>3, <1>4, <1>7, <1>10 DEF DqAll

LEMMA DqFetch ==
  ASSUME DqAll, Dq!Usable, ~Dq!Empty, Dq!Fetch, NEW t,
         \/ dq_call' = dq_call
         \/ t \in DqWoken("pop") /\ dq_call' = [dq_call EXCEPT ![t] = Dq!NoCall]
  PROVE  DqAll'
<1> DEFINE c == Dq!Count
           nc == Dq!Count'
           low == put_index - get_index' <= Lwm
<1>0. /\ IF low THEN ResumeFirst(Pushers) ELSE UNCHANGED ipcVars
      /\ get_index' = (get_index + 1) % IndexMod
      /\ dq_received' = items[get_index % Size]
      /\ UNCHANGED <<items, put_index, overrun>>
      /\ IpcInv /\ DqData /\ DqCalls /\ DqKept /\ DqServed /\ ~fault /\ ~overrun
      /\ put_index # get_index
  <2>1. /\ low => Dq!ResumeFirst(Pushers)
        /\ ~low => Dq!ipcVars' = Dq!ipcVars
    BY Zenon DEF Dq!Fetch
  <2> HIDE DEF low
  <2>2. IF low THEN ResumeFirst(Pushers) ELSE UNCHANGED ipcVars
    BY <2>1, DqIpc DEF Dq!ipcVars, ipcVars
  <2> QED
    BY <2>2 DEF Dq!Fetch, DqAll, Dq!Usable, Dq!Empty
<1> HIDE DEF low
<1>1. /\ Size \in Nat \ {0} /\ Lwm \in Nat /\ Pushers # Poppers
      /\ DqOp(Pushers) = "push" /\ c \in Nat
  BY <1>0, DqSizes, DqCounts DEF DqOp
<1>2. /\ \/ dq_call' = dq_call
         \/ t \in Threads /\ stat[t] = "ready" /\ dq_call' = [dq_call EXCEPT ![t] = Dq!NoCall]
      /\ dq_call' = dq_call \/ dq_call[t].op # "push"
  BY DEF DqWoken
<1>3. /\ IpcInv' /\ DqCalls' /\ fault' = fault
      /\ suspend_thread'[Pushers] # << >> => suspend_thread[Pushers] # << >>
      /\ suspend_thread'[Poppers] # << >> => suspend_thread[Poppers] # << >>
      /\ ResumeFirst(Pushers) /\ suspend_thread[Pushers] # << >> =>
           \E h \in Threads : h \notin DqWoken("push") /\ h \in DqWoken("push")'
      /\ DqWoken("pop") \ {t} \subseteq DqWoken("pop")'
      /\ DqWoken("push") \subseteq DqWoken("push")'
  BY <1>0, <1>1, <1>2, DqResumes
<1>4. DqData'
  <2>1. get_index' \in 0..(IndexMod - 1)
    BY <1>0, DqAdvance DEF DqData
  <2>2. get_index % Size \in 0..(Size - 1)
    <3>1. get_index \in Int
      BY <1>0, DqSizes DEF DqData
    <3> QED
      BY <1>1, <3>1, DivMod
  <2>3. dq_received' \in Mails \cup {None}
    BY <1>0, <2>2 DEF DqData
  <2> QED
    BY <1>0, <2>1, <2>3 DEF DqData
<1>5. c > 0
  <2>1. put_index - get_index # 0 /\ put_index - get_index # -IndexMod
    BY <1>0, DqSizes DEF DqData
  <2> QED
    BY <1>0, <1>1, <2>1, DqCounts, DqSizes
<1>7. nc = c - 1 /\ (nc <= Lwm => low)
  <2>1. nc = c - 1
    BY <1>0, <1>5, DqFetched
  <2>2. nc <= Lwm => low
    BY <1>0, <1>5, DqFetched DEF low
  <2> QED
    BY <2>1, <2>2
<1>a. nc = Dq!Count' /\ c = Dq!Count
  OBVIOUS
<1> HIDE DEF c, nc
<1>8. DqKept'
  <2>1. c <= Size
    BY <1>0, <1>a DEF DqKept
  <2>2. nc <= Size
    BY <1>1, <1>7, <2>1
  <2> QED
    BY <1>a, <2>2 DEF DqKept
<1>9. ASSUME suspend_thread'[Pushers] # << >>
      PROVE  nc + Cardinality(DqWoken("push")') > Lwm
  <2>0. c + Cardinality(DqWoken("push")) > Lwm
    BY <1>0, <1>3, <1>9, <1>a DEF DqServed
  <2>1. CASE low
    <3>1. Cardinality(DqWoken("push")) + 1 <= Cardinality(DqWoken("push")')
      BY <1>0, <1>3, <1>9, <2>1, DqWokens, DeviceAssumption, FinitePlusOne
    <3> QED
      BY <1>1, <1>7, <2>0, <3>1, DqWokens
  <2>2. CASE ~low
    BY <1>1, <1>7, <2>2, DqWokens
  <2> QED
    BY <2>1, <2>2
<1>10. ASSUME suspend_thread'[Poppers] # << >>
      PROVE  nc <= Cardinality(DqWoken("pop")')
  <2>0. c <= Cardinality(DqWoken("pop"))
    BY <1>0, <1>3, <1>10, <1>a DEF DqServed
  <2>1. Cardinality(DqWoken("pop")) - 1 <= Cardinality(DqWoken("pop")')
    BY <1>3, DqWokens, DeviceAssumption, FiniteMinusOne
  <2> QED
    BY <1>1, <1>7, <2>0, <2>1, DqWokens
<1>11. DqServed'
  BY <1>9, <1>10, <1>a DEF DqServed
<1> QED
  BY <1>3, <1>4, <1>8, <1>11 DEF DqAll

\* The ready thread t, which is in no other call, suspends.
LEMMA DqBlock ==
  ASSUME DqAll, NEW t \in Threads, stat[t] = "ready", NEW l \in {Pushers, Poppers},
         dq_call[t].op \in {"none", DqOp(l)},
         IF l = Pushers THEN Dq!Full ELSE Dq!Empty,
         NEW request \in Dq!Calls, request.op = DqOp(l),
         request.op = "push" => request.mail \in Mails, Dq!Block(t, l, request)
  PROVE  DqAll'
<1> DEFINE prio == [u \in Threads |-> 0]
<1>0. /\ IpcInv /\ DqData /\ DqCalls /\ DqKept /\ DqServed
      /\ l \in Lists /\ suspend_thread \in [Lists -> Seq(Threads)]
      /\ stat \in [Threads -> {"ready", "suspend"}] /\ error \in [Threads -> Errors]
      /\ suspend_thread[l] \in Seq(Threads) /\ NoRepeat(suspend_thread[l])
      /\ Pushers # Poppers /\ Pushers \in Lists /\ Poppers \in Lists
      /\ prio \in [Threads -> Nat]
      /\ \A k \in {Pushers, Poppers} : \A u \in Elements(suspend_thread[k]) :
           u \in Threads /\ stat[u] = "suspend"
      /\ dq_call \in [Threads -> Dq!Calls]
      /\ t \notin Elements(suspend_thread[l])
  BY DqShape DEF DqAll, DqCalls
<1>1. /\ ListSuspend(l, t, "FIFO", prio, request.time)
      /\ dq_call' = [dq_call EXCEPT ![t] = request]
      /\ UNCHANGED <<items, put_index, get_index, dq_received, overrun>>
  BY DqIpc DEF Dq!Block
<1> HIDE DEF prio
<1>2. IpcInv'
  BY <1>0, <1>1, ListSuspendInv
<1>3. DqData' /\ DqKept' /\ Dq!Count' = Dq!Count
  <2>1. Dq!Count' = Dq!Count
    BY <1>1 DEF Dq!Count
  <2>2. DqData'
    BY <1>0, <1>1 DEF DqData
  <2>3. DqKept'
    BY <1>0, <1>1, <2>1, Zenon DEF DqKept
  <2> QED
    BY <2>1, <2>2, <2>3
<1> DEFINE q == Enqueue(suspend_thread[l], t, "FIFO", prio)
<1>4. Elements(q) = Elements(suspend_thread[l]) \cup {t}
  <2>1. /\ suspend_thread[l] \in Seq(Threads) /\ NoRepeat(suspend_thread[l])
        /\ t \notin Elements(suspend_thread[l])
        /\ "FIFO" \in {"FIFO", "PRIO"} /\ prio \in [Threads -> Nat]
    BY <1>0
  <2> QED
    BY <2>1, EnqueueProperties
<1>5. /\ stat' = [stat EXCEPT ![t] = "suspend"] /\ error' = [error EXCEPT ![t] = "EOK"]
      /\ suspend_thread' = [suspend_thread EXCEPT ![l] = q] /\ fault' = fault
  BY <1>1 DEF ListSuspend
<1> HIDE DEF q
<1>6. /\ \A u \in Threads : u # t => /\ dq_call'[u] = dq_call[u] /\ stat'[u] = stat[u]
                                     /\ error'[u] = error[u]
      /\ dq_call'[t] = request /\ error'[t] = "EOK" /\ stat'[t] = "suspend"
      /\ dq_call' \in [Threads -> Dq!Calls]
  BY <1>0, <1>1, <1>5
<1>7. \A k \in {Pushers, Poppers} : \A u \in Elements(suspend_thread'[k]) :
        dq_call'[u].op = DqOp(k) /\ error'[u] = "EOK"
  <2>1. TAKE k \in {Pushers, Poppers}
  <2>2. TAKE u \in Elements(suspend_thread'[k])
  <2>3. \A v \in Elements(suspend_thread[k]) : dq_call[v].op = DqOp(k) /\ error[v] = "EOK"
    BY <1>0 DEF DqCalls, DqOp
  <2>4. CASE k = l
    <3>1. u \in Elements(suspend_thread[l]) \/ u = t
      BY <1>0, <1>4, <1>5, <2>4
    <3> QED
      BY <1>0, <1>6, <2>3, <2>4, <3>1
  <2>5. CASE k # l
    <3>1. u \in Elements(suspend_thread[k])
      BY <1>0, <1>5, <2>5
    <3>2. u # t
      BY <1>0, <3>1
    <3> QED
      BY <1>0, <1>6, <2>3, <3>1, <3>2
  <2> QED
    BY <2>4, <2>5
<1>8. DqCalls'
  <2>1. \A u \in Threads : dq_call'[u].op = "none" => dq_call'[u] = Dq!NoCall /\ stat'[u] = "ready"
    <3>1. dq_call'[t].op # "none"
      BY <1>0, <1>6 DEF DqOp
    <3>2. \A u \in Threads : dq_call[u].op = "none" => dq_call[u] = Dq!NoCall /\ stat[u] = "ready"
      BY <1>0 DEF DqCalls
    <3> QED
      BY <1>6, <3>1, <3>2
  <2>2. \A u \in Threads : dq_call'[u].op = "push" => dq_call'[u].mail \in Mails
    BY <1>0, <1>6 DEF DqCalls
  <2> QED
    BY <1>0, <1>6, <1>7, <2>1, <2>2 DEF DqCalls, DqOp
<1>9. ASSUME NEW k \in {Pushers, Poppers}, k # l
      PROVE  /\ suspend_thread'[k] = suspend_thread[k]
             /\ Cardinality(DqWoken(DqOp(k))) <= Cardinality(DqWoken(DqOp(k))')
  <2>1. suspend_thread'[k] = suspend_thread[k]
    BY <1>0, <1>5, <1>9
  <2>2. t \notin DqWoken(DqOp(k))
    BY <1>0, <1>9 DEF DqWoken, DqOp
  <2>3. DqWoken(DqOp(k)) \subseteq DqWoken(DqOp(k))'
    BY <1>6, <2>2 DEF DqWoken
  <2> QED
    BY <2>1, <2>3, DqWokens, DeviceAssumption, FiniteGrows
<1> DEFINE c == Dq!Count
           wp == Cardinality(DqWoken("push"))
           wo == Cardinality(DqWoken("pop"))
           np == Cardinality(DqWoken("push")')
           no == Cardinality(DqWoken("pop")')
<1>10. wp \in Nat /\ wo \in Nat /\ np \in Nat /\ no \in Nat /\ c \in Nat /\ Lwm \in Nat /\ Lwm < Size
       /\ Size \in Nat
  BY <1>0, DqWokens, DqCounts, DqSizes
<1> HIDE DEF c, wp, wo, np, no
<1>11. /\ ~fault /\ ~overrun /\ suspend_thread[Pushers] # << >> => c + wp > Lwm
       /\ ~fault /\ ~overrun /\ suspend_thread[Poppers] # << >> => c <= wo
  BY <1>0 DEF DqServed, c, wp, wo
<1>14. ASSUME ~fault /\ ~overrun => /\ suspend_thread'[Pushers] # << >> => c + np > Lwm
                                    /\ suspend_thread'[Poppers] # << >> => c <= no
       PROVE  DqServed'
  BY <1>1, <1>3, <1>5, <1>14 DEF DqServed, c, np, no
<1>12. CASE l = Pushers
  <2>1. c = Size
    <3>1. put_index - get_index = Size
      BY <1>12 DEF Dq!Full
    <3>2. put_index \in 0..(IndexMod - 1) /\ get_index \in 0..(IndexMod - 1) /\ Size > 0
      BY <1>0, DqSizes DEF DqData
    <3> QED
      BY <1>0, <1>10, <3>1, <3>2, DqCounts, DqSizes DEF c
  <2>2. suspend_thread'[Poppers] = suspend_thread[Poppers] /\ wo <= no
    BY <1>0, <1>9, <1>12 DEF DqOp, wo, no
  <2>3. c + np > Lwm
    BY <1>10, <2>1
  <2>4. suspend_thread'[Poppers] # << >> /\ ~fault /\ ~overrun => c <= no
    BY <1>10, <1>11, <2>2
  <2> QED
    BY <1>2, <1>3, <1>8, <1>14, <2>3, <2>4 DEF DqAll
<1>13. CASE l = Poppers
  <2>1. c = 0
    <3>1. put_index - get_index = 0 /\ 0 \in 0..(IndexMod - 1)
      BY <1>0, <1>13, DqSizes DEF Dq!Empty, DqData
    <3>2. ((put_index - get_index) % IndexMod) = 0
      BY <3>1, DqCountIs
    <3> QED
      BY <3>2 DEF Dq!Count, c
  <2>2. suspend_thread'[Pushers] = suspend_thread[Pushers] /\ wp <= np
    BY <1>0, <1>9, <1>13 DEF DqOp, wp, np
  <2>3. c <= no
    BY <1>10, <2>1
  <2>4. suspend_thread'[Pushers] # << >> /\ ~fault /\ ~overrun => c + np > Lwm
    BY <1>10, <1>11, <2>2
  <2> QED
    BY <1>2, <1>3, <1>8, <1>14, <2>3, <2>4 DEF DqAll
<1> QED
  BY <1>12, <1>13

-----------------------------------------------------------------------------
LEMMA DqReturnsError ==
  ASSUME DqAll, NEW t \in Threads, Dq!ReturnsError(t)
  PROVE  DqAll'
<1>1. /\ dq_call[t] # Dq!NoCall /\ stat[t] = "ready" /\ error[t] # "EOK"
      /\ dq_call' = [dq_call EXCEPT ![t] = Dq!NoCall]
      /\ UNCHANGED <<stat, error, thread_timer, suspend_thread, teardown, fault>>
      /\ UNCHANGED <<items, put_index, get_index, dq_received, overrun>>
  BY DEF Dq!ReturnsError, Dq!Return, Dq!ipcVars
<1>0. /\ IpcInv /\ DqData /\ DqCalls /\ DqKept /\ DqServed
      /\ dq_call \in [Threads -> Dq!Calls]
      /\ \A k \in {Pushers, Poppers} : \A u \in Elements(suspend_thread[k]) :
           u \in Threads /\ u # t
  BY <1>1, DqShape DEF DqAll, DqCalls
<1>2. IpcInv'
  BY <1>0, <1>1, UnchangedInv DEF ipcVars
<1>3. Dq!NoCall.op = "none" /\ Dq!NoCall \in Dq!Calls
  BY DEF Dq!NoCall, Dq!Calls
<1>4. /\ \A u \in Threads : u # t => dq_call'[u] = dq_call[u]
      /\ dq_call'[t] = Dq!NoCall /\ dq_call' \in [Threads -> Dq!Calls]
  BY <1>0, <1>1, <1>3
<1>5. DqCalls'
  <2>1. \A u \in Threads : dq_call'[u].op = "none" => dq_call'[u] = Dq!NoCall /\ stat'[u] = "ready"
    BY <1>0, <1>1, <1>4 DEF DqCalls
  <2>2. \A u \in Threads : dq_call'[u].op = "push" => dq_call'[u].mail \in Mails
    BY <1>0, <1>3, <1>4 DEF DqCalls
  <2>3. /\ \A u \in Elements(suspend_thread'[Pushers]) :
             dq_call'[u].op = "push" /\ error'[u] = "EOK"
        /\ \A u \in Elements(suspend_thread'[Poppers]) :
             dq_call'[u].op = "pop" /\ error'[u] = "EOK"
    BY <1>0, <1>1, <1>4 DEF DqCalls
  <2> QED
    BY <1>4, <2>1, <2>2, <2>3 DEF DqCalls
<1>6. \A op \in {"push", "pop"} : DqWoken(op)' = DqWoken(op)
  BY <1>1, <1>3, <1>4 DEF DqWoken
<1>7. DqData' /\ Dq!Count' = Dq!Count
  BY <1>0, <1>1 DEF DqData, Dq!Count
<1>8. DqKept'
  BY <1>0, <1>1, <1>7, Zenon DEF DqKept
<1>9. DqServed'
  BY <1>0, <1>1, <1>6, <1>7, Zenon DEF DqServed
<1> QED
  BY <1>2, <1>5, <1>7, <1>8, <1>9 DEF DqAll

\* Sleepers leave their lists with an error, whichever of them and why.
LEMMA DqDismissed ==
  ASSUME DqAll, IpcInv', NEW gone, \A t \in gone : stat[t] = "suspend",
         \A l \in {Pushers, Poppers} :
           Elements(suspend_thread'[l]) \subseteq Elements(suspend_thread[l]) \ gone,
         \A t \in Threads : t \notin gone => stat'[t] = stat[t] /\ error'[t] = error[t],
         \A t \in Threads : t \in gone => stat'[t] = "ready" /\ error'[t] # "EOK",
         fault' = fault,
         UNCHANGED <<items, put_index, get_index, dq_call, dq_received, overrun>>
  PROVE  DqAll'
<1>0. /\ IpcInv /\ DqData /\ DqCalls /\ DqKept /\ DqServed
      /\ Pushers \in Lists /\ Poppers \in Lists
      /\ \A l \in {Pushers, Poppers} : \A t \in Elements(suspend_thread[l]) :
           t \in Threads /\ stat[t] = "suspend"
      /\ \A l \in {Pushers, Poppers} : suspend_thread'[l] \in Seq(Threads)
  BY DqShape DEF DqAll, IpcInv, IpcTypeOK
<1>1. \A op \in {"push", "pop"} : DqWoken(op)' = DqWoken(op)
  BY DEF DqWoken
<1>2. DqData' /\ Dq!Count' = Dq!Count
  BY <1>0 DEF DqData, Dq!Count
<1>3. DqCalls'
  <2>1. /\ \A u \in Elements(suspend_thread'[Pushers]) : dq_call[u].op = "push" /\ error'[u] = "EOK"
        /\ \A u \in Elements(suspend_thread'[Poppers]) : dq_call[u].op = "pop" /\ error'[u] = "EOK"
    BY <1>0 DEF DqCalls
  <2> QED
    BY <1>0, <2>1 DEF DqCalls
<1>4. \A l \in {Pushers, Poppers} : suspend_thread'[l] # << >> => suspend_thread[l] # << >>
  <2>1. Elements(<< >>) = {}
    BY EmptySeq DEF Elements
  <2>2. \A l \in {Pushers, Poppers} : Elements(suspend_thread'[l]) = {} => suspend_thread'[l] = << >>
    BY <1>0, NoElements
  <2> QED
    BY <2>1, <2>2
<1>5. DqKept'
  BY <1>0, <1>2, Zenon DEF DqKept
<1>6. DqServed'
  <2>1. /\ overrun' = overrun /\ fault' = fault
        /\ suspend_thread'[Pushers] # << >> => suspend_thread[Pushers] # << >>
        /\ suspend_thread'[Poppers] # << >> => suspend_thread[Poppers] # << >>
        /\ DqWoken("push")' = DqWoken("push") /\ DqWoken("pop")' = DqWoken("pop")
    BY <1>1, <1>4
  <2>2. ~fault /\ ~overrun =>
          /\ suspend_thread[Pushers] # << >> => Dq!Count + Cardinality(DqWoken("push")) > Lwm
          /\ suspend_thread[Poppers] # << >> => Dq!Count <= Cardinality(DqWoken("pop"))
    BY <1>0, Zenon DEF DqServed
  <2>3. (Dq!Count' + Cardinality(DqWoken("push")') > Lwm)
          <=> (Dq!Count + Cardinality(DqWoken("push")) > Lwm)
    BY <1>2, <2>1
  <2>4. (Dq!Count' <= Cardinality(DqWoken("pop")')) <=> (Dq!Count <= Cardinality(DqWoken("pop")))
    BY <1>2, <2>1
  <2>5. ASSUME ~fault', ~overrun'
        PROVE  ~fault /\ ~overrun
    BY <2>1, <2>5
  <2>6. ASSUME ~fault', ~overrun', suspend_thread'[Pushers] # << >>
        PROVE  Dq!Count' + Cardinality(DqWoken("push")') > Lwm
    BY <2>1, <2>2, <2>3, <2>5, <2>6, Zenon
  <2>7. ASSUME ~fault', ~overrun', suspend_thread'[Poppers] # << >>
        PROVE  Dq!Count' <= Cardinality(DqWoken("pop")')
    BY <2>1, <2>2, <2>4, <2>5, <2>7, Zenon
  <2> QED
    BY <2>6, <2>7 DEF DqServed
<1> QED
  BY <1>2, <1>3, <1>5, <1>6 DEF DqAll

LEMMA DqTimeout ==
  ASSUME DqAll, NEW t \in Threads, Dq!Timeout(t)
  PROVE  DqAll'
<1>0. /\ IpcInv /\ Pushers \in Lists /\ Poppers \in Lists
      /\ error \in [Threads -> Errors] /\ stat \in [Threads -> {"ready", "suspend"}]
      /\ \A l \in Lists : suspend_thread[l] \in Seq(Threads) /\ NoRepeat(suspend_thread[l])
  BY DqShape DEF DqAll
<1>1. /\ ThreadTimeout(t)
      /\ UNCHANGED <<items, put_index, get_index, dq_call, dq_received, overrun>>
  BY DqIpc DEF Dq!Timeout, Dq!dqVars
<1>2. IpcInv'
  BY <1>0, <1>1, ThreadTimeoutInv
<1>3. /\ stat' = [stat EXCEPT ![t] = "ready"]
      /\ error' = [error EXCEPT ![t] = "ETIMEOUT"]
      /\ \A l \in Lists : suspend_thread'[l] = Unlink(suspend_thread[l], t)
      /\ fault' = fault /\ thread_timer[t]
  BY <1>0, <1>1 DEF ThreadTimeout
<1>5. stat[t] = "suspend"
  BY <1>0, <1>3 DEF IpcInv, ArmedOnlyWhileSuspended
<1> DEFINE gone == {t}
<1>6. \A l \in {Pushers, Poppers} :
        Elements(suspend_thread'[l]) \subseteq Elements(suspend_thread[l]) \ gone
  BY <1>0, <1>3, UnlinkProperties
<1>7. /\ \A u \in Threads : u \notin gone => stat'[u] = stat[u] /\ error'[u] = error[u]
      /\ \A u \in Threads : u \in gone => stat'[u] = "ready" /\ error'[u] # "EOK"
      /\ \A u \in gone : stat[u] = "suspend"
  BY <1>0, <1>3, <1>5
<1> HIDE DEF gone
<1> QED
  BY <1>1, <1>2, <1>3, <1>6, <1>7, DqDismissed

\* rt_data_queue_reset
LEMMA DqReset ==
  ASSUME DqAll, Dq!Reset \/ Dq!ResetPushers \/ Dq!ResetStep \/ Dq!ResetReturns
  PROVE  DqAll'
<1>0. /\ IpcInv /\ Pushers \in Lists /\ Poppers \in Lists /\ Pushers # Poppers
      /\ suspend_thread \in [Lists -> Seq(Threads)] /\ teardown \in [Lists -> Teardown]
      /\ error \in [Threads -> Errors] /\ stat \in [Threads -> {"ready", "suspend"}]
      /\ \A l \in Lists : suspend_thread[l] \in Seq(Threads) /\ NoRepeat(suspend_thread[l])
      /\ \A l \in Lists : \A t \in Elements(suspend_thread[l]) : t \in Threads /\ stat[t] = "suspend"
  BY DqShape DEF DqAll, IpcInv, IpcTypeOK
<1>1. /\ UNCHANGED <<items, put_index, get_index, dq_call, dq_received, overrun>>
      /\ \/ \E l \in {Pushers, Poppers} : BeginTeardown(l)
         \/ \E l \in {Pushers, Poppers} : TeardownStep(l)
         \/ /\ teardown' = [teardown EXCEPT ![Poppers] = "live", ![Pushers] = "live"]
            /\ UNCHANGED <<stat, error, thread_timer, suspend_thread, fault>>
  BY DqIpc DEF Dq!Reset, Dq!ResetPushers, Dq!ResetStep, Dq!ResetReturns, Dq!dqVars
<1>2. IpcInv'
  <2>1. CASE /\ teardown' = [teardown EXCEPT ![Poppers] = "live", ![Pushers] = "live"]
             /\ UNCHANGED <<stat, error, thread_timer, suspend_thread, fault>>
    <3>1. teardown' \in [Lists -> Teardown]
      BY <1>0, <2>1 DEF Teardown
    <3> QED
      BY <1>0, <2>1, <3>1 DEF IpcInv, IpcTypeOK, LinkedOnce, SuspendedIffWaiting,
                              ArmedOnlyWhileSuspended, Waiting
  <2> QED
    BY <1>0, <1>1, <2>1, TeardownInv
<1>3. ASSUME UNCHANGED <<stat, error, suspend_thread>>, fault' = fault \/ fault'
      PROVE  DqAll'
  <2>1. DqData' /\ Dq!Count' = Dq!Count
    BY <1>1 DEF DqAll, DqData, Dq!Count
  <2>2. DqCalls' /\ \A op : DqWoken(op)' = DqWoken(op)
    BY <1>1, <1>3 DEF DqAll, DqCalls, DqWoken
  <2>3. UNCHANGED <<overrun, suspend_thread>> /\ DqKept /\ DqServed
    BY <1>1, <1>3 DEF DqAll
  <2>4. DqKept'
    BY <2>1, <2>3, Zenon DEF DqKept
  <2>5. DqServed'
    BY <1>3, <2>1, <2>2, <2>3, Zenon DEF DqServed
  <2> QED
    BY <1>2, <2>1, <2>2, <2>4, <2>5 DEF DqAll
<1>4. ASSUME NEW l \in {Pushers, Poppers}, BeginTeardown(l)
      PROVE  DqAll'
  BY <1>3, <1>4 DEF BeginTeardown
<1>5. ASSUME NEW l \in {Pushers, Poppers}, TeardownStep(l)
      PROVE  DqAll'
  <2>1. CASE UNCHANGED <<stat, error, suspend_thread>>
    <3>1. fault' = fault \/ fault'
      BY <1>5 DEF TeardownStep, TeardownTest, TeardownResume
    <3> QED
      BY <1>3, <2>1, <3>1
  <2>2. CASE ~UNCHANGED <<stat, error, suspend_thread>>
    <3> DEFINE h == Head(suspend_thread[l])
               gone == {h}
    <3>1. /\ suspend_thread[l] # << >> /\ fault' = fault
          /\ stat' = [stat EXCEPT ![h] = "ready"]
          /\ error' = [error EXCEPT ![h] = "ERROR"]
          /\ suspend_thread' = [suspend_thread EXCEPT ![l] = Tail(suspend_thread[l])]
      BY <1>5, <2>2 DEF TeardownStep, TeardownTest, TeardownResume
    <3>2. /\ h \in Elements(suspend_thread[l]) /\ h \in Threads
          /\ Elements(Tail(suspend_thread[l])) = Elements(suspend_thread[l]) \ {h}
      BY <1>0, <3>1, TailProperties
    <3>3. \A k \in {Pushers, Poppers} : k # l => h \notin Elements(suspend_thread[k])
      BY <1>0, <3>2 DEF IpcInv, LinkedOnce
    <3> HIDE DEF h
    <3>4. \A k \in {Pushers, Poppers} :
            Elements(suspend_thread'[k]) \subseteq Elements(suspend_thread[k]) \ gone
      BY <1>0, <3>1, <3>2, <3>3
    <3>5. /\ \A u \in Threads : u \notin gone => stat'[u] = stat[u] /\ error'[u] = error[u]
          /\ \A u \in Threads : u \in gone => stat'[u] = "ready" /\ error'[u] # "EOK"
          /\ \A u \in gone : stat[u] = "suspend"
      BY <1>0, <3>1, <3>2
    <3> HIDE DEF gone
    <3> QED
      BY <1>1, <1>2, <3>1, <3>4, <3>5, DqDismissed
  <2> QED
    BY <2>1, <2>2
<1> QED
  BY <1>1, <1>3, <1>4, <1>5

LEMMA DqCallsNext ==
  ASSUME DqAll, NEW t \in Threads,
         \/ \E m \in Mails : Dq!PushBlocks(t, m)
         \/ Dq!PopBlocks(t) \/ Dq!PushWoken(t) \/ Dq!PopWoken(t)
  PROVE  DqAll'
<1>0. /\ dq_call \in [Threads -> Dq!Calls] /\ Pushers # Poppers
      /\ Dq!NoCall.op = "none" /\ DqOp(Pushers) = "push" /\ DqOp(Poppers) = "pop"
      /\ \A u \in Threads : dq_call[u].op = "none" => dq_call[u] = Dq!NoCall /\ stat[u] = "ready"
      /\ \A u \in Threads : dq_call[u].op = "push" => dq_call[u].mail \in Mails
      /\ Times \subseteq WaitTimes /\ Dq!WaitTimes = WaitTimes
  BY DqSizes, TimesAssumption, DqIpc DEF DqAll, DqCalls, DqOp, Dq!NoCall
<1>1. ASSUME NEW m \in Mails, Dq!PushBlocks(t, m)
      PROVE  DqAll'
  <2>1. PICK time \in Times \ {"zero"} :
          Dq!Block(t, Pushers, [op |-> "push", mail |-> m, time |-> time])
    BY <1>1 DEF Dq!PushBlocks
  <2> DEFINE request == [op |-> "push", mail |-> m, time |-> time]
  <2>2. request \in Dq!Calls /\ request.op = "push" /\ request.mail \in Mails
    BY <1>0 DEF Dq!Calls
  <2>3. dq_call[t] = Dq!NoCall /\ Dq!Full
    BY <1>1 DEF Dq!PushBlocks, Dq!Idle
  <2> HIDE DEF request
  <2> QED
    BY <1>0, <2>1, <2>2, <2>3, DqBlock DEF request
<1>2. ASSUME Dq!PopBlocks(t)
      PROVE  DqAll'
  <2>1. PICK time \in Times \ {"zero"} :
          Dq!Block(t, Poppers, [op |-> "pop", mail |-> None, time |-> time])
    BY <1>2 DEF Dq!PopBlocks
  <2> DEFINE request == [op |-> "pop", mail |-> None, time |-> time]
  <2>2. request \in Dq!Calls /\ request.op = "pop"
    BY <1>0 DEF Dq!Calls
  <2>3. dq_call[t] = Dq!NoCall /\ Dq!Empty
    BY <1>2 DEF Dq!PopBlocks, Dq!Idle
  <2> HIDE DEF request
  <2> QED
    BY <1>0, <2>1, <2>2, <2>3, DqBlock DEF request
<1>3. ASSUME Dq!PushWoken(t)
      PROVE  DqAll'
  <2>1. /\ t \in DqWoken("push") /\ Dq!Usable
        /\ IF Dq!Full THEN Dq!Block(t, Pushers, dq_call[t])
           ELSE /\ Dq!Store(dq_call[t].mail)
                /\ dq_call' = [dq_call EXCEPT ![t] = Dq!NoCall]
    BY <1>3 DEF Dq!PushWoken, Dq!Woken, DqWoken, Dq!ThreadsRun, Dq!Return
  <2>2. dq_call[t].mail \in Mails /\ dq_call[t] \in Dq!Calls /\ stat[t] = "ready" /\ dq_call[t].op = "push"
    BY <1>0, <2>1 DEF DqWoken
  <2>3. CASE Dq!Full
    BY <1>0, <2>1, <2>2, <2>3, DqBlock
  <2>4. CASE ~Dq!Full
    BY <2>1, <2>2, <2>4, DqStore
  <2> QED
    BY <2>3, <2>4
<1>4. ASSUME Dq!PopWoken(t)
      PROVE  DqAll'
  <2>1. /\ t \in DqWoken("pop") /\ Dq!Usable
        /\ IF Dq!Empty THEN Dq!Block(t, Poppers, dq_call[t])
           ELSE Dq!Fetch /\ dq_call' = [dq_call EXCEPT ![t] = Dq!NoCall]
    BY <1>4 DEF Dq!PopWoken, Dq!Woken, DqWoken, Dq!ThreadsRun, Dq!Return
  <2>2. dq_call[t] \in Dq!Calls /\ stat[t] = "ready" /\ dq_call[t].op = "pop"
    BY <1>0, <2>1 DEF DqWoken
  <2>3. CASE Dq!Empty
    BY <1>0, <2>1, <2>2, <2>3, DqBlock
  <2>4. CASE ~Dq!Empty
    BY <2>1, <2>2, <2>4, DqFetch
  <2> QED
    BY <2>3, <2>4
<1> QED
  BY <1>1, <1>2, <1>3, <1>4

LEMMA DqNext == ASSUME Dq!Inv, Dq!Next PROVE Dq!Inv'
<1>0. DqAll
  BY DqParts
<1>1. ASSUME NEW m \in Mails, Dq!Push(m) PROVE DqAll'
  <2>1. Dq!Usable /\ Dq!Store(m) /\ dq_call' = dq_call
    BY <1>1 DEF Dq!Push
  <2> QED
    BY <1>0, <2>1, DqStore
<1>2. ASSUME Dq!Pop PROVE DqAll'
  <2>1. Dq!Usable /\ ~Dq!Empty /\ Dq!Fetch /\ dq_call' = dq_call
    BY <1>2 DEF Dq!Pop
  <2> QED
    BY <1>0, <2>1, DqFetch
<1>3. ASSUME NEW t \in Threads,
             \/ \E m \in Mails : Dq!PushBlocks(t, m)
             \/ Dq!PopBlocks(t) \/ Dq!PushWoken(t) \/ Dq!PopWoken(t)
      PROVE  DqAll'
  BY <1>0, <1>3, DqCallsNext
<1>4. ASSUME NEW t \in Threads, Dq!ReturnsError(t) PROVE DqAll'
  BY <1>0, <1>4, DqReturnsError
<1>5. ASSUME NEW t \in Threads, Dq!Timeout(t) PROVE DqAll'
  BY <1>0, <1>5, DqTimeout
<1>6. ASSUME Dq!Reset \/ Dq!ResetPushers \/ Dq!ResetStep \/ Dq!ResetReturns PROVE DqAll'
  BY <1>0, <1>6, DqReset
<1>7. DqAll'
  BY <1>1, <1>2, <1>3, <1>4, <1>5, <1>6 DEF Dq!Next
<1> QED
  BY <1>7, DqPartsNext

LEMMA DqInit == ASSUME Dq!Init PROVE Dq!Inv /\ Dq!queueBar = << >> /\ dq_received = None
<1>1. IpcInit /\ IpcInv
  BY IpcInitInv, DqIpc DEF Dq!Init
<1>2. Elements(<< >>) = {} /\ Pushers \in Lists /\ Poppers \in Lists
  BY EmptySeq, DqSizes DEF Elements
<1>3. Dq!NoCall.op = "none" /\ Dq!NoCall \in Dq!Calls
  BY DEF Dq!NoCall, Dq!Calls
<1>4. /\ put_index = 0 /\ get_index = 0 /\ dq_received = None /\ ~overrun
      /\ dq_call = [t \in Threads |-> Dq!NoCall]
      /\ stat = [t \in Threads |-> "ready"]
      /\ suspend_thread[Pushers] = << >> /\ suspend_thread[Poppers] = << >>
  BY <1>1, <1>2 DEF Dq!Init, IpcInit
<1>5. DqData
  <2>1. 0 \in 0..(IndexMod - 1)
    BY DqSizes
  <2> QED
    BY <1>4, <2>1 DEF Dq!Init, DqData, Dq!Slots
<1>6. DqCalls
  BY <1>2, <1>3, <1>4 DEF DqCalls
<1>7. Dq!Count = 0
  <2>1. put_index - get_index = 0 /\ 0 \in 0..(IndexMod - 1)
    BY <1>4, DqSizes
  <2>2. ((put_index - get_index) % IndexMod) = 0
    BY <2>1, DqCountIs
  <2> QED
    BY <2>2 DEF Dq!Count
<1>8. DqKept
  BY <1>7, DqSizes DEF DqKept
<1>9. DqServed
  BY <1>4 DEF DqServed
<1>10. Dq!queueBar = << >>
  BY <1>7 DEF Dq!queueBar
<1> QED
  BY <1>1, <1>4, <1>5, <1>6, <1>8, <1>9, <1>10, DqParts DEF DqAll

-----------------------------------------------------------------------------
\* The indices wrap at a multiple of the size.
LEMMA ModSkip ==
  ASSUME NEW S \in Nat \ {0}, NEW M \in Int, (M % S) = 0, NEW a \in Int
  PROVE  ((a - M) % S) = (a % S)
<1> DEFINE p == a \div S
           r == a % S
           k == M \div S
<1>1. p \in Int /\ r \in 0..(S - 1) /\ a = S * p + r
  BY DivMod
<1>2. k \in Int /\ M = S * k
  <2>1. k \in Int /\ M = S * k + (M % S)
    BY DivMod
  <2> QED
    BY <2>1
<1> HIDE DEF p, r, k
<1> DEFINE j == p - k
<1>3. j \in Int /\ S * j = S * p - S * k
  BY <1>1, <1>2
<1>4. a - M = S * j + r /\ a - M \in Int
  BY <1>1, <1>2, <1>3
<1> HIDE DEF j
<1>5. ((a - M) % S) = r
  BY <1>1, <1>3, <1>4, ModUnique
<1> QED
  BY <1>5 DEF r

\* The slot of the i-th item,
DqSlot(i) == (get_index + i - 1) % Size

LEMMA DqSlots ==
  ASSUME DqData
  PROVE  /\ Dq!queueBar = [i \in 1..Dq!Count |-> items[DqSlot(i)]]
         /\ \A i \in Int : DqSlot(i) \in 0..(Size - 1)
         /\ put_index % Size = DqSlot(Dq!Count + 1)
<1>0. /\ put_index \in 0..(IndexMod - 1) /\ get_index \in 0..(IndexMod - 1)
      /\ Size \in Nat \ {0} /\ IndexMod \in Nat /\ (IndexMod % Size) = 0
      /\ Dq!Count \in 0..(IndexMod - 1)
      /\ put_index - get_index = Dq!Count \/ put_index - get_index = Dq!Count - IndexMod
  BY DqSizes, DqCounts DEF DqData
<1>1. ASSUME NEW i \in Int PROVE DqSlot(i) \in 0..(Size - 1)
  <2> DEFINE a == get_index + i - 1
  <2>1. a \in Int
    BY <1>0
  <2> HIDE DEF a
  <2>2. a % Size \in 0..(Size - 1)
    BY <1>0, <2>1, DivMod
  <2> QED
    BY <2>2 DEF a, DqSlot
<1>2. put_index % Size = DqSlot(Dq!Count + 1)
  <2> DEFINE a == get_index + (Dq!Count + 1) - 1
  <2>1. a \in Int /\ (put_index = a \/ put_index = a - IndexMod)
    BY <1>0
  <2>2. DqSlot(Dq!Count + 1) = a % Size
    BY <1>0, <2>1 DEF DqSlot
  <2> HIDE DEF a
  <2>3. ((a - IndexMod) % Size) = (a % Size)
    <3>1. Size \in Nat \ {0} /\ IndexMod \in Int /\ (IndexMod % Size) = 0 /\ a \in Int
      BY <1>0, <2>1
    <3> QED
      BY <3>1, ModSkip
  <2> QED
    BY <2>1, <2>2, <2>3
<1> QED
  BY <1>1, <1>2 DEF Dq!queueBar, DqSlot

\* behind the last of which an item is stored,
LEMMA DqStores ==
  ASSUME DqData, NEW m, Dq!Store(m), Dq!Count < Size
  PROVE  Len(Dq!queueBar) = Dq!Count /\ Dq!Abstract!Put(m)
<1> DEFINE c == Dq!Count
           q == Dq!queueBar
<1>0. /\ put_index' = (put_index + 1) % IndexMod
      /\ items' = [items EXCEPT ![put_index % Size] = m]
      /\ UNCHANGED <<get_index, dq_received>>
      /\ items \in [0..(Size - 1) -> Mails \cup {None}]
      /\ Size \in Nat \ {0} /\ c \in Nat /\ c < Size /\ get_index \in Int
  BY DqSizes, DqCounts DEF Dq!Store, DqData
<1>1. Dq!Count' = c + 1
  BY <1>0, DqStored
<1>2. /\ q = [i \in 1..c |-> items[DqSlot(i)]]
      /\ \A i \in Int : DqSlot(i) \in 0..(Size - 1)
      /\ put_index % Size = DqSlot(c + 1)
  BY DqSlots
<1>3. q' = [i \in 1..(c + 1) |-> items'[DqSlot(i)]]
  BY <1>0, <1>1 DEF Dq!queueBar, DqSlot
<1>4. \A i \in 1..c : DqSlot(i) # DqSlot(c + 1)
  <2>1. TAKE i \in 1..c
  <2> DEFINE a == get_index + i - 1
             d == c + 1 - i
  <2>2. /\ a \in Int /\ d \in 1..(2 * Size - 1) /\ d # Size
        /\ get_index + (c + 1) - 1 = a + d
    BY <1>0
  <2>3. DqSlot(i) = a % Size /\ DqSlot(c + 1) = (a + d) % Size
    BY <2>2 DEF DqSlot
  <2> HIDE DEF a, d
  <2> QED
    BY <1>0, <2>2, <2>3, ModMeet
<1>5. /\ \A i \in 1..c : items'[DqSlot(i)] = items[DqSlot(i)]
      /\ items'[DqSlot(c + 1)] = m
  <2>1. \A i \in 1..(c + 1) : DqSlot(i) \in 0..(Size - 1)
    BY <1>2
  <2>2. c + 1 \in 1..(c + 1) /\ \A i \in 1..c : i \in 1..(c + 1)
    BY <1>0
  <2> HIDE DEF c
  <2> QED
    BY <1>0, <1>2, <1>4, <2>1, <2>2
<1>6. c + 1 \in 1..(c + 1) /\ \A i \in 1..c : i \in 1..(c + 1)
  BY <1>0
<1> HIDE DEF c
<1>7. Extends(q', q, c, m)
  <2>1. OfLength(q, c) /\ \A i \in 1..c : q[i] = items[DqSlot(i)]
    BY <1>2 DEF OfLength
  <2>2. OfLength(q', c + 1) /\ \A i \in 1..(c + 1) : q'[i] = items'[DqSlot(i)]
    BY <1>3 DEF OfLength
  <2> HIDE DEF q
  <2> QED
    BY <1>5, <1>6, <2>1, <2>2 DEF Extends
<1> HIDE DEF q
<1>8. Len(q) = c /\ q' = Append(q, m)
  BY <1>0, <1>7, SeqExtended
<1> QED
  BY <1>0, <1>8 DEF c, q, Dq!Abstract!Put

\* and the first of which is fetched.
LEMMA DqFetches ==
  ASSUME DqData, Dq!Fetch, Dq!Count > 0
  PROVE  Dq!Abstract!Get
<1> DEFINE c == Dq!Count
           q == Dq!queueBar
<1>0. /\ get_index' = (get_index + 1) % IndexMod /\ dq_received' = items[get_index % Size]
      /\ UNCHANGED <<items, put_index>>
      /\ Size \in Nat \ {0} /\ c \in Nat \ {0} /\ get_index \in 0..(IndexMod - 1)
      /\ IndexMod \in Nat /\ (IndexMod % Size) = 0
  BY DqSizes, DqCounts DEF Dq!Fetch, DqData
<1>1. Dq!Count' = c - 1
  BY <1>0, DqFetched
<1>2. q = [i \in 1..c |-> items[DqSlot(i)]]
  BY DqSlots
<1>3. q' = [i \in 1..(c - 1) |-> items[DqSlot(i)']]
  BY <1>0, <1>1 DEF Dq!queueBar, DqSlot
<1>4. \A i \in 1..(c - 1) : DqSlot(i)' = DqSlot(i + 1)
  <2>1. TAKE i \in 1..(c - 1)
  <2> DEFINE a == get_index + (i + 1) - 1
             b == get_index' + i - 1
  <2>2. get_index' = get_index + 1 \/ get_index' = (get_index + 1) - IndexMod
    BY <1>0, DqAdvance
  <2>3. a \in Int /\ (b = a \/ b = a - IndexMod)
    BY <1>0, <2>2
  <2>4. DqSlot(i)' = b % Size /\ DqSlot(i + 1) = a % Size
    BY <1>0, <2>2, <2>3 DEF DqSlot
  <2> HIDE DEF a, b
  <2>5. ((a - IndexMod) % Size) = (a % Size)
    <3>1. Size \in Nat \ {0} /\ IndexMod \in Int /\ (IndexMod % Size) = 0 /\ a \in Int
      BY <1>0, <2>3
    <3> QED
      BY <3>1, ModSkip
  <2> QED
    BY <2>3, <2>4, <2>5
<1>5. \A i \in 1..(c - 1) : i + 1 \in 1..c
  BY <1>0
<1>6. 1 \in 1..c /\ get_index + 1 - 1 = get_index
  BY <1>0
<1> HIDE DEF c
<1>7. OfLength(q, c) /\ OfLength(q', c - 1)
  BY <1>2, <1>3 DEF OfLength
<1>8. \A i \in 1..(c - 1) : q'[i] = q[i + 1]
  <2>1. \A i \in 1..(c - 1) : q'[i] = items[DqSlot(i)']
    BY <1>3
  <2>2. \A i \in 1..c : q[i] = items[DqSlot(i)]
    BY <1>2
  <2> HIDE DEF q
  <2> QED
    BY <1>4, <1>5, <2>1, <2>2
<1>9. q[1] = dq_received'
  BY <1>0, <1>2, <1>6 DEF DqSlot
<1> HIDE DEF q
<1>10. q # << >> /\ Head(q) = q[1] /\ q' = Tail(q)
  BY <1>0, <1>7, <1>8, SeqShortened
<1> QED
  BY <1>0, <1>9, <1>10 DEF q, Dq!Abstract!Get

\* What the step of a data queue is to the queue.
DqOrder ==
  IF overrun' THEN overrun \/ put_index < get_index
  ELSE Dq!Abstract!NextInOrder \/ UNCHANGED <<Dq!queueBar, dq_received>>

LEMMA DqImplements ==
  ASSUME DqAll, Dq!Next
  PROVE  DqOrder
<1>0. DqData /\ DqKept /\ DqCalls /\ Size \in Nat
  BY DqSizes DEF DqAll
<1>1. ASSUME NEW m \in Mails, Dq!Usable, ~Dq!Full, Dq!Store(m)
      PROVE  DqOrder
  <2>0. overrun' = (Dq!Count >= Size)
    BY <1>1 DEF Dq!Store
  <2> DEFINE over == Dq!Count >= Size
  <2>a. overrun' = over
    BY <2>0
  <2> HIDE DEF over
  <2>b. overrun' <=> over
    BY <2>a, Zenon
  <2>1. /\ overrun' <=> (Dq!Count >= Size)
        /\ Dq!Count \in Int /\ ~overrun
    BY <1>0, <1>1, <2>b, DqCounts DEF over, Dq!Usable
  <2>2. CASE overrun'
    <3>1. Dq!Count = Size
      <4>1. Dq!Count <= Size
        BY <1>0, <2>1 DEF DqKept
      <4>2. Dq!Count >= Size
        BY <2>1, <2>2
      <4> QED
        BY <1>0, <2>1, <4>1, <4>2
    <3>2. put_index - get_index # Size
      BY <1>1 DEF Dq!Full
    <3>3. put_index < get_index
      BY <1>0, <3>1, <3>2, DqCounts
    <3> QED
      BY <2>2, <3>3 DEF DqOrder
  <2>3. CASE ~overrun'
    <3>1. ~(Dq!Count >= Size)
      BY <2>1, <2>3
    <3>2. Dq!Count < Size
      BY <1>0, <2>1, <3>1
    <3>3. Dq!Abstract!Put(m)
      BY <1>0, <1>1, <3>2, DqStores
    <3> QED
      BY <2>3, <3>3 DEF DqOrder, Dq!Abstract!NextInOrder
  <2> QED
    BY <2>2, <2>3
<1>2. ASSUME Dq!Usable, ~Dq!Empty, Dq!Fetch
      PROVE  DqOrder
  <2>1. Dq!Count > 0
    <3>1. put_index - get_index # 0 /\ put_index - get_index # -IndexMod
      BY <1>0, <1>2, DqSizes DEF DqData, Dq!Empty
    <3> QED
      BY <1>0, <3>1, DqCounts, DqSizes
  <2>2. Dq!Abstract!Get /\ ~overrun'
    BY <1>0, <1>2, <2>1, DqFetches DEF Dq!Fetch, Dq!Usable
  <2> QED
    BY <2>2 DEF DqOrder, Dq!Abstract!NextInOrder
<1>3. ASSUME UNCHANGED <<items, put_index, get_index, dq_received, overrun>>
      PROVE  DqOrder
  <2>1. Dq!queueBar' = Dq!queueBar
    BY <1>3 DEF Dq!queueBar, Dq!Count
  <2> QED
    BY <1>3, <2>1 DEF DqOrder
<1>4. ASSUME NEW t \in Threads, Dq!PushWoken(t)
      PROVE  DqOrder
  <2>1. /\ Dq!Usable /\ dq_call[t].op = "push"
        /\ IF Dq!Full THEN Dq!Block(t, Pushers, dq_call[t]) ELSE Dq!Store(dq_call[t].mail)
    BY <1>4 DEF Dq!PushWoken, Dq!ThreadsRun, Dq!Woken
  <2>2. dq_call[t].mail \in Mails
    BY <1>0, <2>1 DEF DqCalls
  <2>3. CASE Dq!Full
    BY <1>3, <2>1, <2>3 DEF Dq!Block
  <2>4. CASE ~Dq!Full
    BY <1>1, <2>1, <2>2, <2>4
  <2> QED
    BY <2>3, <2>4
<1>5. ASSUME NEW t \in Threads, Dq!PopWoken(t)
      PROVE  DqOrder
  <2>1. /\ Dq!Usable
        /\ IF Dq!Empty THEN Dq!Block(t, Poppers, dq_call[t]) ELSE Dq!Fetch
    BY <1>5 DEF Dq!PopWoken, Dq!ThreadsRun
  <2>3. CASE Dq!Empty
    BY <1>3, <2>1, <2>3 DEF Dq!Block
  <2>4. CASE ~Dq!Empty
    BY <1>2, <2>1, <2>4
  <2> QED
    BY <2>3, <2>4
<1>6. ASSUME NEW m \in Mails, Dq!Push(m) PROVE DqOrder
  BY <1>1, <1>6 DEF Dq!Push
<1>7. ASSUME Dq!Pop PROVE DqOrder
  BY <1>2, <1>7 DEF Dq!Pop
<1>8. ASSUME NEW t \in Threads,
             \/ \E m \in Mails : Dq!PushBlocks(t, m)
             \/ Dq!PopBlocks(t) \/ Dq!ReturnsError(t) \/ Dq!Timeout(t)
      PROVE  DqOrder
  <2>1. UNCHANGED <<items, put_index, get_index, dq_received, overrun>>
    BY <1>8 DEF Dq!PushBlocks, Dq!PopBlocks, Dq!ReturnsError, Dq!Timeout, Dq!Block, Dq!dqVars
  <2> QED
    BY <1>3, <2>1
<1>9. ASSUME Dq!Reset \/ Dq!ResetPushers \/ Dq!ResetStep \/ Dq!ResetReturns PROVE DqOrder
  <2>1. UNCHANGED <<items, put_index, get_index, dq_received, overrun>>
    BY <1>9 DEF Dq!Reset, Dq!ResetPushers, Dq!ResetStep, Dq!ResetReturns, Dq!dqVars
  <2> QED
    BY <1>3, <2>1
<1> QED
  BY <1>4, <1>5, <1>6, <1>7, <1>8, <1>9 DEF Dq!Next

LEMMA DqStays == ASSUME UNCHANGED dqVars PROVE DqOrder
<1>1. Dq!queueBar' = Dq!queueBar /\ dq_received' = dq_received
  BY DEF dqVars, Dq!queueBar, Dq!Count
<1>2. overrun' => overrun
  BY Zenon DEF dqVars
<1> QED
  BY <1>1, <1>2 DEF DqOrder

LEMMA DqRests ==
  ASSUME Dq!Inv, UNCHANGED <<ipcVars, dqVars>>
  PROVE  Dq!Inv'
<1>1. DqAll
  BY DqParts
<1>2. IpcInv' /\ DqData' /\ DqCalls' /\ DqKept' /\ DqServed'
  <2>1. IpcInv'
    BY <1>1, UnchangedInv DEF DqAll
  <2>2. DqData'
    BY <1>1 DEF DqAll, DqData, dqVars
  <2>3. DqCalls'
    BY <1>1 DEF DqAll, DqCalls, dqVars, ipcVars
  <2>4. DqKept' /\ DqServed'
    BY <1>1 DEF DqAll, DqKept, DqServed, DqWoken, Dq!Count, dqVars, ipcVars
  <2> QED
    BY <2>1, <2>2, <2>3, <2>4
<1> QED
  BY <1>2, DqPartsNext DEF DqAll

-----------------------------------------------------------------------------
(* The table of a scan.                                                    *)

LEMMA ScanReports ==
  /\ None \notin Reports /\ CacheNum \in Nat \ {0}
  /\ \A r \in Reports : r.rssi \in Int /\ r.channel \in Int /\ r.datarate \in Int
BY DeviceAssumption DEF Scan!ScanTableAssumption

\* The search takes a station of the name, and none stronger has it.
LEMMA ScanBest ==
  ASSUME NEW ssid, scan_result \in Seq(Reports), Scan!Best(ssid) # None
  PROVE  /\ Scan!Best(ssid) \in Reports
         /\ \E i \in DOMAIN scan_result : scan_result[i] = Scan!Best(ssid)
         /\ Scan!Measured(scan_result) =>
              \A i \in DOMAIN scan_result :
                scan_result[i].ssid = Scan!Best(ssid).ssid =>
                  scan_result[i].rssi <= Scan!Best(ssid).rssi
<1> DEFINE n == Len(scan_result)
           S == Reports \cup {None}
           Pick(r, b) == IF r.ssid # ssid THEN b
                         ELSE IF b = None \/ Scan!Better(r, b) THEN r ELSE b
           step == [i \in 1..n |-> [b \in S |-> Pick(scan_result[i], b)]]
           Law(f) == f = [i \in 0..n |-> IF i = 0 THEN None
                                         ELSE IF scan_result[i].ssid # ssid THEN f[i - 1]
                                         ELSE IF f[i - 1] = None \/ Scan!Better(scan_result[i], f[i - 1])
                                              THEN scan_result[i]
                                         ELSE f[i - 1]]
<1>0. n \in Nat /\ DOMAIN scan_result = 1..n /\ \A i \in 1..n : scan_result[i] \in Reports
  BY LenProperties, ElementOfSeq
<1>1. step \in [1..n -> [S -> S]] /\ None \in S
  BY <1>0
<1>2. Scan!Best(ssid) = (CHOOSE f : Law(f))[n]
  BY DEF Scan!Best
<1>3. PICK f \in [0..n -> S] : f[0] = None /\ \A i \in 1..n : f[i] = step[i][f[i - 1]]
  <2>1. n \in Nat /\ step \in [1..n -> [S -> S]] /\ None \in S
    BY <1>0, <1>1
  <2> HIDE DEF n, S, step
  <2>2. HasRun(n, S, None, step)
    BY <2>1, RecursionAlong
  <2> QED
    BY <2>2 DEF HasRun
<1>4. ASSUME NEW i \in 1..n
      PROVE  f[i - 1] \in S /\ f[i] = Pick(scan_result[i], f[i - 1])
  <2>1. i - 1 \in 0..n
    BY <1>0
  <2>2. f[i - 1] \in S /\ f[i] = step[i][f[i - 1]]
    <3> HIDE DEF n, S, step
    <3> QED
      BY <1>3, <2>1
  <2>3. step[i] = [b \in S |-> Pick(scan_result[i], b)]
    <3> HIDE DEF n, S
    <3> QED
      OBVIOUS
  <2> HIDE DEF step, n, S
  <2> QED
    BY <2>2, <2>3
<1>5. f[0] = None
  BY <1>3
<1> HIDE DEF step
<1>6. \A i \in 0..n : f[i] = IF i = 0 THEN None
                                         ELSE IF scan_result[i].ssid # ssid THEN f[i - 1]
                                         ELSE IF f[i - 1] = None \/ Scan!Better(scan_result[i], f[i - 1])
                                              THEN scan_result[i]
                                         ELSE f[i - 1]
  BY <1>0, <1>4, <1>5
<1>7. Law(f)
  BY <1>3, <1>6
<1> DEFINE g == CHOOSE h : Law(h)
<1>8. Law(g)
  <2> HIDE DEF Law
  <2> QED
    BY <1>7
<1>9. g[0] = None /\ \A i \in 1..n : g[i] = Pick(scan_result[i], g[i - 1])
  <2> HIDE DEF g
  <2>1. \A i \in 0..n : g[i] = IF i = 0 THEN None
                                         ELSE IF scan_result[i].ssid # ssid THEN g[i - 1]
                                         ELSE IF g[i - 1] = None \/ Scan!Better(scan_result[i], g[i - 1])
                                              THEN scan_result[i]
                                         ELSE g[i - 1]
    BY <1>8
  <2> QED
    BY <1>0, <2>1
<1>10. Scan!Best(ssid) = g[n]
  BY <1>2
<1> HIDE DEF Law, g
<1> DEFINE Holds(m) ==
      /\ g[m] \in S
      /\ g[m] # None => g[m].ssid = ssid /\ \E i \in 1..n : scan_result[i] = g[m]
      /\ Scan!Measured(scan_result) =>
           \A i \in 1..m : scan_result[i].ssid = ssid =>
             g[m] # None /\ scan_result[i].rssi <= g[m].rssi
      /\ Scan!Measured(scan_result) /\ g[m] # None => g[m].rssi < 0
<1>11. Holds(0)
  BY <1>9
<1>12. ASSUME NEW m \in 1..n, Holds(m - 1) PROVE Holds(m)
  <2> DEFINE r == scan_result[m]
             b == g[m - 1]
  <2>1. r \in Reports /\ b \in S /\ g[m] = Pick(r, b) /\ m \in Nat
    BY <1>0, <1>9, <1>12
  <2>2. Scan!Measured(scan_result) => r.rssi < 0
    BY <1>0 DEF Scan!Measured
  <2>3. r.rssi \in Int /\ (b # None => b.rssi \in Int)
    BY <2>1, ScanReports
  <2>4. g[m] \in S /\ (g[m] # None => g[m].ssid = ssid /\ \E i \in 1..n : scan_result[i] = g[m])
    BY <1>12, <2>1
  <2>5. Scan!Measured(scan_result) /\ g[m] # None => g[m].rssi < 0
    BY <1>12, <2>1, <2>2
  <2>6. ASSUME Scan!Measured(scan_result)
        PROVE  /\ b # None => g[m] # None /\ b.rssi <= g[m].rssi
               /\ r.ssid = ssid => g[m] # None /\ r.rssi <= g[m].rssi
    <3>1. r # None /\ r.rssi < 0 /\ (b # None => b.rssi < 0)
      BY <1>12, <2>1, <2>2, <2>6, ScanReports
    <3>2. b # None => (Scan!Better(r, b) <=> (r.rssi # b.rssi /\ r.rssi > b.rssi) \/ (r.rssi = b.rssi /\ r.datarate > b.datarate))
      BY <2>3, <3>1 DEF Scan!Better, Scan!StrengthTells
    <3> HIDE DEF r, b
    <3> QED
      BY <2>1, <2>3, <3>1, <3>2
  <2>7. ASSUME Scan!Measured(scan_result), NEW i \in 1..m, scan_result[i].ssid = ssid
        PROVE  g[m] # None /\ scan_result[i].rssi <= g[m].rssi
    <3>1. CASE i = m
      BY <2>6, <2>7, <3>1
    <3>2. CASE i # m
      <4>1. i \in 1..(m - 1) /\ i \in 1..n
        BY <1>0, <2>1, <3>2
      <4>2. b # None /\ scan_result[i].rssi <= b.rssi
        BY <1>12, <2>7, <4>1
      <4>3. g[m] # None /\ b.rssi <= g[m].rssi
        BY <2>6, <2>7, <4>2
      <4>4. scan_result[i].rssi \in Int /\ b.rssi \in Int /\ g[m].rssi \in Int
        BY <1>0, <2>3, <2>4, <4>1, <4>2, <4>3, ScanReports
      <4> QED
        BY <4>2, <4>3, <4>4
    <3> QED
      BY <3>1, <3>2
  <2> QED
    BY <2>4, <2>5, <2>7
<1>13. Holds(n)
  <2> DEFINE Good == {m \in 0..n : Holds(m)}
  <2> HIDE DEF Holds
  <2>1. 0 \in Good
    BY <1>0, <1>11
  <2>2. \A m \in 1..n : m - 1 \in Good => m \in Good
    <3>1. ASSUME NEW m \in 1..n, m - 1 \in Good PROVE m \in Good
      <4>1. Holds(m - 1) /\ m \in 0..n
        BY <1>0, <3>1
      <4> QED
        BY <1>12, <4>1
    <3> QED
      BY <3>1
  <2>3. n \in Good
    <3> HIDE DEF Good
    <3> QED
      BY <1>0, <2>1, <2>2, KeptAlong
  <2> QED
    BY <2>3
<1>14. /\ Scan!Best(ssid) \in Reports /\ Scan!Best(ssid).ssid = ssid
       /\ \E i \in 1..n : scan_result[i] = Scan!Best(ssid)
  BY <1>10, <1>13
<1> QED
  BY <1>0, <1>10, <1>13, <1>14

\* p is q with e inserted at i.
InsertsAt(p, q, i, e) ==
  /\ Len(p) = Len(q) + 1 /\ p[i] = e
  /\ \A j \in 1..Len(p) : j < i => j \in 1..Len(q) /\ p[j] = q[j]
  /\ \A j \in 1..Len(p) : i < j => j - 1 \in 1..Len(q) /\ p[j] = q[j - 1]

LEMMA SeqInserted ==
  ASSUME NEW S, NEW q \in Seq(S), NEW i \in 1..(Len(q) + 1), NEW e \in S
  PROVE  Scan!Inserted(q, i, e) \in Seq(S) /\ InsertsAt(Scan!Inserted(q, i, e), q, i, e)
<1> DEFINE n == Len(q)
           a == SubSeq(q, 1, i - 1)
           b == SubSeq(q, i, n)
           c == a \o <<e>>
           p == Scan!Inserted(q, i, e)
<1>0. n \in Nat /\ i \in Nat /\ (\A k \in 1..n : q[k] \in S) /\ i \in 1..(n + 1)
  BY LenProperties, ElementOfSeq
<1>1. a \in Seq(S) /\ Len(a) = i - 1 /\ \A k \in 1..(i - 1) : a[k] = q[k]
  <2> HIDE DEF n
  <2>1. \A k \in 1..(i - 1) : q[k] \in S
    BY <1>0
  <2>2. /\ a \in Seq(S) /\ Len(a) = IF 1 <= i - 1 THEN (i - 1) - 1 + 1 ELSE 0
        /\ \A k \in 1..((i - 1) - 1 + 1) : a[k] = q[1 + k - 1]
    BY <1>0, <2>1, SubSeqProperties
  <2> QED
    BY <1>0, <2>2
<1>2. b \in Seq(S) /\ Len(b) = n - i + 1 /\ \A k \in 1..(n - i + 1) : b[k] = q[i + k - 1]
  <2> HIDE DEF n
  <2>1. \A k \in i..n : q[k] \in S
    BY <1>0
  <2>2. /\ b \in Seq(S) /\ Len(b) = IF i <= n THEN n - i + 1 ELSE 0
        /\ \A k \in 1..(n - i + 1) : b[k] = q[i + k - 1]
    BY <1>0, <2>1, SubSeqProperties
  <2> QED
    BY <1>0, <2>2
<1> HIDE DEF n, a, b
<1>3. <<e>> \in Seq(S) /\ Len(<<e>>) = 1 /\ <<e>>[1] = e
  OBVIOUS
<1>4. /\ c \in Seq(S) /\ Len(c) = i
      /\ \A k \in 1..i : c[k] = IF k <= i - 1 THEN q[k] ELSE e
  <2>1. /\ c \in Seq(S) /\ Len(c) = (i - 1) + 1
        /\ \A k \in 1..((i - 1) + 1) : c[k] = IF k <= i - 1 THEN a[k] ELSE <<e>>[k - (i - 1)]
    BY <1>1, <1>3, ConcatProperties
  <2> HIDE DEF c
  <2>2. \A k \in 1..i : ~(k <= i - 1) => k - (i - 1) = 1
    BY <1>0
  <2> QED
    BY <1>0, <1>1, <1>3, <2>1, <2>2
<1> HIDE DEF c
<1>5. p = c \o b
  BY DEF a, b, c, n, Scan!Inserted
<1> HIDE DEF p
<1>6. /\ p \in Seq(S) /\ Len(p) = i + (n - i + 1)
      /\ \A k \in 1..(i + (n - i + 1)) : p[k] = IF k <= i THEN c[k] ELSE b[k - i]
  <2>1. /\ c \o b \in Seq(S) /\ Len(c \o b) = Len(c) + Len(b)
        /\ \A k \in 1..(Len(c) + Len(b)) : (c \o b)[k] = IF k <= Len(c) THEN c[k] ELSE b[k - Len(c)]
    BY <1>2, <1>4, ConcatProperties
  <2> QED
    BY <1>2, <1>4, <1>5, <2>1
<1>7. Len(p) = n + 1
  BY <1>0, <1>6
<1>8. ASSUME NEW j \in 1..(n + 1)
      PROVE  /\ j = i => p[j] = e
             /\ j < i => j \in 1..n /\ p[j] = q[j]
             /\ i < j => j - 1 \in 1..n /\ p[j] = q[j - 1]
  <2>0. j \in 1..(i + (n - i + 1))
    BY <1>0
  <2>1. p[j] = IF j <= i THEN c[j] ELSE b[j - i]
    BY <1>6, <2>0
  <2>2. j <= i => c[j] = IF j <= i - 1 THEN q[j] ELSE e
    BY <1>0, <1>4
  <2>3. i < j => b[j - i] = q[j - 1]
    <3>1. SUFFICES ASSUME i < j PROVE b[j - i] = q[j - 1]
      OBVIOUS
    <3>2. j - i \in 1..(n - i + 1) /\ i + (j - i) - 1 = j - 1
      BY <1>0, <3>1
    <3>3. b[j - i] = q[i + (j - i) - 1]
      BY <1>2, <3>2
    <3> QED
      BY <3>2, <3>3
  <2>4. /\ j < i => j \in 1..n /\ j <= i /\ j <= i - 1
        /\ i < j => j - 1 \in 1..n /\ ~(j <= i)
        /\ j = i => j <= i /\ ~(j <= i - 1)
    BY <1>0
  <2> QED
    BY <2>1, <2>2, <2>3, <2>4
<1>9. p[i] = e
  BY <1>0, <1>8
<1> QED
  BY <1>6, <1>7, <1>8, <1>9 DEF n, InsertsAt, p

\* Where a report goes: behind those it does not precede, before one it does.
LEMMA ScanPosition ==
  ASSUME scan_result \in Seq(Reports), NEW r \in Reports
  PROVE  /\ Scan!Position(r) \in 1..(Len(scan_result) + 1)
         /\ \A j \in 1..Len(scan_result) :
              j < Scan!Position(r) => ~Scan!Before(r, scan_result[j])
         /\ Scan!Position(r) <= Len(scan_result) =>
              Scan!Before(r, scan_result[Scan!Position(r)])
<1> DEFINE n == Len(scan_result)
           I == {i \in 1..n : Scan!Before(r, scan_result[i])}
           Fits(i) == /\ \A j \in 1..(i - 1) : ~Scan!Before(r, scan_result[j])
                      /\ i <= n => Scan!Before(r, scan_result[i])
           at == CHOOSE i \in 1..(n + 1) : Fits(i)
<1>0. n \in Nat
  BY LenProperties
<1>1. Scan!Position(r) = at
  BY DEF Scan!Position
<1> HIDE DEF n
<1>2. \E i \in 1..(n + 1) : Fits(i)
  <2>1. CASE I = {}
    <3>1. Fits(n + 1) /\ n + 1 \in 1..(n + 1)
      BY <1>0, <2>1
    <3> QED
      BY <3>1
  <2>2. CASE I # {}
    <3>1. I \in SUBSET Nat /\ I \in SUBSET (1..n)
      <4>1. 1..n \subseteq Nat
        BY <1>0
      <4>2. I \subseteq 1..n
        OBVIOUS
      <4> HIDE DEF I
      <4> QED
        BY <4>1, <4>2
    <3>2. PICK k \in I : \A y \in I : k <= y
      <4> HIDE DEF I
      <4> QED
        BY <2>2, <3>1, LeastNatural
    <3>3. k \in 1..n /\ Scan!Before(r, scan_result[k])
      BY <3>2
    <3>4. ASSUME NEW j \in 1..(k - 1) PROVE ~Scan!Before(r, scan_result[j])
      <4>1. j \in 1..n /\ ~(k <= j)
        BY <1>0, <3>3
      <4> QED
        BY <3>2, <4>1
    <3>5. k \in 1..(n + 1)
      BY <1>0, <3>3
    <3> QED
      BY <3>3, <3>4, <3>5
  <2> QED
    BY <2>1, <2>2
<1>3. at \in 1..(n + 1) /\ Fits(at)
  <2> HIDE DEF Fits
  <2> QED
    BY <1>2
<1> HIDE DEF at
<1>4. \A j \in 1..n : j < at => ~Scan!Before(r, scan_result[j])
  <2>1. ASSUME NEW j \in 1..n, j < at PROVE j \in 1..(at - 1)
    BY <1>0, <1>3, <2>1
  <2> QED
    BY <1>3, <2>1
<1>5. at <= n => Scan!Before(r, scan_result[at])
  BY <1>3
<1> QED
  BY <1>1, <1>3, <1>4, <1>5 DEF n

LEMMA ScanInit == Scan!Init => Scan!Inv
<1>1. SUFFICES ASSUME Scan!Init PROVE Scan!Inv
  OBVIOUS
<1>2. /\ scan_result = << >> /\ scan_result \in Seq(Reports) /\ Len(scan_result) = 0
      /\ DOMAIN scan_result = {}
      /\ info_best = [c \in Users |-> None] /\ held = FALSE /\ freed = {}
  BY <1>1, EmptySeq DEF Scan!Init
<1>3. Scan!TypeOK
  BY <1>2 DEF Scan!TypeOK
<1>4. Scan!ScanTableSound
  BY <1>2, ScanReports DEF Scan!ScanTableSound, Scan!Reading
<1> QED
  BY <1>3, <1>4 DEF Scan!Inv

\* A report keeps the table sorted.
LEMMA ScanCache ==
  ASSUME Scan!Inv, NEW r \in Reports, Scan!Cache(r)
  PROVE  Scan!Inv'
<1> DEFINE n == Len(scan_result)
           at == Scan!Position(r)
<1>0. /\ scan_result \in Seq(Reports) /\ n \in Nat /\ DOMAIN scan_result = 1..n
      /\ \A i \in 1..n : scan_result[i] \in Reports
  BY LenProperties, ElementOfSeq DEF Scan!Inv, Scan!TypeOK
<1>1. info_best' = info_best
  BY DEF Scan!Cache
<1>2. CASE n >= CacheNum
  <2>1. scan_result' = scan_result /\ held' = TRUE /\ freed' = freed
    BY <1>2 DEF Scan!Cache
  <2>2. Scan!TypeOK'
    BY <1>1, <2>1 DEF Scan!Inv, Scan!TypeOK
  <2>3. n = CacheNum
    <3>1. n <= CacheNum
      BY DEF Scan!Inv, Scan!ScanTableSound
    <3> HIDE DEF n
    <3> QED
      BY <1>0, <1>2, <3>1, ScanReports
  <2> QED
    BY <1>1, <2>1, <2>2, <2>3 DEF Scan!Inv, Scan!ScanTableSound, Scan!Measured, Scan!Same, Scan!Reading
<1>3. CASE ~(n >= CacheNum)
  <2>1. /\ scan_result' = Scan!Inserted(scan_result, at, r)
        /\ freed' = Scan!Reading /\ held' = held
        /\ \A i \in 1..n : ~Scan!Same(r, scan_result[i])
    BY <1>0, <1>3 DEF Scan!Cache, Scan!Duplicate
  <2>2. /\ at \in 1..(n + 1)
        /\ \A j \in 1..n : j < at => ~Scan!Before(r, scan_result[j])
        /\ at <= n => Scan!Before(r, scan_result[at])
    BY <1>0, ScanPosition
  <2> DEFINE p == scan_result'
  <2> HIDE DEF at, n
  <2>3. /\ p \in Seq(Reports) /\ Len(p) = n + 1 /\ p[at] = r
        /\ \A j \in 1..Len(p) : j < at => j \in 1..n /\ p[j] = scan_result[j]
        /\ \A j \in 1..Len(p) : at < j => j - 1 \in 1..n /\ p[j] = scan_result[j - 1]
    <3>1. at \in 1..(Len(scan_result) + 1)
      BY <2>2 DEF n
    <3>2. p = Scan!Inserted(scan_result, at, r)
      BY <2>1
    <3>3. scan_result \in Seq(Reports) /\ r \in Reports
      BY <1>0
    <3>4. p \in Seq(Reports) /\ InsertsAt(p, scan_result, at, r)
      BY <3>1, <3>2, <3>3, SeqInserted
    <3> QED
      BY <3>4 DEF n, InsertsAt
  <2>4. at \in Nat /\ DOMAIN p = 1..(n + 1)
    BY <1>0, <2>2, <2>3, LenProperties
  <2>5. \A i, j \in 1..n : i < j => /\ ~Scan!Same(scan_result[i], scan_result[j])
                                    /\ Scan!Measured(scan_result) => scan_result[i].rssi >= scan_result[j].rssi
    BY <1>0 DEF Scan!Inv, Scan!ScanTableSound
  <2>6. \A s \in Reports : Scan!Same(r, s) <=> Scan!Same(s, r)
    BY DEF Scan!Same
  <2>7. Scan!Measured(p) => r.rssi < 0 /\ Scan!Measured(scan_result)
    <3>1. SUFFICES ASSUME \A i \in 1..(n + 1) : p[i].rssi < 0
                   PROVE  r.rssi < 0 /\ \A i \in 1..n : scan_result[i].rssi < 0
      BY <1>0, <2>4 DEF Scan!Measured
    <3>2. r.rssi < 0
      BY <2>2, <2>3, <3>1
    <3>3. ASSUME NEW i \in 1..n PROVE scan_result[i].rssi < 0
      <4>1. CASE i < at
        <5>1. i \in 1..(n + 1) /\ i \in 1..Len(p)
          BY <1>0, <2>3
        <5> QED
          BY <2>3, <3>1, <4>1, <5>1
      <4>2. CASE ~(i < at)
        <5>1. i + 1 \in 1..(n + 1) /\ i + 1 \in 1..Len(p) /\ at < i + 1 /\ (i + 1) - 1 = i
          BY <1>0, <2>3, <2>4, <4>2
        <5>2. p[i + 1] = scan_result[(i + 1) - 1]
          BY <2>3, <5>1
        <5> QED
          BY <3>1, <5>1, <5>2
      <4> QED
        BY <4>1, <4>2
    <3> QED
      BY <3>2, <3>3
  <2>8. ASSUME NEW i \in 1..(n + 1), NEW j \in 1..(n + 1), i < j
        PROVE  /\ ~Scan!Same(p[i], p[j])
               /\ Scan!Measured(p) => p[i].rssi >= p[j].rssi
    <3>0. i \in 1..Len(p) /\ j \in 1..Len(p) /\ i \in Nat /\ j \in Nat
      BY <1>0, <2>3
    <3>1. CASE j < at
      <4>1. p[i] = scan_result[i] /\ p[j] = scan_result[j] /\ i \in 1..n /\ j \in 1..n
        BY <2>3, <2>4, <2>8, <3>0, <3>1
      <4> QED
        BY <2>5, <2>7, <2>8, <4>1
    <3>2. CASE at < i
      <4>1. p[i] = scan_result[i - 1] /\ p[j] = scan_result[j - 1] /\ i - 1 \in 1..n /\ j - 1 \in 1..n
        BY <2>3, <2>4, <2>8, <3>0, <3>2
      <4>2. i - 1 < j - 1
        BY <2>8, <3>0
      <4> QED
        BY <2>5, <2>7, <4>1, <4>2
    <3>3. CASE i < at /\ at < j
      <4>1. p[i] = scan_result[i] /\ p[j] = scan_result[j - 1] /\ i \in 1..n /\ j - 1 \in 1..n
        BY <2>3, <3>0, <3>3
      <4>2. i < j - 1
        BY <2>4, <3>0, <3>3
      <4> QED
        BY <2>5, <2>7, <4>1, <4>2
    <3>4. CASE j = at
      <4>1. p[j] = r /\ p[i] = scan_result[i] /\ i \in 1..n
        BY <2>3, <2>8, <3>0, <3>4
      <4>2. ~Scan!Same(p[i], p[j])
        BY <1>0, <2>1, <2>6, <4>1
      <4>3. ASSUME Scan!Measured(p) PROVE p[i].rssi >= p[j].rssi
        <5>1. r.rssi < 0 /\ scan_result[i].rssi < 0
          BY <1>0, <2>7, <4>1, <4>3 DEF Scan!Measured
        <5>2. ~Scan!Before(r, scan_result[i])
          BY <2>2, <2>8, <3>4, <4>1
        <5>3. r.rssi \in Int /\ scan_result[i].rssi \in Int
          BY <1>0, <4>1, ScanReports
        <5>4. ~(r.rssi # scan_result[i].rssi /\ r.rssi > scan_result[i].rssi)
          BY <5>1, <5>2 DEF Scan!Before, Scan!StrengthTells
        <5> QED
          BY <4>1, <5>3, <5>4
      <4> QED
        BY <4>2, <4>3
    <3>5. CASE i = at
      <4>1. p[i] = r /\ p[j] = scan_result[j - 1] /\ j - 1 \in 1..n
        BY <2>3, <2>8, <3>0, <3>5
      <4>2. ~Scan!Same(p[i], p[j])
        BY <1>0, <2>1, <4>1
      <4>3. ASSUME Scan!Measured(p) PROVE p[i].rssi >= p[j].rssi
        <5>0. at \in 1..n /\ at <= n /\ at <= j - 1
          BY <1>0, <2>4, <2>8, <3>0, <3>5, <4>1
        <5>1. r.rssi < 0 /\ scan_result[at].rssi < 0
          BY <1>0, <2>7, <4>3, <5>0 DEF Scan!Measured
        <5>2. Scan!Before(r, scan_result[at])
          BY <2>2, <5>0
        <5>3. /\ r.rssi \in Int /\ scan_result[at].rssi \in Int /\ scan_result[j - 1].rssi \in Int
          BY <1>0, <4>1, <5>0, ScanReports
        <5>4. r.rssi = scan_result[at].rssi \/ r.rssi > scan_result[at].rssi
          BY <5>1, <5>2 DEF Scan!Before, Scan!StrengthTells
        <5>5. at < j - 1 => scan_result[at].rssi >= scan_result[j - 1].rssi
          BY <2>5, <2>7, <4>1, <4>3, <5>0
        <5>6. ~(at < j - 1) => at = j - 1
          BY <2>4, <3>0, <5>0
        <5>7. scan_result[at].rssi >= scan_result[j - 1].rssi
          BY <5>3, <5>5, <5>6
        <5> QED
          BY <4>1, <5>3, <5>4, <5>7
      <4> QED
        BY <4>2, <4>3
    <3>6. j < at \/ at < i \/ (i < at /\ at < j) \/ j = at \/ i = at
      BY <2>4, <2>8, <3>0
    <3> QED
      BY <3>1, <3>2, <3>3, <3>4, <3>5, <3>6
  <2>9. /\ Len(p) <= CacheNum
        /\ held' => Len(p) = CacheNum
    <3>1. Len(p) <= CacheNum
      BY <1>0, <1>3, <2>3, ScanReports
    <3>2. held' => n = CacheNum
      BY <2>1 DEF Scan!Inv, Scan!ScanTableSound, n
    <3> QED
      BY <1>3, <3>1, <3>2, ScanReports
  <2>10. Scan!Reading' \ freed' = {} /\ freed' \subseteq Users
    BY <1>1, <2>1 DEF Scan!Reading
  <2>11. Scan!ScanTableSound'
    BY <2>4, <2>8, <2>9, <2>10 DEF Scan!ScanTableSound, Scan!Measured, Scan!Same
  <2>12. Scan!TypeOK'
    BY <1>1, <2>1, <2>3, <2>10 DEF Scan!Inv, Scan!TypeOK
  <2> QED
    BY <2>11, <2>12 DEF Scan!Inv
<1> QED
  BY <1>2, <1>3

LEMMA ScanFindBest ==
  ASSUME Scan!Inv, NEW c \in Users, NEW ssid, Scan!FindBest(c, ssid)
  PROVE  Scan!Inv'
<1> DEFINE best == Scan!Best(ssid)
<1>1. /\ scan_result' = scan_result /\ held' = held /\ freed' = freed
      /\ info_best' = [info_best EXCEPT ![c] = best] /\ best # None
  BY DEF Scan!FindBest
<1>2. scan_result \in Seq(Reports) /\ info_best \in [Users -> Reports \cup {None}]
  BY DEF Scan!Inv, Scan!TypeOK
<1>3. /\ best \in Reports
      /\ \E i \in DOMAIN scan_result : scan_result[i] = best
      /\ (Scan!Measured(scan_result) =>
            \A i \in DOMAIN scan_result : scan_result[i].ssid = best.ssid =>
                                            scan_result[i].rssi <= best.rssi)
  BY <1>1, <1>2, ScanBest
<1> HIDE DEF best
<1>4. /\ info_best' \in [Users -> Reports \cup {None}] /\ info_best'[c] = best
      /\ \A d \in Users \ {c} : info_best'[d] = info_best[d]
  BY <1>1, <1>2, <1>3
<1>5. ASSUME NEW d \in Scan!Reading' \ freed', d # c
      PROVE  d \in Scan!Reading \ freed /\ d \in Users
  <2>1. d \in Users /\ info_best'[d] # None
    BY <1>5 DEF Scan!Reading
  <2> QED
    BY <1>1, <1>4, <1>5, <2>1 DEF Scan!Reading
<1>6. Scan!TypeOK'
  BY <1>1, <1>4 DEF Scan!Inv, Scan!TypeOK
<1> QED
  BY <1>1, <1>3, <1>4, <1>5, <1>6 DEF Scan!Inv, Scan!ScanTableSound, Scan!Measured, Scan!Same

LEMMA ScanNext == Scan!Inv /\ Scan!Next => Scan!Inv'
<1>1. ASSUME Scan!Inv, NEW c \in Users, Scan!ReadBest(c) PROVE Scan!Inv'
  <2>1. /\ scan_result' = scan_result /\ held' = held /\ freed' = freed \ {c}
        /\ info_best' = [info_best EXCEPT ![c] = None] /\ info_best \in [Users -> Reports \cup {None}]
    BY <1>1 DEF Scan!ReadBest, Scan!Inv, Scan!TypeOK
  <2>2. /\ info_best' \in [Users -> Reports \cup {None}] /\ info_best'[c] = None
        /\ \A d \in Users \ {c} : info_best'[d] = info_best[d]
    BY <2>1
  <2>3. \A d \in Scan!Reading' \ freed' : d \in Scan!Reading \ freed /\ d # c /\ d \in Users
    BY <2>1, <2>2 DEF Scan!Reading
  <2>4. Scan!TypeOK'
    BY <1>1, <2>1, <2>2 DEF Scan!Inv, Scan!TypeOK
  <2> QED
    BY <1>1, <2>1, <2>2, <2>3, <2>4 DEF Scan!Inv, Scan!ScanTableSound, Scan!Measured, Scan!Same
<1>2. ASSUME Scan!Inv, Scan!Clean PROVE Scan!Inv'
  <2>1. /\ scan_result' = << >> /\ freed' = Scan!Reading /\ UNCHANGED <<held, info_best>> /\ ~held
    BY <1>2 DEF Scan!Clean
  <2>2. Scan!Reading' \ freed' = {} /\ freed' \subseteq Users
    BY <2>1 DEF Scan!Reading
  <2> QED
    BY <1>2, <2>1, <2>2, EmptySeq, ScanReports DEF Scan!Inv, Scan!TypeOK, Scan!ScanTableSound
<1> QED
  BY <1>1, <1>2, ScanCache, ScanFindBest DEF Scan!Next

LEMMA ScanStays == Scan!Inv /\ UNCHANGED scanVars => Scan!Inv'
BY DEF scanVars, Scan!Inv, Scan!TypeOK, Scan!ScanTableSound, Scan!Measured, Scan!Same, Scan!Reading

-----------------------------------------------------------------------------
(* The configurations of the WLAN.                                         *)
LEMMA CfgSizes == InfoMax \in Nat \ {0} /\ None \notin Nat
BY DeviceAssumption DEF Cfg!WlanConfigAssumption

\* A station has one configuration in q.
CfgApart(q) == \A i, j \in 1..Len(q) : q[i].ap = q[j].ap => i = j

LEMMA CfgIndexOf ==
  ASSUME NEW q \in Seq(Cfg!Configs), NEW ap
  PROVE  /\ Cfg!IndexOf(q, ap) = 0 => \A i \in 1..Len(q) : q[i].ap # ap
         /\ Cfg!IndexOf(q, ap) # 0 => /\ Cfg!IndexOf(q, ap) \in 1..Len(q)
                                      /\ q[Cfg!IndexOf(q, ap)].ap = ap
         /\ (\A i \in 1..Len(q) : q[i].ap # ap) => Cfg!IndexOf(q, ap) = 0
<1> DEFINE found == {i \in 1..Len(q) : q[i].ap = ap}
           first == CHOOSE i \in found : \A j \in found : i <= j
<1>0. Len(q) \in Nat /\ DOMAIN q = 1..Len(q)
  BY LenProperties
<1>1. Cfg!IndexOf(q, ap) = IF found = {} THEN 0 ELSE first
  BY <1>0 DEF Cfg!IndexOf
<1>2. CASE found = {}
  BY <1>1, <1>2
<1>3. CASE found # {}
  <2>1. found \in SUBSET Nat
    BY <1>0
  <2>2. first \in found
    <3> HIDE DEF found
    <3> QED
      BY <1>3, <2>1, LeastNatural
  <2>3. Cfg!IndexOf(q, ap) = first
    BY <1>1, <1>3
  <2> HIDE DEF first
  <2>4. first \in 1..Len(q) /\ q[first].ap = ap /\ first # 0
    BY <1>0, <2>2
  <2> QED
    BY <2>3, <2>4
<1> QED
  BY <1>2, <1>3

\* p is q without its i-th entry.
Leaves(p, q, i) ==
  /\ Len(p) = Len(q) - 1
  /\ \A j \in 1..Len(p) : p[j] = q[IF j < i THEN j ELSE j + 1]

LEMMA CfgWithout ==
  ASSUME NEW S, NEW q \in Seq(S), NEW i \in 1..Len(q)
  PROVE  Cfg!Without(q, i) \in Seq(S) /\ Leaves(Cfg!Without(q, i), q, i)
<1> DEFINE n == Len(q)
           a == SubSeq(q, 1, i - 1)
           b == SubSeq(q, i + 1, n)
           p == Cfg!Without(q, i)
<1>0. n \in Nat /\ i \in Nat /\ (\A k \in 1..n : q[k] \in S) /\ i \in 1..n
  BY LenProperties, ElementOfSeq
<1>1. a \in Seq(S) /\ Len(a) = i - 1 /\ \A k \in 1..(i - 1) : a[k] = q[k]
  <2> HIDE DEF n
  <2>1. \A k \in 1..(i - 1) : q[k] \in S
    BY <1>0
  <2>2. /\ a \in Seq(S) /\ Len(a) = IF 1 <= i - 1 THEN (i - 1) - 1 + 1 ELSE 0
        /\ \A k \in 1..((i - 1) - 1 + 1) : a[k] = q[1 + k - 1]
    BY <1>0, <2>1, SubSeqProperties
  <2> QED
    BY <1>0, <2>2
<1>2. b \in Seq(S) /\ Len(b) = n - i /\ \A k \in 1..(n - i) : b[k] = q[i + k]
  <2> HIDE DEF n
  <2>1. \A k \in (i + 1)..n : q[k] \in S
    BY <1>0
  <2>2. /\ b \in Seq(S) /\ Len(b) = IF i + 1 <= n THEN n - (i + 1) + 1 ELSE 0
        /\ \A k \in 1..(n - (i + 1) + 1) : b[k] = q[(i + 1) + k - 1]
    BY <1>0, <2>1, SubSeqProperties
  <2>3. n - (i + 1) + 1 = n - i /\ \A k \in 1..(n - i) : (i + 1) + k - 1 = i + k
    BY <1>0
  <2> QED
    BY <1>0, <2>2, <2>3
<1>3. p = a \o b
  BY DEF Cfg!Without
<1> HIDE DEF n, a, b, p
<1>4. /\ a \o b \in Seq(S) /\ Len(a \o b) = Len(a) + Len(b)
      /\ \A k \in 1..(Len(a) + Len(b)) : (a \o b)[k] = IF k <= Len(a) THEN a[k] ELSE b[k - Len(a)]
  BY <1>1, <1>2, ConcatProperties
<1>5. p \in Seq(S) /\ Len(p) = n - 1
  BY <1>0, <1>1, <1>2, <1>3, <1>4
<1>6. ASSUME NEW j \in 1..(n - 1) PROVE p[j] = q[IF j < i THEN j ELSE j + 1]
  <2>0. j \in 1..(Len(a) + Len(b)) /\ j \in Nat
    BY <1>0, <1>1, <1>2
  <2>1. p[j] = IF j <= i - 1 THEN a[j] ELSE b[j - (i - 1)]
    BY <1>1, <1>3, <1>4, <2>0
  <2>2. CASE j < i
    <3>1. j \in 1..(i - 1) /\ j <= i - 1
      BY <1>0, <2>0, <2>2
    <3> QED
      BY <1>1, <2>1, <2>2, <3>1
  <2>3. CASE ~(j < i)
    <3>1. j - (i - 1) \in 1..(n - i) /\ i + (j - (i - 1)) = j + 1 /\ ~(j <= i - 1)
      BY <1>0, <2>0, <2>3
    <3>2. b[j - (i - 1)] = q[i + (j - (i - 1))]
      BY <1>2, <3>1
    <3> QED
      BY <2>1, <2>3, <3>1, <3>2
  <2> QED
    BY <2>2, <2>3
<1> QED
  BY <1>5, <1>6 DEF n, p, Leaves

\* A removal keeps the rest apart, and apart from what is removed.
LEMMA CfgLeaves ==
  ASSUME NEW q \in Seq(Cfg!Configs), NEW i \in 1..Len(q), NEW p \in Seq(Cfg!Configs),
         Leaves(p, q, i), CfgApart(q)
  PROVE  CfgApart(p) /\ \A j \in 1..Len(p) : p[j].ap # q[i].ap
<1> DEFINE At(j) == IF j < i THEN j ELSE j + 1
<1>0. Len(q) \in Nat /\ Len(p) = Len(q) - 1
  BY LenProperties DEF Leaves
<1>1. \A j \in 1..Len(p) : At(j) \in 1..Len(q) /\ p[j] = q[At(j)] /\ At(j) # i
  BY <1>0 DEF Leaves
<1>2. \A j, k \in 1..Len(p) : At(j) = At(k) => j = k
  BY <1>0
<1> HIDE DEF At
<1>3. ASSUME NEW j \in 1..Len(p), NEW k \in 1..Len(p), p[j].ap = p[k].ap PROVE j = k
  <2>1. At(j) = At(k)
    BY <1>1, <1>3 DEF CfgApart
  <2> QED
    BY <1>2, <2>1
<1>4. ASSUME NEW j \in 1..Len(p), p[j].ap = q[i].ap PROVE FALSE
  <2>1. At(j) = i
    BY <1>1, <1>4 DEF CfgApart
  <2> QED
    BY <1>1, <2>1
<1> QED
  BY <1>3, <1>4 DEF CfgApart

\* Where a list gets an entry at its head, the others follow it.
LEMMA CfgHeads ==
  ASSUME NEW c \in Cfg!Configs, NEW q \in Seq(Cfg!Configs)
  PROVE  /\ <<c>> \o q \in Seq(Cfg!Configs) /\ Len(<<c>> \o q) = Len(q) + 1
         /\ CfgApart(q) /\ (\A i \in 1..Len(q) : q[i].ap # c.ap) => CfgApart(<<c>> \o q)
<1> DEFINE p == <<c>> \o q
<1>0. <<c>> \in Seq(Cfg!Configs) /\ Len(<<c>>) = 1 /\ <<c>>[1] = c /\ Len(q) \in Nat
  BY LenProperties
<1>1. /\ p \in Seq(Cfg!Configs) /\ Len(p) = Len(<<c>>) + Len(q)
      /\ \A i \in 1..(Len(<<c>>) + Len(q)) : p[i] = IF i <= Len(<<c>>) THEN <<c>>[i] ELSE q[i - Len(<<c>>)]
  BY <1>0, ConcatProperties
<1> HIDE DEF p
<1>2. Len(p) = Len(q) + 1 /\ \A i \in 1..Len(p) : p[i] = IF i = 1 THEN c ELSE q[i - 1]
  BY <1>0, <1>1
<1>3. ASSUME CfgApart(q), \A i \in 1..Len(q) : q[i].ap # c.ap PROVE CfgApart(p)
  <2>1. \A i \in 1..Len(p) : i # 1 => i - 1 \in 1..Len(q)
    BY <1>0, <1>2
  <2>2. ASSUME NEW i \in 1..Len(p), NEW j \in 1..Len(p), p[i].ap = p[j].ap PROVE i = j
    <3>1. CASE i = 1 /\ j = 1
      BY <3>1
    <3>2. CASE i = 1 /\ j # 1
      BY <1>2, <1>3, <2>1, <2>2, <3>2
    <3>3. CASE i # 1 /\ j = 1
      BY <1>2, <1>3, <2>1, <2>2, <3>3
    <3>4. CASE i # 1 /\ j # 1
      <4>1. q[i - 1].ap = q[j - 1].ap /\ i - 1 \in 1..Len(q) /\ j - 1 \in 1..Len(q)
        BY <1>2, <2>1, <2>2, <3>4
      <4>2. i - 1 = j - 1
        BY <1>3, <4>1 DEF CfgApart
      <4> QED
        BY <1>0, <1>2, <4>2
    <3> QED
      BY <3>1, <3>2, <3>3, <3>4
  <2> QED
    BY <2>2 DEF CfgApart
<1> QED
  BY <1>1, <1>2, <1>3 DEF p

\* An entry at the end that is known nowhere.
LEMMA CfgAppends ==
  ASSUME NEW c \in Cfg!Configs, NEW q \in Seq(Cfg!Configs)
  PROVE  /\ Append(q, c) \in Seq(Cfg!Configs) /\ Len(Append(q, c)) = Len(q) + 1
         /\ CfgApart(q) /\ (\A i \in 1..Len(q) : q[i].ap # c.ap) => CfgApart(Append(q, c))
<1> DEFINE p == Append(q, c)
<1>0. Len(q) \in Nat
  BY LenProperties
<1>1. /\ p \in Seq(Cfg!Configs) /\ Len(p) = Len(q) + 1
      /\ \A i \in 1..Len(q) : p[i] = q[i]
      /\ p[Len(q) + 1] = c
  BY AppendProperties
<1> HIDE DEF p
<1>2. ASSUME CfgApart(q), \A i \in 1..Len(q) : q[i].ap # c.ap PROVE CfgApart(p)
  <2>1. \A i \in 1..Len(p) : i \in 1..Len(q) \/ i = Len(q) + 1
    BY <1>0, <1>1
  <2> QED
    BY <1>1, <1>2, <2>1 DEF CfgApart
<1> QED
  BY <1>1, <1>2 DEF p

\* A save puts a configuration at the head, once and within the bound.
LEMMA CfgToHead ==
  ASSUME NEW c \in Cfg!Configs, NEW q \in Seq(Cfg!Configs), Len(q) <= InfoMax
  PROVE  /\ Cfg!ToHead(q, c) \in Seq(Cfg!Configs) /\ Len(Cfg!ToHead(q, c)) <= InfoMax
         /\ CfgApart(q) => CfgApart(Cfg!ToHead(q, c))
<1> DEFINE i == Cfg!IndexOf(q, c.ap)
           known == IF i # 0 THEN i ELSE IF Len(q) = InfoMax THEN InfoMax ELSE 0
           r == IF known = 0 THEN q ELSE Cfg!Without(q, known)
<1>0. Len(q) \in Nat /\ InfoMax \in Nat \ {0}
  BY LenProperties, CfgSizes
<1>1. Cfg!ToHead(q, c) = <<c>> \o r
  BY DEF Cfg!ToHead
<1>2. /\ i = 0 => \A k \in 1..Len(q) : q[k].ap # c.ap
      /\ i # 0 => i \in 1..Len(q) /\ q[i].ap = c.ap
  BY CfgIndexOf
<1> HIDE DEF i
<1>3. CASE known = 0
  <2>1. r = q /\ i = 0 /\ Len(q) + 1 <= InfoMax
    BY <1>0, <1>2, <1>3
  <2> HIDE DEF r, known
  <2> QED
    BY <1>1, <1>2, <2>1, CfgHeads
<1>4. CASE known # 0
  <2>1. known \in 1..Len(q) /\ (i # 0 => known = i)
    BY <1>0, <1>2, <1>4
  <2>2. r = Cfg!Without(q, known)
    BY <1>4
  <2> HIDE DEF r, known
  <2>3. r \in Seq(Cfg!Configs) /\ Leaves(r, q, known)
    BY <2>1, <2>2, CfgWithout
  <2>4. Len(r) = Len(q) - 1
    BY <2>3 DEF Leaves
  <2>5. CfgApart(q) => CfgApart(r) /\ \A k \in 1..Len(r) : r[k].ap # c.ap
    <3>1. SUFFICES ASSUME CfgApart(q)
                   PROVE  CfgApart(r) /\ \A k \in 1..Len(r) : r[k].ap # c.ap
      OBVIOUS
    <3>2. CfgApart(r) /\ \A k \in 1..Len(r) : r[k].ap # q[known].ap
      BY <2>1, <2>3, <3>1, CfgLeaves
    <3>3. CASE i # 0
      BY <1>2, <2>1, <3>2, <3>3
    <3>4. CASE i = 0
      <4>1. ASSUME NEW k \in 1..Len(r) PROVE r[k].ap # c.ap
        <5>1. r[k] = q[IF k < known THEN k ELSE k + 1]
          BY <2>3 DEF Leaves
        <5>2. (IF k < known THEN k ELSE k + 1) \in 1..Len(q)
          BY <1>0, <2>1, <2>4
        <5> QED
          BY <1>2, <3>4, <5>1, <5>2
      <4> QED
        BY <3>2, <4>1
    <3> QED
      BY <3>3, <3>4
  <2>6. /\ <<c>> \o r \in Seq(Cfg!Configs) /\ Len(<<c>> \o r) = Len(r) + 1
        /\ CfgApart(r) /\ (\A k \in 1..Len(r) : r[k].ap # c.ap) => CfgApart(<<c>> \o r)
    BY <2>3, CfgHeads
  <2>7. Len(r) + 1 <= InfoMax
    BY <1>0, <2>4
  <2> QED
    BY <1>1, <2>5, <2>6, <2>7
<1> QED
  BY <1>3, <1>4

\* The list while it is merged with the configurations of q, one by one.
CfgTakes(list, c) ==
  IF Len(list) = InfoMax \/ Cfg!IndexOf(list, c.ap) # 0 THEN list ELSE Append(list, c)

LEMMA CfgMerges ==
  ASSUME NEW list \in Seq(Cfg!Configs), NEW q \in Seq(Cfg!Configs)
  PROVE  \E f : /\ f[0] = list /\ Cfg!Merged(list, q) = f[Len(q)]
                /\ \A i \in 1..Len(q) : f[i] = CfgTakes(f[i - 1], q[i])
<1> DEFINE n == Len(q)
           S == Seq(Cfg!Configs)
           step == [i \in 1..n |-> [l \in S |-> CfgTakes(l, q[i])]]
           Law(f) == f = [i \in 0..n |->
                            IF i = 0 THEN list
                            ELSE IF Len(f[i - 1]) = InfoMax \/ Cfg!IndexOf(f[i - 1], q[i].ap) # 0
                                 THEN f[i - 1]
                            ELSE Append(f[i - 1], q[i])]
           g == CHOOSE f : Law(f)
<1>0. n \in Nat /\ \A i \in 1..n : q[i] \in Cfg!Configs
  BY LenProperties, ElementOfSeq
<1>1. \A i \in 1..n : \A l \in S : CfgTakes(l, q[i]) \in S
  <2>1. ASSUME NEW i \in 1..n, NEW l \in S PROVE CfgTakes(l, q[i]) \in S
    BY <1>0, AppendProperties DEF CfgTakes
  <2> QED
    BY <2>1
<1>2. Cfg!Merged(list, q) = g[n]
  BY DEF Cfg!Merged
<1> HIDE DEF n, S
<1>3. step \in [1..n -> [S -> S]] /\ list \in S
  BY <1>1 DEF S
<1>4. PICK f \in [0..n -> S] : f[0] = list /\ \A i \in 1..n : f[i] = step[i][f[i - 1]]
  <2> HIDE DEF step
  <2>1. HasRun(n, S, list, step)
    BY <1>0, <1>3, RecursionAlong
  <2> QED
    BY <2>1 DEF HasRun
<1>5. ASSUME NEW i \in 1..n PROVE f[i] = CfgTakes(f[i - 1], q[i])
  <2>1. i - 1 \in 0..n
    BY <1>0
  <2>2. f[i - 1] \in S /\ f[i] = step[i][f[i - 1]]
    <3> HIDE DEF step
    <3> QED
      BY <1>4, <2>1
  <2>3. step[i] = [l \in S |-> CfgTakes(l, q[i])]
    OBVIOUS
  <2> HIDE DEF step
  <2> QED
    BY <2>2, <2>3
<1>6. Law(f)
  <2>1. f[0] = list
    BY <1>4
  <2>2. \A i \in 0..n :
          f[i] = IF i = 0 THEN list
                 ELSE IF Len(f[i - 1]) = InfoMax \/ Cfg!IndexOf(f[i - 1], q[i].ap) # 0
                      THEN f[i - 1]
                 ELSE Append(f[i - 1], q[i])
    <3>1. TAKE i \in 0..n
    <3> HIDE DEF step
    <3>2. CASE i = 0
      BY <2>1, <3>2
    <3>3. CASE i # 0
      <4>1. i \in 1..n
        BY <1>0, <3>3
      <4> QED
        BY <1>5, <3>3, <4>1 DEF CfgTakes
    <3> QED
      BY <3>2, <3>3
  <2>3. f \in [0..n -> S]
    BY <1>4
  <2> HIDE DEF step
  <2> QED
    BY <2>2, <2>3
<1>7. Law(g)
  <2> HIDE DEF Law
  <2> QED
    BY <1>6
<1>8. g[0] = list /\ \A i \in 1..n : g[i] = CfgTakes(g[i - 1], q[i])
  <2> HIDE DEF g
  <2>1. \A i \in 0..n :
          g[i] = IF i = 0 THEN list
                 ELSE IF Len(g[i - 1]) = InfoMax \/ Cfg!IndexOf(g[i - 1], q[i].ap) # 0
                      THEN g[i - 1]
                 ELSE Append(g[i - 1], q[i])
    BY <1>7
  <2> QED
    BY <1>0, <2>1 DEF CfgTakes
<1> HIDE DEF g
<1> QED
  BY <1>2, <1>8 DEF n

\* A refresh keeps the bound, and one configuration for a station.
LEMMA CfgMergedKeeps ==
  ASSUME NEW list \in Seq(Cfg!Configs), NEW q \in Seq(Cfg!Configs), Len(list) <= InfoMax
  PROVE  /\ Cfg!Merged(list, q) \in Seq(Cfg!Configs) /\ Len(Cfg!Merged(list, q)) <= InfoMax
         /\ CfgApart(list) => CfgApart(Cfg!Merged(list, q))
<1>0. Len(q) \in Nat /\ (\A i \in 1..Len(q) : q[i] \in Cfg!Configs) /\ InfoMax \in Nat
  BY LenProperties, ElementOfSeq, CfgSizes
<1>1. PICK f : /\ f[0] = list /\ Cfg!Merged(list, q) = f[Len(q)]
               /\ \A i \in 1..Len(q) : f[i] = CfgTakes(f[i - 1], q[i])
  BY CfgMerges
<1> DEFINE Holds(l) == /\ l \in Seq(Cfg!Configs) /\ Len(l) <= InfoMax
                       /\ CfgApart(list) => CfgApart(l)
           Good == {i \in 0..Len(q) : Holds(f[i])}
<1>2. ASSUME NEW l, NEW c \in Cfg!Configs, Holds(l) PROVE Holds(CfgTakes(l, c))
  <2>0. Len(l) \in Nat
    BY <1>2, LenProperties
  <2>1. CASE Len(l) = InfoMax \/ Cfg!IndexOf(l, c.ap) # 0
    BY <1>2, <2>1 DEF CfgTakes
  <2>2. CASE ~(Len(l) = InfoMax \/ Cfg!IndexOf(l, c.ap) # 0)
    <3>1. CfgTakes(l, c) = Append(l, c) /\ \A i \in 1..Len(l) : l[i].ap # c.ap
      BY <1>2, <2>2, CfgIndexOf DEF CfgTakes
    <3>2. Len(l) + 1 <= InfoMax
      BY <1>0, <1>2, <2>0, <2>2
    <3> QED
      BY <1>2, <3>1, <3>2, CfgAppends
  <2> QED
    BY <2>1, <2>2
<1> HIDE DEF Holds
<1>3. 0 \in Good
  BY <1>0, <1>1 DEF Holds
<1>4. \A i \in 1..Len(q) : i - 1 \in Good => i \in Good
  <2>1. ASSUME NEW i \in 1..Len(q), i - 1 \in Good PROVE i \in Good
    <3>1. Holds(f[i - 1]) /\ i \in 0..Len(q)
      BY <1>0, <2>1
    <3>2. Holds(CfgTakes(f[i - 1], q[i]))
      BY <1>0, <1>2, <3>1
    <3> QED
      BY <1>1, <3>1, <3>2
  <2> QED
    BY <2>1
<1>5. Len(q) \in Good
  <2> HIDE DEF Good
  <2> QED
    BY <1>0, <1>3, <1>4, KeptAlong
<1> QED
  BY <1>1, <1>5 DEF Holds

\* What was a list of configurations is that list again when it is read.
LEMMA CfgMergedSame ==
  ASSUME NEW q \in Seq(Cfg!Configs), Len(q) <= InfoMax, CfgApart(q)
  PROVE  Cfg!Merged(<< >>, q) = q
<1>0. /\ Len(q) \in Nat /\ (\A i \in 1..Len(q) : q[i] \in Cfg!Configs) /\ InfoMax \in Nat
      /\ << >> \in Seq(Cfg!Configs) /\ Len(<< >>) = 0
  BY LenProperties, ElementOfSeq, CfgSizes
<1>1. PICK f : /\ f[0] = << >> /\ Cfg!Merged(<< >>, q) = f[Len(q)]
               /\ \A i \in 1..Len(q) : f[i] = CfgTakes(f[i - 1], q[i])
  BY <1>0, CfgMerges
<1> DEFINE Holds(l, m) == /\ l \in Seq(Cfg!Configs) /\ Len(l) = m
                          /\ \A i \in 1..m : l[i] = q[i]
           Good == {i \in 0..Len(q) : Holds(f[i], i)}
<1>2. ASSUME NEW m \in 1..Len(q), NEW l, Holds(l, m - 1) PROVE Holds(CfgTakes(l, q[m]), m)
  <2>1. m \in Nat /\ Len(l) # InfoMax /\ q[m] \in Cfg!Configs
    BY <1>0, <1>2
  <2>2. ASSUME NEW i \in 1..Len(l) PROVE l[i].ap # q[m].ap
    <3>1. l[i] = q[i] /\ i \in 1..Len(q) /\ i # m
      BY <1>0, <1>2, <2>1
    <3> QED
      BY <3>1 DEF CfgApart
  <2>3. CfgTakes(l, q[m]) = Append(l, q[m])
    BY <1>2, <2>1, <2>2, CfgIndexOf DEF CfgTakes
  <2>4. /\ Append(l, q[m]) \in Seq(Cfg!Configs) /\ Len(Append(l, q[m])) = Len(l) + 1
        /\ \A i \in 1..Len(l) : Append(l, q[m])[i] = l[i]
        /\ Append(l, q[m])[Len(l) + 1] = q[m]
    BY <1>2, <2>1, AppendProperties
  <2> DEFINE p == Append(l, q[m])
  <2> HIDE DEF p
  <2>5. p \in Seq(Cfg!Configs) /\ Len(p) = m /\ p[m] = q[m] /\ \A i \in 1..(m - 1) : p[i] = q[i]
    BY <1>2, <2>1, <2>4 DEF p
  <2>6. \A i \in 1..m : i \in 1..(m - 1) \/ i = m
    BY <2>1
  <2>7. Holds(p, m)
    BY <2>5, <2>6
  <2> QED
    BY <2>3, <2>7 DEF p
<1>3. 0 \in Good
  <2>1. Holds(f[0], 0)
    BY <1>0, <1>1
  <2> QED
    BY <1>0, <2>1
<1> HIDE DEF Holds
<1>4. \A i \in 1..Len(q) : i - 1 \in Good => i \in Good
  <2>1. ASSUME NEW i \in 1..Len(q), i - 1 \in Good PROVE i \in Good
    <3>1. Holds(f[i - 1], i - 1) /\ i \in 0..Len(q)
      BY <1>0, <2>1
    <3>2. Holds(CfgTakes(f[i - 1], q[i]), i)
      BY <1>2, <3>1
    <3> QED
      BY <1>1, <3>1, <3>2
  <2> QED
    BY <2>1
<1>5. Len(q) \in Good
  <2> HIDE DEF Good
  <2> QED
    BY <1>0, <1>3, <1>4, KeptAlong
<1>6. /\ f[Len(q)] \in Seq(Cfg!Configs) /\ Len(f[Len(q)]) = Len(q)
      /\ \A i \in 1..Len(q) : f[Len(q)][i] = q[i]
  BY <1>5 DEF Holds
<1> QED
  BY <1>1, <1>6, SeqEqual

\* The invariant over the states of the object.
CfgStored(cache, copy) ==
  cache = IF copy.len # None /\ copy.len = Len(copy.info) THEN Cfg!Merged(<< >>, copy.info) ELSE << >>

CfgParts ==
  /\ cfg_cache \in Seq(Cfg!Configs) /\ Len(cfg_cache) <= InfoMax
  /\ cfg_ops \in BOOLEAN
  /\ flash \in [len : Nat \cup {None}, info : Seq(Cfg!Configs)]
  /\ cfg_pc \in [Users -> Cfg!Stages]
  /\ unwritten \in BOOLEAN /\ torn \in BOOLEAN /\ overwritten \in BOOLEAN
  /\ ~overwritten => CfgApart(cfg_cache)
  /\ (\A t \in Users : cfg_pc[t] = "out") /\ ~unwritten /\ ~overwritten => CfgStored(cfg_cache, flash)
  /\ ~Cfg!Readable => flash.len = None \/ torn \/ ~Cfg!Unlocked
  /\ ~Cfg!Unlocked => flash.len = Len(cfg_cache)

LEMMA CfgInvParts == Cfg!Inv <=> CfgParts
<1>1. cfg_cache \in Seq(Cfg!Configs) => DOMAIN cfg_cache = 1..Len(cfg_cache)
  BY LenProperties
<1>2. cfg_cache \in Seq(Cfg!Configs) =>
        (CfgApart(cfg_cache) <=> \A i, j \in DOMAIN cfg_cache : cfg_cache[i].ap = cfg_cache[j].ap => i = j)
  BY <1>1 DEF CfgApart
<1>3. CfgStored(cfg_cache, flash) <=> cfg_cache = IF Cfg!Readable THEN Cfg!Merged(<< >>, flash.info) ELSE << >>
  BY DEF CfgStored, Cfg!Readable
<1> QED
  BY <1>2, <1>3 DEF Cfg!Inv, Cfg!TypeOK, Cfg!ConfigsStored, Cfg!LengthWritten, CfgParts

LEMMA CfgInvPartsNext == (Cfg!Inv <=> CfgParts)'
BY CfgInvParts, PTL

LEMMA CfgInit == Cfg!Init => Cfg!Inv
<1> SUFFICES ASSUME Cfg!Init PROVE CfgParts
  BY CfgInvParts
<1>1. << >> \in Seq(Cfg!Configs) /\ Len(<< >>) = 0 /\ CfgApart(<< >>)
  BY EmptySeq DEF CfgApart
<1>2. /\ cfg_cache = << >> /\ cfg_ops = FALSE /\ cfg_pc = [t \in Users |-> "out"]
      /\ flash = [len |-> None, info |-> << >>] /\ flash.len = None
      /\ unwritten = FALSE /\ torn = FALSE /\ overwritten = FALSE
  BY DEF Cfg!Init
<1>3. cfg_pc \in [Users -> Cfg!Stages] /\ Cfg!Unlocked
  BY <1>2 DEF Cfg!Stages, Cfg!Unlocked
<1>4. flash \in [len : Nat \cup {None}, info : Seq(Cfg!Configs)]
  BY <1>1, <1>2
<1>5. CfgStored(cfg_cache, flash)
  BY <1>2 DEF CfgStored
<1>6. Len(cfg_cache) <= InfoMax
  BY <1>1, <1>2, CfgSizes
<1> QED
  BY <1>1, <1>2, <1>3, <1>4, <1>5, <1>6 DEF CfgParts

\* A call that changes the list alone, while nobody writes.
LEMMA CfgChanges ==
  ASSUME CfgParts, NEW t \in Users, Cfg!Free(t),
         cfg_cache' \in Seq(Cfg!Configs), Len(cfg_cache') <= InfoMax,
         ~overwritten' => CfgApart(cfg_cache'),
         unwritten' \in BOOLEAN, overwritten' \in BOOLEAN,
         ~unwritten' /\ ~overwritten' => CfgStored(cfg_cache', flash),
         cfg_ops' = cfg_ops, flash' = flash, cfg_pc' = cfg_pc, torn' = torn
  PROVE  CfgParts'
<1>1. Cfg!Unlocked
  BY DEF Cfg!Free
<1>2. Cfg!Unlocked' /\ (Cfg!Readable' <=> Cfg!Readable)
  BY <1>1 DEF Cfg!Unlocked, Cfg!Readable
<1> QED
  BY <1>1, <1>2 DEF CfgParts, CfgStored

\* A thread comes to save what is in the list.
LEMMA CfgSaves ==
  ASSUME CfgParts, NEW t \in Users, Cfg!Free(t), Cfg!Goto(t, "save"),
         cfg_cache' \in Seq(Cfg!Configs), Len(cfg_cache') <= InfoMax,
         ~overwritten => CfgApart(cfg_cache'),
         cfg_ops' = cfg_ops, flash' = flash, unwritten' = unwritten, torn' = torn,
         overwritten' = overwritten
  PROVE  CfgParts'
<1>0. cfg_pc \in [Users -> Cfg!Stages] /\ cfg_pc' = [cfg_pc EXCEPT ![t] = "save"]
  BY DEF CfgParts, Cfg!Goto
<1>1. cfg_pc' \in [Users -> Cfg!Stages] /\ cfg_pc'[t] = "save" /\ \A u \in Users : u # t => cfg_pc'[u] = cfg_pc[u]
  BY <1>0 DEF Cfg!Stages
<1>2. Cfg!Unlocked
  BY DEF Cfg!Free
<1>3. Cfg!Unlocked' /\ (Cfg!Readable' <=> Cfg!Readable)
  BY <1>1, <1>2 DEF Cfg!Unlocked, Cfg!Readable
<1> QED
  BY <1>1, <1>2, <1>3 DEF CfgParts, CfgStored

LEMMA CfgSave ==
  ASSUME CfgParts, NEW t \in Users, NEW c \in Cfg!Configs, Cfg!Save(t, c)
  PROVE  CfgParts'
<1>0. /\ cfg_cache \in Seq(Cfg!Configs) /\ Len(cfg_cache) <= InfoMax
      /\ ~overwritten => CfgApart(cfg_cache)
      /\ overwritten \in BOOLEAN
  BY DEF CfgParts
<1>1. /\ cfg_cache' = Cfg!ToHead(cfg_cache, c) /\ Cfg!Free(t)
      /\ cfg_ops' = cfg_ops /\ flash' = flash /\ torn' = torn /\ overwritten' = overwritten
  BY DEF Cfg!Save
<1>2. /\ cfg_cache' \in Seq(Cfg!Configs) /\ Len(cfg_cache') <= InfoMax
      /\ ~overwritten => CfgApart(cfg_cache')
  BY <1>0, <1>1, CfgToHead
<1>3. CASE cfg_ops
  <2>1. Cfg!Goto(t, "save") /\ unwritten' = unwritten
    BY <1>3 DEF Cfg!Save
  <2> QED
    BY <1>1, <1>2, <2>1, CfgSaves
<1>4. CASE ~cfg_ops
  <2>1. unwritten' = TRUE /\ cfg_pc' = cfg_pc
    BY <1>4 DEF Cfg!Save
  <2> QED
    BY <1>0, <1>1, <1>2, <2>1, CfgChanges
<1> QED
  BY <1>3, <1>4

\* The package is written: it is the list.
LEMMA CfgWriteInfo ==
  ASSUME CfgParts, NEW t \in Users, Cfg!WriteInfo(t)
  PROVE  CfgParts'
<1>0. /\ cfg_cache \in Seq(Cfg!Configs) /\ Len(cfg_cache) <= InfoMax /\ Len(cfg_cache) \in Nat
      /\ cfg_pc \in [Users -> Cfg!Stages] /\ (~overwritten => CfgApart(cfg_cache))
      /\ ~Cfg!Unlocked => flash.len = Len(cfg_cache)
      /\ flash \in [len : Nat \cup {None}, info : Seq(Cfg!Configs)]
  BY LenProperties DEF CfgParts
<1>1. /\ cfg_pc[t] = "info" /\ flash' = [flash EXCEPT !.info = cfg_cache]
      /\ unwritten' = FALSE /\ torn' = FALSE /\ cfg_pc' = [cfg_pc EXCEPT ![t] = "out"]
      /\ cfg_cache' = cfg_cache /\ cfg_ops' = cfg_ops /\ overwritten' = overwritten
  BY DEF Cfg!WriteInfo, Cfg!Goto
<1>2. flash.len = Len(cfg_cache)
  BY <1>0, <1>1 DEF Cfg!Unlocked
<1>3. /\ flash'.len = Len(cfg_cache) /\ flash'.info = cfg_cache
      /\ flash' \in [len : Nat \cup {None}, info : Seq(Cfg!Configs)]
  BY <1>0, <1>1, <1>2
<1>4. Cfg!Readable' /\ flash'.len # None
  BY <1>0, <1>1, <1>3, CfgSizes DEF Cfg!Readable
<1>5. ~overwritten => Cfg!Merged(<< >>, cfg_cache) = cfg_cache
  BY <1>0, CfgMergedSame
<1>6. cfg_pc' \in [Users -> Cfg!Stages]
  BY <1>0, <1>1 DEF Cfg!Stages
<1>7. ~overwritten => CfgStored(cfg_cache', flash')
  BY <1>0, <1>1, <1>3, <1>4, <1>5 DEF CfgStored
<1> QED
  BY <1>0, <1>1, <1>3, <1>4, <1>6, <1>7 DEF CfgParts

LEMMA CfgReset == ASSUME CfgParts, Cfg!Restart PROVE CfgParts'
<1>1. << >> \in Seq(Cfg!Configs) /\ Len(<< >>) = 0 /\ CfgApart(<< >>)
  BY EmptySeq DEF CfgApart
<1>2. /\ cfg_cache' = << >> /\ cfg_ops' = FALSE /\ cfg_pc' = [t \in Users |-> "out"]
      /\ unwritten' = TRUE /\ torn' = (torn \/ ~Cfg!Unlocked) /\ overwritten' = FALSE
      /\ flash' = flash
  BY DEF Cfg!Restart
<1>3. cfg_pc' \in [Users -> Cfg!Stages] /\ Cfg!Unlocked'
  BY <1>2 DEF Cfg!Stages, Cfg!Unlocked
<1>4. (Cfg!Readable' <=> Cfg!Readable) /\ torn' \in BOOLEAN
  BY <1>2 DEF Cfg!Readable, Cfg!Unlocked, CfgParts
<1>5. cfg_cache' \in Seq(Cfg!Configs) /\ Len(cfg_cache') <= InfoMax /\ CfgApart(cfg_cache')
  BY <1>1, <1>2, CfgSizes
<1>6. flash' \in [len : Nat \cup {None}, info : Seq(Cfg!Configs)]
  BY <1>2 DEF CfgParts
<1>7. ~Cfg!Readable' => flash'.len = None \/ torn'
  BY <1>2, <1>4 DEF CfgParts
<1> QED
  BY <1>2, <1>3, <1>4, <1>5, <1>6, <1>7 DEF CfgParts

LEMMA CfgStep ==
  ASSUME CfgParts, Cfg!Next
  PROVE  CfgParts'
<1>0. /\ cfg_cache \in Seq(Cfg!Configs) /\ Len(cfg_cache) <= InfoMax /\ Len(cfg_cache) \in Nat
      /\ cfg_pc \in [Users -> Cfg!Stages] /\ (~overwritten => CfgApart(cfg_cache))
      /\ overwritten \in BOOLEAN /\ unwritten \in BOOLEAN /\ DOMAIN cfg_cache = 1..Len(cfg_cache)
      /\ flash \in [len : Nat \cup {None}, info : Seq(Cfg!Configs)]
  BY LenProperties DEF CfgParts
<1>1. ASSUME NEW t \in Users, Cfg!SetOps(t) PROVE CfgParts'
  <2>1. Cfg!Unlocked' /\ (Cfg!Readable' <=> Cfg!Readable)
    BY <1>1 DEF Cfg!SetOps, Cfg!Free, Cfg!Unlocked, Cfg!Readable
  <2>2. /\ Cfg!Unlocked /\ cfg_ops' \in BOOLEAN /\ cfg_cache' = cfg_cache /\ flash' = flash
        /\ cfg_pc' = cfg_pc /\ unwritten' = unwritten /\ torn' = torn /\ overwritten' = overwritten
    BY <1>1 DEF Cfg!SetOps, Cfg!Free
  <2> QED
    BY <2>1, <2>2 DEF CfgParts, CfgStored
<1>2. ASSUME NEW t \in Users, Cfg!CacheSave(t) PROVE CfgParts'
  <2>1. /\ Cfg!Free(t) /\ Cfg!Goto(t, "save") /\ cfg_cache' = cfg_cache
        /\ cfg_ops' = cfg_ops /\ flash' = flash /\ unwritten' = unwritten /\ torn' = torn
        /\ overwritten' = overwritten
    BY <1>2 DEF Cfg!CacheSave
  <2> QED
    BY <1>0, <2>1, CfgSaves
<1>3. ASSUME NEW t \in Users, Cfg!WriteLen(t) PROVE CfgParts'
  <2>1. /\ cfg_pc' = [cfg_pc EXCEPT ![t] = "info"] /\ flash' = [flash EXCEPT !.len = Len(cfg_cache)]
        /\ cfg_cache' = cfg_cache /\ cfg_ops' = cfg_ops /\ unwritten' = unwritten /\ torn' = torn
        /\ overwritten' = overwritten
    BY <1>3 DEF Cfg!WriteLen, Cfg!Goto
  <2>2. /\ cfg_pc' \in [Users -> Cfg!Stages] /\ cfg_pc'[t] = "info"
    BY <1>0, <2>1 DEF Cfg!Stages
  <2>3. /\ flash'.len = Len(cfg_cache)
        /\ flash' \in [len : Nat \cup {None}, info : Seq(Cfg!Configs)]
    BY <1>0, <2>1
  <2>4. ~Cfg!Unlocked'
    BY <2>2 DEF Cfg!Unlocked
  <2> QED
    BY <2>1, <2>2, <2>3, <2>4 DEF CfgParts
<1>4. ASSUME NEW t \in Users, Cfg!WriteFails(t) PROVE CfgParts'
  <2>1. /\ cfg_pc' = [cfg_pc EXCEPT ![t] = "out"] /\ flash' = flash /\ Cfg!Unlocked
        /\ cfg_cache' = cfg_cache /\ cfg_ops' = cfg_ops /\ unwritten' = TRUE /\ torn' = torn
        /\ overwritten' = overwritten
    BY <1>4 DEF Cfg!WriteFails, Cfg!Goto
  <2>2. /\ cfg_pc' \in [Users -> Cfg!Stages] /\ Cfg!Unlocked'
    BY <1>0, <2>1 DEF Cfg!Stages, Cfg!Unlocked
  <2>3. Cfg!Readable' <=> Cfg!Readable
    BY <2>1 DEF Cfg!Readable
  <2> QED
    BY <2>1, <2>2, <2>3 DEF CfgParts
<1>5. ASSUME NEW t \in Users, Cfg!DeleteAll(t) PROVE CfgParts'
  <2>1. << >> \in Seq(Cfg!Configs) /\ Len(<< >>) = 0 /\ CfgApart(<< >>)
    BY EmptySeq DEF CfgApart
  <2>2. /\ Cfg!Free(t) /\ cfg_cache' = << >> /\ unwritten' = TRUE /\ overwritten' = FALSE
        /\ cfg_ops' = cfg_ops /\ flash' = flash /\ cfg_pc' = cfg_pc /\ torn' = torn
    BY <1>5 DEF Cfg!DeleteAll
  <2>3. cfg_cache' \in Seq(Cfg!Configs) /\ Len(cfg_cache') <= InfoMax /\ CfgApart(cfg_cache')
    BY <2>1, <2>2, CfgSizes
  <2> QED
    BY <2>2, <2>3, CfgChanges
<1>6. ASSUME NEW t \in Users, NEW i \in 1..InfoMax, Cfg!DeleteIndex(t, i) PROVE CfgParts'
  <2>1. /\ Cfg!Free(t) /\ cfg_cache' = Cfg!Without(cfg_cache, i) /\ unwritten' = TRUE
        /\ overwritten' = overwritten /\ i \in 1..Len(cfg_cache)
        /\ cfg_ops' = cfg_ops /\ flash' = flash /\ cfg_pc' = cfg_pc /\ torn' = torn
    BY <1>0, <1>6 DEF Cfg!DeleteIndex
  <2>2. cfg_cache' \in Seq(Cfg!Configs) /\ Leaves(cfg_cache', cfg_cache, i)
    BY <1>0, <2>1, CfgWithout
  <2>3. Len(cfg_cache') <= InfoMax
    BY <1>0, <2>2, CfgSizes DEF Leaves
  <2>4. ~overwritten' => CfgApart(cfg_cache')
    BY <1>0, <2>1, <2>2, CfgLeaves
  <2> QED
    BY <1>0, <2>1, <2>2, <2>3, <2>4, CfgChanges
<1>7. ASSUME NEW t \in Users, NEW n \in 1..InfoMax, NEW b \in [1..n -> Cfg!Configs], Cfg!ReadOverwrites(t, b)
      PROVE  CfgParts'
  <2>1. /\ Cfg!Free(t) /\ unwritten' = TRUE /\ overwritten' = TRUE
        /\ cfg_cache' = [i \in 1..Len(cfg_cache) |-> IF i \in DOMAIN b THEN b[i] ELSE cfg_cache[i]]
        /\ cfg_ops' = cfg_ops /\ flash' = flash /\ cfg_pc' = cfg_pc /\ torn' = torn
    BY <1>0, <1>7 DEF Cfg!ReadOverwrites
  <2>2. \A i \in 1..Len(cfg_cache) : (IF i \in DOMAIN b THEN b[i] ELSE cfg_cache[i]) \in Cfg!Configs
    BY <1>0, ElementOfSeq
  <2>3. cfg_cache' \in Seq(Cfg!Configs) /\ Len(cfg_cache') = Len(cfg_cache)
    BY <1>0, <2>1, <2>2, IsASeq, LenProperties
  <2> QED
    BY <1>0, <2>1, <2>3, CfgChanges
<1>8. ASSUME NEW t \in Users, NEW n \in 0..InfoMax, Cfg!Refresh(t, n) PROVE CfgParts'
  <2> DEFINE q == SubSeq(flash.info, 1, n)
  <2>1. /\ Cfg!Free(t) /\ overwritten' = overwritten /\ Cfg!Readable
        /\ cfg_cache' = Cfg!Merged(cfg_cache, q) /\ unwritten' = (cfg_cache' # flash.info)
        /\ n \in 0..Len(flash.info)
        /\ cfg_ops' = cfg_ops /\ flash' = flash /\ cfg_pc' = cfg_pc /\ torn' = torn
    BY <1>8 DEF Cfg!Refresh
  <2>2. q \in Seq(Cfg!Configs)
    <3>1. flash.info \in Seq(Cfg!Configs) /\ Len(flash.info) \in Nat
          /\ \A i \in 1..Len(flash.info) : flash.info[i] \in Cfg!Configs
      BY <1>0, LenProperties, ElementOfSeq
    <3>2. \A i \in 1..n : flash.info[i] \in Cfg!Configs
      BY <2>1, <3>1
    <3> QED
      BY <3>2, SubSeqProperties
  <2> HIDE DEF q
  <2>3. /\ cfg_cache' \in Seq(Cfg!Configs) /\ Len(cfg_cache') <= InfoMax
        /\ ~overwritten' => CfgApart(cfg_cache')
    BY <1>0, <2>1, <2>2, CfgMergedKeeps
  <2>4. ~unwritten' /\ ~overwritten' => CfgStored(cfg_cache', flash)
    BY <2>1, <2>3, CfgMergedSame DEF CfgStored, Cfg!Readable
  <2>5. unwritten' \in BOOLEAN
    BY <2>1
  <2> QED
    BY <1>0, <2>1, <2>3, <2>4, <2>5, CfgChanges
<1> QED
  BY <1>1, <1>2, <1>3, <1>4, <1>5, <1>6, <1>7, <1>8, CfgSave, CfgWriteInfo, CfgReset DEF Cfg!Next

LEMMA CfgNext == Cfg!Inv /\ Cfg!Next => Cfg!Inv'
BY CfgInvParts, CfgInvPartsNext, CfgStep

LEMMA CfgStays == Cfg!Inv /\ UNCHANGED cfgVars => Cfg!Inv'
<1>1. CfgParts /\ UNCHANGED cfgVars => CfgParts'
  BY DEF cfgVars, CfgParts, CfgStored, Cfg!Readable, Cfg!Unlocked, CfgApart
<1> QED
  BY <1>1, CfgInvParts, CfgInvPartsNext

-----------------------------------------------------------------------------
(* The objects together: a step is one of the object in use, or leaves it  *)
(* as it is.                                                               *)
LEMMA InitInv == Init => Inv
<1> SUFFICES ASSUME Init PROVE Inv
  OBVIOUS
<1>1. Dq!Inv /\ suspend_thread[Pushers] = << >> /\ suspend_thread[Poppers] = << >>
  <2>1. Dq!IpcInit
    BY DEF Init, Dq!Init
  <2> QED
    BY <2>1, DqInit, DqIpc, DqSizes DEF Init, IpcInit
<1> QED
  BY <1>1, CoInit, PiInit, WqInit, MgInit, RxInit, TxInit, RbInit, RbbInit, CfgInit, ScanInit DEF Init, Inv

LEMMA StepOf ==
  ASSUME [Next]_vars
  PROVE  /\ using' = using
         /\ using = "data queue" => Dq!Next \/ UNCHANGED <<ipcVars, dqVars>>
         /\ using # "data queue" => UNCHANGED dqVars
         /\ using = "completion" => Co!Next \/ UNCHANGED <<ipcVars, coVars>>
         /\ using \notin {"data queue", "completion"} => UNCHANGED ipcVars
         /\ using = "pipe" => Pi!Next \/ UNCHANGED piVars
         /\ using = "work queue" => Wq!Next \/ UNCHANGED wqVars
         /\ using = "ring buffer" => Rb!Next \/ UNCHANGED rbVars
         /\ using # "ring buffer" => UNCHANGED rbVars
         /\ using = "block buffer" => Rbb!Next \/ UNCHANGED rbbVars
         /\ using = "reception" => Rx!Next \/ UNCHANGED rxVars
         /\ using = "transmission" => Tx!Next \/ UNCHANGED txVars
         /\ using = "configurations" => Cfg!Next \/ UNCHANGED cfgVars
         /\ using = "scan results" => Scan!Next \/ UNCHANGED scanVars
         /\ using = "manager" => Mg!Next \/ UNCHANGED mgVars
<1>1. CASE DriverNext /\ UNCHANGED <<using, serialVars, wlanVars>>
  BY <1>1 DEF DriverNext, serialVars, wlanVars
<1>2. CASE SerialNext /\ UNCHANGED <<using, driverVars, wlanVars>>
  BY <1>2 DEF SerialNext, driverVars, wlanVars
<1>3. CASE WlanNext /\ UNCHANGED <<using, driverVars, serialVars>>
  BY <1>3 DEF WlanNext, driverVars, serialVars
<1>4. CASE UNCHANGED vars
  BY <1>4 DEF vars, driverVars, serialVars, wlanVars
<1> QED
  BY <1>1, <1>2, <1>3, <1>4 DEF Next

\* Only those who wait for a completion are linked, and in its list.
LEMMA CoLists ==
  ASSUME Co!Inv, Co!Next, NEW l \in Lists, l # Done, suspend_thread[l] = << >>
  PROVE  suspend_thread'[l] = << >>
<1>0. suspend_thread \in [Lists -> Seq(Threads)] /\ Done \in Lists
  BY CoIpc, DeviceAssumption DEF Co!Inv, IpcInv, IpcTypeOK, Co!CompletionAssumption
<1>1. ASSUME NEW t \in Threads, ThreadTimeout(t)
      PROVE  suspend_thread'[l] = << >>
  <2>1. t \notin Elements(suspend_thread[l])
    BY EmptySeq DEF Elements
  <2> QED
    BY <1>1, <2>1 DEF ThreadTimeout, Unlink
<1>2. ASSUME NEW q, suspend_thread' = [suspend_thread EXCEPT ![Done] = q]
      PROVE  suspend_thread'[l] = << >>
  BY <1>0, <1>2
<1>3. ASSUME Co!ResumeFirst(Done)
      PROVE  suspend_thread'[l] = << >>
  <2>1. ListResume(Done) \/ UNCHANGED suspend_thread
    BY <1>3, CoIpc DEF Co!ResumeFirst, Co!ipcVars
  <2> QED
    BY <1>2, <2>1 DEF ListResume
<1>4. ASSUME NEW t \in Threads, Co!WaitBlocks(t)
      PROVE  suspend_thread'[l] = << >>
  <2>1. PICK time \in Times \ {"zero"} :
          ListSuspend(Done, t, "FIFO", [u \in Threads |-> 0], time)
    BY <1>4, CoIpc DEF Co!WaitBlocks
  <2> QED
    BY <1>2, <2>1 DEF ListSuspend
<1>5. ASSUME NEW t \in Threads,
             Co!WaitAtOnce(t) \/ Co!WaitReturns(t) \/ Co!DoneReads(t) \/ Co!DoneRegion(t) \/ Co!Timeout(t)
      PROVE  suspend_thread'[l] = << >>
  BY <1>1, <1>3, <1>5, CoIpc
  DEF Co!WaitAtOnce, Co!WaitReturns, Co!DoneReads, Co!DoneRegion, Co!Complete, Co!Timeout, Co!ipcVars
<1>6. ASSUME Co!InterruptDone
      PROVE  suspend_thread'[l] = << >>
  BY <1>3, <1>6 DEF Co!InterruptDone, Co!Complete
<1> QED
  BY <1>4, <1>5, <1>6 DEF Co!Next

LEMMA CoStays == ASSUME Co!Inv, UNCHANGED <<ipcVars, coVars>> PROVE Co!Inv'
<1>1. IpcInv'
  BY CoIpc, UnchangedInv DEF Co!Inv
<1>2. Co!TypeOK'
  BY CoIpc, <1>1 DEF Co!Inv, Co!TypeOK, IpcInv, coVars
<1> QED
  BY <1>1, <1>2, CoIpc DEF Co!Inv, Co!OneWaits, Co!SleepersWait, Co!CompletionKept, Co!Woken, coVars, ipcVars

LEMMA PiStays == ASSUME Pi!Inv, UNCHANGED piVars PROVE Pi!Inv'
BY DEF piVars, Pi!Inv, Pi!TypeOK, Pi!QueuesHoldSleepers, Pi!Asleep, Pi!CallsHaveItOpen, Pi!OneReader,
   Pi!ReaderTold, Pi!Sleeps, Pi!OneOfBothAwake, Pi!HangUpTold

LEMMA WqStays == ASSUME Wq!Inv, UNCHANGED wqVars PROVE Wq!Inv'
BY DEF wqVars, Wq!Inv, Wq!TypeOK, Wq!PendingMeansQueued, Wq!Queued, Wq!NoWorkStranded

LEMMA NextInv == Inv /\ [Next]_vars => Inv'
<1> SUFFICES ASSUME Inv, [Next]_vars PROVE Inv'
  OBVIOUS
<1>1. using \in Uses /\ using' = using
  BY StepOf DEF Inv
<1>2. using = "completion" => Co!Inv'
  BY StepOf, CoNext, CoStays DEF Inv
<1>3. using = "pipe" => Pi!Inv'
  BY StepOf, PiNext, PiStays DEF Inv
<1>4. using = "work queue" => Wq!Inv'
  BY StepOf, WqNext, WqStays DEF Inv
<1>5. using = "manager" => Mg!Inv'
  BY StepOf, MgNext DEF Inv
<1>6. using = "reception" => Rx!Inv'
  BY StepOf, RxNext, RxStays DEF Inv
<1>7. using = "transmission" => Tx!Inv'
  BY StepOf, TxNext, TxStays DEF Inv
<1>8. using = "ring buffer" => Rb!Inv'
  BY StepOf, RbNext, RbStays DEF Inv
<1>9. using = "data queue" => Dq!Inv'
  BY StepOf, DqNext, DqRests DEF Inv
<1>10. using = "block buffer" => Rbb!Inv'
  BY StepOf, RbbNext, RbbStays DEF Inv
<1>11. using = "configurations" => Cfg!Inv'
  BY StepOf, CfgNext, CfgStays DEF Inv
<1>12. using = "scan results" => Scan!Inv'
  BY StepOf, ScanNext, ScanStays DEF Inv
<1>13. ASSUME using # "data queue"
       PROVE  suspend_thread'[Pushers] = << >> /\ suspend_thread'[Poppers] = << >>
  <2>1. /\ suspend_thread[Pushers] = << >> /\ suspend_thread[Poppers] = << >>
        /\ Pushers \in Lists /\ Poppers \in Lists /\ Pushers # Done /\ Poppers # Done
    BY <1>13, DqSizes, DeviceAssumption DEF Inv
  <2>2. CASE using = "completion" /\ Co!Next
    BY <2>1, <2>2, CoLists DEF Inv
  <2>3. CASE UNCHANGED ipcVars
    BY <2>1, <2>3 DEF ipcVars
  <2> QED
    BY <1>13, <2>2, <2>3, StepOf
<1> QED
  BY <1>1, <1>2, <1>3, <1>4, <1>5, <1>6, <1>7, <1>8, <1>9, <1>10, <1>11, <1>12, <1>13 DEF Inv

\* The inductive invariant holds in every state.
THEOREM DeviceInv == Spec => []Inv
BY InitInv, NextInv, PTL DEF Spec

\* Type correctness, of the waiting lists and timers as well.
THEOREM TypesKept == Spec => []TypeOK
<1>1. Inv => TypeOK
  <2> SUFFICES ASSUME Inv PROVE TypeOK
    OBVIOUS
  <2>1. using \in {"data queue", "completion"} => IpcInv
    BY CoIpc, DqIpc DEF Inv, Dq!Inv, Co!Inv, Dq!IpcInv, Co!IpcInv, IpcInv
  <2>2. /\ using = "data queue" => Dq!TypeOK
        /\ using = "completion" => Co!TypeOK
        /\ using = "pipe" => Pi!TypeOK
        /\ using = "work queue" => Wq!TypeOK
        /\ using = "ring buffer" => Rb!TypeOK
        /\ using = "block buffer" => Rbb!TypeOK
        /\ using = "reception" => Rx!TypeOK
        /\ using = "transmission" => Tx!TypeOK
        /\ using = "configurations" => Cfg!TypeOK
        /\ using = "scan results" => Scan!TypeOK
        /\ using = "manager" => Mg!TypeOK
    BY DEF Inv, Dq!Inv, Co!Inv, Pi!Inv, Wq!Inv, Rb!Inv, Rbb!Inv, Rx!Inv, Tx!Inv, Cfg!Inv, Scan!Inv, Mg!Inv
  <2> QED
    BY <2>1, <2>2 DEF Inv, TypeOK
<1> QED
  BY <1>1, DeviceInv, PTL

(* Data queues: items are popped once each and in the order pushed, none   *)
(* is lost before put_index wraps, and nobody sleeps beside what it waits  *)
(* for.  Ring buffers: the bytes come out as they were put in.             *)
THEOREM BuffersKept == Spec => BuffersKeepData
<1>1. Init => Dq!Abstract!Init /\ Rb!Faithful
  BY DqInit, DqSizes, RbInit DEF Init, Dq!Abstract!Init
<1>2. Inv => Dq!NoneStranded
  <2>1. CASE using = "data queue"
    BY <2>1 DEF Inv, Dq!Inv
  <2>2. CASE using # "data queue"
    BY <2>2 DEF Inv, Dq!NoneStranded
  <2> QED
    BY <2>1, <2>2
<1>3. Inv /\ [Next]_vars =>
        [IF overrun' THEN overrun \/ put_index < get_index
         ELSE Dq!Abstract!NextInOrder \/ UNCHANGED <<Dq!queueBar, dq_received>>]_Dq!vars
  <2> SUFFICES ASSUME Inv, [Next]_vars PROVE DqOrder
    BY DEF DqOrder
  <2>1. CASE using = "data queue"
    <3>1. Dq!Next \/ UNCHANGED <<ipcVars, dqVars>>
      BY <2>1, StepOf
    <3>2. DqAll
      BY <2>1, DqParts DEF Inv
    <3> QED
      BY <3>1, <3>2, DqImplements, DqStays
  <2>2. CASE using # "data queue"
    BY <2>2, StepOf, DqStays
  <2> QED
    BY <2>1, <2>2
<1>4. Inv /\ [Next]_vars =>
        [Rb!Faithful' \/ /\ rb.read_mirror = rb.write_mirror
                         /\ rb.read_index <= rb.write_index
                         /\ \E s \in Rb!Strings : Len(s) > Rb!Space /\ Rb!PutForce(s)
                         /\ Rb!Contents' = << >>]_Rb!vars
  <2> SUFFICES ASSUME Inv, [Next]_vars, ~UNCHANGED rbVars
               PROVE  \/ Rb!Faithful'
                      \/ /\ rb.read_mirror = rb.write_mirror
                         /\ rb.read_index <= rb.write_index
                         /\ \E s \in Rb!Strings : Len(s) > Rb!Space /\ Rb!PutForce(s)
                         /\ Rb!Contents' = << >>
    BY DEF rbVars, Rb!vars
  <2>1. using = "ring buffer" /\ Rb!Next /\ Rb!Inv
    BY StepOf DEF Inv
  <2> QED
    BY <2>1, RbNext
<1> QED
  BY <1>1, <1>2, <1>3, <1>4, DeviceInv, PTL
  DEF Spec, BuffersKeepData, Dq!ImplementsQueue, Rb!KeepsItsData

(* Serial devices: the newest bytes received are kept in order, and what   *)
(* is written by DMA is transmitted once and in order, but for the known   *)
(* mishaps.                                                                *)
THEOREM SerialDataKept == Spec => []SerialKeepsData
<1>1. Inv => SerialKeepsData
  BY RxKeepsNewest DEF Inv, SerialKeepsData, Tx!Inv
<1> QED
  BY <1>1, DeviceInv, PTL

(* Completions: none is slept through.  Pipes: no wake-up is lost, if the  *)
(* pipe has one reader and somebody to write to it, as the driver has it;  *)
(* with two readers of one pipe it is.                                     *)
THEOREM WakeupsKept == Pi!OneReader => (Spec => []NoWakeupLost)
<1> SUFFICES ASSUME Pi!OneReader PROVE Spec => []NoWakeupLost
  OBVIOUS
<1>1. Inv => NoWakeupLost
  BY PiKeeps DEF Inv, NoWakeupLost, Co!Inv
<1> QED
  BY <1>1, DeviceInv, PTL

(* Work queues: what is refused as pending is queued, whoever waits for a  *)
(* work is told, and the worker sleeps beside no work but one that came    *)
(* between its look at the list and its suspension.                        *)
THEOREM QueuedWorksServed == Spec => []WorksServed
<1>1. Inv => WorksServed
  BY DEF Inv, WorksServed, Wq!Inv
<1> QED
  BY <1>1, DeviceInv, PTL

(* WLAN calls: nobody keeps the mutex when a call is over, and unless      *)
(* memory has run out the call that is inside has it as often as it will   *)
(* release it and its answer comes.                                        *)
THEOREM MutexKept == Spec => []CallsKeepMutex
<1>1. Inv => CallsKeepMutex
  BY MgKeeps DEF Inv, CallsKeepMutex
<1> QED
  BY <1>1, DeviceInv, PTL

(* The WLAN manager: when everything is settled, its state is that of the  *)
(* link, unless one of the known mishaps has made that untrue.             *)
THEOREM StateOfLink == Spec => []StationStateTrue
<1>1. Inv => StationStateTrue
  BY MgKeeps DEF Inv, StationStateTrue
<1> QED
  BY <1>1, DeviceInv, PTL

(* Block buffers: blocks given out lie apart, and every one in use is in   *)
(* the list or in the queue taken off it.                                  *)
THEOREM BlocksKept == Spec => []BlocksApart
<1>1. Inv => BlocksApart
  BY DEF Inv, BlocksApart, Rbb!Inv
<1> QED
  BY <1>1, DeviceInv, PTL

\* WLAN configurations: a restart brings back what was saved.
THEOREM ConfigsKept == Spec => []ConfigsStored
<1>1. Inv => ConfigsStored
  BY DEF Inv, ConfigsStored, Cfg!Inv
<1> QED
  BY <1>1, DeviceInv, PTL

\* WLAN scans: the table is sorted and a search finds the strongest.
THEOREM ScanTableKept == Spec => []ScanTableSound
<1>1. Inv => ScanTableSound
  BY DEF Inv, ScanTableSound, Scan!Inv
<1> QED
  BY <1>1, DeviceInv, PTL
=============================================================================
