------------------------------ MODULE MemPool ------------------------------
(***************************************************************************)
(* Memory pools (mempool.c): free blocks on a stack, a list of waiting     *)
(* threads that new ones join at the head, and a count of the threads in   *)
(* the list that rt_mp_free consults instead of the list.                  *)
(***************************************************************************)
EXTENDS Ipc, FiniteSets

CONSTANTS Pool,        \* the pool, which also names its list
          Blocks,
          MaxWaiters,  \* no call waits with this suspend_thread_count, a bound of the model
          None

MemPoolAssumption ==
  /\ Pool \in Lists
  /\ IsFiniteSet(Blocks) /\ Blocks # {}
  /\ MaxWaiters \in Nat
  /\ None \notin WaitTimes

VARIABLES block_list,            \* the free blocks, the first to be given out first
          block_free_count,
          suspend_thread_count,
          in_use,                \* the blocks callers have
          call,                  \* [Threads -> WaitTimes \cup {None}], the time rt_mp_alloc waits
          expired                \* history: how many waits have timed out

mpVars == <<block_list, block_free_count, suspend_thread_count, in_use, call, expired>>
vars == <<ipcVars, mpVars>>

Waiters == suspend_thread[Pool]
Live == ~fault /\ teardown[Pool] = "live"

\* The blocks in the order of their addresses.
InOrder == CHOOSE q \in [1..Cardinality(Blocks) -> Blocks] : NoRepeat(q)

Init ==
  /\ IpcInit
  /\ block_list = InOrder
  /\ block_free_count = Cardinality(Blocks)
  /\ suspend_thread_count = 0
  /\ in_use = {}
  /\ call = [t \in Threads |-> None]
  /\ expired = 0

\* rt_mp_alloc has been resumed in t and may run on.
Woken(t) == call[t] # None /\ stat[t] = "ready" /\ error[t] = "EOK"

\* Mutant: the block stays on the free list.
Take_StaysFree ==
  /\ block_free_count' = block_free_count - 1
  /\ in_use' = in_use \cup {Head(block_list)}
  /\ UNCHANGED <<block_list, suspend_thread_count, expired>>

Take ==
  /\ block_free_count' = block_free_count - 1
  /\ in_use' = in_use \cup {Head(block_list)}
  /\ block_list' = Tail(block_list)
  /\ UNCHANGED <<suspend_thread_count, expired>>

\* rt_mp_alloc with a free block, by a thread outside it or by an interrupt.
Alloc == Live /\ block_free_count > 0 /\ Take /\ UNCHANGED <<ipcVars, call>>

\* The caller suspends at the head of the list.
Suspend(t, time) ==
  /\ suspend_thread_count < MaxWaiters
  /\ stat' = [stat EXCEPT ![t] = "suspend"]
  /\ error' = [error EXCEPT ![t] = "EOK"]
  /\ thread_timer' = [thread_timer EXCEPT ![t] = (time = "finite")]
  /\ suspend_thread' = [suspend_thread EXCEPT ![Pool] = <<t>> \o @]
  /\ suspend_thread_count' = suspend_thread_count + 1
  /\ call' = [call EXCEPT ![t] = time]
  /\ UNCHANGED <<teardown, fault, block_list, block_free_count, in_use, expired>>

AllocBlocks(t) ==
  /\ Live /\ call[t] = None
  /\ block_free_count = 0
  /\ \E time \in Times \ {"zero"} : Suspend(t, time)

\* A woken caller finds a free block, or none and goes back to sleep or gives up.
AllocWoken(t) ==
  /\ ~fault /\ Woken(t)
  /\ IF block_free_count > 0
     THEN Take /\ call' = [call EXCEPT ![t] = None] /\ UNCHANGED ipcVars
     ELSE \E left \in LeftOf(call[t]) :
            IF left = "zero"
            THEN /\ call' = [call EXCEPT ![t] = None]
                 /\ UNCHANGED <<ipcVars, block_list, block_free_count, suspend_thread_count,
                                in_use, expired>>
            ELSE Suspend(t, left)

AllocReturnsError(t) ==
  /\ ~fault
  /\ call[t] # None /\ stat[t] = "ready" /\ error[t] # "EOK"
  /\ call' = [call EXCEPT ![t] = None]
  /\ UNCHANGED <<ipcVars, block_list, block_free_count, suspend_thread_count, in_use, expired>>

\* Mutant: a waiter is only woken when the pool was empty.
Free_WakesWhenEmpty(b) ==
  /\ Live /\ b \in in_use
  /\ in_use' = in_use \ {b}
  /\ block_list' = <<b>> \o block_list
  /\ block_free_count' = block_free_count + 1
  /\ IF suspend_thread_count = 0 \/ block_free_count > 0
     THEN UNCHANGED <<ipcVars, suspend_thread_count>>
     ELSE /\ suspend_thread_count' = suspend_thread_count - 1
          /\ IF Waiters # << >> THEN ListResume(Pool)
             ELSE fault' = TRUE /\ UNCHANGED <<stat, error, thread_timer, suspend_thread, teardown>>
  /\ UNCHANGED <<call, expired>>

(* rt_mp_free, by a thread or an interrupt.  It takes the list's first     *)
(* entry for a thread whenever the count is not 0; the waiters' error is   *)
(* RT_EOK already.                                                         *)
Free(b) ==
  /\ Live /\ b \in in_use
  /\ in_use' = in_use \ {b}
  /\ block_list' = <<b>> \o block_list
  /\ block_free_count' = block_free_count + 1
  /\ IF suspend_thread_count = 0
     THEN UNCHANGED <<ipcVars, suspend_thread_count>>
     ELSE /\ suspend_thread_count' = suspend_thread_count - 1
          /\ IF Waiters # << >> THEN ListResume(Pool)
             ELSE fault' = TRUE /\ UNCHANGED <<stat, error, thread_timer, suspend_thread, teardown>>
  /\ UNCHANGED <<call, expired>>

(* rt_mp_detach and rt_mp_delete.  A call that was woken and has not run   *)
(* yet would go on with the memory of the pool, so callers delete it only  *)
(* when there is none.                                                     *)
Delete ==
  /\ ~fault
  /\ \A t \in Threads : ~Woken(t)
  /\ BeginTeardown(Pool)
  /\ UNCHANGED mpVars

DeleteTest == TeardownTest(Pool) /\ UNCHANGED mpVars

DeleteResume ==
  /\ TeardownResume(Pool)
  /\ suspend_thread_count' = suspend_thread_count - 1
  /\ UNCHANGED <<block_list, block_free_count, in_use, call, expired>>

\* rt_thread_timeout knows nothing of the count.
Timeout(t) ==
  /\ ThreadTimeout(t)
  /\ expired' = expired + 1
  /\ UNCHANGED <<block_list, block_free_count, suspend_thread_count, in_use, call>>

Next ==
  \/ Alloc
  \/ \E b \in Blocks : Free(b)
  \/ \E t \in Threads : \/ AllocBlocks(t) \/ AllocWoken(t) \/ AllocReturnsError(t)
                        \/ Timeout(t)
  \/ Delete \/ DeleteTest \/ DeleteResume

Spec == Init /\ [][Next]_vars

-----------------------------------------------------------------------------
TypeOK ==
  /\ IpcTypeOK
  /\ block_list \in Seq(Blocks)
  /\ block_free_count \in 0..Cardinality(Blocks)
  /\ suspend_thread_count \in 0..MaxWaiters
  /\ in_use \subseteq Blocks
  /\ call \in [Threads -> WaitTimes \cup {None}]
  /\ expired \in Nat

(* Every block is either free or in the hands of one caller and the count  *)
(* says how many are free, whoever is overtaken, times out or frees from   *)
(* an interrupt.  suspend_thread_count is the length of the list plus the  *)
(* waits that timed out: without timeouts it can be trusted, with them a   *)
(* free may take the list itself for a thread (mempool.c:370-378,          *)
(* :414-435).                                                              *)
PoolAccounts ==
  /\ NoRepeat(block_list)
  /\ Elements(block_list) \cap in_use = {}
  /\ Elements(block_list) \cup in_use = Blocks
  /\ block_free_count = Len(block_list)
  /\ ~fault => suspend_thread_count = Len(Waiters) + expired
  /\ fault => expired > 0

(* Nobody sleeps beside a free block that is not meant for another caller  *)
(* already woken (mempool.c:317-368, :421-435).                            *)
NoneStranded ==
  ~fault /\ Waiters # << >> => block_free_count <= Cardinality({t \in Threads : Woken(t)})

(* rt_mp_free resumes only threads that wait: what it takes from the list  *)
(* is a thread (the assertion of thread.c:712).                            *)
FreesResumeThreads == fault => teardown[Pool] # "live"

-----------------------------------------------------------------------------
(* The inductive invariant behind PoolAccounts and NoneStranded: only      *)
(* calls wait, each without an answer yet, and between the two regions of  *)
(* a teardown only timeouts empty the list.                                *)
CallsWait ==
  /\ \A t \in Threads : call[t] = None => stat[t] = "ready"
  /\ \A t \in Elements(Waiters) : error[t] = "EOK"

EmptiedByTimeouts ==
  ~fault /\ teardown[Pool] = "resume" /\ Waiters = << >> => expired > 0

Inv ==
  /\ TypeOK
  /\ IpcInv
  /\ PoolAccounts
  /\ NoneStranded
  /\ CallsWait
  /\ EmptiedByTimeouts
=============================================================================
