----------------------------- MODULE IpcProofs -----------------------------
(***************************************************************************)
(* Lemmas about the lists of suspended threads, and that every step of Ipc *)
(* preserves IpcInv; and what the modules that prove theorems about an IPC *)
(* object, and extend this one, need to count threads and to compare       *)
(* sequences.                                                              *)
(***************************************************************************)
EXTENDS Ipc, RtListProofs, FiniteSetTheorems

(* There is a position that keeps the order by priority. *)
LEMMA PrioPositionProperties ==
  ASSUME NEW S, NEW q \in Seq(S), NEW prio \in [S -> Nat], NEW t \in S
  PROVE  LET i == PrioPosition(q, t, prio)
         IN  /\ i \in 1..(Len(q) + 1)
             /\ \A j \in 1..(i - 1) : prio[q[j]] <= prio[t]
             /\ i <= Len(q) => prio[t] < prio[q[i]]
<1>0. Len(q) \in Nat /\ \A k \in 1..Len(q) : q[k] \in S
  BY ElementOfSeq, LenProperties
<1> DEFINE Stop == {i \in 1..(Len(q) + 1) : i <= Len(q) => prio[t] < prio[q[i]]}
<1>1. Stop \in SUBSET Nat /\ Len(q) + 1 \in Stop
  BY <1>0
<1>2. PICK i \in Stop : \A j \in Stop : i <= j
  BY <1>1, LeastNatural
<1>3. \A j \in 1..(i - 1) : prio[q[j]] <= prio[t]
  <2>1. TAKE j \in 1..(i - 1)
  <2>2. j \notin Stop /\ j \in 1..Len(q)
    BY <1>0, <1>2
  <2>3. ~(prio[t] < prio[q[j]])
    BY <1>0, <2>2
  <2>4. prio[t] \in Nat /\ prio[q[j]] \in Nat
    BY <1>0, <2>2
  <2> QED
    BY <2>3, <2>4
<1> QED
  BY <1>2, <1>3 DEF PrioPosition

LEMMA EnqueueProperties ==
  ASSUME NEW S, NEW q \in Seq(S), NEW prio \in [S -> Nat], NEW t \in S,
         NEW flag \in {"FIFO", "PRIO"}, NoRepeat(q), t \notin Elements(q)
  PROVE  /\ Enqueue(q, t, flag, prio) \in Seq(S)
         /\ Elements(Enqueue(q, t, flag, prio)) = Elements(q) \cup {t}
         /\ NoRepeat(Enqueue(q, t, flag, prio))
<1>1. CASE flag = "PRIO"
  <2>1. PrioPosition(q, t, prio) \in 1..(Len(q) + 1)
    BY PrioPositionProperties
  <2>2. Enqueue(q, t, flag, prio) = InsertAt(q, PrioPosition(q, t, prio), t)
    BY <1>1 DEF Enqueue
  <2> QED
    BY <2>1, <2>2, InsertAtProperties
<1>2. CASE flag = "FIFO"
  BY <1>2, AppendKeepsNoRepeat DEF Enqueue
<1> QED
  BY <1>1, <1>2

-----------------------------------------------------------------------------
(* The order of a RT_IPC_FLAG_PRIO list survives each list operation. *)
LEMMA EnqueueOrdered ==
  ASSUME NEW S, NEW q \in Seq(S), NEW prio \in [S -> Nat], NEW t \in S,
         OrderedBy(q, prio)
  PROVE  OrderedBy(Enqueue(q, t, "PRIO", prio), prio)
<1> DEFINE i == PrioPosition(q, t, prio)
<1>1. /\ i \in 1..(Len(q) + 1)
      /\ \A j \in 1..(i - 1) : prio[q[j]] <= prio[t]
      /\ i <= Len(q) => prio[t] < prio[q[i]]
  BY PrioPositionProperties
<1>2. Len(q) \in Nat /\ \A k \in 1..Len(q) : q[k] \in S
  BY ElementOfSeq, LenProperties
<1> HIDE DEF i
<1>3. i <= Len(q) => prio[t] <= prio[q[i]]
  BY <1>1, <1>2
<1>4. \A x \in S : prio[x] \in Int
  OBVIOUS
<1>5. OrderedBy(InsertAt(q, i, t), prio)
  BY <1>1, <1>3, <1>4, InsertOrdered
<1> QED
  BY <1>5 DEF Enqueue, i

-----------------------------------------------------------------------------
(* IpcInv is inductive: it holds initially and every step of Ipc keeps it. *)
LEMMA IpcInitInv == IpcInit => IpcInv
<1>1. ASSUME IpcInit PROVE IpcTypeOK
  BY <1>1, EmptySeq DEF IpcInit, IpcTypeOK, Errors, Teardown
<1>2. ASSUME IpcInit PROVE \A l \in Lists : Elements(suspend_thread[l]) = {} /\ NoRepeat(suspend_thread[l])
  BY <1>2, EmptySeq DEF IpcInit, Elements, NoRepeat
<1> QED
  BY <1>1, <1>2 DEF IpcInit, IpcInv, LinkedOnce, SuspendedIffWaiting,
                    ArmedOnlyWhileSuspended, Waiting

LEMMA UnchangedInv == IpcInv /\ UNCHANGED ipcVars => IpcInv'
BY DEF IpcInv, ipcVars, IpcTypeOK, LinkedOnce, SuspendedIffWaiting,
       ArmedOnlyWhileSuspended, Waiting

\* A ready thread suspends on l, wherever in the list it takes its place.
LEMMA SuspendInv ==
  ASSUME IpcInv, NEW l \in Lists, NEW t \in Threads, stat[t] = "ready",
         NEW q \in Seq(Threads), NoRepeat(q), Elements(q) = Elements(suspend_thread[l]) \cup {t},
         NEW armed \in BOOLEAN,
         stat' = [stat EXCEPT ![t] = "suspend"],
         error' = [error EXCEPT ![t] = "EOK"],
         thread_timer' = [thread_timer EXCEPT ![t] = armed],
         suspend_thread' = [suspend_thread EXCEPT ![l] = q],
         UNCHANGED <<teardown, fault>>
  PROVE  IpcInv'
<1>1. \A k \in Lists : t \notin Elements(suspend_thread[k])
  BY DEF IpcInv, SuspendedIffWaiting, Waiting
<1>2. /\ suspend_thread' \in [Lists -> Seq(Threads)]
      /\ suspend_thread'[l] = q
      /\ \A k \in Lists : k # l => suspend_thread'[k] = suspend_thread[k]
  BY DEF IpcInv, IpcTypeOK
<1>3. IpcTypeOK'
  BY <1>2 DEF IpcInv, IpcTypeOK, Errors
<1>4. LinkedOnce'
  BY <1>1, <1>2 DEF IpcInv, LinkedOnce
<1>5. SuspendedIffWaiting'
  BY <1>2 DEF IpcInv, IpcTypeOK, SuspendedIffWaiting, Waiting
<1>6. ArmedOnlyWhileSuspended'
  BY DEF IpcInv, IpcTypeOK, ArmedOnlyWhileSuspended
<1> QED
  BY <1>3, <1>4, <1>5, <1>6 DEF IpcInv

LEMMA ListSuspendInv ==
  ASSUME IpcInv, NEW l \in Lists, NEW t \in Threads, stat[t] = "ready",
         NEW flag \in {"FIFO", "PRIO"}, NEW prio \in [Threads -> Nat], NEW time,
         ListSuspend(l, t, flag, prio, time)
  PROVE  IpcInv'
<1> DEFINE q == Enqueue(suspend_thread[l], t, flag, prio)
<1>1. /\ suspend_thread[l] \in Seq(Threads)
      /\ NoRepeat(suspend_thread[l])
      /\ t \notin Elements(suspend_thread[l])
  BY DEF IpcInv, IpcTypeOK, LinkedOnce, SuspendedIffWaiting, Waiting
<1>2. /\ q \in Seq(Threads) /\ NoRepeat(q)
      /\ Elements(q) = Elements(suspend_thread[l]) \cup {t}
  BY <1>1, EnqueueProperties
<1>3. /\ stat' = [stat EXCEPT ![t] = "suspend"]
      /\ error' = [error EXCEPT ![t] = "EOK"]
      /\ thread_timer' = [thread_timer EXCEPT ![t] = (time = "finite")]
      /\ suspend_thread' = [suspend_thread EXCEPT ![l] = q]
      /\ UNCHANGED <<teardown, fault>>
  BY DEF ListSuspend
<1>4. (time = "finite") \in BOOLEAN
  OBVIOUS
<1> HIDE DEF q
<1> QED
  BY <1>2, <1>3, <1>4, SuspendInv

(* What resuming the head of a nonempty list does to the lists. *)
LEMMA PopProperties ==
  ASSUME IpcInv, NEW l \in Lists, suspend_thread[l] # << >>,
         suspend_thread' = [suspend_thread EXCEPT ![l] = Tail(@)]
  PROVE  LET t == Head(suspend_thread[l])
         IN  /\ t \in Threads /\ t \in Elements(suspend_thread[l])
             /\ suspend_thread' \in [Lists -> Seq(Threads)]
             /\ LinkedOnce'
             /\ \A k \in Lists :
                  Elements(suspend_thread'[k]) = Elements(suspend_thread[k]) \ {t}
<1> DEFINE t == Head(suspend_thread[l])
<1>1. suspend_thread[l] \in Seq(Threads) /\ NoRepeat(suspend_thread[l])
  BY DEF IpcInv, IpcTypeOK, LinkedOnce
<1>2. /\ t \in Elements(suspend_thread[l]) /\ t \in Threads
      /\ Tail(suspend_thread[l]) \in Seq(Threads)
      /\ Elements(Tail(suspend_thread[l])) = Elements(suspend_thread[l]) \ {t}
      /\ NoRepeat(Tail(suspend_thread[l]))
  BY <1>1, TailProperties
<1>3. /\ suspend_thread'[l] = Tail(suspend_thread[l])
      /\ \A k \in Lists : k # l => suspend_thread'[k] = suspend_thread[k]
      /\ suspend_thread' \in [Lists -> Seq(Threads)]
  BY <1>2 DEF IpcInv, IpcTypeOK
<1>4. \A k \in Lists : k # l => t \notin Elements(suspend_thread[k])
  BY <1>2 DEF IpcInv, LinkedOnce
<1> HIDE DEF t
<1>5. \A k \in Lists : Elements(suspend_thread'[k]) = Elements(suspend_thread[k]) \ {t}
  BY <1>2, <1>3, <1>4
<1>6. LinkedOnce'
  BY <1>2, <1>3, <1>5 DEF IpcInv, LinkedOnce
<1> QED
  BY <1>2, <1>3, <1>5, <1>6 DEF t

LEMMA ListResumeInv ==
  ASSUME IpcInv, NEW l \in Lists, suspend_thread[l] # << >>, ListResume(l)
  PROVE  IpcInv'
<1> DEFINE t == Head(suspend_thread[l])
<1>1. /\ t \in Threads /\ t \in Elements(suspend_thread[l])
      /\ suspend_thread' \in [Lists -> Seq(Threads)] /\ LinkedOnce'
      /\ \A k \in Lists : Elements(suspend_thread'[k]) = Elements(suspend_thread[k]) \ {t}
  BY PopProperties DEF ListResume
<1>2. /\ stat' = [stat EXCEPT ![t] = "ready"]
      /\ thread_timer' = [thread_timer EXCEPT ![t] = FALSE]
      /\ UNCHANGED <<error, teardown, fault>>
  BY DEF ListResume
<1> HIDE DEF t
<1> QED
  BY <1>1, <1>2 DEF IpcInv, IpcTypeOK, SuspendedIffWaiting, ArmedOnlyWhileSuspended, Waiting

\* Any set of waiting threads is made ready and leaves the lists.
LEMMA ResumeSetInv ==
  ASSUME IpcInv, NEW woken, NEW left \in [Lists -> Seq(Threads)],
         \A l \in Lists : /\ NoRepeat(left[l])
                          /\ Elements(left[l]) = Elements(suspend_thread[l]) \ woken,
         stat' = [t \in Threads |-> IF t \in woken THEN "ready" ELSE stat[t]],
         error' \in [Threads -> Errors],
         thread_timer' = [t \in Threads |-> t \notin woken /\ thread_timer[t]],
         suspend_thread' = left,
         UNCHANGED <<teardown, fault>>
  PROVE  IpcInv'
<1>1. IpcTypeOK'
  <2>1. stat' \in [Threads -> {"ready", "suspend"}] /\ thread_timer' \in [Threads -> BOOLEAN]
    BY DEF IpcInv, IpcTypeOK
  <2> QED
    BY <2>1 DEF IpcInv, IpcTypeOK
<1>2. LinkedOnce'
  BY DEF IpcInv, LinkedOnce
<1>3. SuspendedIffWaiting'
  BY DEF IpcInv, SuspendedIffWaiting, Waiting
<1>4. ArmedOnlyWhileSuspended'
  BY DEF IpcInv, ArmedOnlyWhileSuspended
<1> QED
  BY <1>1, <1>2, <1>3, <1>4 DEF IpcInv

LEMMA ListResumeAllInv ==
  ASSUME IpcInv, NEW l \in Lists, ListResumeAll(l)
  PROVE  IpcInv'
<1> DEFINE woken == Elements(suspend_thread[l])
           left == [suspend_thread EXCEPT ![l] = << >>]
<1>1. /\ left \in [Lists -> Seq(Threads)]
      /\ \A k \in Lists : left[k] = IF k = l THEN << >> ELSE suspend_thread[k]
  BY EmptySeq DEF IpcInv, IpcTypeOK
<1>2. Elements(<< >>) = {} /\ NoRepeat(<< >>)
  BY EmptySeq DEF Elements, NoRepeat
<1>3. \A k \in Lists : /\ NoRepeat(left[k])
                        /\ Elements(left[k]) = Elements(suspend_thread[k]) \ woken
  BY <1>1, <1>2 DEF IpcInv, LinkedOnce
<1>4. /\ stat' = [t \in Threads |-> IF t \in woken THEN "ready" ELSE stat[t]]
      /\ error' = [t \in Threads |-> IF t \in woken THEN "ERROR" ELSE error[t]]
      /\ thread_timer' = [t \in Threads |-> t \notin woken /\ thread_timer[t]]
      /\ suspend_thread' = left
      /\ UNCHANGED <<teardown, fault>>
  BY DEF ListResumeAll
<1>5. error' \in [Threads -> Errors]
  BY <1>4 DEF IpcInv, IpcTypeOK, Errors
<1> HIDE DEF left, woken
<1> QED
  BY <1>1, <1>3, <1>4, <1>5, ResumeSetInv

LEMMA ThreadTimeoutInv ==
  ASSUME IpcInv, NEW t \in Threads, ThreadTimeout(t)
  PROVE  IpcInv'
<1>1. \A l \in Lists : /\ suspend_thread'[l] \in Seq(Threads)
                       /\ Elements(suspend_thread'[l]) = Elements(suspend_thread[l]) \ {t}
                       /\ NoRepeat(suspend_thread'[l])
  BY UnlinkProperties DEF ThreadTimeout, IpcInv, IpcTypeOK, LinkedOnce
<1>2. suspend_thread' \in [Lists -> Seq(Threads)]
  BY <1>1 DEF ThreadTimeout
<1>3. /\ stat' = [stat EXCEPT ![t] = "ready"]
      /\ error' = [error EXCEPT ![t] = "ETIMEOUT"]
      /\ thread_timer' = [thread_timer EXCEPT ![t] = FALSE]
      /\ UNCHANGED <<teardown, fault>>
  BY DEF ThreadTimeout
<1>4. IpcTypeOK'
  BY <1>2, <1>3 DEF IpcInv, IpcTypeOK, Errors
<1>5. LinkedOnce'
  BY <1>1 DEF IpcInv, LinkedOnce
<1>6. SuspendedIffWaiting'
  BY <1>1, <1>3 DEF IpcInv, IpcTypeOK, SuspendedIffWaiting, Waiting
<1>7. ArmedOnlyWhileSuspended'
  BY <1>3 DEF IpcInv, IpcTypeOK, ArmedOnlyWhileSuspended
<1> QED
  BY <1>4, <1>5, <1>6, <1>7 DEF IpcInv

LEMMA TeardownInv ==
  ASSUME IpcInv, NEW l \in Lists, BeginTeardown(l) \/ TeardownStep(l)
  PROVE  IpcInv'
<1>1. CASE BeginTeardown(l) \/ TeardownTest(l)
  <2>1. UNCHANGED <<stat, error, thread_timer, suspend_thread, fault>>
    BY <1>1 DEF BeginTeardown, TeardownTest
  <2>2. teardown' \in [Lists -> Teardown]
    BY <1>1 DEF BeginTeardown, TeardownTest, IpcInv, IpcTypeOK, Teardown
  <2>3. IpcTypeOK'
    BY <2>1, <2>2 DEF IpcInv, IpcTypeOK
  <2>4. LinkedOnce' /\ ArmedOnlyWhileSuspended'
    BY <2>1 DEF IpcInv, LinkedOnce, ArmedOnlyWhileSuspended
  <2>5. SuspendedIffWaiting'
    BY <2>1 DEF IpcInv, SuspendedIffWaiting, Waiting
  <2> QED
    BY <2>3, <2>4, <2>5 DEF IpcInv
<1>2. CASE TeardownResume(l) /\ suspend_thread[l] = << >>
  BY <1>2 DEF TeardownResume, IpcInv, IpcTypeOK, Teardown, LinkedOnce,
              SuspendedIffWaiting, ArmedOnlyWhileSuspended, Waiting
<1>3. CASE TeardownResume(l) /\ suspend_thread[l] # << >>
  <2> DEFINE t == Head(suspend_thread[l])
  <2>1. /\ t \in Threads /\ t \in Elements(suspend_thread[l])
        /\ suspend_thread' \in [Lists -> Seq(Threads)] /\ LinkedOnce'
        /\ \A k \in Lists : Elements(suspend_thread'[k]) = Elements(suspend_thread[k]) \ {t}
    BY <1>3, PopProperties DEF TeardownResume
  <2>2. /\ stat' = [stat EXCEPT ![t] = "ready"]
        /\ error' = [error EXCEPT ![t] = "ERROR"]
        /\ thread_timer' = [thread_timer EXCEPT ![t] = FALSE]
        /\ teardown' = [teardown EXCEPT ![l] = "test"]
        /\ fault' = fault
    BY <1>3 DEF TeardownResume
  <2> HIDE DEF t
  <2> QED
    BY <2>1, <2>2 DEF IpcInv, IpcTypeOK, Errors, Teardown, SuspendedIffWaiting,
                      ArmedOnlyWhileSuspended, Waiting
<1> QED
  BY <1>1, <1>2, <1>3 DEF TeardownStep

-----------------------------------------------------------------------------
(* Counting, in a finite set U.                                            *)

LEMMA FiniteCounts ==
  ASSUME NEW U, IsFiniteSet(U), NEW S \in SUBSET U
  PROVE  IsFiniteSet(S) /\ Cardinality(S) \in Nat
BY FS_Subset, FS_CardinalityType

LEMMA FiniteGrows ==
  ASSUME NEW U, IsFiniteSet(U), NEW S \in SUBSET U, NEW T \in SUBSET U, S \subseteq T
  PROVE  Cardinality(S) <= Cardinality(T)
BY FiniteCounts, FS_Subset

LEMMA FinitePlusOne ==
  ASSUME NEW U, IsFiniteSet(U), NEW S \in SUBSET U, NEW T \in SUBSET U,
         NEW t \in T, t \notin S, S \subseteq T
  PROVE  Cardinality(S) + 1 <= Cardinality(T)
<1>1. S \cup {t} \in SUBSET U /\ S \cup {t} \subseteq T
  OBVIOUS
<1>2. Cardinality(S \cup {t}) = Cardinality(S) + 1
  BY FiniteCounts, FS_AddElement
<1>3. Cardinality(S \cup {t}) <= Cardinality(T)
  BY <1>1, FiniteGrows
<1> QED
  BY <1>2, <1>3

LEMMA FiniteMinusOne ==
  ASSUME NEW U, IsFiniteSet(U), NEW S \in SUBSET U, NEW T \in SUBSET U, NEW t,
         S \ {t} \subseteq T
  PROVE  Cardinality(S) - 1 <= Cardinality(T)
<1>1. S \ {t} \in SUBSET U
  OBVIOUS
<1>2. Cardinality(S \ {t}) <= Cardinality(T)
  BY <1>1, FiniteGrows
<1>3. Cardinality(S \ {t}) = IF t \in S THEN Cardinality(S) - 1 ELSE Cardinality(S)
  BY FiniteCounts, FS_RemoveElement
<1>4. Cardinality(S) \in Int /\ Cardinality(T) \in Int
  BY FiniteCounts
<1> QED
  BY <1>2, <1>3, <1>4

-----------------------------------------------------------------------------
(* Sequences that are given by their elements.                             *)

\* q has the length n,
OfLength(q, n) == q = [i \in 1..n |-> q[i]]

\* and r goes on as q does, with m more at the end or at the beginning.
Extends(r, q, n, m) ==
  OfLength(q, n) /\ OfLength(r, n + 1) /\ r[n + 1] = m /\ \A i \in 1..n : r[i] = q[i]

Precedes(r, q, n, m) ==
  OfLength(q, n) /\ OfLength(r, n + 1) /\ r[1] = m /\ \A i \in 1..n : r[i + 1] = q[i]

LEMMA SeqExtended ==
  ASSUME NEW n \in Nat, NEW q, NEW r, NEW m, Extends(r, q, n, m)
  PROVE  Len(q) = n /\ r = Append(q, m)
<1>0. OfLength(q, n) /\ OfLength(r, n + 1) /\ r[n + 1] = m /\ \A i \in 1..n : r[i] = q[i]
  BY DEF Extends
<1> DEFINE S == {q[i] : i \in 1..n} \cup {m}
<1>1. q \in [1..n -> S] /\ r \in [1..(n + 1) -> S]
  <2>1. \A i \in 1..(n + 1) : i \in 1..n \/ i = n + 1
    OBVIOUS
  <2> QED
    BY <1>0, <2>1 DEF OfLength
<1>2. m \in S
  OBVIOUS
<1> HIDE DEF S
<1>3. q \in Seq(S) /\ r \in Seq(S) /\ Len(q) = n /\ Len(r) = n + 1
  <2>1. n + 1 \in Nat
    OBVIOUS
  <2> QED
    BY <1>1, <2>1, LenProperties, SeqDef
<1>4. /\ Append(q, m) \in Seq(S) /\ Len(Append(q, m)) = n + 1
      /\ \A i \in 1..n : Append(q, m)[i] = q[i]
      /\ Append(q, m)[n + 1] = m
  BY <1>2, <1>3, AppendProperties
<1>5. \A i \in 1..(n + 1) : r[i] = Append(q, m)[i]
  <2>1. \A i \in 1..(n + 1) : i \in 1..n \/ i = n + 1
    OBVIOUS
  <2> QED
    BY <1>0, <1>4, <2>1
<1> QED
  BY <1>3, <1>4, <1>5, SeqEqual

\* A sequence without its first element.
LEMMA SeqShortened ==
  ASSUME NEW n \in Nat \ {0}, NEW q, NEW r,
         OfLength(q, n), OfLength(r, n - 1),
         \A i \in 1..(n - 1) : r[i] = q[i + 1]
  PROVE  q # << >> /\ Head(q) = q[1] /\ r = Tail(q)
<1> DEFINE S == {q[i] : i \in 1..n}
<1>1. q \in [1..n -> S] /\ r \in [1..(n - 1) -> S]
  <2>1. \A i \in 1..(n - 1) : i + 1 \in 1..n
    OBVIOUS
  <2> QED
    BY <2>1 DEF OfLength
<1> HIDE DEF S
<1>2. q \in Seq(S) /\ r \in Seq(S) /\ Len(q) = n /\ Len(r) = n - 1
  <2>1. n - 1 \in Nat
    OBVIOUS
  <2> QED
    BY <1>1, <2>1, LenProperties, SeqDef
<1>3. q # << >> /\ Len(<< >>) = 0
  BY <1>2, EmptySeq
<1>4. /\ Head(q) = q[1] /\ Tail(q) \in Seq(S) /\ Len(Tail(q)) = n - 1
      /\ \A i \in 1..(n - 1) : Tail(q)[i] = q[i + 1]
  BY <1>2, <1>3, HeadTailProperties
<1>5. \A i \in 1..(n - 1) : r[i] = Tail(q)[i]
  BY <1>4
<1>6. r = Tail(q)
  BY <1>2, <1>4, <1>5, SeqEqual
<1> QED
  BY <1>3, <1>4, <1>6

\* A sequence that q follows after one element.
LEMMA SeqPreceded ==
  ASSUME NEW n \in Nat, NEW q, NEW r, NEW m, Precedes(r, q, n, m)
  PROVE  r = <<m>> \o q
<1>0. OfLength(q, n) /\ OfLength(r, n + 1) /\ r[1] = m /\ \A i \in 1..n : r[i + 1] = q[i]
  BY DEF Precedes
<1> DEFINE S == {q[i] : i \in 1..n} \cup {m}
<1>1. q \in [1..n -> S] /\ r \in [1..(n + 1) -> S]
  <2>1. \A i \in 1..(n + 1) : i = 1 \/ (i - 1 \in 1..n /\ (i - 1) + 1 = i)
    OBVIOUS
  <2>2. ASSUME NEW i \in 1..(n + 1) PROVE r[i] \in S
    <3>1. CASE i = 1
      BY <1>0, <3>1
    <3>2. CASE i - 1 \in 1..n /\ (i - 1) + 1 = i
      <4>1. r[i] = q[i - 1]
        BY <1>0, <3>2
      <4> QED
        BY <3>2, <4>1
    <3> QED
      BY <2>1, <3>1, <3>2
  <2> QED
    BY <1>0, <2>2 DEF OfLength
<1>2. m \in S
  OBVIOUS
<1> HIDE DEF S
<1>3. q \in Seq(S) /\ r \in Seq(S) /\ Len(q) = n /\ Len(r) = n + 1
  <2>1. n + 1 \in Nat
    OBVIOUS
  <2> QED
    BY <1>1, <2>1, LenProperties, SeqDef
<1> DEFINE p == <<m>> \o q
<1>4. p \in Seq(S) /\ Len(p) = n + 1 /\ p[1] = m /\ \A i \in 2..(n + 1) : p[i] = q[i - 1]
  <2>1. <<m>> \in Seq(S) /\ Len(<<m>>) = 1 /\ <<m>>[1] = m
    BY <1>2
  <2> QED
    BY <1>3, <2>1, ConcatProperties
<1>5. \A i \in 1..(n + 1) : r[i] = p[i]
  <2>1. TAKE i \in 1..(n + 1)
  <2>2. CASE i = 1
    BY <1>0, <1>4, <2>2
  <2>3. CASE i # 1
    <3>1. i - 1 \in 1..n /\ (i - 1) + 1 = i /\ i \in 2..(n + 1)
      BY <2>3
    <3> QED
      BY <1>0, <1>4, <3>1
  <2> QED
    BY <2>2, <2>3
<1> HIDE DEF p
<1> QED
  BY <1>3, <1>4, <1>5, SeqEqual DEF p
=============================================================================
