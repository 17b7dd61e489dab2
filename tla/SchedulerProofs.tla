-------------------------- MODULE SchedulerProofs --------------------------
(***************************************************************************)
(* Proofs about Scheduler, for any threads, priorities, time slices and    *)
(* applications, with interrupts and other threads between the regions of  *)
(* every call.  The types and the lock hold whatever happens; the rest is  *)
(* proved of all states reached before a call is overtaken (Overtakes).    *)
(***************************************************************************)
EXTENDS Scheduler, RtListProofs

AsRecord(s) ==
  [stat |-> s.stat, prio |-> s.prio, table |-> s.table, group |-> s.group,
   current |-> s.current, lock_nest |-> s.lock_nest, waiting |-> s.waiting,
   defunct |-> s.defunct, broken |-> s.broken]

LEMMA KStateFields == \A s \in KState : s = AsRecord(s)
BY DEF KState, AsRecord

LEMMA PriosAreNaturals == Prios \subseteq Nat /\ \A t \in Threads : InitPrio[t] \in Prios
BY SchedulerAssumption DEF Prios

LEMMA QueueThreads ==
  ASSUME NEW s, Consistent(s)
  PROVE  /\ \A p \in Prios : s.table[p] \in Seq(Threads) /\ Elements(s.table[p]) \subseteq Threads
         /\ s.defunct \in Seq(Threads) /\ Elements(s.defunct) \subseteq Threads
BY ElementOfSeq, LenProperties DEF Consistent, KState, Elements

(* The list of t alone changes when its node is removed. *)
LEMMA UnlinkedProperties ==
  ASSUME NEW s, Consistent(s), NEW t \in Threads, NEW u, u = Unlinked(s, t)
  PROVE  /\ u \in KState
         /\ u.stat = s.stat /\ u.prio = s.prio /\ u.group = s.group
         /\ u.current = s.current /\ u.lock_nest = s.lock_nest /\ u.broken = s.broken
         /\ u.waiting = s.waiting \ {t}
         /\ Elements(u.defunct) = Elements(s.defunct) \ {t} /\ NoRepeat(u.defunct)
         /\ \A p \in Prios : /\ Elements(u.table[p]) = Elements(s.table[p]) \ {t}
                             /\ NoRepeat(u.table[p])
                             /\ t \notin Elements(s.table[p]) => u.table[p] = s.table[p]
         /\ ~Linked(u, t)
<1>1. s \in KState
  BY DEF Consistent
<1>2. \A p \in Prios : /\ Unlink(s.table[p], t) \in Seq(Threads)
                       /\ Elements(Unlink(s.table[p], t)) = Elements(s.table[p]) \ {t}
                       /\ NoRepeat(Unlink(s.table[p], t))
  BY <1>1, UnlinkProperties DEF Consistent, KState
<1>3. /\ Unlink(s.defunct, t) \in Seq(Threads)
      /\ Elements(Unlink(s.defunct, t)) = Elements(s.defunct) \ {t}
      /\ NoRepeat(Unlink(s.defunct, t))
  BY <1>1, UnlinkProperties DEF Consistent, KState
<1>4. /\ u = [s EXCEPT !.table = [p \in Prios |-> Unlink(s.table[p], t)],
                       !.waiting = @ \ {t},
                       !.defunct = Unlink(@, t)]
  BY DEF Unlinked
<1>5. /\ u.table = [p \in Prios |-> Unlink(s.table[p], t)]
      /\ u.waiting = s.waiting \ {t} /\ u.defunct = Unlink(s.defunct, t)
      /\ u.stat = s.stat /\ u.prio = s.prio /\ u.group = s.group
      /\ u.current = s.current /\ u.lock_nest = s.lock_nest /\ u.broken = s.broken
  BY <1>1, <1>4 DEF KState
<1>6. u \in KState
  <2>0. s = AsRecord(s)
    BY <1>1, KStateFields
  <2>1. u = AsRecord(u)
    BY <1>1, <1>4, <2>0 DEF AsRecord
  <2> QED
    BY <1>1, <1>2, <1>3, <1>5, <2>1 DEF KState, AsRecord
<1>7. \A p \in Prios : t \notin Elements(s.table[p]) => u.table[p] = s.table[p]
  BY <1>5 DEF Unlink
<1>8. ~Linked(u, t)
  BY <1>2, <1>3, <1>5 DEF Linked, InTable, InDefunct
<1> QED
  BY <1>2, <1>3, <1>5, <1>6, <1>7, <1>8

(* A thread that is not ready leaves the table and its bitmap alone. *)
LEMMA UnlinkedConsistent ==
  ASSUME NEW s, Consistent(s), NEW t \in Threads, s.stat[t] # "ready", NEW u, u = Unlinked(s, t)
  PROVE  Consistent(u) /\ u.table = s.table /\ ~Linked(u, t)
<1>1. \A p \in Prios : t \notin Elements(s.table[p])
  BY DEF Consistent
<1>2. /\ u \in KState
      /\ u.stat = s.stat /\ u.prio = s.prio /\ u.group = s.group
      /\ u.waiting = s.waiting \ {t}
      /\ Elements(u.defunct) = Elements(s.defunct) \ {t} /\ NoRepeat(u.defunct)
      /\ \A p \in Prios : u.table[p] = s.table[p]
      /\ ~Linked(u, t)
  BY <1>1, UnlinkedProperties
<1>3. u.table = s.table
  BY <1>2 DEF Consistent, KState
<1> QED
  BY <1>2, <1>3 DEF Consistent

(* rt_schedule_remove_thread clears the bit when the queue gets empty. *)
LEMMA RemoveConsistent ==
  ASSUME NEW s, Consistent(s), NEW t \in Threads, NEW r, r = Remove(s, t)
  PROVE  /\ Consistent(r) /\ ~Linked(r, t)
         /\ r.stat = s.stat /\ r.prio = s.prio /\ r.current = s.current
         /\ r.lock_nest = s.lock_nest /\ r.broken = s.broken
         /\ r.waiting = s.waiting \ {t}
         /\ Elements(r.defunct) = Elements(s.defunct) \ {t}
         /\ \A p \in Prios : Elements(r.table[p]) = Elements(s.table[p]) \ {t}
<1> DEFINE u == Unlinked(s, t)
<1>1. /\ u \in KState
      /\ u.stat = s.stat /\ u.prio = s.prio /\ u.group = s.group
      /\ u.current = s.current /\ u.lock_nest = s.lock_nest /\ u.broken = s.broken
      /\ u.waiting = s.waiting \ {t}
      /\ Elements(u.defunct) = Elements(s.defunct) \ {t} /\ NoRepeat(u.defunct)
      /\ \A p \in Prios : /\ Elements(u.table[p]) = Elements(s.table[p]) \ {t}
                          /\ NoRepeat(u.table[p])
                          /\ t \notin Elements(s.table[p]) => u.table[p] = s.table[p]
      /\ ~Linked(u, t)
  BY UnlinkedProperties
<1>2. r = [u EXCEPT !.group = IF u.table[s.prio[t]] = << >> THEN @ \ {s.prio[t]} ELSE @]
  BY DEF Remove
<1> HIDE DEF u
<1>3. /\ r.stat = s.stat /\ r.prio = s.prio /\ r.current = s.current
      /\ r.lock_nest = s.lock_nest /\ r.broken = s.broken
      /\ r.waiting = u.waiting /\ r.defunct = u.defunct /\ r.table = u.table
      /\ r.group = IF u.table[s.prio[t]] = << >> THEN s.group \ {s.prio[t]} ELSE s.group
  BY <1>1, <1>2 DEF KState
<1>4. r \in KState
  <2>0. u = AsRecord(u)
    BY <1>1, KStateFields
  <2>1. r = AsRecord(r)
    BY <1>1, <1>2, <2>0 DEF AsRecord
  <2> QED
    BY <1>1, <1>3, <2>1 DEF KState, AsRecord
<1>5. r.group = {p \in Prios : r.table[p] # << >>}
  <2>1. \A p \in Prios : p # s.prio[t] => u.table[p] = s.table[p]
    BY <1>1 DEF Consistent
  <2>2. s.prio[t] \in Prios /\ s.group = {p \in Prios : s.table[p] # << >>}
    BY DEF Consistent, KState
  <2>3. u.table[s.prio[t]] # << >> => s.table[s.prio[t]] # << >>
    <3>1. s.table[s.prio[t]] = << >> => t \notin Elements(s.table[s.prio[t]])
      BY EmptySeq DEF Elements
    <3> QED
      BY <1>1, <2>2, <3>1
  <2> QED
    BY <1>3, <2>1, <2>2, <2>3
<1>6. Consistent(r)
  <2>1. \A p \in Prios :
          /\ NoRepeat(r.table[p])
          /\ \A x \in Elements(r.table[p]) : r.prio[x] = p /\ r.stat[x] = "ready"
    BY <1>1, <1>3 DEF Consistent
  <2>2. /\ NoRepeat(r.defunct)
        /\ \A x \in Elements(r.defunct) : r.stat[x] = "close" /\ x \notin Static
        /\ \A x \in r.waiting : r.stat[x] = "suspend"
    BY <1>1, <1>3 DEF Consistent
  <2> QED
    BY <1>4, <1>5, <2>1, <2>2 DEF Consistent
<1>7. ~Linked(r, t)
  BY <1>1, <1>3 DEF Linked, InTable, InDefunct
<1> QED
  BY <1>1, <1>3, <1>6, <1>7

Updated(f, x, v) == [f EXCEPT ![x] = v]
WithStat(s, t, x) == [s EXCEPT !.stat[t] = x]
WithPrio(s, t, p) == [s EXCEPT !.prio[t] = p]
WithCurrent(s, t) == [s EXCEPT !.current = t]

(* The stat of a thread in no list, and the priority of one in no queue,   *)
(* may be set.                                                             *)
LEMMA StatConsistent ==
  ASSUME NEW s, Consistent(s), NEW t \in Threads, ~Linked(s, t), NEW x \in Stats,
         NEW r, r = WithStat(s, t, x)
  PROVE  /\ Consistent(r) /\ ~Linked(r, t)
         /\ r.stat = [s.stat EXCEPT ![t] = x] /\ r.prio = s.prio /\ r.current = s.current
         /\ r.lock_nest = s.lock_nest /\ r.broken = s.broken /\ r.table = s.table
         /\ r.group = s.group /\ r.waiting = s.waiting /\ r.defunct = s.defunct
<1>1. s \in KState
  BY DEF Consistent
<1>2. /\ r.stat = [s.stat EXCEPT ![t] = x] /\ r.prio = s.prio /\ r.current = s.current
      /\ r.lock_nest = s.lock_nest /\ r.broken = s.broken /\ r.table = s.table
      /\ r.group = s.group /\ r.waiting = s.waiting /\ r.defunct = s.defunct
  BY <1>1 DEF KState, WithStat
<1>3. r \in KState
  <2>0. s = AsRecord(s)
    BY <1>1, KStateFields
  <2>1. r = AsRecord(r)
    BY <1>1, <1>2, <2>0 DEF AsRecord, WithStat
  <2>2. r.stat \in [Threads -> Stats]
    BY <1>1, <1>2 DEF KState
  <2> QED
    BY <1>1, <1>2, <2>1, <2>2 DEF KState, AsRecord
<1>4. \A u \in Threads : u # t => r.stat[u] = s.stat[u]
  BY <1>1, <1>2 DEF KState
<1>5. \A p \in Prios :
        /\ NoRepeat(r.table[p])
        /\ \A u \in Elements(r.table[p]) : r.prio[u] = p /\ r.stat[u] = "ready"
  BY <1>2, <1>4, QueueThreads DEF Consistent, Linked, InTable
<1>6. /\ NoRepeat(r.defunct)
      /\ \A u \in Elements(r.defunct) : r.stat[u] = "close" /\ u \notin Static
      /\ \A u \in r.waiting : r.stat[u] = "suspend"
  BY <1>1, <1>2, <1>4, QueueThreads DEF Consistent, Linked, InDefunct, KState
<1>7. Consistent(r)
  BY <1>2, <1>3, <1>5, <1>6 DEF Consistent
<1>8. ~Linked(r, t)
  BY <1>2 DEF Linked, InTable, InDefunct
<1> QED
  BY <1>2, <1>7, <1>8

LEMMA PrioConsistent ==
  ASSUME NEW s, Consistent(s), NEW t \in Threads, ~InTable(s, t), NEW p \in Prios,
         NEW r, r = WithPrio(s, t, p)
  PROVE  /\ Consistent(r)
         /\ r.stat = s.stat /\ r.prio = [s.prio EXCEPT ![t] = p] /\ r.current = s.current
         /\ r.lock_nest = s.lock_nest /\ r.broken = s.broken /\ r.table = s.table
         /\ r.group = s.group /\ r.waiting = s.waiting /\ r.defunct = s.defunct
<1>1. s \in KState
  BY DEF Consistent
<1>2. /\ r.stat = s.stat /\ r.prio = [s.prio EXCEPT ![t] = p] /\ r.current = s.current
      /\ r.lock_nest = s.lock_nest /\ r.broken = s.broken /\ r.table = s.table
      /\ r.group = s.group /\ r.waiting = s.waiting /\ r.defunct = s.defunct
  BY <1>1 DEF KState, WithPrio
<1>3. r \in KState
  <2>0. s = AsRecord(s)
    BY <1>1, KStateFields
  <2>1. r = AsRecord(r)
    BY <1>1, <1>2, <2>0 DEF AsRecord, WithPrio
  <2>2. r.prio \in [Threads -> Prios]
    BY <1>1, <1>2 DEF KState
  <2> QED
    BY <1>1, <1>2, <2>1, <2>2 DEF KState, AsRecord
<1>4. \A u \in Threads : u # t => r.prio[u] = s.prio[u]
  BY <1>1, <1>2 DEF KState
<1>5. \A q \in Prios :
        /\ NoRepeat(r.table[q])
        /\ \A u \in Elements(r.table[q]) : r.prio[u] = q /\ r.stat[u] = "ready"
  BY <1>2, <1>4, QueueThreads DEF Consistent, InTable
<1>6. Consistent(r)
  BY <1>2, <1>3, <1>5 DEF Consistent
<1> QED
  BY <1>2, <1>6

LEMMA CurrentConsistent ==
  ASSUME NEW s, Consistent(s), NEW t \in Threads, NEW r, r = WithCurrent(s, t)
  PROVE  /\ Consistent(r)
         /\ r.stat = s.stat /\ r.prio = s.prio /\ r.current = t
         /\ r.lock_nest = s.lock_nest /\ r.broken = s.broken /\ r.table = s.table
         /\ r.group = s.group /\ r.waiting = s.waiting /\ r.defunct = s.defunct
<1>1. s \in KState
  BY DEF Consistent
<1>2. /\ r.stat = s.stat /\ r.prio = s.prio /\ r.current = t
      /\ r.lock_nest = s.lock_nest /\ r.broken = s.broken /\ r.table = s.table
      /\ r.group = s.group /\ r.waiting = s.waiting /\ r.defunct = s.defunct
  BY <1>1 DEF KState, WithCurrent
<1>3. r \in KState
  <2>0. s = AsRecord(s)
    BY <1>1, KStateFields
  <2>1. r = AsRecord(r)
    BY <1>1, <1>2, <2>0 DEF AsRecord, WithCurrent
  <2> QED
    BY <1>1, <1>2, <2>1 DEF KState, AsRecord
<1> QED
  BY <1>2, <1>3 DEF Consistent

(* rt_schedule_insert_thread on a thread in no list: the running thread is *)
(* marked so, another joins its queue.                                     *)
LEMMA InsertConsistent ==
  ASSUME NEW s, Consistent(s), NEW t \in Threads, ~Linked(s, t), NEW r, r = Insert(s, t)
  PROVE  /\ Consistent(r)
         /\ r.stat = [s.stat EXCEPT ![t] = IF t = s.current THEN "running" ELSE "ready"]
         /\ r.prio = s.prio /\ r.current = s.current
         /\ r.lock_nest = s.lock_nest /\ r.broken = s.broken
         /\ r.waiting = s.waiting /\ r.defunct = s.defunct
         /\ \A u \in Threads : InTable(r, u) <=> InTable(s, u) \/ (u = t /\ t # s.current)
<1>1. s \in KState
  BY DEF Consistent
<1>2. CASE t = s.current
  <2>1. r = WithStat(s, t, "running")
    BY <1>2 DEF Insert, WithStat
  <2>2. "running" \in Stats
    BY DEF Stats
  <2>3. /\ Consistent(r)
        /\ r.stat = [s.stat EXCEPT ![t] = "running"] /\ r.prio = s.prio
        /\ r.current = s.current
        /\ r.lock_nest = s.lock_nest /\ r.broken = s.broken /\ r.table = s.table
        /\ r.waiting = s.waiting /\ r.defunct = s.defunct
    BY <2>1, <2>2, StatConsistent
  <2> QED
    BY <1>2, <2>3 DEF InTable
<1>3. CASE t # s.current
  <2> DEFINE q == s.prio[t]
  <2>1. r = [s EXCEPT !.stat[t] = "ready",
                      !.table[s.prio[t]] = Append(@, t),
                      !.group = @ \cup {s.prio[t]},
                      !.broken = @ \/ Linked(s, t)]
    BY <1>3 DEF Insert
  <2>2. q \in Prios /\ s.table[q] \in Seq(Threads) /\ NoRepeat(s.table[q])
        /\ t \notin Elements(s.table[q])
    BY <1>1 DEF KState, Consistent, Linked, InTable
  <2>3. /\ Append(s.table[q], t) \in Seq(Threads) /\ NoRepeat(Append(s.table[q], t))
        /\ Elements(Append(s.table[q], t)) = Elements(s.table[q]) \cup {t}
        /\ Append(s.table[q], t) # << >>
    BY <2>2, AppendKeepsNoRepeat, AppendProperties
  <2>4. /\ r.stat = [s.stat EXCEPT ![t] = "ready"] /\ r.prio = s.prio
        /\ r.current = s.current /\ r.lock_nest = s.lock_nest
        /\ r.waiting = s.waiting /\ r.defunct = s.defunct
        /\ r.table = [s.table EXCEPT ![q] = Append(@, t)]
        /\ r.group = s.group \cup {q}
    BY <1>1, <2>1 DEF KState
  <2>5. r.broken = (s.broken \/ Linked(s, t))
    BY <1>1, <2>1 DEF KState
  <2>6. r.broken = s.broken
    BY <1>1, <2>5 DEF KState
  <2>7. r \in KState
    <3>0. s = AsRecord(s)
      BY <1>1, KStateFields
    <3>1. r = AsRecord(r)
      BY <1>1, <2>1, <3>0 DEF AsRecord
    <3>2. r.stat \in [Threads -> Stats]
      BY <1>1, <2>4 DEF KState, Stats
    <3>3. r.table \in [Prios -> Seq(Threads)]
      BY <1>1, <2>2, <2>3, <2>4 DEF KState
    <3>4. r.group \in SUBSET Prios
      BY <1>1, <2>2, <2>4 DEF KState
    <3> HIDE DEF q
    <3> QED
      BY <1>1, <2>4, <2>6, <3>1, <3>2, <3>3, <3>4 DEF KState, AsRecord
  <2>8. /\ r.table[q] = Append(s.table[q], t)
        /\ \A p \in Prios : p # q => r.table[p] = s.table[p]
    BY <1>1, <2>2, <2>4 DEF KState
  <2>9. \A u \in Threads : u # t => r.stat[u] = s.stat[u]
    BY <1>1, <2>4 DEF KState
  <2>10. r.stat[t] = "ready"
    BY <1>1, <2>4 DEF KState
  <2>11. r.group = {p \in Prios : r.table[p] # << >>}
    <3>1. \A p \in Prios : r.table[p] # << >> <=> s.table[p] # << >> \/ p = q
      <4>1. r.table[q] # << >>
        BY <2>3, <2>8, Zenon
      <4>2. \A p \in Prios : p # q => r.table[p] = s.table[p]
        BY <2>8
      <4> HIDE DEF q
      <4> QED
        BY <4>1, <4>2, Zenon
    <3>2. s.group = {p \in Prios : s.table[p] # << >>}
      BY <1>1 DEF Consistent
    <3>3. r.group = s.group \cup {q} /\ q \in Prios
      BY <2>2, <2>4
    <3> QED
      BY <3>1, <3>2, <3>3
  <2>12. \A p \in Prios :
          /\ NoRepeat(r.table[p])
          /\ \A x \in Elements(r.table[p]) : r.prio[x] = p /\ r.stat[x] = "ready"
    <3>1. ASSUME NEW p \in Prios, p # q
          PROVE  /\ NoRepeat(r.table[p])
                 /\ \A x \in Elements(r.table[p]) : r.prio[x] = p /\ r.stat[x] = "ready"
      BY <2>4, <2>8, <2>9, <2>10, <3>1, QueueThreads DEF Consistent
    <3>2. /\ NoRepeat(r.table[q])
          /\ \A x \in Elements(r.table[q]) : r.prio[x] = q /\ r.stat[x] = "ready"
      <4>1. Elements(r.table[q]) = Elements(s.table[q]) \cup {t} /\ NoRepeat(r.table[q])
        BY <2>3, <2>8, Zenon
      <4>2. \A x \in Elements(s.table[q]) :
              x \in Threads /\ s.prio[x] = q /\ s.stat[x] = "ready" /\ x # t
        BY <1>1, <2>2, QueueThreads DEF Consistent
      <4>3. r.prio = s.prio /\ s.prio[t] = q
        BY <2>4
      <4> QED
        BY <2>9, <2>10, <4>1, <4>2, <4>3
    <3> QED
      BY <3>1, <3>2
  <2>13. /\ NoRepeat(r.defunct)
         /\ \A x \in Elements(r.defunct) : r.stat[x] = "close" /\ x \notin Static
         /\ \A x \in r.waiting : r.stat[x] = "suspend"
    BY <1>1, <2>4, <2>9, QueueThreads DEF Consistent, Linked, InDefunct, KState
  <2>14. Consistent(r)
    BY <2>7, <2>11, <2>12, <2>13 DEF Consistent
  <2>15. \A u \in Threads : InTable(r, u) <=> InTable(s, u) \/ u = t
    BY <2>2, <2>3, <2>8 DEF InTable
  <2> QED
    BY <1>3, <2>4, <2>6, <2>14, <2>15
<1> QED
  BY <1>2, <1>3

-----------------------------------------------------------------------------
(* The highest ready priority, and the first thread that has it. *)
LEMMA HighestReadyProperties ==
  ASSUME NEW s, Consistent(s), s.group # {}
  PROVE  LET hp == HighestReady(s)
             t == Head(s.table[hp])
         IN  /\ hp \in Prios /\ hp \in Nat
             /\ t \in Threads /\ t \in Elements(s.table[hp]) /\ s.prio[t] = hp
             /\ s.stat[t] = "ready"
             /\ \A u \in Threads : InTable(s, u) => hp <= s.prio[u]
<1>1. s.group \subseteq Prios /\ Prios \subseteq Nat
  BY PriosAreNaturals DEF Consistent
<1>2. PICK p \in s.group : \A q \in s.group : p <= q
  BY <1>1, LeastNatural
<1> DEFINE hp == HighestReady(s)
           t == Head(s.table[hp])
<1>3. hp \in s.group /\ \A q \in s.group : hp <= q
  BY <1>2 DEF HighestReady
<1> HIDE DEF hp
<1>4. s.table[hp] \in Seq(Threads) /\ s.table[hp] # << >>
  BY <1>1, <1>3, QueueThreads DEF Consistent
<1>5. t \in Elements(s.table[hp]) /\ t \in Threads
  BY <1>1, <1>3, <1>4, TailProperties DEF Consistent
<1>6. s.prio[t] = hp /\ s.stat[t] = "ready"
  BY <1>1, <1>3, <1>5 DEF Consistent
<1>7. ASSUME NEW u \in Threads, InTable(s, u) PROVE hp <= s.prio[u]
  <2>1. PICK q \in Prios : u \in Elements(s.table[q])
    BY <1>7 DEF InTable
  <2>2. s.prio[u] = q /\ s.table[q] # << >>
    BY <2>1, EmptySeq DEF Consistent, Elements
  <2> QED
    BY <1>3, <2>2 DEF Consistent
<1> QED
  BY <1>1, <1>3, <1>5, <1>6, <1>7 DEF hp

(* What rt_schedule does: the thread that runs next, what becomes of the   *)
(* one that ran, and that nothing else changes.                            *)
Scheduled(s, r) ==
  /\ Consistent(r)
  /\ r.prio = s.prio /\ r.lock_nest = s.lock_nest /\ r.broken = s.broken
  /\ r.waiting = s.waiting /\ Elements(r.defunct) = Elements(s.defunct)
  /\ r.current \in Threads
  /\ \A t \in Threads : r.stat[t] = "running" => t = r.current
  /\ s.stat[s.current] = "running" \/ (s.lock_nest = 0 /\ s.group # {}) =>
       r.stat[r.current] = "running"
  /\ \A t \in Threads :
       r.stat[t] = s.stat[t] \/ {r.stat[t], s.stat[t]} \subseteq {"ready", "running"}
  /\ \A t \in Threads :
       InTable(r, t) <=> /\ InTable(s, t) \/ (t = s.current /\ s.stat[t] = "running")
                         /\ t # r.current
  /\ s.lock_nest # 0 => r.current = s.current
  /\ s.lock_nest = 0 => \A t \in Threads : InTable(r, t) => r.prio[r.current] <= r.prio[t]
  /\ (/\ s.stat[s.current] = "running"
      /\ \A t \in Threads : InTable(s, t) => s.prio[s.current] < s.prio[t])
     => r.current = s.current

LEMMA SwitchTo ==
  ASSUME NEW s, Consistent(s), NEW to \in Threads, s.stat[to] \in {"ready", "running"},
         s.current = to, NEW r, r = WithStat(Remove(s, to), to, "running")
  PROVE  /\ Consistent(r)
         /\ r.stat = [s.stat EXCEPT ![to] = "running"]
         /\ r.prio = s.prio /\ r.current = to
         /\ r.lock_nest = s.lock_nest /\ r.broken = s.broken
         /\ r.waiting = s.waiting /\ Elements(r.defunct) = Elements(s.defunct)
         /\ \A t \in Threads : InTable(r, t) <=> InTable(s, t) /\ t # to
<1>0. PICK m : m = Remove(s, to)
  OBVIOUS
<1>1. /\ Consistent(m) /\ ~Linked(m, to)
      /\ m.stat = s.stat /\ m.prio = s.prio /\ m.current = s.current
      /\ m.lock_nest = s.lock_nest /\ m.broken = s.broken
      /\ m.waiting = s.waiting \ {to}
      /\ Elements(m.defunct) = Elements(s.defunct) \ {to}
      /\ \A p \in Prios : Elements(m.table[p]) = Elements(s.table[p]) \ {to}
  BY <1>0, RemoveConsistent, Z3
<1>2. r = WithStat(m, to, "running") /\ "running" \in Stats
  BY <1>0 DEF Stats
<1>3. /\ Consistent(r)
      /\ r.stat = [m.stat EXCEPT ![to] = "running"] /\ r.prio = m.prio /\ r.current = m.current
      /\ r.lock_nest = m.lock_nest /\ r.broken = m.broken /\ r.table = m.table
      /\ r.waiting = m.waiting /\ r.defunct = m.defunct
  BY <1>1, <1>2, StatConsistent
<1>4. to \notin s.waiting /\ to \notin Elements(s.defunct)
  BY DEF Consistent
<1>5. \A t \in Threads : InTable(r, t) <=> InTable(s, t) /\ t # to
  BY <1>1, <1>3 DEF InTable
<1> QED
  BY <1>1, <1>3, <1>4, <1>5

LEMMA ScheduleProperties ==
  ASSUME NEW s, Consistent(s), s.stat[s.current] # "ready",
         \A t \in Threads : s.stat[t] = "running" => t = s.current,
         NEW r, r = Schedule(s)
  PROVE  Scheduled(s, r)
<1> DEFINE cur == s.current
           hp == HighestReady(s)
           goesOn == s.stat[cur] = "running"
<1>0. /\ s \in KState /\ cur \in Threads /\ s.stat \in [Threads -> Stats]
      /\ s.prio \in [Threads -> Prios] /\ Prios \subseteq Nat /\ s.lock_nest \in Nat
  BY SchedulerAssumption, PriosAreNaturals DEF Consistent, KState
<1>1. \A t \in Threads : InTable(s, t) => s.stat[t] = "ready" /\ t # cur
  BY DEF InTable, Consistent
<1>2. goesOn => ~Linked(s, cur)
  BY <1>0, <1>1 DEF Linked, InDefunct, Consistent
<1>3. CASE s.lock_nest # 0 \/ s.group = {}
  <2>1. r = s
    BY <1>3 DEF Schedule
  <2>2. s.group = {} => \A t \in Threads : ~InTable(s, t)
    BY EmptySeq DEF InTable, Consistent, Elements
  <2> QED
    BY <1>0, <1>1, <1>3, <2>1, <2>2 DEF Scheduled
<1>4. CASE s.lock_nest = 0 /\ s.group # {}
  <2> DEFINE first == Head(s.table[hp])
             to == IF goesOn /\ s.prio[cur] < hp THEN cur ELSE first
             moved == WithCurrent(s, to)
             left == IF to # cur /\ goesOn THEN Insert(moved, cur) ELSE moved
  <2>1. /\ hp \in Nat /\ first \in Threads /\ InTable(s, first) /\ s.prio[first] = hp
        /\ s.stat[first] = "ready"
        /\ \A u \in Threads : InTable(s, u) => hp <= s.prio[u]
    BY <1>4, HighestReadyProperties DEF InTable
  <2>2. r = WithStat(Remove(left, to), to, "running")
    <3>1. s.table[hp] # << >>
      <4>1. first \in Elements(s.table[hp])
        BY <1>4, HighestReadyProperties
      <4> QED
        BY <4>1, EmptySeq DEF Elements
    <3> QED
      BY <1>4, <3>1 DEF Schedule, WithCurrent, WithStat
  <2>3. first # cur /\ to \in Threads /\ s.stat[to] \in {"ready", "running"}
    BY <1>0, <1>1, <2>1
  <2> HIDE DEF hp, first
  <2>4. /\ goesOn /\ s.prio[cur] < hp => to = cur
        /\ ~(goesOn /\ s.prio[cur] < hp) => to = first
    OBVIOUS
  <2> HIDE DEF to
  <2>5. /\ Consistent(moved)
        /\ moved.stat = s.stat /\ moved.prio = s.prio /\ moved.current = to
        /\ moved.lock_nest = s.lock_nest /\ moved.broken = s.broken /\ moved.table = s.table
        /\ moved.waiting = s.waiting /\ moved.defunct = s.defunct
    BY <2>3, CurrentConsistent
  <2>6. /\ Consistent(left)
        /\ left.stat = IF to # cur /\ goesOn THEN [s.stat EXCEPT ![cur] = "ready"] ELSE s.stat
        /\ left.prio = s.prio /\ left.current = to
        /\ left.lock_nest = s.lock_nest /\ left.broken = s.broken
        /\ left.waiting = s.waiting /\ left.defunct = s.defunct
        /\ \A u \in Threads : InTable(left, u) <=> InTable(s, u) \/ (u = cur /\ to # cur /\ goesOn)
    <3>1. CASE to # cur /\ goesOn
      <4>1. left = Insert(moved, cur)
        BY <3>1
      <4>2. ~Linked(moved, cur)
        BY <1>2, <2>5, <3>1 DEF Linked, InTable, InDefunct
      <4> HIDE DEF moved, left
      <4>3. /\ Consistent(left)
            /\ left.stat = [moved.stat EXCEPT ![cur] = IF cur = moved.current THEN "running" ELSE "ready"]
            /\ left.prio = moved.prio /\ left.current = moved.current
            /\ left.lock_nest = moved.lock_nest /\ left.broken = moved.broken
            /\ left.waiting = moved.waiting /\ left.defunct = moved.defunct
            /\ \A u \in Threads : InTable(left, u) <=>
                                  InTable(moved, u) \/ (u = cur /\ cur # moved.current)
        BY <1>0, <2>5, <4>1, <4>2, InsertConsistent
      <4>4. \A u \in Threads : InTable(moved, u) <=> InTable(s, u)
        BY <2>5 DEF InTable
      <4> QED
        BY <2>5, <3>1, <4>3, <4>4
    <3>2. CASE ~(to # cur /\ goesOn)
      <4>1. left = moved
        BY <3>2
      <4> HIDE DEF moved, left
      <4> QED
        BY <2>5, <3>2, <4>1 DEF InTable
    <3> QED
      BY <3>1, <3>2
  <2> HIDE DEF left, moved
  <2>7. left.stat[to] \in {"ready", "running"}
    BY <1>0, <2>3, <2>6
  <2>8. /\ Consistent(r)
        /\ r.stat = [left.stat EXCEPT ![to] = "running"]
        /\ r.prio = s.prio /\ r.current = to
        /\ r.lock_nest = s.lock_nest /\ r.broken = s.broken
        /\ r.waiting = s.waiting /\ Elements(r.defunct) = Elements(s.defunct)
        /\ \A t \in Threads : InTable(r, t) <=> InTable(left, t) /\ t # to
    <3>1. Consistent(left) /\ left.current = to
      BY <2>6
    <3>2. /\ Consistent(r)
          /\ r.stat = [left.stat EXCEPT ![to] = "running"]
          /\ r.prio = left.prio /\ r.current = to
          /\ r.lock_nest = left.lock_nest /\ r.broken = left.broken
          /\ r.waiting = left.waiting /\ Elements(r.defunct) = Elements(left.defunct)
          /\ \A t \in Threads : InTable(r, t) <=> InTable(left, t) /\ t # to
      BY <2>2, <2>3, <2>7, <3>1, SwitchTo, Z3
    <3> QED
      BY <2>6, <3>2
  <2>9. \A t \in Threads : r.stat[t] = IF t = to THEN "running"
                                       ELSE IF t = cur /\ goesOn THEN "ready" ELSE s.stat[t]
    BY <1>0, <2>3, <2>6, <2>8
  <2>10. \A t \in Threads : InTable(r, t) <=> (InTable(s, t) \/ (t = cur /\ goesOn)) /\ t # to
    BY <2>6, <2>8
  <2>11. \A t \in Threads : InTable(r, t) => s.prio[to] <= s.prio[t]
    <3>1. TAKE t \in Threads
    <3>2. HAVE InTable(r, t)
    <3>3. s.prio[t] \in Nat /\ s.prio[to] \in Nat /\ s.prio[cur] \in Nat
      BY <1>0, <2>3
    <3>4. CASE InTable(s, t)
      BY <2>1, <2>4, <3>3, <3>4
    <3>5. CASE t = cur /\ goesOn
      BY <2>1, <2>4, <2>10, <3>2, <3>3, <3>5
    <3> QED
      BY <2>10, <3>2, <3>4, <3>5
  <2>12. (goesOn /\ \A t \in Threads : InTable(s, t) => s.prio[cur] < s.prio[t]) => to = cur
    BY <2>1, <2>4
  <2> QED
    BY <1>0, <1>4, <2>3, <2>8, <2>9, <2>10, <2>11, <2>12 DEF Scheduled
<1> QED
  BY <1>0, <1>3, <1>4

-----------------------------------------------------------------------------
(* What each function of the kernel does to a sound state. *)
LEMMA LinkedStats ==
  ASSUME NEW s, Consistent(s), NEW t \in Threads
  PROVE  /\ InTable(s, t) => s.stat[t] = "ready"
         /\ t \in s.waiting => s.stat[t] = "suspend"
         /\ InDefunct(s, t) => s.stat[t] = "close" /\ t \notin Static
         /\ s.stat[t] \notin {"ready", "suspend", "close"} => ~Linked(s, t)
         /\ s.stat \in [Threads -> Stats] /\ s.current \in Threads
         /\ s.prio \in [Threads -> Prios] /\ s.lock_nest \in Nat
BY SchedulerAssumption DEF Consistent, Linked, InTable, InDefunct, KState

(* No call that deletes a thread is about the idle thread. *)
IdleKept(p, a) == \A u \in Threads : p[u] \in {"detach", "close"} => a[u] # Idle

(* A call of the thread c goes on to q, and is about x. *)
LEMMA PcSound ==
  ASSUME NEW s, NEW tm, NEW p \in [Threads -> PC], NEW a \in [Threads -> Threads \cup {None}],
         Sound(s, tm, p, a), NEW c \in Threads, NEW q \in PC \ {"free"}, NEW x,
         p[c] # "free",
         c = s.current => q = "schedule" \/ s.stat[c] = "running",
         p[c] \in {"detach", "close"} =>
           (q \in {"detach", "close"} /\ x = a[c]) \/ s.stat[a[c]] # "ready"
  PROVE  Sound(s, tm, Updated(p, c, q), Updated(a, c, x))
<1> DEFINE p2 == Updated(p, c, q)
           a2 == Updated(a, c, x)
<1>1. /\ p2[c] = q /\ a2[c] = x
      /\ \A t \in Threads : t # c => p2[t] = p[t] /\ a2[t] = a[t]
  BY DEF Updated
<1> HIDE DEF p2, a2
<1>2. ReadyInTable(s, p2, a2)
  <2>1. ASSUME NEW t \in Threads, s.stat[t] = "ready", ~InTable(s, t)
        PROVE  \E u \in Threads : a2[u] = t /\ p2[u] \in {"detach", "close"}
    <3>1. PICK u \in Threads : a[u] = t /\ p[u] \in {"detach", "close"}
      BY <2>1 DEF Sound, ReadyInTable
    <3>2. CASE u = c
      BY <1>1, <2>1, <3>1, <3>2
    <3>3. CASE u # c
      BY <1>1, <3>1, <3>3
    <3> QED
      BY <3>2, <3>3
  <2> QED
    BY <2>1 DEF ReadyInTable
<1>3. CurrentRuns(s, p2)
  <2>1. s.current \in Threads
    BY DEF Sound, Consistent, KState
  <2>2. p[s.current] = "schedule" => p2[s.current] = "schedule" \/ s.stat[s.current] = "running"
    BY <1>1, <2>1
  <2> QED
    BY <2>2 DEF Sound, CurrentRuns
<1>5. FreeHolds(s, p2, a2)
  BY <1>1 DEF Sound, FreeHolds
<1>6. Sound(s, tm, p2, a2)
  BY <1>2, <1>3, <1>5 DEF Sound
<1> QED
  BY <1>6 DEF p2, a2

(* Idle is about to free the thread x. *)
LEMMA FreeSound ==
  ASSUME NEW s, NEW tm, NEW p \in [Threads -> PC], NEW a \in [Threads -> Threads \cup {None}],
         Sound(s, tm, p, a), p[Idle] = "run", s.stat[s.current] = "running",
         NEW x \in Threads \ Static, s.stat[x] = "close", ~Linked(s, x)
  PROVE  Sound(s, tm, Updated(p, Idle, "free"), Updated(a, Idle, x))
<1> DEFINE p2 == Updated(p, Idle, "free")
           a2 == Updated(a, Idle, x)
<1>1. /\ p2[Idle] = "free" /\ a2[Idle] = x
      /\ \A t \in Threads : t # Idle => p2[t] = p[t] /\ a2[t] = a[t]
      /\ Idle \in Threads
  BY SchedulerAssumption DEF Updated
<1> HIDE DEF p2, a2
<1>2. ReadyInTable(s, p2, a2)
  BY <1>1 DEF Sound, ReadyInTable
<1>3. CurrentRuns(s, p2)
  BY <1>1 DEF Sound, CurrentRuns
<1>5. FreeHolds(s, p2, a2)
  BY <1>1 DEF Sound, FreeHolds
<1>6. Sound(s, tm, p2, a2)
  BY <1>2, <1>3, <1>5 DEF Sound
<1> QED
  BY <1>6 DEF p2, a2

(* rt_list_remove on a sleeping thread, and its timer stopped. *)
LEMMA UnlinkSound ==
  ASSUME NEW s, NEW tm \in [Threads -> BOOLEAN], NEW p, NEW a,
         Sound(s, tm, p, a), NEW t \in Threads, s.stat[t] = "suspend",
         NEW r, r = Unlinked(s, t), NEW tn, tn = Updated(tm, t, FALSE)
  PROVE  Sound(r, tn, p, a)
<1>1. /\ Consistent(r) /\ r.table = s.table /\ ~Linked(r, t)
      /\ r.stat = s.stat /\ r.prio = s.prio /\ r.current = s.current
      /\ r.lock_nest = s.lock_nest /\ r.broken = s.broken
      /\ r.waiting = s.waiting \ {t}
      /\ Elements(r.defunct) = Elements(s.defunct) \ {t}
  <2>1. Consistent(s) /\ s.stat[t] # "ready"
    BY DEF Sound
  <2>2. Consistent(r) /\ r.table = s.table /\ ~Linked(r, t)
    BY <2>1, UnlinkedConsistent
  <2>3. /\ r.stat = s.stat /\ r.prio = s.prio /\ r.current = s.current
        /\ r.lock_nest = s.lock_nest /\ r.broken = s.broken
        /\ r.waiting = s.waiting \ {t}
        /\ Elements(r.defunct) = Elements(s.defunct) \ {t}
    BY <2>1, UnlinkedProperties
  <2> QED
    BY <2>2, <2>3
<1>3. \A u : InTable(r, u) <=> InTable(s, u)
  BY <1>1 DEF InTable
<1>2. \A u : Linked(r, u) => Linked(s, u)
  <2>1. \A u : InDefunct(r, u) => InDefunct(s, u)
    BY <1>1 DEF InDefunct
  <2> QED
    BY <1>1, <1>3, <2>1, Zenon DEF Linked
<1>4. ReadyInTable(r, p, a) /\ CurrentRuns(r, p)
  BY <1>1, <1>3 DEF Sound, ReadyInTable, CurrentRuns
<1>5. TimersOfSleepers(r, tn)
  BY <1>1 DEF Sound, TimersOfSleepers, Updated
<1>6. FreeHolds(r, p, a)
  BY <1>1, <1>2 DEF Sound, FreeHolds
<1> QED
  BY <1>1, <1>4, <1>5, <1>6 DEF Sound

(* rt_schedule_insert_thread on a thread that slept or was not started. *)
LEMMA InsertSound ==
  ASSUME NEW s, NEW tm, NEW p, NEW a,
         Sound(s, tm, p, a), NEW t \in Threads, s.stat[t] \in {"init", "suspend"},
         ~tm[t], ~Linked(s, t),
         NEW r, r = Insert(s, t)
  PROVE  Sound(r, tm, p, a)
<1>0. Consistent(s) /\ s.stat \in [Threads -> Stats] /\ s.current \in Threads
  BY LinkedStats DEF Sound
<1>1. /\ Consistent(r)
      /\ r.stat = [s.stat EXCEPT ![t] = IF t = s.current THEN "running" ELSE "ready"]
      /\ r.prio = s.prio /\ r.current = s.current
      /\ r.lock_nest = s.lock_nest /\ r.broken = s.broken
      /\ r.waiting = s.waiting /\ r.defunct = s.defunct
      /\ \A u \in Threads : InTable(r, u) <=> InTable(s, u) \/ (u = t /\ t # s.current)
  BY <1>0, InsertConsistent
<1>2. /\ r.stat[t] = IF t = s.current THEN "running" ELSE "ready"
      /\ \A u \in Threads : u # t => r.stat[u] = s.stat[u]
  BY <1>0, <1>1
<1>3. ReadyInTable(r, p, a)
  BY <1>1, <1>2 DEF Sound, ReadyInTable
<1>4. TimersOfSleepers(r, tm)
  BY <1>2 DEF Sound, TimersOfSleepers
<1>5. CurrentRuns(r, p)
  BY <1>0, <1>1, <1>2, SchedulerAssumption DEF Sound, CurrentRuns
<1>7. FreeHolds(r, p, a)
  <2>1. ASSUME NEW u \in Threads, p[u] = "free" 
        PROVE  /\ u = Idle /\ a[u] \in Threads \ Static
               /\ r.stat[a[u]] = "close" /\ ~Linked(r, a[u])
    <3>1. /\ u = Idle /\ a[u] \in Threads \ Static
          /\ s.stat[a[u]] = "close" /\ ~Linked(s, a[u])
      BY <2>1 DEF Sound, FreeHolds
    <3>2. a[u] # t
      BY <3>1
    <3> QED
      BY <1>1, <1>2, <3>1, <3>2 DEF Linked, InDefunct
  <2> QED
    BY <2>1 DEF FreeHolds
<1> QED
  BY <1>1, <1>3, <1>4, <1>5, <1>7 DEF Sound

(* rt_schedule finds a thread to switch to whenever the current one gives  *)
(* up the processor: the idle thread at least.                             *)
LEMMA ScheduleRuns ==
  ASSUME NEW s, NEW tm, NEW p, NEW a, Sound(s, tm, p, a), IdleKept(p, a)
  PROVE  /\ Scheduled(s, Schedule(s))
         /\ Schedule(s).stat[Schedule(s).current] = "running"
<1>0. /\ Consistent(s) /\ s.stat \in [Threads -> Stats] /\ s.current \in Threads
      /\ s.lock_nest \in Nat /\ Idle \in Threads
  BY LinkedStats, SchedulerAssumption DEF Sound, Consistent, KState
<1>1. PICK r : r = Schedule(s)
  OBVIOUS
<1>2. s.stat[s.current] # "running" => s.lock_nest = 0 /\ s.group # {}
  <2>1. SUFFICES ASSUME s.stat[s.current] # "running" PROVE s.lock_nest = 0 /\ s.group # {}
    OBVIOUS
  <2>2. s.lock_nest = 0 /\ s.stat[Idle] = "ready"
    BY <1>0, <2>1 DEF Sound, CurrentRuns
  <2>3. InTable(s, Idle)
    BY <1>0, <2>2 DEF Sound, ReadyInTable, IdleKept
  <2>4. PICK q \in Prios : s.table[q] # << >>
    BY <2>3, EmptySeq DEF InTable, Elements
  <2> QED
    BY <1>0, <2>2, <2>4 DEF Consistent
<1>3. Scheduled(s, r)
  BY <1>0, <1>1, ScheduleProperties DEF Sound, CurrentRuns
<1>4. r.stat[r.current] = "running"
  BY <1>2, <1>3 DEF Scheduled
<1> QED
  BY <1>1, <1>3, <1>4

(* rt_schedule keeps all of it, at the end of a call and in an interrupt   *)
(* between two regions of one.                                             *)
LEMMA ScheduleSound ==
  ASSUME NEW s, NEW tm, NEW p, NEW a, Sound(s, tm, p, a), IdleKept(p, a), NEW r, r = Schedule(s)
  PROVE  Sound(r, tm, p, a)
<1>0. /\ Consistent(s) /\ s.stat \in [Threads -> Stats] /\ s.current \in Threads
      /\ s.lock_nest \in Nat /\ Idle \in Threads
  BY LinkedStats, SchedulerAssumption DEF Sound, Consistent, KState
<1>1. Scheduled(s, r)
  BY ScheduleRuns
<1>3. r.stat[r.current] = "running"
  BY ScheduleRuns
<1>4. \A t \in Threads :
        /\ r.stat[t] = "ready" => s.stat[t] = "ready" \/ t = s.current
        /\ s.stat[t] \notin {"ready", "running"} => r.stat[t] = s.stat[t]
        /\ s.stat[t] \in {"ready", "running"} => r.stat[t] \in {"ready", "running"}
        /\ t # r.current /\ s.stat[t] = "ready" => r.stat[t] = "ready"
  BY <1>1 DEF Scheduled, Sound, CurrentRuns
<1>6. \A t \in Threads : s.stat[t] = "close" /\ ~Linked(s, t) => ~Linked(r, t)
  <2>1. ASSUME NEW t \in Threads, s.stat[t] = "close", ~Linked(s, t) PROVE ~InTable(r, t)
    BY <1>1, <2>1 DEF Scheduled, Linked
  <2> QED
    BY <1>1, <2>1 DEF Scheduled, Linked, InDefunct
<1>7. ReadyInTable(r, p, a)
  <2>1. ASSUME NEW t \in Threads, r.stat[t] = "ready", ~InTable(r, t)
        PROVE  \E u \in Threads : a[u] = t /\ p[u] \in {"detach", "close"}
    <3>1. t # r.current
      BY <1>3, <2>1
    <3>2. ~InTable(s, t) /\ ~(t = s.current /\ s.stat[t] = "running")
      BY <1>1, <2>1, <3>1 DEF Scheduled
    <3>3. s.stat[t] = "ready"
      BY <1>4, <2>1, <3>2, <1>1 DEF Scheduled
    <3> QED
      BY <3>2, <3>3 DEF Sound, ReadyInTable
  <2> QED
    BY <2>1 DEF ReadyInTable
<1>8. TimersOfSleepers(r, tm)
  BY <1>4 DEF Sound, TimersOfSleepers
<1>9. CurrentRuns(r, p)
  BY <1>0, <1>1, <1>3, <1>4 DEF Scheduled, Sound, CurrentRuns
<1>11. FreeHolds(r, p, a)
  BY <1>4, <1>6 DEF Sound, FreeHolds
<1> QED
  BY <1>1, <1>7, <1>8, <1>9, <1>11 DEF Sound, Scheduled

(* rt_thread_resume on a sleeping thread, with interrupts disabled.        *)
LEMMA WakeSound ==
  ASSUME NEW s, NEW tm \in [Threads -> BOOLEAN], NEW p, NEW a,
         Sound(s, tm, p, a), NEW t \in Threads, s.stat[t] = "suspend"
  PROVE  Sound(Insert(Unlinked(s, t), t), Updated(tm, t, FALSE), p, a)
<1>1. PICK m : m = Unlinked(s, t)
  OBVIOUS
<1>2. PICK tn : tn = Updated(tm, t, FALSE)
  OBVIOUS
<1>3. Sound(m, tn, p, a)
  BY <1>1, <1>2, UnlinkSound
<1>4. ~Linked(m, t) /\ m.stat = s.stat
  BY <1>1, UnlinkedProperties DEF Sound
<1>5. ~tn[t] /\ m.stat[t] \in {"init", "suspend"}
  BY <1>2, <1>4 DEF Updated
<1>6. Sound(Insert(m, t), tn, p, a)
  BY <1>3, <1>4, <1>5, InsertSound
<1> QED
  BY <1>1, <1>2, <1>6

LEMMA WakeKeeps ==
  ASSUME NEW s, Consistent(s), NEW t \in Threads, s.stat[t] = "suspend",
         NEW r, r = Insert(Unlinked(s, t), t)
  PROVE  /\ r.prio = s.prio /\ r.current = s.current /\ r.lock_nest = s.lock_nest
         /\ s.stat[s.current] = "running" => r.stat[s.current] = "running"
<1>1. PICK m : m = Unlinked(s, t)
  OBVIOUS
<1>2. /\ Consistent(m) /\ ~Linked(m, t)
      /\ m.stat = s.stat /\ m.prio = s.prio /\ m.current = s.current
      /\ m.lock_nest = s.lock_nest
  BY <1>1, UnlinkedProperties, UnlinkedConsistent
<1>3. /\ r.stat = [m.stat EXCEPT ![t] = IF t = m.current THEN "running" ELSE "ready"]
      /\ r.prio = m.prio /\ r.current = m.current /\ r.lock_nest = m.lock_nest
  BY <1>1, <1>2, InsertConsistent
<1> QED
  BY <1>2, <1>3, LinkedStats

WithWaiting(s, t) == [s EXCEPT !.waiting = @ \cup {t}]
WithDefunct(s, t) == [s EXCEPT !.defunct = <<t>> \o @]
WithTail(s) == [s EXCEPT !.defunct = Tail(@)]
WithLock(s, n) == [s EXCEPT !.lock_nest = n]

(* A place in the list of a kernel object. *)
LEMMA WaitingConsistent ==
  ASSUME NEW s, Consistent(s), NEW t \in Threads, s.stat[t] = "suspend"
  PROVE  Consistent(WithWaiting(s, t))
<1>0. PICK r : r = WithWaiting(s, t)
  OBVIOUS
<1>1. s \in KState
  BY DEF Consistent
<1>2. /\ r.stat = s.stat /\ r.prio = s.prio /\ r.current = s.current
      /\ r.lock_nest = s.lock_nest /\ r.broken = s.broken /\ r.table = s.table
      /\ r.group = s.group /\ r.waiting = s.waiting \cup {t} /\ r.defunct = s.defunct
  BY <1>0, <1>1 DEF KState, WithWaiting
<1>3. r \in KState
  <2>0. s = AsRecord(s)
    BY <1>1, KStateFields
  <2>1. r = AsRecord(r)
    BY <1>0, <1>1, <1>2, <2>0 DEF AsRecord, WithWaiting
  <2> QED
    BY <1>1, <1>2, <2>1 DEF KState, AsRecord
<1>4. Consistent(r)
  BY <1>2, <1>3 DEF Consistent
<1> QED
  BY <1>0, <1>4

(* The head of the defunct list, for a closed thread that is in no list.   *)
LEMMA DefunctConsistent ==
  ASSUME NEW s, Consistent(s), NEW t \in Threads \ Static, s.stat[t] = "close", ~Linked(s, t)
  PROVE  /\ Consistent(WithDefunct(s, t))
         /\ \A u : InDefunct(WithDefunct(s, t), u) <=> InDefunct(s, u) \/ u = t
<1>0. PICK r : r = WithDefunct(s, t)
  OBVIOUS
<1>1. s \in KState
  BY DEF Consistent
<1>2. /\ r.stat = s.stat /\ r.prio = s.prio /\ r.current = s.current
      /\ r.lock_nest = s.lock_nest /\ r.broken = s.broken /\ r.table = s.table
      /\ r.group = s.group /\ r.waiting = s.waiting /\ r.defunct = <<t>> \o s.defunct
  BY <1>0, <1>1 DEF KState, WithDefunct
<1>3. /\ r.defunct \in Seq(Threads) /\ NoRepeat(r.defunct)
      /\ Elements(r.defunct) = Elements(s.defunct) \cup {t}
  BY <1>1, <1>2, PushProperties DEF Consistent, Linked, InDefunct, KState
<1>4. r \in KState
  <2>0. s = AsRecord(s)
    BY <1>1, KStateFields
  <2>1. r = AsRecord(r)
    BY <1>0, <1>1, <1>2, <2>0 DEF AsRecord, WithDefunct
  <2> QED
    BY <1>1, <1>2, <1>3, <2>1 DEF KState, AsRecord
<1>5. Consistent(r)
  BY <1>2, <1>3, <1>4 DEF Consistent
<1>6. \A u : InDefunct(r, u) <=> InDefunct(s, u) \/ u = t
  BY <1>3 DEF InDefunct
<1> QED
  BY <1>0, <1>5, <1>6

LEMMA TailConsistent ==
  ASSUME NEW s, Consistent(s), s.defunct # << >>, NEW r, r = WithTail(s)
  PROVE  /\ Consistent(r) /\ Head(s.defunct) \in Threads \ Static
         /\ s.stat[Head(s.defunct)] = "close" /\ ~Linked(r, Head(s.defunct))
         /\ r.stat = s.stat /\ r.prio = s.prio /\ r.current = s.current
         /\ r.lock_nest = s.lock_nest /\ r.broken = s.broken /\ r.table = s.table
         /\ r.group = s.group /\ r.waiting = s.waiting
         /\ Elements(r.defunct) \subseteq Elements(s.defunct)
<1>1. s \in KState
  BY DEF Consistent
<1>2. /\ r.stat = s.stat /\ r.prio = s.prio /\ r.current = s.current
      /\ r.lock_nest = s.lock_nest /\ r.broken = s.broken /\ r.table = s.table
      /\ r.group = s.group /\ r.waiting = s.waiting /\ r.defunct = Tail(s.defunct)
  BY <1>1 DEF KState, WithTail
<1>3. /\ r.defunct \in Seq(Threads) /\ NoRepeat(r.defunct)
      /\ Head(s.defunct) \in Elements(s.defunct)
      /\ Elements(r.defunct) = Elements(s.defunct) \ {Head(s.defunct)}
  BY <1>1, <1>2, TailProperties DEF Consistent, KState
<1>4. r \in KState
  <2>0. s = AsRecord(s)
    BY <1>1, KStateFields
  <2>1. r = AsRecord(r)
    BY <1>1, <1>2, <2>0 DEF AsRecord, WithTail
  <2> QED
    BY <1>1, <1>2, <1>3, <2>1 DEF KState, AsRecord
<1>5. Consistent(r)
  BY <1>2, <1>3, <1>4 DEF Consistent
<1>6. Head(s.defunct) \in Threads \ Static /\ s.stat[Head(s.defunct)] = "close"
  BY <1>3, QueueThreads DEF Consistent
<1>7. ~Linked(r, Head(s.defunct))
  BY <1>2, <1>3, <1>5, <1>6, LinkedStats DEF Linked, InDefunct
<1> QED
  BY <1>2, <1>3, <1>5, <1>6, <1>7

LEMMA LockConsistent ==
  ASSUME NEW s, Consistent(s), NEW n \in 0..MaxNest, NEW r, r = WithLock(s, n)
  PROVE  /\ Consistent(r)
         /\ r.stat = s.stat /\ r.prio = s.prio /\ r.current = s.current
         /\ r.lock_nest = n /\ r.broken = s.broken /\ r.table = s.table
         /\ r.group = s.group /\ r.waiting = s.waiting /\ r.defunct = s.defunct
<1>1. s \in KState
  BY DEF Consistent
<1>2. /\ r.stat = s.stat /\ r.prio = s.prio /\ r.current = s.current
      /\ r.lock_nest = n /\ r.broken = s.broken /\ r.table = s.table
      /\ r.group = s.group /\ r.waiting = s.waiting /\ r.defunct = s.defunct
  BY <1>1 DEF KState, WithLock
<1>3. r \in KState
  <2>0. s = AsRecord(s)
    BY <1>1, KStateFields
  <2>1. r = AsRecord(r)
    BY <1>1, <1>2, <2>0 DEF AsRecord, WithLock
  <2> QED
    BY <1>1, <1>2, <2>1 DEF KState, AsRecord
<1> QED
  BY <1>2, <1>3 DEF Consistent

-----------------------------------------------------------------------------
(* What each step does to a sound state.  r is the state after it, known   *)
(* by what it leaves of s.                                                 *)

(* The current thread gives up the processor, for x.                       *)
LEMMA LeaveSound ==
  ASSUME NEW s, NEW tm \in [Threads -> BOOLEAN], NEW p \in [Threads -> PC],
         NEW a \in [Threads -> Threads \cup {None}], Sound(s, tm, p, a),
         NEW c, c = s.current, c # Idle, s.stat[c] = "running", p[c] = "run", s.lock_nest = 0,
         NEW x \in {"suspend", "close"}, NEW b \in BOOLEAN, b => x = "suspend",
         NEW r, Consistent(r), r.stat = [s.stat EXCEPT ![c] = x], r.prio = s.prio,
         r.current = c, r.lock_nest = s.lock_nest, r.broken = s.broken,
         \A u \in Threads : InTable(r, u) <=> InTable(s, u) /\ u # c,
         \A u \in Threads : u # c /\ ~Linked(s, u) => ~Linked(r, u)
  PROVE  Sound(r, Updated(tm, c, b), Updated(p, c, "schedule"), Updated(a, c, None))
<1>0. /\ c \in Threads /\ Consistent(s) /\ s.stat \in [Threads -> Stats]
      /\ Idle \in Threads /\ None \notin Threads
  BY SchedulerAssumption, LinkedStats DEF Sound, Consistent, KState
<1>1. PICK tn, q, an : /\ tn = Updated(tm, c, b) /\ q = Updated(p, c, "schedule")
                       /\ an = Updated(a, c, None)
  OBVIOUS
<1>2. /\ r.stat[c] = x
      /\ \A u \in Threads : u # c => r.stat[u] = s.stat[u]
  BY <1>0
<1>3. /\ tn[c] = b /\ q[c] = "schedule" /\ an[c] = None
      /\ \A u \in Threads : u # c => tn[u] = tm[u] /\ q[u] = p[u] /\ an[u] = a[u]
  BY <1>0, <1>1 DEF Updated
<1>5. ReadyInTable(r, q, an)
  <2>1. ASSUME NEW u \in Threads, r.stat[u] = "ready", ~InTable(r, u)
        PROVE  \E v \in Threads : an[v] = u /\ q[v] \in {"detach", "close"}
    <3>1. u # c /\ s.stat[u] = "ready" /\ ~InTable(s, u)
      BY <1>2, <2>1
    <3>2. PICK v \in Threads : a[v] = u /\ p[v] \in {"detach", "close"}
      BY <3>1 DEF Sound, ReadyInTable
    <3> QED
      BY <1>3, <3>2
  <2> QED
    BY <2>1 DEF ReadyInTable
<1>6. TimersOfSleepers(r, tn)
  BY <1>2, <1>3 DEF Sound, TimersOfSleepers
<1>7. CurrentRuns(r, q)
  BY <1>0, <1>2, <1>3 DEF Sound, CurrentRuns
<1>9. FreeHolds(r, q, an)
  <2>1. ASSUME NEW u \in Threads, q[u] = "free"
        PROVE  /\ u = Idle /\ an[u] \in Threads \ Static
               /\ r.stat[an[u]] = "close" /\ ~Linked(r, an[u])
    <3>1. /\ u = Idle /\ a[u] \in Threads \ Static
          /\ s.stat[a[u]] = "close" /\ ~Linked(s, a[u])
      BY <1>3, <2>1 DEF Sound, FreeHolds
    <3>2. a[u] # c /\ an[u] = a[u]
      BY <1>3, <3>1
    <3> QED
      BY <1>2, <3>1, <3>2
  <2> QED
    BY <2>1 DEF FreeHolds
<1>10. Sound(r, tn, q, an)
  BY <1>5, <1>6, <1>7, <1>9 DEF Sound
<1> QED
  BY <1>1, <1>10

(* The priority of a thread in no queue is set. *)
LEMMA PrioSound ==
  ASSUME NEW s, NEW tm, NEW p, NEW a, Sound(s, tm, p, a),
         NEW t \in Threads, ~InTable(s, t), NEW x \in Prios
  PROVE  Sound(WithPrio(s, t, x), tm, p, a)
<1>1. PICK r : r = WithPrio(s, t, x)
  OBVIOUS
<1>2. /\ Consistent(r)
      /\ r.stat = s.stat /\ r.prio = [s.prio EXCEPT ![t] = x] /\ r.current = s.current
      /\ r.lock_nest = s.lock_nest /\ r.broken = s.broken /\ r.table = s.table
      /\ r.group = s.group /\ r.waiting = s.waiting /\ r.defunct = s.defunct
  <2>1. Consistent(s)
    BY DEF Sound
  <2> QED
    BY <1>1, <2>1, PrioConsistent
<1>3. \A u : (InTable(r, u) <=> InTable(s, u)) /\ (Linked(r, u) <=> Linked(s, u))
  BY <1>2 DEF InTable, Linked, InDefunct
<1>4. /\ ReadyInTable(r, p, a) /\ TimersOfSleepers(r, tm) /\ CurrentRuns(r, p)
      /\ FreeHolds(r, p, a)
  BY <1>2, <1>3 DEF Sound, ReadyInTable, TimersOfSleepers, CurrentRuns, FreeHolds
<1>6. Sound(r, tm, p, a)
  BY <1>2, <1>4 DEF Sound
<1> QED
  BY <1>1, <1>6

(* rt_enter_critical and rt_exit_critical of a thread that runs. *)
LEMMA LockSound ==
  ASSUME NEW s, NEW tm, NEW p, NEW a, Sound(s, tm, p, a),
         s.stat[s.current] = "running", NEW n \in 0..MaxNest
  PROVE  Sound(WithLock(s, n), tm, p, a)
<1>1. PICK r : r = WithLock(s, n)
  OBVIOUS
<1>2. /\ Consistent(r)
      /\ r.stat = s.stat /\ r.current = s.current
      /\ r.broken = s.broken /\ r.table = s.table
      /\ r.waiting = s.waiting /\ r.defunct = s.defunct
  BY <1>1, LockConsistent DEF Sound
<1>3. \A u : (InTable(r, u) <=> InTable(s, u)) /\ (Linked(r, u) <=> Linked(s, u))
  BY <1>2 DEF InTable, Linked, InDefunct
<1>4. /\ ReadyInTable(r, p, a) /\ TimersOfSleepers(r, tm) /\ CurrentRuns(r, p)
      /\ FreeHolds(r, p, a)
  BY <1>2, <1>3 DEF Sound, ReadyInTable, TimersOfSleepers, CurrentRuns, FreeHolds
<1>6. Sound(r, tm, p, a)
  BY <1>2, <1>4 DEF Sound
<1> QED
  BY <1>1, <1>6

(* The region in which rt_thread_suspend takes a ready thread out.         *)
LEMMA SuspendSound ==
  ASSUME NEW s, NEW tm \in [Threads -> BOOLEAN], NEW p \in [Threads -> PC],
         NEW a \in [Threads -> Threads \cup {None}], Sound(s, tm, p, a),
         NEW c, c = s.current, p[c] = "suspend", NEW t \in Threads \ {Idle, c},
         s.stat[t] = "ready", s.stat[c] = "running",
         NEW r, Consistent(r), r.stat = Updated(s.stat, t, "suspend"),
         r.current = c, r.lock_nest = s.lock_nest, r.broken = s.broken,
         \A u \in Threads : InTable(r, u) <=> InTable(s, u) /\ u # t,
         \A u \in Threads : ~Linked(s, u) => ~Linked(r, u)
  PROVE  Sound(r, Updated(tm, t, FALSE), Updated(p, c, "run"), Updated(a, c, None))
<1>0. /\ c \in Threads /\ Consistent(s) /\ s.stat \in [Threads -> Stats] /\ Idle \in Threads
  <2>1. Consistent(s) /\ Idle \in Threads
    BY SchedulerAssumption DEF Sound
  <2> QED
    BY <2>1 DEF Consistent, KState
<1>1. PICK tn, q, an : /\ tn = Updated(tm, t, FALSE) /\ q = Updated(p, c, "run")
                       /\ an = Updated(a, c, None)
  OBVIOUS
<1>3. r.stat[t] = "suspend" /\ \A u \in Threads : u # t => r.stat[u] = s.stat[u]
  BY <1>0 DEF Updated
<1>4. /\ ~tn[t] /\ \A u \in Threads : u # t => tn[u] = tm[u]
      /\ q[c] = "run" /\ \A u \in Threads : u # c => q[u] = p[u] /\ an[u] = a[u]
  BY <1>0, <1>1 DEF Updated
<1>6. ReadyInTable(r, q, an)
  <2>1. ASSUME NEW u \in Threads, r.stat[u] = "ready", ~InTable(r, u)
        PROVE  \E v \in Threads : an[v] = u /\ q[v] \in {"detach", "close"}
    <3>1. u # t /\ s.stat[u] = "ready" /\ ~InTable(s, u)
      BY <1>3, <2>1
    <3>2. PICK v \in Threads : a[v] = u /\ p[v] \in {"detach", "close"}
      BY <3>1 DEF Sound, ReadyInTable
    <3> QED
      BY <1>4, <3>2
  <2> QED
    BY <2>1 DEF ReadyInTable
<1>7. TimersOfSleepers(r, tn)
  BY <1>3, <1>4 DEF Sound, TimersOfSleepers
<1>8. CurrentRuns(r, q)
  BY <1>0, <1>3 DEF Sound, CurrentRuns
<1>10. FreeHolds(r, q, an)
  <2>1. ASSUME NEW u \in Threads, q[u] = "free"
        PROVE  /\ u = Idle /\ an[u] \in Threads \ Static
               /\ r.stat[an[u]] = "close" /\ ~Linked(r, an[u])
    <3>1. u # c /\ p[u] = "free" /\ an[u] = a[u]
      BY <1>4, <2>1
    <3>2. /\ u = Idle /\ a[u] \in Threads \ Static
          /\ s.stat[a[u]] = "close" /\ ~Linked(s, a[u])
      BY <3>1 DEF Sound, FreeHolds
    <3>3. a[u] # t
      BY <3>2
    <3> QED
      BY <1>3, <3>1, <3>2, <3>3
  <2> QED
    BY <2>1 DEF FreeHolds
<1>11. Sound(r, tn, q, an)
  BY <1>6, <1>7, <1>8, <1>10 DEF Sound
<1> QED
  BY <1>1, <1>11

(* rt_thread_delete has taken t out of the scheduler.                      *)
LEMMA DeleteSound ==
  ASSUME NEW s, NEW tm, NEW p \in [Threads -> PC],
         NEW a \in [Threads -> Threads \cup {None}], Sound(s, tm, p, a),
         NEW c, c = s.current, p[c] = "run", s.stat[c] = "running",
         NEW t \in Threads \ {Idle, c}, s.stat[t] \in {"init", "ready", "suspend"},
         NEW r, Consistent(r), r.stat = s.stat, r.current = c, r.lock_nest = s.lock_nest,
         r.broken = s.broken, ~Linked(r, t),
         \A u \in Threads : u # t => (InTable(r, u) <=> InTable(s, u)),
         \A u \in Threads : ~Linked(s, u) => ~Linked(r, u)
  PROVE  Sound(r, tm, Updated(p, c, "detach"), Updated(a, c, t))
<1>0. c \in Threads /\ Consistent(s) /\ Idle \in Threads
  <2>1. Consistent(s) /\ Idle \in Threads
    BY SchedulerAssumption DEF Sound
  <2> QED
    BY <2>1 DEF Consistent, KState
<1>1. PICK q, an : q = Updated(p, c, "detach") /\ an = Updated(a, c, t)
  OBVIOUS
<1>2. /\ q[c] = "detach" /\ an[c] = t
      /\ \A u \in Threads : u # c => q[u] = p[u] /\ an[u] = a[u]
  BY <1>0, <1>1 DEF Updated
<1>4. ReadyInTable(r, q, an)
  <2>1. ASSUME NEW u \in Threads, r.stat[u] = "ready", ~InTable(r, u), u # t
        PROVE  \E v \in Threads : an[v] = u /\ q[v] \in {"detach", "close"}
    <3>1. PICK v \in Threads : a[v] = u /\ p[v] \in {"detach", "close"}
      BY <2>1 DEF Sound, ReadyInTable
    <3> QED
      BY <1>2, <3>1
  <2> QED
    BY <1>0, <1>2, <2>1 DEF ReadyInTable
<1>5. TimersOfSleepers(r, tm)
  BY DEF Sound, TimersOfSleepers
<1>6. CurrentRuns(r, q)
  BY <1>0, <1>2 DEF Sound, CurrentRuns
<1>8. FreeHolds(r, q, an)
  <2>1. ASSUME NEW u \in Threads, q[u] = "free"
        PROVE  /\ u = Idle /\ an[u] \in Threads \ Static
               /\ r.stat[an[u]] = "close" /\ ~Linked(r, an[u])
    <3>1. u # c /\ p[u] = "free" /\ an[u] = a[u]
      BY <1>2, <2>1
    <3> QED
      BY <3>1 DEF Sound, FreeHolds
  <2> QED
    BY <2>1 DEF FreeHolds
<1>9. Sound(r, tm, q, an)
  BY <1>4, <1>5, <1>6, <1>8 DEF Sound
<1> QED
  BY <1>1, <1>9

(* rt_thread_delete closes the thread that it took out. *)
LEMMA CloseSound ==
  ASSUME NEW s, NEW tm, NEW p \in [Threads -> PC],
         NEW a \in [Threads -> Threads \cup {None}], Sound(s, tm, p, a),
         NEW c, c = s.current, p[c] = "close", s.stat[c] = "running",
         a[c] \in Threads \ {Idle, c}, ~Linked(s, a[c]), ~tm[a[c]],
         s.stat[a[c]] \in {"init", "ready", "suspend"}
  PROVE  Sound(WithStat(s, a[c], "close"), tm, Updated(p, c, "defunct"), a)
<1>0. c \in Threads /\ Consistent(s) /\ Idle \in Threads /\ s.stat \in [Threads -> Stats]
  <2>1. Consistent(s) /\ Idle \in Threads
    BY SchedulerAssumption DEF Sound
  <2> QED
    BY <2>1 DEF Consistent, KState
<1>1. PICK t, r, q : t = a[c] /\ r = WithStat(s, t, "close") /\ q = Updated(p, c, "defunct")
  OBVIOUS
<1>2. /\ t \in Threads \ {Idle, c} /\ s.stat[t] \in {"init", "ready", "suspend"}
      /\ ~Linked(s, t) /\ s.stat[c] = "running"
  BY <1>1
<1>3. /\ Consistent(r) /\ ~Linked(r, t)
      /\ r.stat = [s.stat EXCEPT ![t] = "close"] /\ r.prio = s.prio /\ r.current = s.current
      /\ r.lock_nest = s.lock_nest /\ r.broken = s.broken /\ r.table = s.table
      /\ r.group = s.group /\ r.waiting = s.waiting /\ r.defunct = s.defunct
  <2>1. "close" \in Stats /\ t \in Threads
    BY <1>2 DEF Stats
  <2> QED
    BY <1>0, <1>1, <1>2, <2>1, StatConsistent
<1>4. r.stat[t] = "close" /\ \A u \in Threads : u # t => r.stat[u] = s.stat[u]
  BY <1>0, <1>2, <1>3
<1>5. \A u : (InTable(r, u) <=> InTable(s, u)) /\ (Linked(r, u) <=> Linked(s, u))
  BY <1>3 DEF InTable, Linked, InDefunct
<1>6. q[c] = "defunct" /\ \A u \in Threads : u # c => q[u] = p[u]
  BY <1>0, <1>1 DEF Updated
<1>8. ReadyInTable(r, q, a)
  <2>1. ASSUME NEW u \in Threads, r.stat[u] = "ready", ~InTable(r, u)
        PROVE  \E v \in Threads : a[v] = u /\ q[v] \in {"detach", "close"}
    <3>1. u # t /\ s.stat[u] = "ready" /\ ~InTable(s, u)
      BY <1>4, <1>5, <2>1
    <3>2. PICK v \in Threads : a[v] = u /\ p[v] \in {"detach", "close"}
      BY <3>1 DEF Sound, ReadyInTable
    <3> QED
      BY <1>1, <1>6, <3>1, <3>2
  <2> QED
    BY <2>1 DEF ReadyInTable
<1>9. TimersOfSleepers(r, tm)
  BY <1>1, <1>4 DEF Sound, TimersOfSleepers
<1>10. CurrentRuns(r, q)
  BY <1>0, <1>2, <1>3, <1>4 DEF Sound, CurrentRuns
<1>11. FreeHolds(r, q, a)
  BY <1>4, <1>5, <1>6 DEF Sound, FreeHolds
<1>13. Sound(r, tm, q, a)
  BY <1>3, <1>8, <1>9, <1>10, <1>11 DEF Sound
<1> QED
  BY <1>1, <1>13

(* The end of rt_thread_delete and of rt_thread_detach. *)
LEMMA DefunctSound ==
  ASSUME NEW s, NEW tm, NEW p \in [Threads -> PC],
         NEW a \in [Threads -> Threads \cup {None}], Sound(s, tm, p, a),
         NEW c, c = s.current, p[c] = "defunct", s.stat[c] = "running",
         a[c] \in Threads \ {Idle, c}, s.stat[a[c]] = "close", ~Linked(s, a[c]),
         p[Idle] = "free" => a[c] # a[Idle], a[c] \notin Static
  PROVE  Sound(WithDefunct(s, a[c]), tm, Updated(p, c, "run"), Updated(a, c, None))
<1>0. c \in Threads /\ Consistent(s) /\ Idle \in Threads
  <2>1. Consistent(s) /\ Idle \in Threads
    BY SchedulerAssumption DEF Sound
  <2> QED
    BY <2>1 DEF Consistent, KState
<1>1. PICK t, r, q, an : /\ t = a[c] /\ r = WithDefunct(s, t)
                         /\ q = Updated(p, c, "run") /\ an = Updated(a, c, None)
  OBVIOUS
<1>2. /\ t \in Threads \ {Idle, c} /\ s.stat[t] = "close" /\ t \notin Static
      /\ ~Linked(s, t) /\ s.stat[c] = "running"
      /\ p[Idle] = "free" => a[Idle] # t
  BY <1>1
<1>3. /\ Consistent(r)
      /\ r.stat = s.stat /\ r.prio = s.prio /\ r.current = s.current
      /\ r.lock_nest = s.lock_nest /\ r.broken = s.broken /\ r.table = s.table
      /\ r.group = s.group /\ r.waiting = s.waiting
      /\ \A u : InDefunct(r, u) <=> InDefunct(s, u) \/ u = t
  <2>1. Consistent(r) /\ \A u : InDefunct(r, u) <=> InDefunct(s, u) \/ u = t
    BY <1>0, <1>1, <1>2, DefunctConsistent
  <2> QED
    BY <1>0, <1>1, <2>1 DEF WithDefunct, Consistent, KState
<1>4. \A u : InTable(r, u) <=> InTable(s, u)
  BY <1>3 DEF InTable
<1>5. \A u : u # t /\ ~Linked(s, u) => ~Linked(r, u)
  BY <1>3, <1>4 DEF Linked
<1>6. q[c] = "run" /\ \A u \in Threads : u # c => q[u] = p[u] /\ an[u] = a[u]
  BY <1>0, <1>1 DEF Updated
<1>9. ReadyInTable(r, q, an)
  <2>1. ASSUME NEW u \in Threads, r.stat[u] = "ready", ~InTable(r, u)
        PROVE  \E v \in Threads : an[v] = u /\ q[v] \in {"detach", "close"}
    <3>1. PICK v \in Threads : a[v] = u /\ p[v] \in {"detach", "close"}
      BY <1>3, <1>4, <2>1 DEF Sound, ReadyInTable
    <3> QED
      BY <1>6, <3>1
  <2> QED
    BY <2>1 DEF ReadyInTable
<1>10. TimersOfSleepers(r, tm) /\ CurrentRuns(r, q)
  BY <1>0, <1>2, <1>3 DEF Sound, TimersOfSleepers, CurrentRuns
<1>11. FreeHolds(r, q, an)
  <2>1. ASSUME NEW u \in Threads, q[u] = "free"
        PROVE  /\ u = Idle /\ an[u] \in Threads \ Static
               /\ r.stat[an[u]] = "close" /\ ~Linked(r, an[u])
    <3>1. u # c /\ p[u] = "free" /\ an[u] = a[u]
      BY <1>6, <2>1
    <3>2. /\ u = Idle /\ a[u] \in Threads \ Static
          /\ s.stat[a[u]] = "close" /\ ~Linked(s, a[u])
      BY <3>1 DEF Sound, FreeHolds
    <3> QED
      BY <1>2, <1>3, <1>5, <3>1, <3>2
  <2> QED
    BY <2>1 DEF FreeHolds
<1>12. Sound(r, tm, q, an)
  BY <1>3, <1>9, <1>10, <1>11 DEF Sound
<1> QED
  BY <1>1, <1>12

(* rt_thread_init on memory that holds no thread, or one that is closed.   *)
LEMMA CreateSound ==
  ASSUME NEW s, NEW tm \in [Threads -> BOOLEAN], NEW p \in [Threads -> PC],
         NEW a \in [Threads -> Threads \cup {None}], Sound(s, tm, p, a),
         p[s.current] = "run", NEW t \in Threads, p[t] \notin Regions,
         s.stat[t] = "none" \/ (t \in Static /\ s.stat[t] = "close" /\ t # s.current)
  PROVE  Sound(WithPrio(WithStat(s, t, "init"), t, InitPrio[t]),
               Updated(tm, t, FALSE), Updated(p, t, "run"), Updated(a, t, None))
<1>0. /\ s.current \in Threads /\ Consistent(s) /\ Idle \in Threads
      /\ s.stat \in [Threads -> Stats]
  <2>1. Consistent(s) /\ Idle \in Threads
    BY SchedulerAssumption DEF Sound
  <2> QED
    BY <2>1 DEF Consistent, KState
<1>1. PICK m, tn, q, an : /\ m = WithStat(s, t, "init") /\ tn = Updated(tm, t, FALSE)
                          /\ q = Updated(p, t, "run") /\ an = Updated(a, t, None)
  OBVIOUS
<1>2. PICK r : r = WithPrio(m, t, InitPrio[t])
  OBVIOUS
<1>3. t \notin {Idle, s.current} /\ s.stat[s.current] = "running" /\ ~Linked(s, t)
  <2>1. t \notin {Idle, s.current} /\ s.stat[s.current] = "running"
    BY <1>0 DEF Sound, CurrentRuns
  <2>2. ~Linked(s, t)
    BY <1>0, LinkedStats DEF Linked
  <2> QED
    BY <2>1, <2>2
<1>4. /\ Consistent(m) /\ ~Linked(m, t)
      /\ m.stat = [s.stat EXCEPT ![t] = "init"] /\ m.prio = s.prio /\ m.current = s.current
      /\ m.lock_nest = s.lock_nest /\ m.broken = s.broken /\ m.table = s.table
      /\ m.group = s.group /\ m.waiting = s.waiting /\ m.defunct = s.defunct
  <2>1. "init" \in Stats
    BY DEF Stats
  <2> QED
    BY <1>0, <1>1, <1>3, <2>1, StatConsistent
<1>5. /\ Consistent(r)
      /\ r.stat = m.stat /\ r.prio = [m.prio EXCEPT ![t] = InitPrio[t]] /\ r.current = m.current
      /\ r.lock_nest = m.lock_nest /\ r.broken = m.broken /\ r.table = m.table
      /\ r.group = m.group /\ r.waiting = m.waiting /\ r.defunct = m.defunct
  <2>1. ~InTable(m, t) /\ InitPrio[t] \in Prios
    BY <1>4, PriosAreNaturals DEF Linked
  <2> QED
    BY <1>2, <1>4, <2>1, PrioConsistent
<1>6. r.stat[t] = "init" /\ \A u \in Threads : u # t => r.stat[u] = s.stat[u]
  BY <1>0, <1>4, <1>5
<1>7. \A u : (InTable(r, u) <=> InTable(s, u)) /\ (Linked(r, u) <=> Linked(s, u))
  BY <1>4, <1>5 DEF InTable, Linked, InDefunct
<1>8. /\ ~tn[t] /\ q[t] = "run"
      /\ \A u \in Threads : u # t => q[u] = p[u] /\ an[u] = a[u] /\ tn[u] = tm[u]
  BY <1>1 DEF Updated
<1>11. ReadyInTable(r, q, an)
  <2>1. ASSUME NEW u \in Threads, r.stat[u] = "ready", ~InTable(r, u)
        PROVE  \E v \in Threads : an[v] = u /\ q[v] \in {"detach", "close"}
    <3>1. s.stat[u] = "ready" /\ ~InTable(s, u)
      BY <1>6, <1>7, <2>1
    <3>2. PICK v \in Threads : a[v] = u /\ p[v] \in {"detach", "close"}
      BY <3>1 DEF Sound, ReadyInTable
    <3>3. v # t
      BY <3>2 DEF Regions
    <3> QED
      BY <1>8, <3>2, <3>3
  <2> QED
    BY <2>1 DEF ReadyInTable
<1>12. TimersOfSleepers(r, tn)
  BY <1>6, <1>8 DEF Sound, TimersOfSleepers
<1>13. CurrentRuns(r, q)
  BY <1>0, <1>3, <1>4, <1>5, <1>6, <1>8 DEF Sound, CurrentRuns
<1>15. FreeHolds(r, q, an)
  <2>1. ASSUME NEW u \in Threads, q[u] = "free"
        PROVE  /\ u = Idle /\ an[u] \in Threads \ Static
               /\ r.stat[an[u]] = "close" /\ ~Linked(r, an[u])
    <3>1. u # t /\ p[u] = "free" /\ an[u] = a[u]
      BY <1>8, <2>1
    <3>2. /\ u = Idle /\ a[u] \in Threads \ Static
          /\ s.stat[a[u]] = "close" /\ ~Linked(s, a[u])
      BY <3>1 DEF Sound, FreeHolds
    <3>3. a[u] # t
      BY <3>2
    <3> QED
      BY <1>6, <1>7, <3>1, <3>2, <3>3
  <2> QED
    BY <2>1 DEF FreeHolds
<1>16. r.broken = s.broken
  BY <1>4, <1>5
<1>17. Sound(r, tn, q, an)
  BY <1>5, <1>11, <1>12, <1>13, <1>15, <1>16 DEF Sound
<1> QED
  BY <1>1, <1>2, <1>17

(* A ready thread moves to the queue of its new priority. *)
LEMMA MoveSound ==
  ASSUME NEW s, NEW tm, NEW p, NEW a, Sound(s, tm, p, a),
         NEW t \in Threads, s.stat[t] = "ready", NEW x \in Prios
  PROVE  Sound(Insert(WithPrio(Remove(s, t), t, x), t), tm, p, a)
<1>0. /\ s.current \in Threads /\ Consistent(s) /\ Idle \in Threads
      /\ s.stat \in [Threads -> Stats]
  <2>1. Consistent(s) /\ Idle \in Threads
    BY SchedulerAssumption DEF Sound
  <2> QED
    BY <2>1 DEF Consistent, KState
<1>1. PICK m : m = Remove(s, t)
  OBVIOUS
<1>2. PICK n : n = WithPrio(m, t, x)
  OBVIOUS
<1>3. PICK r : r = Insert(n, t)
  OBVIOUS
<1>4. t # s.current
  BY DEF Sound, CurrentRuns
<1>5. /\ Consistent(m) /\ ~Linked(m, t)
      /\ m.stat = s.stat /\ m.prio = s.prio /\ m.current = s.current
      /\ m.lock_nest = s.lock_nest /\ m.broken = s.broken
      /\ m.waiting = s.waiting \ {t}
      /\ Elements(m.defunct) = Elements(s.defunct) \ {t}
      /\ \A q \in Prios : Elements(m.table[q]) = Elements(s.table[q]) \ {t}
  <2>1. Consistent(s)
    BY <1>0
  <2> QED
    BY <1>1, <2>1, RemoveConsistent, Z3
<1>6. /\ Consistent(n)
      /\ n.stat = m.stat /\ n.prio = [m.prio EXCEPT ![t] = x] /\ n.current = m.current
      /\ n.lock_nest = m.lock_nest /\ n.broken = m.broken /\ n.table = m.table
      /\ n.group = m.group /\ n.waiting = m.waiting /\ n.defunct = m.defunct
  <2>1. ~InTable(m, t)
    BY <1>5 DEF Linked
  <2> QED
    BY <1>2, <1>5, <2>1, PrioConsistent
<1>7. ~Linked(n, t)
  BY <1>5, <1>6 DEF InTable, Linked, InDefunct
<1>8. /\ Consistent(r)
      /\ r.stat = [n.stat EXCEPT ![t] = IF t = n.current THEN "running" ELSE "ready"]
      /\ r.prio = n.prio /\ r.current = n.current
      /\ r.lock_nest = n.lock_nest /\ r.broken = n.broken
      /\ r.waiting = n.waiting /\ r.defunct = n.defunct
      /\ \A u \in Threads : InTable(r, u) <=> InTable(n, u) \/ (u = t /\ t # n.current)
  BY <1>3, <1>6, <1>7, InsertConsistent, Z3
<1>9. \A u \in Threads : InTable(r, u) <=> InTable(s, u) \/ u = t
  <2>1. \A u \in Threads : InTable(n, u) <=> InTable(s, u) /\ u # t
    BY <1>5, <1>6 DEF InTable
  <2> QED
    BY <1>4, <1>5, <1>6, <1>8, <2>1
<1>10. r.stat = s.stat
  BY <1>0, <1>4, <1>5, <1>6, <1>8
<1>11. \A u \in Threads : u # t /\ ~Linked(s, u) => ~Linked(r, u)
  BY <1>5, <1>6, <1>8, <1>9 DEF Linked, InDefunct
<1>12. ReadyInTable(r, p, a) /\ TimersOfSleepers(r, tm)
  BY <1>9, <1>10 DEF Sound, ReadyInTable, TimersOfSleepers
<1>13. CurrentRuns(r, p)
  BY <1>5, <1>6, <1>8, <1>10 DEF Sound, CurrentRuns
<1>14. FreeHolds(r, p, a)
  BY <1>10, <1>11 DEF Sound, FreeHolds
<1>15. r.broken = s.broken
  BY <1>5, <1>6, <1>8
<1>16. Sound(r, tm, p, a)
  BY <1>8, <1>12, <1>13, <1>14, <1>15 DEF Sound
<1> QED
  BY <1>1, <1>2, <1>3, <1>16

LEMMA MoveKeeps ==
  ASSUME NEW s, Consistent(s), NEW t \in Threads, NEW x \in Prios
  PROVE  Insert(WithPrio(Remove(s, t), t, x), t).current = s.current
<1>1. PICK m : m = Remove(s, t)
  OBVIOUS
<1>2. PICK n : n = WithPrio(m, t, x)
  OBVIOUS
<1>3. PICK r : r = Insert(n, t)
  OBVIOUS
<1>4. Consistent(m) /\ ~Linked(m, t) /\ m.current = s.current
  BY <1>1, RemoveConsistent
<1>5. /\ Consistent(n)
      /\ n.stat = m.stat /\ n.prio = [m.prio EXCEPT ![t] = x] /\ n.current = m.current
      /\ n.lock_nest = m.lock_nest /\ n.broken = m.broken /\ n.table = m.table
      /\ n.group = m.group /\ n.waiting = m.waiting /\ n.defunct = m.defunct
  BY <1>2, <1>4, PrioConsistent DEF Linked
<1>6. ~Linked(n, t)
  BY <1>4, <1>5 DEF Linked, InTable, InDefunct
<1>7. r.current = n.current
  <2>1. n \in KState
    BY <1>5 DEF Consistent
  <2> QED
    BY <1>3, <2>1 DEF Insert, KState
<1> QED
  BY <1>1, <1>2, <1>3, <1>4, <1>5, <1>7

LEMMA InsertKeeps ==
  ASSUME NEW s \in KState, NEW t
  PROVE  /\ Insert(s, t).prio = s.prio /\ Insert(s, t).current = s.current
         /\ Insert(s, t).lock_nest = s.lock_nest
BY DEF Insert, KState

LEMMA RemovedFrom ==
  ASSUME NEW s, Consistent(s), NEW t \in Threads, NEW r, r = Remove(s, t)
  PROVE  /\ Consistent(r) /\ ~Linked(r, t)
         /\ r.stat = s.stat /\ r.prio = s.prio /\ r.current = s.current
         /\ r.lock_nest = s.lock_nest /\ r.broken = s.broken
         /\ \A u \in Threads : InTable(r, u) <=> InTable(s, u) /\ u # t
         /\ \A u \in Threads : ~Linked(s, u) => ~Linked(r, u)
<1>1. /\ Consistent(r) /\ ~Linked(r, t)
      /\ r.stat = s.stat /\ r.prio = s.prio /\ r.current = s.current
      /\ r.lock_nest = s.lock_nest /\ r.broken = s.broken
      /\ r.waiting = s.waiting \ {t}
      /\ Elements(r.defunct) = Elements(s.defunct) \ {t}
      /\ \A p \in Prios : Elements(r.table[p]) = Elements(s.table[p]) \ {t}
  BY RemoveConsistent, Z3
<1>2. \A u \in Threads : InTable(r, u) <=> InTable(s, u) /\ u # t
  BY <1>1 DEF InTable
<1>3. \A u \in Threads : ~Linked(s, u) => ~Linked(r, u)
  BY <1>1, <1>2 DEF Linked, InDefunct
<1> QED
  BY <1>1, <1>2, <1>3

(* A thread is taken out of the scheduler and marked x. *)
LEMMA TakenOut ==
  ASSUME NEW s, Consistent(s), NEW t \in Threads, NEW x \in Stats,
         NEW r, r = WithStat(Remove(s, t), t, x)
  PROVE  /\ Consistent(r) /\ ~Linked(r, t)
         /\ r.stat = [s.stat EXCEPT ![t] = x] /\ r.prio = s.prio /\ r.current = s.current
         /\ r.lock_nest = s.lock_nest /\ r.broken = s.broken
         /\ \A u \in Threads : InTable(r, u) <=> InTable(s, u) /\ u # t
         /\ \A u \in Threads : ~Linked(s, u) => ~Linked(r, u)
<1>1. PICK m : m = Remove(s, t)
  OBVIOUS
<1>2. /\ Consistent(m) /\ ~Linked(m, t)
      /\ m.stat = s.stat /\ m.prio = s.prio /\ m.current = s.current
      /\ m.lock_nest = s.lock_nest /\ m.broken = s.broken
      /\ m.waiting = s.waiting \ {t}
      /\ Elements(m.defunct) = Elements(s.defunct) \ {t}
      /\ \A p \in Prios : Elements(m.table[p]) = Elements(s.table[p]) \ {t}
  BY <1>1, RemoveConsistent, Z3
<1>3. r = WithStat(m, t, x)
  BY <1>1
<1>4. /\ Consistent(r) /\ ~Linked(r, t)
      /\ r.stat = [m.stat EXCEPT ![t] = x] /\ r.prio = m.prio /\ r.current = m.current
      /\ r.lock_nest = m.lock_nest /\ r.broken = m.broken /\ r.table = m.table
      /\ r.group = m.group /\ r.waiting = m.waiting /\ r.defunct = m.defunct
  BY <1>2, <1>3, StatConsistent
<1>5. \A u \in Threads : InTable(r, u) <=> InTable(s, u) /\ u # t
  BY <1>2, <1>4 DEF InTable
<1>6. \A u \in Threads : ~Linked(s, u) => ~Linked(r, u)
  BY <1>2, <1>4, <1>5 DEF Linked, InDefunct
<1> QED
  BY <1>2, <1>4, <1>5, <1>6

(* The idle thread takes the first thread of the defunct list. *)
LEMMA TailSound ==
  ASSUME NEW s, NEW tm, NEW p, NEW a, Sound(s, tm, p, a), s.defunct # << >>
  PROVE  Sound(WithTail(s), tm, p, a)
<1>1. PICK r : r = WithTail(s)
  OBVIOUS
<1>2. /\ Consistent(r) /\ Head(s.defunct) \in Threads \ Static
      /\ s.stat[Head(s.defunct)] = "close" /\ ~Linked(r, Head(s.defunct))
      /\ r.stat = s.stat /\ r.prio = s.prio /\ r.current = s.current
      /\ r.lock_nest = s.lock_nest /\ r.broken = s.broken /\ r.table = s.table
      /\ r.group = s.group /\ r.waiting = s.waiting
      /\ Elements(r.defunct) \subseteq Elements(s.defunct)
  <2>1. Consistent(s)
    BY DEF Sound
  <2> QED
    BY <1>1, <2>1, TailConsistent
<1>3. \A u : InTable(r, u) <=> InTable(s, u)
  BY <1>2 DEF InTable
<1>4. \A u : ~Linked(s, u) => ~Linked(r, u)
  BY <1>2, <1>3 DEF Linked, InDefunct
<1>5. /\ ReadyInTable(r, p, a) /\ TimersOfSleepers(r, tm) /\ CurrentRuns(r, p)
      /\ FreeHolds(r, p, a)
  BY <1>2, <1>3, <1>4 DEF Sound, ReadyInTable, TimersOfSleepers, CurrentRuns, FreeHolds
<1>7. Sound(r, tm, p, a)
  BY <1>2, <1>5 DEF Sound
<1> QED
  BY <1>1, <1>7

(* It frees the memory of that thread. *)
LEMMA FreedSound ==
  ASSUME NEW s, NEW tm, NEW p \in [Threads -> PC],
         NEW a \in [Threads -> Threads \cup {None}], Sound(s, tm, p, a),
         p[Idle] = "free", s.current = Idle
  PROVE  Sound(WithStat(s, a[Idle], "none"), tm, Updated(p, Idle, "run"), Updated(a, Idle, None))
<1>0. Consistent(s) /\ Idle \in Threads /\ s.stat \in [Threads -> Stats]
  <2>1. Consistent(s) /\ Idle \in Threads
    BY SchedulerAssumption DEF Sound
  <2> QED
    BY <2>1 DEF Consistent, KState
<1>1. PICK t, r, q, an : /\ t = a[Idle] /\ r = WithStat(s, t, "none")
                         /\ q = Updated(p, Idle, "run") /\ an = Updated(a, Idle, None)
  OBVIOUS
<1>2. /\ t \in Threads \ Static /\ s.stat[t] = "close" /\ ~Linked(s, t)
  BY <1>0, <1>1 DEF Sound, FreeHolds
<1>3. s.stat[Idle] = "running"
  BY DEF Sound, CurrentRuns
<1>4. /\ Consistent(r) /\ ~Linked(r, t)
      /\ r.stat = [s.stat EXCEPT ![t] = "none"] /\ r.prio = s.prio /\ r.current = s.current
      /\ r.lock_nest = s.lock_nest /\ r.broken = s.broken /\ r.table = s.table
      /\ r.group = s.group /\ r.waiting = s.waiting /\ r.defunct = s.defunct
  <2>1. "none" \in Stats /\ t \in Threads
    BY <1>2 DEF Stats
  <2> QED
    BY <1>0, <1>1, <1>2, <2>1, StatConsistent
<1>5. r.stat[t] = "none" /\ \A u \in Threads : u # t => r.stat[u] = s.stat[u]
  BY <1>0, <1>2, <1>4
<1>6. \A u : InTable(r, u) <=> InTable(s, u)
  BY <1>4 DEF InTable
<1>7. q[Idle] = "run" /\ \A u \in Threads : u # Idle => q[u] = p[u] /\ an[u] = a[u]
  BY <1>0, <1>1 DEF Updated
<1>8. ReadyInTable(r, q, an)
  <2>1. ASSUME NEW u \in Threads, r.stat[u] = "ready", ~InTable(r, u)
        PROVE  \E v \in Threads : an[v] = u /\ q[v] \in {"detach", "close"}
    <3>1. s.stat[u] = "ready" /\ ~InTable(s, u)
      BY <1>2, <1>5, <1>6, <2>1
    <3>2. PICK v \in Threads : a[v] = u /\ p[v] \in {"detach", "close"}
      BY <3>1 DEF Sound, ReadyInTable
    <3> QED
      BY <1>7, <3>2
  <2> QED
    BY <2>1 DEF ReadyInTable
<1>9. TimersOfSleepers(r, tm)
  BY <1>2, <1>5 DEF Sound, TimersOfSleepers
<1>10. CurrentRuns(r, q)
  BY <1>0, <1>2, <1>3, <1>4, <1>5 DEF Sound, CurrentRuns
<1>12. FreeHolds(r, q, an)
  BY <1>7 DEF Sound, FreeHolds
<1>13. Sound(r, tm, q, an)
  BY <1>4, <1>8, <1>9, <1>10, <1>12 DEF Sound
<1> QED
  BY <1>1, <1>13

-----------------------------------------------------------------------------
(* The types hold whatever overtakes a call: rt_schedule never takes the   *)
(* head of an empty queue, and every call knows the thread it is about.    *)
LEMMA UnlinkType ==
  ASSUME NEW S, NEW q \in Seq(S), NEW t
  PROVE  Unlink(q, t) \in Seq(S)
<1>0. Len(q) \in Nat /\ \A j \in 1..Len(q) : q[j] \in S
  BY ElementOfSeq, LenProperties
<1>1. CASE t \notin Elements(q)
  BY <1>1 DEF Unlink
<1>2. CASE t \in Elements(q)
  <2> DEFINE i == CHOOSE j \in 1..Len(q) : q[j] = t
             r == [j \in 1..(Len(q) - 1) |-> IF j < i THEN q[j] ELSE q[j + 1]]
  <2>1. i \in 1..Len(q)
    BY <1>2 DEF Elements
  <2>2. Unlink(q, t) = r
    BY <1>2 DEF Unlink
  <2> HIDE DEF i
  <2>3. \A j \in 1..(Len(q) - 1) : r[j] \in S
    BY <1>0, <2>1
  <2> QED
    BY <1>0, <2>1, <2>2, <2>3, IsASeq, LenProperties
<1> QED
  BY <1>1, <1>2

LEMMA UnlinkedType ==
  ASSUME NEW s \in KState, NEW t
  PROVE  LET u == Unlinked(s, t)
         IN  /\ u \in KState /\ u.current = s.current /\ u.lock_nest = s.lock_nest
             /\ u.prio = s.prio /\ u.stat = s.stat
<1>1. PICK u : u = Unlinked(s, t)
  OBVIOUS
<1>2. /\ u.table = [p \in Prios |-> Unlink(s.table[p], t)]
      /\ u.waiting = s.waiting \ {t} /\ u.defunct = Unlink(s.defunct, t)
      /\ u.stat = s.stat /\ u.prio = s.prio /\ u.group = s.group
      /\ u.current = s.current /\ u.lock_nest = s.lock_nest /\ u.broken = s.broken
      /\ u = AsRecord(u)
  <2>1. s = AsRecord(s)
    BY KStateFields
  <2> QED
    BY <1>1, <2>1 DEF KState, Unlinked, AsRecord
<1>3. \A p \in Prios : Unlink(s.table[p], t) \in Seq(Threads)
  <2>1. \A p \in Prios : s.table[p] \in Seq(Threads)
    BY DEF KState
  <2> QED
    BY <2>1, UnlinkType
<1>4. Unlink(s.defunct, t) \in Seq(Threads)
  <2>1. s.defunct \in Seq(Threads)
    BY DEF KState
  <2> QED
    BY <2>1, UnlinkType
<1>5. u \in KState
  BY <1>2, <1>3, <1>4 DEF KState, AsRecord
<1> QED
  BY <1>1, <1>2, <1>5

LEMMA InsertType ==
  ASSUME NEW s \in KState, NEW t \in Threads
  PROVE  LET r == Insert(s, t)
         IN  /\ r \in KState /\ r.current = s.current /\ r.lock_nest = s.lock_nest
             /\ r.prio = s.prio
<1>1. PICK r : r = Insert(s, t)
  OBVIOUS
<1>0. s = AsRecord(s)
  BY KStateFields
<1>2. CASE t = s.current
  <2>1. r = [s EXCEPT !.stat[t] = "running"]
    BY <1>1, <1>2 DEF Insert
  <2>2. /\ r.stat = [s.stat EXCEPT ![t] = "running"] /\ r.prio = s.prio
        /\ r.current = s.current /\ r.lock_nest = s.lock_nest
        /\ r.waiting = s.waiting /\ r.defunct = s.defunct
        /\ r.table = s.table /\ r.group = s.group /\ r.broken = s.broken
        /\ r = AsRecord(r)
    BY <1>0, <2>1 DEF KState, AsRecord
  <2>3. r.stat \in [Threads -> Stats]
    BY <2>2 DEF KState, Stats
  <2> QED
    BY <1>1, <2>2, <2>3 DEF KState, AsRecord
<1>3. CASE t # s.current
  <2> DEFINE q == s.prio[t]
  <2>1. r = [s EXCEPT !.stat[t] = "ready",
                      !.table[s.prio[t]] = Append(@, t),
                      !.group = @ \cup {s.prio[t]},
                      !.broken = @ \/ Linked(s, t)]
    BY <1>1, <1>3 DEF Insert
  <2>2. q \in Prios /\ s.table[q] \in Seq(Threads)
    BY DEF KState
  <2>3. Append(s.table[q], t) \in Seq(Threads)
    BY <2>2, AppendProperties
  <2>4. /\ r.stat = [s.stat EXCEPT ![t] = "ready"] /\ r.prio = s.prio
        /\ r.current = s.current /\ r.lock_nest = s.lock_nest
        /\ r.waiting = s.waiting /\ r.defunct = s.defunct
        /\ r.table = [s.table EXCEPT ![q] = Append(@, t)]
        /\ r.group = s.group \cup {q}
        /\ r = AsRecord(r)
    BY <1>0, <2>1 DEF KState, AsRecord
  <2>5. r.broken = (s.broken \/ Linked(s, t))
    BY <2>1 DEF KState
  <2>6. r.broken \in BOOLEAN
    BY <2>5
  <2>7. r.stat \in [Threads -> Stats] /\ r.table \in [Prios -> Seq(Threads)]
    BY <2>2, <2>3, <2>4 DEF KState, Stats
  <2>8. r.group \in SUBSET Prios
    BY <2>2, <2>4 DEF KState
  <2> HIDE DEF q
  <2> QED
    BY <1>1, <2>4, <2>6, <2>7, <2>8 DEF KState, AsRecord
<1> QED
  BY <1>2, <1>3

LEMMA RemoveType ==
  ASSUME NEW s \in KState, NEW t
  PROVE  LET r == Remove(s, t)
         IN  /\ r \in KState /\ r.current = s.current /\ r.lock_nest = s.lock_nest
             /\ r.prio = s.prio /\ r.stat = s.stat
<1>1. PICK r : r = Remove(s, t)
  OBVIOUS
<1>2. PICK u : u = Unlinked(s, t)
  OBVIOUS
<1>3. /\ u \in KState /\ u.current = s.current /\ u.lock_nest = s.lock_nest
      /\ u.prio = s.prio /\ u.stat = s.stat
  BY <1>2, UnlinkedType
<1>4. r = [u EXCEPT !.group = IF u.table[s.prio[t]] = << >> THEN @ \ {s.prio[t]} ELSE @]
  BY <1>1, <1>2 DEF Remove
<1>5. u = AsRecord(u)
  BY <1>3, KStateFields
<1>6. /\ r.stat = u.stat /\ r.prio = u.prio
      /\ r.current = u.current /\ r.lock_nest = u.lock_nest
      /\ r.waiting = u.waiting /\ r.defunct = u.defunct
      /\ r.table = u.table /\ r.broken = u.broken
      /\ r.group \in SUBSET u.group
      /\ r = AsRecord(r)
  BY <1>3, <1>4, <1>5 DEF KState, AsRecord
<1>7. r \in KState
  BY <1>3, <1>6 DEF KState, AsRecord
<1> QED
  BY <1>1, <1>3, <1>6, <1>7

(* What may be assigned to the fields. *)
LEMMA FieldTypes ==
  ASSUME NEW s \in KState
  PROVE  /\ \A t : \A x \in Stats : LET r == WithStat(s, t, x)
                                    IN  /\ r \in KState /\ r.current = s.current
                                        /\ r.lock_nest = s.lock_nest
         /\ \A t : \A p \in Prios : LET r == WithPrio(s, t, p)
                                    IN  /\ r \in KState /\ r.current = s.current
                                        /\ r.lock_nest = s.lock_nest
         /\ \A t \in Threads : LET r == WithCurrent(s, t)
                               IN  r \in KState /\ r.current = t /\ r.lock_nest = s.lock_nest
<1>0. s = AsRecord(s)
  BY KStateFields
<1>1. ASSUME NEW t, NEW x \in Stats, NEW r, r = WithStat(s, t, x)
      PROVE  r \in KState /\ r.current = s.current /\ r.lock_nest = s.lock_nest
  <2>1. /\ r.stat = [s.stat EXCEPT ![t] = x] /\ r.prio = s.prio
        /\ r.current = s.current /\ r.lock_nest = s.lock_nest
        /\ r.waiting = s.waiting /\ r.defunct = s.defunct
        /\ r.table = s.table /\ r.group = s.group /\ r.broken = s.broken
        /\ r = AsRecord(r)
    BY <1>0, <1>1 DEF KState, AsRecord, WithStat
  <2>2. r.stat \in [Threads -> Stats]
    BY <2>1 DEF KState
  <2> QED
    BY <2>1, <2>2 DEF KState, AsRecord
<1>2. ASSUME NEW t, NEW p \in Prios, NEW r, r = WithPrio(s, t, p)
      PROVE  r \in KState /\ r.current = s.current /\ r.lock_nest = s.lock_nest
  <2>1. /\ r.prio = [s.prio EXCEPT ![t] = p] /\ r.stat = s.stat
        /\ r.current = s.current /\ r.lock_nest = s.lock_nest
        /\ r.waiting = s.waiting /\ r.defunct = s.defunct
        /\ r.table = s.table /\ r.group = s.group /\ r.broken = s.broken
        /\ r = AsRecord(r)
    BY <1>0, <1>2 DEF KState, AsRecord, WithPrio
  <2>2. r.prio \in [Threads -> Prios]
    BY <2>1 DEF KState
  <2> QED
    BY <2>1, <2>2 DEF KState, AsRecord
<1>3. ASSUME NEW t \in Threads, NEW r, r = WithCurrent(s, t)
      PROVE  r \in KState /\ r.current = t /\ r.lock_nest = s.lock_nest
  <2>1. /\ r.prio = s.prio /\ r.stat = s.stat
        /\ r.current = t /\ r.lock_nest = s.lock_nest
        /\ r.waiting = s.waiting /\ r.defunct = s.defunct
        /\ r.table = s.table /\ r.group = s.group /\ r.broken = s.broken
        /\ r = AsRecord(r)
    BY <1>0, <1>3 DEF KState, AsRecord, WithCurrent
  <2> QED
    BY <2>1 DEF KState, AsRecord
<1> QED
  BY <1>1, <1>2, <1>3

LEMMA ScheduleType ==
  ASSUME NEW s \in KState
  PROVE  LET r == Schedule(s)
         IN  /\ r \in KState /\ r.lock_nest = s.lock_nest
             /\ s.lock_nest # 0 => r.current = s.current
<1>1. PICK r : r = Schedule(s)
  OBVIOUS
<1>2. CASE s.lock_nest # 0 \/ s.group = {}
  BY <1>1, <1>2 DEF Schedule
<1>3. CASE s.lock_nest = 0 /\ s.group # {}
  <2> DEFINE hp == HighestReady(s)
             goesOn == s.stat[s.current] = "running"
             to == IF goesOn /\ s.prio[s.current] < hp THEN s.current ELSE Head(s.table[hp])
             moved == WithCurrent(s, to)
             left == IF to # s.current /\ goesOn THEN Insert(moved, s.current) ELSE moved
  <2>1. CASE s.table[hp] = << >>
    <3>1. r = [s EXCEPT !.broken = TRUE]
      BY <1>1, <1>3, <2>1 DEF Schedule
    <3>2. s = AsRecord(s)
      BY KStateFields
    <3>3. /\ r.prio = s.prio /\ r.stat = s.stat
          /\ r.current = s.current /\ r.lock_nest = s.lock_nest
          /\ r.waiting = s.waiting /\ r.defunct = s.defunct
          /\ r.table = s.table /\ r.group = s.group /\ r.broken = TRUE
          /\ r = AsRecord(r)
      BY <3>1, <3>2 DEF KState, AsRecord
    <3> QED
      BY <1>1, <3>3 DEF KState, AsRecord
  <2>2. CASE s.table[hp] # << >>
    <3>1. r = WithStat(Remove(left, to), to, "running")
      BY <1>1, <1>3, <2>2 DEF Schedule, WithCurrent, WithStat
    <3>2. hp \in Prios
      <4>1. s.group \subseteq Prios /\ Prios \subseteq Nat
        BY PriosAreNaturals DEF KState
      <4>2. PICK p \in s.group : \A q \in s.group : p <= q
        BY <1>3, <4>1, LeastNatural
      <4> QED
        BY <4>1, <4>2 DEF HighestReady
    <3>3. Head(s.table[hp]) \in Threads /\ s.current \in Threads
      <4>1. s.table[hp] \in Seq(Threads)
        BY <3>2 DEF KState
      <4> HIDE DEF hp
      <4>2. Head(s.table[hp]) \in Threads
        BY <2>2, <4>1, HeadTailProperties
      <4> QED
        BY <4>2 DEF KState
    <3>4. to \in Threads
      BY <3>3
    <3> HIDE DEF to, goesOn, hp
    <3>5. moved \in KState /\ moved.lock_nest = s.lock_nest
      BY <3>4, FieldTypes
    <3> HIDE DEF moved
    <3>6. left \in KState /\ left.lock_nest = s.lock_nest
      BY <3>3, <3>5, InsertType
    <3> HIDE DEF left
    <3>7. Remove(left, to) \in KState /\ Remove(left, to).lock_nest = s.lock_nest
      BY <3>6, RemoveType
    <3>8. "running" \in Stats
      BY DEF Stats
    <3>9. r \in KState /\ r.lock_nest = s.lock_nest
      BY <3>1, <3>7, <3>8, FieldTypes
    <3> QED
      BY <1>1, <1>3, <3>9
  <2> QED
    BY <2>1, <2>2
<1> QED
  BY <1>2, <1>3 DEF KState

(* What a step does to the types, and to the processor of a locked thread. *)
Typed ==
  /\ k' \in KState /\ thread_timer' \in [Threads -> BOOLEAN]
  /\ remaining_tick' \in [Threads -> 1..InitTick]
  /\ pc' \in [Threads -> PC] /\ arg' \in [Threads -> Threads \cup {None}]
  /\ \A t \in Threads : pc'[t] \in Regions \cup {"free"} => arg'[t] \in Threads
  /\ k.lock_nest > 0 /\ k'.lock_nest > 0 => k'.current = k.current

TypesOfPcArg ==
  /\ pc' \in [Threads -> PC] /\ arg' \in [Threads -> Threads \cup {None}]
  /\ \A t \in Threads : pc'[t] \in Regions \cup {"free"} => arg'[t] \in Threads

LEMMA TypeFacts ==
  ASSUME TypeOK
  PROVE  /\ k \in KState /\ thread_timer \in [Threads -> BOOLEAN]
         /\ remaining_tick \in [Threads -> 1..InitTick]
         /\ pc \in [Threads -> PC] /\ arg \in [Threads -> Threads \cup {None}]
         /\ \A t \in Threads : pc[t] \in Regions \cup {"free"} => arg[t] \in Threads
         /\ k.current \in Threads /\ Cur = k.current /\ Idle \in Threads
         /\ k.lock_nest \in 0..MaxNest /\ MaxNest \in Nat
         /\ k.stat \in [Threads -> Stats] /\ k.prio \in [Threads -> Prios]
         /\ k.defunct \in Seq(Threads) /\ k.waiting \subseteq Threads
<1>1. k \in KState
  BY DEF TypeOK
<1>2. /\ k.current \in Threads /\ k.lock_nest \in 0..MaxNest
      /\ k.stat \in [Threads -> Stats] /\ k.prio \in [Threads -> Prios]
      /\ k.defunct \in Seq(Threads) /\ k.waiting \subseteq Threads
  BY <1>1 DEF KState
<1> QED
  BY <1>1, <1>2, SchedulerAssumption DEF TypeOK, Cur

LEMMA EnterType ==
  ASSUME TypeOK, NEW r \in PC, NEW t \in Threads \cup {None}, Enter(r, t),
         r \in Regions \cup {"free"} => t \in Threads
  PROVE  TypesOfPcArg
BY TypeFacts DEF Enter, TypesOfPcArg

LEMMA GoOnType ==
  ASSUME TypeOK, NEW r \in PC, pc' = [pc EXCEPT ![Cur] = r], arg' = arg,
         r \in Regions \cup {"free"} => pc[Cur] \in Regions
  PROVE  TypesOfPcArg
BY TypeFacts DEF TypesOfPcArg

LEMMA SameType ==
  ASSUME TypeOK, pc' = pc, arg' = arg
  PROVE  TypesOfPcArg
BY TypeFacts DEF TypesOfPcArg

LEMMA TimerType ==
  ASSUME TypeOK, NEW t, NEW b \in BOOLEAN, thread_timer' = [thread_timer EXCEPT ![t] = b]
  PROVE  thread_timer' \in [Threads -> BOOLEAN]
BY TypeFacts

(* A thread gives up the processor. *)
Leaving(m, t, x, w, d) == [m EXCEPT !.stat[t] = x, !.waiting = w, !.defunct = d]

LEMMA LeaveType ==
  ASSUME NEW m \in KState, NEW t, NEW x \in Stats,
         NEW w \in SUBSET Threads, NEW d \in Seq(Threads),
         NEW r, r = Leaving(m, t, x, w, d)
  PROVE  r \in KState /\ r.current = m.current /\ r.lock_nest = m.lock_nest
<1>1. m = AsRecord(m)
  BY KStateFields
<1>2. [m.stat EXCEPT ![t] = x] \in [Threads -> Stats]
  BY DEF KState
<1>3. /\ r.stat = [m.stat EXCEPT ![t] = x] /\ r.prio = m.prio
      /\ r.current = m.current /\ r.lock_nest = m.lock_nest
      /\ r.waiting = w /\ r.defunct = d
      /\ r.table = m.table /\ r.group = m.group /\ r.broken = m.broken
      /\ r = AsRecord(r)
  BY <1>1 DEF KState, AsRecord, Leaving
<1> QED
  BY <1>2, <1>3 DEF KState, AsRecord

(* rt_thread_resume, and the rt_schedule that follows it in an interrupt.  *)
LEMMA WakeType ==
  ASSUME NEW s \in KState, NEW t \in Threads
  PROVE  LET m == Insert(Unlinked(s, t), t)
         IN  /\ m \in KState /\ m.current = s.current /\ m.lock_nest = s.lock_nest
             /\ Schedule(m) \in KState /\ Schedule(m).lock_nest = s.lock_nest
             /\ s.lock_nest # 0 => Schedule(m).current = s.current
<1>1. PICK u : u = Unlinked(s, t)
  OBVIOUS
<1>2. u \in KState /\ u.current = s.current /\ u.lock_nest = s.lock_nest
  BY <1>1, UnlinkedType
<1>3. PICK m : m = Insert(u, t)
  OBVIOUS
<1>4. m \in KState /\ m.current = s.current /\ m.lock_nest = s.lock_nest
  BY <1>2, <1>3, InsertType
<1>5. /\ Schedule(m) \in KState /\ Schedule(m).lock_nest = s.lock_nest
      /\ s.lock_nest # 0 => Schedule(m).current = s.current
  BY <1>4, ScheduleType
<1> QED
  BY <1>1, <1>3, <1>4, <1>5

LEMMA InterruptType ==
  ASSUME TypeOK, Interrupt
  PROVE  Typed
<1>1. CASE Tick
  <2>1. PICK left : left = remaining_tick[Cur] - 1
    OBVIOUS
  <2>2. /\ remaining_tick' = [remaining_tick EXCEPT ![Cur] = IF left = 0 THEN InitTick ELSE left]
        /\ k' = (IF left = 0 THEN Schedule(k) ELSE k)
        /\ thread_timer' = thread_timer /\ pc' = pc /\ arg' = arg
    BY <1>1, <2>1 DEF Tick
  <2>3. (IF left = 0 THEN InitTick ELSE left) \in 1..InitTick
    <3>1. InitTick \in Nat \ {0} /\ remaining_tick[Cur] \in 1..InitTick
      BY TypeFacts, SchedulerAssumption
    <3> QED
      BY <2>1, <3>1
  <2>4. remaining_tick' \in [Threads -> 1..InitTick]
    BY <2>2, <2>3, TypeFacts
  <2>5. k' \in KState /\ (k.lock_nest # 0 => k'.current = k.current)
    BY <2>2, TypeFacts, ScheduleType
  <2> QED
    BY <2>2, <2>4, <2>5, SameType, TypeFacts DEF Typed, TypesOfPcArg
<1>2. ASSUME NEW t \in Threads, Timeout(t) \/ IrqWake(t) PROVE Typed
  <2>1. /\ thread_timer' = [thread_timer EXCEPT ![t] = FALSE]
        /\ k' = Schedule(Insert(Unlinked(k, t), t))
        /\ UNCHANGED <<remaining_tick, pc, arg>>
    BY <1>2 DEF Timeout, IrqWake
  <2>2. k' \in KState /\ (k.lock_nest # 0 => k'.current = k.current)
    BY <2>1, TypeFacts, WakeType
  <2> QED
    BY <2>1, <2>2, SameType, TimerType, TypeFacts DEF Typed, TypesOfPcArg
<1> QED
  BY <1>1, <1>2 DEF Interrupt

LEMMA ThreadStepType ==
  ASSUME TypeOK, ThreadStep
  PROVE  Typed
<1>0. /\ {"run", "schedule", "suspend", "resume", "insert", "detach", "close", "defunct", "free"}
           = PC
      /\ Regions = {"suspend", "resume", "insert", "detach", "close", "defunct"}
      /\ {"init", "suspend", "close", "none"} \subseteq Stats
  BY DEF PC, Regions, Stats
<1>1. CASE DoSchedule
  <2>1. /\ k' = Schedule(k) /\ pc' = [pc EXCEPT ![Cur] = "run"]
        /\ UNCHANGED <<thread_timer, remaining_tick, arg>>
    BY <1>1 DEF DoSchedule
  <2>2. k' \in KState /\ (k.lock_nest # 0 => k'.current = k.current)
    BY <2>1, TypeFacts, ScheduleType
  <2>3. TypesOfPcArg
    BY <1>0, <2>1, GoOnType
  <2> QED
    BY <2>1, <2>2, <2>3, TypeFacts DEF Typed, TypesOfPcArg
<1>2. CASE Exit
  <2>1. /\ k' = [Remove(k, Cur) EXCEPT !.stat[Cur] = "close",
                                       !.defunct = IF Cur \in Static THEN @ ELSE <<Cur>> \o @]
        /\ thread_timer' = [thread_timer EXCEPT ![Cur] = FALSE]
        /\ Enter("schedule", None) /\ remaining_tick' = remaining_tick
    BY <1>2 DEF Exit
  <2>2. k' \in KState /\ k'.current = k.current
    <3>1. PICK m, d : /\ m = Remove(k, Cur)
                      /\ d = IF Cur \in Static THEN m.defunct ELSE <<Cur>> \o m.defunct
      OBVIOUS
    <3>2. m \in KState /\ m.current = k.current /\ m = AsRecord(m)
      BY <3>1, TypeFacts, RemoveType, KStateFields
    <3>3. m.defunct \in Seq(Threads) /\ m.waiting \in SUBSET Threads /\ "close" \in Stats
      BY <1>0, <3>2 DEF KState
    <3>4. d \in Seq(Threads)
      <4>1. <<Cur>> \in Seq(Threads)
        BY TypeFacts
      <4> QED
        BY <3>1, <3>3, <4>1, ConcatProperties
    <3>5. k' = Leaving(m, Cur, "close", m.waiting, d)
      BY <2>1, <3>1, <3>2 DEF AsRecord, Leaving
    <3> QED
      BY <3>2, <3>3, <3>4, <3>5, LeaveType
  <2>3. TypesOfPcArg
    BY <1>0, <2>1, EnterType
  <2> QED
    BY <2>1, <2>2, <2>3, TimerType, TypeFacts DEF Typed, TypesOfPcArg
<1>3. CASE EnterCritical
  <2>1. /\ k' = [k EXCEPT !.lock_nest = k.lock_nest + 1] /\ k.lock_nest < MaxNest
        /\ UNCHANGED <<thread_timer, remaining_tick, pc, arg>>
    BY <1>3 DEF EnterCritical
  <2>2. k.lock_nest + 1 \in 0..MaxNest
    BY <2>1, TypeFacts
  <2>3. k = AsRecord(k) /\ k \in KState
    BY TypeFacts, KStateFields
  <2>4. /\ k'.stat = k.stat /\ k'.prio = k.prio /\ k'.table = k.table /\ k'.group = k.group
        /\ k'.current = k.current /\ k'.lock_nest = k.lock_nest + 1 /\ k'.waiting = k.waiting
        /\ k'.defunct = k.defunct /\ k'.broken = k.broken /\ k' = AsRecord(k')
    BY <2>1, <2>3 DEF AsRecord, KState
  <2>5. k' \in KState
    BY <2>2, <2>3, <2>4 DEF AsRecord, KState
  <2> QED
    BY <2>1, <2>4, <2>5, SameType, TypeFacts DEF Typed, TypesOfPcArg
<1>4. CASE ExitCritical
  <2>0. PICK n : n = IF k.lock_nest <= 1 THEN 0 ELSE k.lock_nest - 1
    OBVIOUS
  <2>1. /\ k' = [k EXCEPT !.lock_nest = n]
        /\ UNCHANGED <<thread_timer, remaining_tick>>
        /\ Enter("schedule", None) \/ UNCHANGED <<pc, arg>>
    BY <1>4, <2>0 DEF ExitCritical
  <2>2. n \in 0..MaxNest
    BY <2>0, TypeFacts
  <2>3. k = AsRecord(k) /\ k \in KState
    BY TypeFacts, KStateFields
  <2>4. /\ k'.stat = k.stat /\ k'.prio = k.prio /\ k'.table = k.table /\ k'.group = k.group
        /\ k'.current = k.current /\ k'.lock_nest = n /\ k'.waiting = k.waiting
        /\ k'.defunct = k.defunct /\ k'.broken = k.broken /\ k' = AsRecord(k')
    BY <2>1, <2>3 DEF AsRecord, KState
  <2>5. k' \in KState
    BY <2>2, <2>3, <2>4 DEF AsRecord, KState
  <2>6. TypesOfPcArg
    BY <1>0, <2>1, SameType, EnterType
  <2> QED
    BY <2>1, <2>4, <2>5, <2>6, TypeFacts DEF Typed, TypesOfPcArg
<1>5. ASSUME NEW listed \in BOOLEAN, NEW timed \in BOOLEAN, Block(listed, timed) PROVE Typed
  <2>1. /\ k' = [Remove(k, Cur) EXCEPT !.stat[Cur] = "suspend",
                                       !.waiting = IF listed THEN @ \cup {Cur} ELSE @]
        /\ thread_timer' = [thread_timer EXCEPT ![Cur] = timed]
        /\ Enter("schedule", None) /\ remaining_tick' = remaining_tick
    BY <1>5 DEF Block
  <2>2. k' \in KState /\ k'.current = k.current
    <3>1. PICK m, w : /\ m = Remove(k, Cur)
                      /\ w = IF listed THEN m.waiting \cup {Cur} ELSE m.waiting
      OBVIOUS
    <3>2. m \in KState /\ m.current = k.current /\ m = AsRecord(m)
      BY <3>1, TypeFacts, RemoveType, KStateFields
    <3>3. m.defunct \in Seq(Threads) /\ w \in SUBSET Threads /\ "suspend" \in Stats
      BY <1>0, <3>1, <3>2, TypeFacts DEF KState
    <3>4. k' = Leaving(m, Cur, "suspend", w, m.defunct)
      BY <2>1, <3>1, <3>2 DEF AsRecord, Leaving
    <3> QED
      BY <3>2, <3>3, <3>4, LeaveType
  <2>3. TypesOfPcArg
    BY <1>0, <2>1, EnterType
  <2> QED
    BY <2>1, <2>2, <2>3, TimerType, TypeFacts DEF Typed, TypesOfPcArg
<1>6. ASSUME NEW t \in Threads, Wake(t) PROVE Typed
  <2>1. /\ k' = Insert(Unlinked(k, t), t)
        /\ thread_timer' = [thread_timer EXCEPT ![t] = FALSE]
        /\ Enter("schedule", None) /\ remaining_tick' = remaining_tick
    BY <1>6 DEF Wake
  <2>2. k' \in KState /\ k'.current = k.current
    BY <2>1, TypeFacts, WakeType
  <2>3. TypesOfPcArg
    BY <1>0, <2>1, EnterType
  <2> QED
    BY <2>1, <2>2, <2>3, TimerType, TypeFacts DEF Typed, TypesOfPcArg
<1>7. ASSUME NEW t \in Threads, Startup(t) PROVE Typed
  <2>1. /\ k' = WithStat(WithPrio(k, t, InitPrio[t]), t, "suspend")
        /\ Enter("resume", t) /\ UNCHANGED <<thread_timer, remaining_tick>>
    BY <1>7 DEF Startup, WithStat, WithPrio
  <2>2. k' \in KState /\ k'.current = k.current
    <3>1. PICK m : m = WithPrio(k, t, InitPrio[t])
      OBVIOUS
    <3>2. k \in KState /\ InitPrio[t] \in Prios /\ "suspend" \in Stats
      BY <1>0, TypeFacts, PriosAreNaturals
    <3>3. m \in KState /\ m.current = k.current
      BY <3>1, <3>2, FieldTypes
    <3> QED
      BY <2>1, <3>1, <3>2, <3>3, FieldTypes
  <2>3. TypesOfPcArg
    BY <1>0, <2>1, EnterType
  <2> QED
    BY <2>1, <2>2, <2>3, TypeFacts DEF Typed, TypesOfPcArg
<1>8. ASSUME NEW t \in Threads, Create(t) PROVE Typed
  <2>1. /\ k' = WithPrio(WithStat(k, t, "init"), t, InitPrio[t])
        /\ thread_timer' = [thread_timer EXCEPT ![t] = FALSE]
        /\ remaining_tick' = [remaining_tick EXCEPT ![t] = InitTick]
        /\ pc' = [pc EXCEPT ![t] = "run"] /\ arg' = [arg EXCEPT ![t] = None]
    BY <1>8 DEF Create, WithStat, WithPrio
  <2>2. k' \in KState /\ k'.current = k.current
    <3>1. PICK m : m = WithStat(k, t, "init")
      OBVIOUS
    <3>2. k \in KState /\ InitPrio[t] \in Prios /\ "init" \in Stats
      BY <1>0, TypeFacts, PriosAreNaturals
    <3>3. m \in KState /\ m.current = k.current
      BY <3>1, <3>2, FieldTypes
    <3> QED
      BY <2>1, <3>1, <3>2, <3>3, FieldTypes
  <2>3. TypesOfPcArg
    BY <1>0, <2>1, TypeFacts DEF TypesOfPcArg
  <2>4. remaining_tick' \in [Threads -> 1..InitTick]
    <3>1. InitTick \in 1..InitTick
      BY SchedulerAssumption
    <3> QED
      BY <2>1, <3>1, TypeFacts
  <2> QED
    BY <2>1, <2>2, <2>3, <2>4, TimerType DEF Typed, TypesOfPcArg
<1>9. ASSUME NEW t \in Threads, SuspendOther(t) \/ Resume(t) PROVE Typed
  <2>1. /\ Enter("suspend", t) \/ Enter("resume", t)
        /\ UNCHANGED <<k, thread_timer, remaining_tick>>
    BY <1>9 DEF SuspendOther, Resume
  <2>2. TypesOfPcArg
    BY <1>0, <2>1, EnterType
  <2> QED
    BY <2>1, <2>2, TypeFacts DEF Typed, TypesOfPcArg
<1>10. ASSUME NEW t \in Threads, Delete(t) PROVE Typed
  <2>1. /\ k' = (IF k.stat[t] = "init" THEN k ELSE Remove(k, t))
        /\ Enter("detach", t) /\ UNCHANGED <<thread_timer, remaining_tick>>
    BY <1>10 DEF Delete, Stat
  <2>2. k' \in KState /\ k'.current = k.current
    BY <2>1, TypeFacts, RemoveType
  <2>3. TypesOfPcArg
    BY <1>0, <2>1, EnterType
  <2> QED
    BY <2>1, <2>2, <2>3, TypeFacts DEF Typed, TypesOfPcArg
<1>11. ASSUME NEW t \in Threads, NEW p \in NewPrios, ChangePriority(t, p) PROVE Typed
  <2>1. /\ k' = (IF k.stat[t] = "ready" THEN Insert(WithPrio(Remove(k, t), t, p), t)
                 ELSE WithPrio(k, t, p))
        /\ UNCHANGED <<thread_timer, remaining_tick, pc, arg>>
    BY <1>11 DEF ChangePriority, Stat, WithPrio
  <2>2. k' \in KState /\ k'.current = k.current
    <3>1. PICK m, n : m = Remove(k, t) /\ n = WithPrio(m, t, p)
      OBVIOUS
    <3>2. m \in KState /\ m.current = k.current /\ p \in Prios
      BY <3>1, TypeFacts, RemoveType DEF Prios
    <3>3. n \in KState /\ n.current = k.current
      BY <3>1, <3>2, FieldTypes
    <3>4. Insert(n, t) \in KState /\ Insert(n, t).current = k.current
      BY <3>3, InsertType
    <3>5. WithPrio(k, t, p) \in KState /\ WithPrio(k, t, p).current = k.current
      BY <3>2, TypeFacts, FieldTypes
    <3> QED
      BY <2>1, <3>1, <3>4, <3>5
  <2> QED
    BY <2>1, <2>2, SameType, TypeFacts DEF Typed, TypesOfPcArg
<1>12. CASE SuspendRegion
  <2>1. /\ k' = WithStat(Remove(k, arg[Cur]), arg[Cur], "suspend")
        /\ thread_timer' = [thread_timer EXCEPT ![arg[Cur]] = FALSE]
        /\ Enter("run", None) /\ remaining_tick' = remaining_tick
    BY <1>12 DEF SuspendRegion, WithStat
  <2>2. k' \in KState /\ k'.current = k.current
    <3>1. PICK m : m = Remove(k, arg[Cur])
      OBVIOUS
    <3>2. m \in KState /\ m.current = k.current
      BY <3>1, TypeFacts, RemoveType
    <3> QED
      BY <1>0, <2>1, <3>1, <3>2, FieldTypes
  <2>3. TypesOfPcArg
    BY <1>0, <2>1, EnterType
  <2> QED
    BY <2>1, <2>2, <2>3, TimerType, TypeFacts DEF Typed, TypesOfPcArg
<1>13. CASE ResumeRegion
  <2>1. /\ k' = Unlinked(k, arg[Cur]) /\ pc[Cur] = "resume"
        /\ thread_timer' = [thread_timer EXCEPT ![arg[Cur]] = FALSE]
        /\ pc' = [pc EXCEPT ![Cur] = "insert"] /\ UNCHANGED <<remaining_tick, arg>>
    BY <1>13 DEF ResumeRegion
  <2>2. k' \in KState /\ k'.current = k.current
    BY <2>1, TypeFacts, UnlinkedType
  <2>3. TypesOfPcArg
    BY <1>0, <2>1, GoOnType
  <2> QED
    BY <2>1, <2>2, <2>3, TimerType, TypeFacts DEF Typed, TypesOfPcArg
<1>14. CASE ResumeInsert
  <2>1. /\ k' = Insert(k, arg[Cur]) /\ pc[Cur] = "insert"
        /\ Enter("schedule", None) /\ UNCHANGED <<thread_timer, remaining_tick>>
    BY <1>14 DEF ResumeInsert
  <2>2. k' \in KState /\ k'.current = k.current
    <3>1. arg[Cur] \in Threads
      BY <1>0, <2>1, TypeFacts
    <3> QED
      BY <2>1, <3>1, TypeFacts, InsertType
  <2>3. TypesOfPcArg
    BY <1>0, <2>1, EnterType
  <2> QED
    BY <2>1, <2>2, <2>3, TypeFacts DEF Typed, TypesOfPcArg
<1>15. CASE DeleteDetach
  <2>1. /\ k' = k /\ pc[Cur] = "detach"
        /\ thread_timer' = [thread_timer EXCEPT ![arg[Cur]] = FALSE]
        /\ pc' = [pc EXCEPT ![Cur] = "close"] /\ UNCHANGED <<remaining_tick, arg>>
    BY <1>15 DEF DeleteDetach
  <2>2. TypesOfPcArg
    BY <1>0, <2>1, GoOnType
  <2> QED
    BY <2>1, <2>2, TimerType, TypeFacts DEF Typed, TypesOfPcArg
<1>16. CASE DeleteClose
  <2>1. /\ k' = WithStat(k, arg[Cur], "close") /\ pc[Cur] = "close"
        /\ pc' = [pc EXCEPT ![Cur] = "defunct"]
        /\ UNCHANGED <<thread_timer, remaining_tick, arg>>
    BY <1>16 DEF DeleteClose, WithStat
  <2>2. k' \in KState /\ k'.current = k.current
    BY <1>0, <2>1, TypeFacts, FieldTypes
  <2>3. TypesOfPcArg
    BY <1>0, <2>1, GoOnType
  <2> QED
    BY <2>1, <2>2, <2>3, TypeFacts DEF Typed, TypesOfPcArg
<1>17. CASE DeleteDefunct
  <2>1. PICK t : t = arg[Cur]
    OBVIOUS
  <2>2. /\ k' = (IF t \in Static THEN k
                 ELSE [k EXCEPT !.defunct = <<t>> \o @, !.broken = @ \/ Linked(k, t)])
        /\ pc[Cur] = "defunct"
        /\ Enter("run", None) /\ UNCHANGED <<thread_timer, remaining_tick>>
    BY <1>17, <2>1 DEF DeleteDefunct
  <2>3. k' \in KState /\ k'.current = k.current
    <3>1. CASE t \in Static
      BY <2>2, <3>1, TypeFacts
    <3>2. CASE t \notin Static
      <4>1. t \in Threads
        BY <1>0, <2>1, <2>2, TypeFacts
      <4>2. k = AsRecord(k) /\ k \in KState
        BY TypeFacts, KStateFields
      <4>3. <<t>> \o k.defunct \in Seq(Threads)
        <5>1. k.defunct \in Seq(Threads) /\ <<t>> \in Seq(Threads)
          BY <4>1, TypeFacts
        <5> QED
          BY <5>1, ConcatProperties
      <4>4. /\ k'.stat = k.stat /\ k'.prio = k.prio /\ k'.table = k.table
            /\ k'.group = k.group /\ k'.current = k.current /\ k'.lock_nest = k.lock_nest
            /\ k'.waiting = k.waiting /\ k'.defunct = <<t>> \o k.defunct /\ k' = AsRecord(k')
        BY <2>2, <3>2, <4>2 DEF AsRecord, KState
      <4>5. k'.broken = (k.broken \/ Linked(k, t))
        BY <2>2, <3>2, <4>2 DEF KState
      <4>6. k'.broken \in BOOLEAN
        BY <4>5
      <4> QED
        BY <4>2, <4>3, <4>4, <4>6 DEF AsRecord, KState
    <3> QED
      BY <3>1, <3>2
  <2>4. TypesOfPcArg
    BY <1>0, <2>2, EnterType
  <2> QED
    BY <2>2, <2>3, <2>4, TypeFacts DEF Typed, TypesOfPcArg
<1>18. CASE IdleTakes
  <2>1. /\ k' = Schedule([k EXCEPT !.defunct = Tail(@)]) /\ k.defunct # << >>
        /\ Enter("free", Head(k.defunct)) /\ UNCHANGED <<thread_timer, remaining_tick>>
    BY <1>18 DEF IdleTakes
  <2>2. k' \in KState /\ (k.lock_nest # 0 => k'.current = k.current)
    <3>1. PICK m : m = [k EXCEPT !.defunct = Tail(@)]
      OBVIOUS
    <3>2. k = AsRecord(k) /\ k \in KState /\ Tail(k.defunct) \in Seq(Threads)
      BY <2>1, TypeFacts, KStateFields, HeadTailProperties
    <3>3. /\ m.stat = k.stat /\ m.prio = k.prio /\ m.table = k.table
          /\ m.group = k.group /\ m.current = k.current /\ m.lock_nest = k.lock_nest
          /\ m.waiting = k.waiting /\ m.defunct = Tail(k.defunct) /\ m.broken = k.broken
          /\ m = AsRecord(m)
      BY <3>1, <3>2 DEF AsRecord, KState
    <3>4. m \in KState
      BY <3>2, <3>3 DEF AsRecord, KState
    <3> QED
      BY <2>1, <3>1, <3>3, <3>4, ScheduleType
  <2>3. TypesOfPcArg
    <3>1. Head(k.defunct) \in Threads
      BY <2>1, TypeFacts, HeadTailProperties
    <3> QED
      BY <1>0, <2>1, <3>1, EnterType
  <2> QED
    BY <2>1, <2>2, <2>3, TypeFacts DEF Typed, TypesOfPcArg
<1>19. CASE IdleFrees
  <2>1. /\ k' = WithStat(k, arg[Idle], "none")
        /\ Enter("run", None) /\ UNCHANGED <<thread_timer, remaining_tick>>
    BY <1>19 DEF IdleFrees, WithStat
  <2>2. k' \in KState /\ k'.current = k.current
    BY <1>0, <2>1, TypeFacts, FieldTypes
  <2>3. TypesOfPcArg
    BY <1>0, <2>1, EnterType
  <2> QED
    BY <2>1, <2>2, <2>3, TypeFacts DEF Typed, TypesOfPcArg
<1> QED
  BY <1>1, <1>2, <1>3, <1>4, <1>5, <1>6, <1>7, <1>8, <1>9, <1>10, <1>11, <1>12, <1>13,
     <1>14, <1>15, <1>16, <1>17, <1>18, <1>19 DEF ThreadStep
-----------------------------------------------------------------------------
(* The steps of the specification.                                         *)

(* What a step keeps of the invariant, but for the calls it leaves alone,  *)
(* and for HighestIsCurrent, which a change of priority does not keep.     *)
Begins ==
  \A u \in Threads : pc'[u] \in Regions /\ pc'[u] # pc[u] => GoesOn(k', thread_timer', pc', arg', u)

StepSound == Sound(k', thread_timer', pc', arg') /\ Begins

HighestKept == HighestIsCurrent => HighestIsCurrent'

LEMMA InvFacts ==
  ASSUME Inv, ~overtaken
  PROVE  /\ Sound(k, thread_timer, pc, arg) /\ RegionsHold(k, thread_timer, pc, arg)
         /\ IdleKept(pc, arg) /\ Consistent(k) /\ k \in KState
         /\ k.stat \in [Threads -> Stats] /\ k.prio \in [Threads -> Prios]
         /\ k.current \in Threads /\ Cur = k.current /\ k.lock_nest \in 0..MaxNest
         /\ Idle \in Threads /\ thread_timer \in [Threads -> BOOLEAN]
         /\ pc \in [Threads -> PC] /\ arg \in [Threads -> Threads \cup {None}]
         /\ pc[k.current] # "schedule" => k.stat[k.current] = "running"
<1>1. Sound(k, thread_timer, pc, arg) /\ RegionsHold(k, thread_timer, pc, arg) /\ TypeOK
  BY DEF Inv
<1>2. IdleKept(pc, arg)
  BY <1>1 DEF IdleKept, RegionsHold, Regions, GoesOn, Established
<1>3. Consistent(k) /\ CurrentRuns(k, pc)
  BY <1>1 DEF Sound
<1> QED
  BY <1>1, <1>2, <1>3, TypeFacts DEF CurrentRuns

(* What the next region of the current thread's call can count on.         *)
LEMMA RegionFacts ==
  ASSUME Inv, ~overtaken, NEW c, c = k.current, pc[c] \in Regions, NEW t, t = arg[c]
  PROVE  /\ t \in Threads \ {Idle, c} /\ k.stat[c] = "running"
         /\ Established(k, thread_timer, pc[c], t)
         /\ pc[c] = "defunct" /\ pc[Idle] = "free" => t # arg[Idle]
         /\ CurrentRuns(k, pc) /\ TimersOfSleepers(k, thread_timer)
<1>1. c \in Threads /\ pc[c] # "schedule"
  BY InvFacts DEF Regions
<1>2. GoesOn(k, thread_timer, pc, arg, c)
  BY <1>1, InvFacts DEF RegionsHold
<1> QED
  BY <1>1, <1>2, InvFacts DEF GoesOn, Established, Sound

(* A step that enters no region begins nothing; one that does has to       *)
(* establish what the region counts on.                                    *)
LEMMA BeginsNone ==
  ASSUME Inv, NEW c, NEW q, q \notin Regions, pc' = Updated(pc, c, q)
  PROVE  Begins
BY TypeFacts DEF Begins, Updated, Inv

LEMMA BeginsOne ==
  ASSUME Inv, NEW c, NEW q, pc' = Updated(pc, c, q), GoesOn(k', thread_timer', pc', arg', c)
  PROVE  Begins
BY TypeFacts DEF Begins, Updated, Inv

LEMMA NotRegions == {"run", "schedule", "free"} \subseteq PC \ Regions
BY DEF PC, Regions

(* HighestIsCurrent survives a step that brings no thread into the table.  *)
LEMMA HighestStays ==
  ASSUME Inv, ~overtaken, CurrentRuns(k', pc'), pc[k.current] # "schedule",
         k'.current = k.current, k'.lock_nest = 0 => k.lock_nest = 0,
         k'.prio[k.current] = k.prio[k.current],
         \A t \in Threads : InTable(k', t) => InTable(k, t) /\ k'.prio[t] = k.prio[t]
  PROVE  HighestKept
BY InvFacts DEF HighestKept, HighestIsCurrent, Cur, Stat, CurrentRuns

(* It holds after an rt_schedule, which is an interrupt's or ends a call.  *)
LEMMA HighestAfterSchedule ==
  ASSUME NEW s, Scheduled(s, k'), k'.stat[k'.current] = "running"
  PROVE  HighestIsCurrent'
BY DEF HighestIsCurrent, Cur, Stat, Scheduled

(* It need not hold while an rt_schedule is pending. *)
LEMMA HighestPending ==
  ASSUME pc'[k'.current] = "schedule"
  PROVE  HighestIsCurrent'
BY DEF HighestIsCurrent, Cur

LEMMA DoScheduleStep ==
  ASSUME Inv, ~overtaken, DoSchedule
  PROVE  StepSound /\ HighestKept
<1>1. /\ Sound(k, thread_timer, pc, arg) /\ IdleKept(pc, arg) /\ k.current \in Threads
      /\ pc \in [Threads -> PC]
  BY InvFacts
<1>2. /\ k' = Schedule(k) /\ pc' = Updated(pc, k.current, "run")
      /\ thread_timer' = thread_timer /\ arg' = arg
      /\ pc[k.current] \in {"run", "schedule"}
  BY DEF DoSchedule, Cur, Updated
<1>3. Sound(k', thread_timer, pc, arg)
  BY <1>1, <1>2, ScheduleSound
<1>4. Scheduled(k, k') /\ k'.stat[k'.current] = "running"
  BY <1>1, <1>2, ScheduleRuns
<1>5. \A u \in Threads :
        pc'[u] \in {"free", "detach", "close"} <=> pc[u] \in {"free", "detach", "close"}
  BY <1>1, <1>2 DEF Updated
<1>6. \A u \in Threads : pc[u] \in {"free", "detach", "close"} => pc'[u] = pc[u]
  BY <1>1, <1>2 DEF Updated
<1>7. ReadyInTable(k', pc', arg)
  BY <1>3, <1>6 DEF Sound, ReadyInTable
<1>8. CurrentRuns(k', pc')
  BY <1>3, <1>4 DEF Sound, CurrentRuns
<1>9. FreeHolds(k', pc', arg)
  BY <1>3, <1>5, <1>6 DEF Sound, FreeHolds
<1>10. Sound(k', thread_timer', pc', arg')
  BY <1>2, <1>3, <1>7, <1>8, <1>9 DEF Sound
<1> QED
  BY <1>2, <1>4, <1>10, HighestAfterSchedule, BeginsNone, NotRegions DEF StepSound, HighestKept

LEMMA BlockStep ==
  ASSUME Inv, ~overtaken, NEW listed \in BOOLEAN, NEW timed \in BOOLEAN, Block(listed, timed)
  PROVE  StepSound /\ HighestKept
<1>1. PICK c : c = k.current
  OBVIOUS
<1>2. /\ Sound(k, thread_timer, pc, arg) /\ Consistent(k) /\ c \in Threads
      /\ thread_timer \in [Threads -> BOOLEAN]
      /\ pc \in [Threads -> PC] /\ arg \in [Threads -> Threads \cup {None}]
  BY <1>1, InvFacts
<1>3. /\ c # Idle /\ k.stat[c] = "running" /\ pc[c] = "run" /\ k.lock_nest = 0
     
  BY <1>1 DEF Block, MayBlock, MayCall, Cur, Stat
<1>4. /\ thread_timer' = Updated(thread_timer, c, timed)
      /\ pc' = Updated(pc, c, "schedule") /\ arg' = Updated(arg, c, None)
  BY <1>1 DEF Block, Enter, Cur, Updated
<1>5. k' = [Remove(k, c) EXCEPT !.stat[c] = "suspend",
                                !.waiting = IF listed THEN @ \cup {c} ELSE @]
  BY <1>1 DEF Block, Cur
<1>6. PICK m, n : m = Remove(k, c) /\ n = WithStat(m, c, "suspend")
  OBVIOUS
<1>9. /\ Consistent(n) /\ ~Linked(n, c)
      /\ n.stat = [k.stat EXCEPT ![c] = "suspend"] /\ n.prio = k.prio /\ n.current = k.current
      /\ n.lock_nest = k.lock_nest /\ n.broken = k.broken
      /\ \A u \in Threads : InTable(n, u) <=> InTable(k, u) /\ u # c
      /\ \A u \in Threads : ~Linked(k, u) => ~Linked(n, u)
  <2>1. "suspend" \in Stats
    BY DEF Stats
  <2> QED
    BY <1>2, <1>6, <2>1, TakenOut
<1>10. /\ Consistent(k')
       /\ k'.stat = n.stat /\ k'.prio = n.prio /\ k'.current = n.current
       /\ k'.lock_nest = n.lock_nest /\ k'.broken = n.broken /\ k'.table = n.table
       /\ k'.waiting \subseteq n.waiting \cup {c} /\ k'.defunct = n.defunct
  <2>1. CASE listed
    <3>1. k' = WithWaiting(n, c)
      BY <1>5, <1>6, <2>1 DEF WithStat, WithWaiting
    <3>2. n.stat[c] = "suspend"
      BY <1>2, <1>9 DEF Consistent, KState
    <3>3. Consistent(k')
      BY <1>2, <1>9, <3>1, <3>2, WaitingConsistent
    <3>4. /\ k'.stat = n.stat /\ k'.prio = n.prio /\ k'.current = n.current
          /\ k'.lock_nest = n.lock_nest /\ k'.broken = n.broken /\ k'.table = n.table
          /\ k'.waiting = n.waiting \cup {c} /\ k'.defunct = n.defunct
      BY <1>9, <3>1 DEF WithWaiting, Consistent, KState
    <3> QED
      BY <3>3, <3>4
  <2>2. CASE ~listed
    <3>1. k' = n
      <4>1. m = AsRecord(m)
        <5>1. Consistent(m)
          BY <1>2, <1>6, RemoveConsistent
        <5> QED
          BY <5>1, KStateFields DEF Consistent
      <4>2. n = AsRecord(n)
        BY <1>9, KStateFields DEF Consistent
      <4> QED
        BY <1>5, <1>6, <2>2, <4>1, <4>2 DEF WithStat, AsRecord
    <3> QED
      BY <1>9, <3>1
  <2> QED
    BY <2>1, <2>2
<1>11. /\ k'.stat = [k.stat EXCEPT ![c] = "suspend"] /\ k'.prio = k.prio
       /\ k'.current = c /\ k'.lock_nest = k.lock_nest /\ k'.broken = k.broken
  BY <1>1, <1>9, <1>10
<1>12. \A u \in Threads : InTable(k', u) <=> InTable(k, u) /\ u # c
  BY <1>9, <1>10 DEF InTable
<1>13. \A u \in Threads : u # c /\ ~Linked(k, u) => ~Linked(k', u)
  <2>1. \A u \in Threads : u # c /\ ~Linked(n, u) => ~Linked(k', u)
    BY <1>10 DEF Linked, InDefunct, InTable
  <2> QED
    BY <1>9, <2>1
<1>14. Sound(k', thread_timer', pc', arg')
  BY <1>1, <1>2, <1>3, <1>4, <1>10, <1>11, <1>12, <1>13, LeaveSound
<1>15. pc'[k'.current] = "schedule"
  BY <1>2, <1>4, <1>11 DEF Updated
<1> QED
  BY <1>4, <1>14, <1>15, BeginsNone, NotRegions, HighestPending DEF StepSound, HighestKept

LEMMA WakeStep ==
  ASSUME Inv, ~overtaken, NEW t \in Threads, Wake(t)
  PROVE  StepSound /\ HighestKept
<1>1. /\ Sound(k, thread_timer, pc, arg) /\ Consistent(k) /\ k.current \in Threads
      /\ thread_timer \in [Threads -> BOOLEAN]
      /\ pc \in [Threads -> PC] /\ arg \in [Threads -> Threads \cup {None}]
  BY InvFacts
<1>2. PICK c : c = k.current
  OBVIOUS
<1>3. /\ k.stat[t] = "suspend" /\ pc[c] = "run"
      /\ k' = Insert(Unlinked(k, t), t)
      /\ thread_timer' = Updated(thread_timer, t, FALSE)
      /\ pc' = Updated(pc, c, "schedule") /\ arg' = Updated(arg, c, None)
  BY <1>2 DEF Wake, Sleeps, MayCall, Enter, Cur, Stat, Updated
<1>4. k.stat[c] = "running"
  BY <1>2, <1>3, InvFacts
<1>5. Sound(k', thread_timer', pc, arg)
  BY <1>1, <1>3, <1>4, WakeSound
<1>6. /\ k'.prio = k.prio /\ k'.current = k.current /\ k'.lock_nest = k.lock_nest
      /\ k.stat[k.current] = "running" => k'.stat[k.current] = "running"
  BY <1>1, <1>3, WakeKeeps
<1>7. Sound(k', thread_timer', pc', arg')
  <2>1. "schedule" \in PC \ {"free"}
    BY DEF PC
  <2> QED
    BY <1>1, <1>2, <1>3, <1>5, <2>1, PcSound
<1>8. pc'[k'.current] = "schedule"
  BY <1>1, <1>2, <1>3, <1>6 DEF Updated
<1> QED
  BY <1>3, <1>7, <1>8, BeginsNone, NotRegions, HighestPending DEF StepSound, HighestKept

LEMMA StartupStep ==
  ASSUME Inv, ~overtaken, NEW t \in Threads, Startup(t)
  PROVE  StepSound /\ HighestKept
<1>1. /\ Sound(k, thread_timer, pc, arg) /\ Consistent(k) /\ k.current \in Threads
      /\ CurrentRuns(k, pc) /\ TimersOfSleepers(k, thread_timer) /\ FreeHolds(k, pc, arg)
      /\ ReadyInTable(k, pc, arg) /\ k.stat \in [Threads -> Stats]
      /\ k.prio \in [Threads -> Prios]
      /\ pc \in [Threads -> PC] /\ arg \in [Threads -> Threads \cup {None}]
  BY InvFacts DEF Sound
<1>2. PICK c, m : c = k.current /\ m = WithPrio(k, t, InitPrio[t])
  OBVIOUS
<1>3. /\ k.stat[t] = "init" /\ pc[c] = "run" /\ thread_timer' = thread_timer
      /\ k' = WithStat(m, t, "suspend")
      /\ pc' = Updated(pc, c, "resume") /\ arg' = Updated(arg, c, t)
  BY <1>2 DEF Startup, Enter, Cur, Stat, Updated, WithPrio, WithStat
<1>4. k.stat[c] = "running" /\ t # c /\ t # Idle
  BY <1>1, <1>2, <1>3, InvFacts DEF CurrentRuns
<1>5. ~Linked(k, t) /\ ~InTable(k, t) /\ InitPrio[t] \in Prios /\ "suspend" \in Stats
  BY <1>1, <1>3, LinkedStats, PriosAreNaturals DEF Linked, Stats
<1>6. /\ Consistent(m)
      /\ m.stat = k.stat /\ m.prio = [k.prio EXCEPT ![t] = InitPrio[t]] /\ m.current = c
      /\ m.lock_nest = k.lock_nest /\ m.broken = k.broken /\ m.table = k.table
      /\ m.waiting = k.waiting /\ m.defunct = k.defunct
  BY <1>1, <1>2, <1>5, PrioConsistent
<1>7. ~Linked(m, t)
  BY <1>5, <1>6 DEF Linked, InTable, InDefunct
<1>8. /\ Consistent(k')
      /\ k'.stat = [k.stat EXCEPT ![t] = "suspend"]
      /\ k'.prio = [k.prio EXCEPT ![t] = InitPrio[t]] /\ k'.current = c
      /\ k'.lock_nest = k.lock_nest /\ k'.broken = k.broken /\ k'.table = k.table
      /\ k'.waiting = k.waiting /\ k'.defunct = k.defunct
  BY <1>3, <1>5, <1>6, <1>7, StatConsistent
<1>9. k'.stat[t] = "suspend" /\ \A u \in Threads : u # t => k'.stat[u] = k.stat[u]
  BY <1>1, <1>8
<1>10. \A u \in Threads : (InTable(k', u) <=> InTable(k, u)) /\ (Linked(k', u) <=> Linked(k, u))
  <2>1. ASSUME NEW u \in Threads PROVE InTable(k', u) <=> InTable(k, u)
    BY <1>8 DEF InTable
  <2>2. ASSUME NEW u \in Threads PROVE Linked(k', u) <=> Linked(k, u)
    BY <1>8, <2>1 DEF Linked, InDefunct
  <2> QED
    BY <2>1, <2>2
<1>11. Sound(k', thread_timer, pc, arg)
  <2>1. ReadyInTable(k', pc, arg)
    BY <1>1, <1>9, <1>10 DEF ReadyInTable
  <2>2. TimersOfSleepers(k', thread_timer)
    BY <1>1, <1>9 DEF TimersOfSleepers
  <2>3. CurrentRuns(k', pc)
    BY <1>1, <1>2, <1>4, <1>8, <1>9, InvFacts DEF CurrentRuns
  <2>4. FreeHolds(k', pc, arg)
    <3>1. ASSUME NEW u \in Threads, pc[u] = "free"
          PROVE  /\ u = Idle /\ arg[u] \in Threads \ Static
                 /\ k'.stat[arg[u]] = "close" /\ ~Linked(k', arg[u])
      <4>1. /\ u = Idle /\ arg[u] \in Threads \ Static
            /\ k.stat[arg[u]] = "close" /\ ~Linked(k, arg[u])
        BY <1>1, <3>1 DEF FreeHolds
      <4> QED
        BY <1>3, <1>9, <1>10, <4>1
    <3> QED
      BY <3>1 DEF FreeHolds
  <2> QED
    BY <1>8, <2>1, <2>2, <2>3, <2>4, InvFacts DEF Sound
<1>12. "resume" \in PC \ {"free"}
  BY DEF PC
<1>13. Sound(k', thread_timer', pc', arg')
  BY <1>1, <1>2, <1>3, <1>4, <1>9, <1>11, <1>12, PcSound
<1>14. Begins
  <2>1. pc'[c] = "resume" /\ arg'[c] = t
    BY <1>1, <1>2, <1>3 DEF Updated
  <2>2. Established(k', thread_timer', "resume", t)
    BY <1>4, <1>9 DEF Established
  <2>3. GoesOn(k', thread_timer', pc', arg', c)
    BY <1>1, <1>2, <1>4, <1>9, <2>1, <2>2 DEF GoesOn
  <2> QED
    BY <1>3, <2>3, BeginsOne
<1>15. HighestKept
  <2>1. \A u \in Threads : InTable(k', u) => InTable(k, u) /\ k'.prio[u] = k.prio[u]
    <3>1. \A u \in Threads : u # t => k'.prio[u] = k.prio[u]
      BY <1>1, <1>8
    <3>2. ASSUME NEW u \in Threads, InTable(k', u) PROVE InTable(k, u) /\ k'.prio[u] = k.prio[u]
      <4>1. InTable(k, u)
        BY <1>10, <3>2
      <4>2. u # t
        BY <1>5, <4>1
      <4> QED
        BY <3>1, <4>1, <4>2
    <3> QED
      BY <3>2
  <2>2. CurrentRuns(k', pc') /\ k'.prio[c] = k.prio[c] /\ pc[c] # "schedule"
    BY <1>1, <1>2, <1>3, <1>4, <1>8, <1>13 DEF Sound
  <2> QED
    BY <1>2, <1>8, <2>1, <2>2, HighestStays
<1> QED
  BY <1>13, <1>14, <1>15 DEF StepSound

LEMMA CreateStep ==
  ASSUME Inv, ~overtaken, NEW t \in Threads, Create(t)
  PROVE  StepSound /\ HighestKept
<1>1. /\ Sound(k, thread_timer, pc, arg) /\ Consistent(k) /\ k.current \in Threads
      /\ RegionsHold(k, thread_timer, pc, arg)
      /\ k.stat \in [Threads -> Stats] /\ k.prio \in [Threads -> Prios]
      /\ thread_timer \in [Threads -> BOOLEAN]
      /\ pc \in [Threads -> PC] /\ arg \in [Threads -> Threads \cup {None}]
  BY InvFacts
<1>2. /\ pc[k.current] = "run"
      /\ k.stat[t] = "none" \/ (t \in Static /\ k.stat[t] = "close" /\ t # k.current)
      /\ thread_timer' = Updated(thread_timer, t, FALSE)
      /\ pc' = Updated(pc, t, "run") /\ arg' = Updated(arg, t, None)
  BY DEF Create, Cur, Stat, Updated
<1>3. k' = WithPrio(WithStat(k, t, "init"), t, InitPrio[t])
  BY DEF Create, WithPrio, WithStat
<1>4. pc[t] \notin Regions
  BY <1>1, <1>2 DEF RegionsHold, GoesOn
<1>5. Sound(k', thread_timer', pc', arg')
  BY <1>1, <1>2, <1>3, <1>4, CreateSound
<1>6. k.stat[k.current] = "running"
  BY <1>2, InvFacts
<1>7. /\ k'.stat = [k.stat EXCEPT ![t] = "init"] /\ k'.prio = [k.prio EXCEPT ![t] = InitPrio[t]]
      /\ k'.current = k.current /\ k'.lock_nest = k.lock_nest /\ k'.table = k.table
  BY <1>1, <1>3 DEF WithPrio, WithStat, Consistent, KState
<1>8. t # k.current /\ ~InTable(k, t)
  BY <1>1, <1>2, <1>6, LinkedStats
<1>9. /\ k'.prio[k.current] = k.prio[k.current]
      /\ \A u \in Threads : InTable(k', u) => InTable(k, u) /\ k'.prio[u] = k.prio[u]
  BY <1>1, <1>7, <1>8 DEF InTable
<1>10. HighestKept
  BY <1>2, <1>5, <1>7, <1>9, HighestStays DEF Sound
<1> QED
  BY <1>2, <1>5, <1>10, BeginsNone, NotRegions DEF StepSound

LEMMA ExitStep ==
  ASSUME Inv, ~overtaken, Exit
  PROVE  StepSound /\ HighestKept
<1>1. PICK c : c = k.current
  OBVIOUS
<1>2. /\ Sound(k, thread_timer, pc, arg) /\ Consistent(k) /\ c \in Threads
      /\ thread_timer \in [Threads -> BOOLEAN]
      /\ pc \in [Threads -> PC] /\ arg \in [Threads -> Threads \cup {None}]
  BY <1>1, InvFacts
<1>3. /\ c # Idle /\ k.stat[c] = "running" /\ pc[c] = "run" /\ k.lock_nest = 0
     
  BY <1>1 DEF Exit, MayBlock, MayCall, Cur, Stat
<1>4. /\ thread_timer' = Updated(thread_timer, c, FALSE)
      /\ pc' = Updated(pc, c, "schedule") /\ arg' = Updated(arg, c, None)
  BY <1>1 DEF Exit, Enter, Cur, Updated
<1>5. k' = [Remove(k, c) EXCEPT !.stat[c] = "close",
                                !.defunct = IF c \in Static THEN @ ELSE <<c>> \o @]
  BY <1>1 DEF Exit, Cur
<1>6. PICK m, n : m = Remove(k, c) /\ n = WithStat(m, c, "close")
  OBVIOUS
<1>7. /\ Consistent(n) /\ ~Linked(n, c)
      /\ n.stat = [k.stat EXCEPT ![c] = "close"] /\ n.prio = k.prio /\ n.current = k.current
      /\ n.lock_nest = k.lock_nest /\ n.broken = k.broken
      /\ \A u \in Threads : InTable(n, u) <=> InTable(k, u) /\ u # c
      /\ \A u \in Threads : ~Linked(k, u) => ~Linked(n, u)
  <2>1. "close" \in Stats
    BY DEF Stats
  <2> QED
    BY <1>2, <1>6, <2>1, TakenOut
<1>8. /\ Consistent(k')
      /\ k'.stat = n.stat /\ k'.prio = n.prio /\ k'.current = n.current
      /\ k'.lock_nest = n.lock_nest /\ k'.broken = n.broken /\ k'.table = n.table
      /\ k'.waiting = n.waiting /\ \A u : InDefunct(k', u) => InDefunct(n, u) \/ u = c
  <2>1. CASE c \notin Static
    <3>1. k' = WithDefunct(n, c)
      BY <1>5, <1>6, <2>1 DEF WithStat, WithDefunct
    <3>2. n.stat[c] = "close" /\ c \in Threads \ Static
      BY <1>2, <1>7, <2>1 DEF Consistent, KState
    <3>3. Consistent(k') /\ \A u : InDefunct(k', u) <=> InDefunct(n, u) \/ u = c
      BY <1>7, <3>1, <3>2, DefunctConsistent
    <3>4. /\ k'.stat = n.stat /\ k'.prio = n.prio /\ k'.current = n.current
          /\ k'.lock_nest = n.lock_nest /\ k'.broken = n.broken /\ k'.table = n.table
          /\ k'.waiting = n.waiting
      BY <1>7, <3>1 DEF WithDefunct, Consistent, KState
    <3> QED
      BY <3>3, <3>4
  <2>2. CASE c \in Static
    <3>1. k' = n
      <4>1. m = AsRecord(m)
        <5>1. Consistent(m)
          BY <1>2, <1>6, RemoveConsistent
        <5> QED
          BY <5>1, KStateFields DEF Consistent
      <4>2. n = AsRecord(n)
        BY <1>7, KStateFields DEF Consistent
      <4> QED
        BY <1>5, <1>6, <2>2, <4>1, <4>2 DEF WithStat, AsRecord
    <3> QED
      BY <1>7, <3>1
  <2> QED
    BY <2>1, <2>2
<1>9. /\ k'.stat = [k.stat EXCEPT ![c] = "close"] /\ k'.prio = k.prio
      /\ k'.current = c /\ k'.lock_nest = k.lock_nest /\ k'.broken = k.broken
  BY <1>1, <1>7, <1>8
<1>10. \A u \in Threads : InTable(k', u) <=> InTable(k, u) /\ u # c
  BY <1>7, <1>8 DEF InTable
<1>11. \A u \in Threads : u # c /\ ~Linked(k, u) => ~Linked(k', u)
  <2>1. \A u \in Threads : u # c /\ ~Linked(n, u) => ~Linked(k', u)
    BY <1>8 DEF Linked, InTable
  <2> QED
    BY <1>7, <2>1
<1>12. Sound(k', thread_timer', pc', arg')
  BY <1>1, <1>2, <1>3, <1>4, <1>8, <1>9, <1>10, <1>11, LeaveSound
<1>13. pc'[k'.current] = "schedule"
  BY <1>2, <1>4, <1>9 DEF Updated
<1> QED
  BY <1>4, <1>12, <1>13, BeginsNone, NotRegions, HighestPending DEF StepSound, HighestKept

(* The one step that may leave a better thread waiting.                    *)
LEMMA ChangePriorityStep ==
  ASSUME Inv, ~overtaken, NEW t \in Threads, NEW x \in NewPrios, ChangePriority(t, x)
  PROVE  StepSound
<1>1. /\ Sound(k, thread_timer, pc, arg) /\ Consistent(k) /\ k.current \in Threads
      /\ thread_timer \in [Threads -> BOOLEAN]
      /\ pc \in [Threads -> PC] /\ arg \in [Threads -> Threads \cup {None}]
  BY InvFacts
<1>2. /\ pc[k.current] = "run"
      /\ k.stat[t] \in {"ready", "running", "suspend"}
      /\ thread_timer' = thread_timer
      /\ pc' = pc /\ arg' = arg
  BY DEF ChangePriority, MayCall, Cur, Stat
<1>3. k' = IF k.stat[t] = "ready" THEN Insert(WithPrio(Remove(k, t), t, x), t)
                                  ELSE WithPrio(k, t, x)
  BY DEF ChangePriority, Stat, WithPrio
<1>5. x \in Prios
  BY DEF Prios
<1>6. Sound(k', thread_timer, pc, arg)
  <2>1. CASE k.stat[t] = "ready"
    BY <1>1, <1>3, <1>5, <2>1, MoveSound
  <2>2. CASE k.stat[t] # "ready"
    <3>1. ~InTable(k, t) /\ k' = WithPrio(k, t, x)
      BY <1>1, <1>3, <2>2, LinkedStats
    <3> QED
      BY <1>1, <1>5, <3>1, PrioSound
  <2> QED
    BY <2>1, <2>2
<1> QED
  BY <1>2, <1>6 DEF StepSound, Begins

LEMMA EnterCriticalStep ==
  ASSUME Inv, ~overtaken, EnterCritical
  PROVE  StepSound /\ HighestKept
<1>1. /\ Sound(k, thread_timer, pc, arg) /\ k \in KState /\ k.lock_nest \in 0..MaxNest
      /\ thread_timer \in [Threads -> BOOLEAN]
      /\ pc \in [Threads -> PC] /\ arg \in [Threads -> Threads \cup {None}]
  BY InvFacts
<1>2. /\ pc[k.current] = "run" /\ k.lock_nest < MaxNest
      /\ k' = WithLock(k, k.lock_nest + 1)
      /\ thread_timer' = thread_timer
      /\ pc' = pc /\ arg' = arg
  BY DEF EnterCritical, MayCall, Cur, WithLock
<1>3. k.stat[k.current] = "running"
  BY <1>2, InvFacts
<1>4. k.lock_nest + 1 \in 0..MaxNest
  BY <1>1, <1>2, SchedulerAssumption
<1>5. Sound(k', thread_timer, pc, arg)
  BY <1>1, <1>2, <1>3, <1>4, LockSound
<1>6. k'.current = k.current /\ k'.prio = k.prio /\ k'.lock_nest # 0
  BY <1>1, <1>2, <1>4 DEF WithLock, KState
<1> QED
  BY <1>2, <1>5, <1>6 DEF StepSound, Begins, HighestKept, HighestIsCurrent

LEMMA ExitCriticalStep ==
  ASSUME Inv, ~overtaken, ExitCritical
  PROVE  StepSound /\ HighestKept
<1>1. /\ Sound(k, thread_timer, pc, arg) /\ k \in KState /\ k.lock_nest \in 0..MaxNest
      /\ k.current \in Threads
      /\ thread_timer \in [Threads -> BOOLEAN]
      /\ pc \in [Threads -> PC] /\ arg \in [Threads -> Threads \cup {None}]
  BY InvFacts
<1>2. PICK c, n : c = k.current /\ n = IF k.lock_nest <= 1 THEN 0 ELSE k.lock_nest - 1
  OBVIOUS
<1>3. /\ pc[c] = "run" /\ k' = WithLock(k, n)
      /\ thread_timer' = thread_timer
      /\ IF k.lock_nest <= 1
         THEN pc' = Updated(pc, c, "schedule") /\ arg' = Updated(arg, c, None)
         ELSE pc' = pc /\ arg' = arg
  BY <1>2 DEF ExitCritical, MayCall, Cur, WithLock, Enter, Updated
<1>4. k.stat[c] = "running"
  BY <1>2, <1>3, InvFacts
<1>5. n \in 0..MaxNest /\ (k.lock_nest > 1 => n # 0)
  BY <1>1, <1>2, SchedulerAssumption
<1>6. Sound(k', thread_timer, pc, arg)
  BY <1>1, <1>2, <1>3, <1>4, <1>5, LockSound
<1>7. k'.current = c /\ k'.prio = k.prio /\ k'.stat = k.stat /\ k'.lock_nest = n
  BY <1>1, <1>2, <1>3 DEF WithLock, KState
<1>8. CASE k.lock_nest <= 1
  <2>1. pc' = Updated(pc, c, "schedule") /\ arg' = Updated(arg, c, None)
    BY <1>3, <1>8
  <2>2. Sound(k', thread_timer', pc', arg')
    <3>1. "schedule" \in PC \ {"free"}
      BY DEF PC
    <3> QED
      BY <1>1, <1>2, <1>3, <1>6, <2>1, <3>1, PcSound
  <2> QED
    <3>1. pc'[k'.current] = "schedule"
      BY <1>1, <1>2, <1>7, <2>1 DEF Updated
    <3> QED
      BY <2>1, <2>2, <3>1, BeginsNone, NotRegions, HighestPending DEF StepSound, HighestKept
<1>9. CASE k.lock_nest > 1
  <2>1. pc' = pc /\ arg' = arg
    BY <1>1, <1>3, <1>9
  <2> QED
    BY <1>1, <1>3, <1>5, <1>6, <1>7, <1>9, <2>1
    DEF StepSound, Begins, HighestKept, HighestIsCurrent
<1> QED
  BY <1>1, <1>8, <1>9

(* The first tests of rt_thread_suspend and rt_thread_resume.              *)
LEMMA EntersStep ==
  ASSUME Inv, ~overtaken, NEW t \in Threads, NEW q \in {"suspend", "resume"},
         pc[k.current] = "run",
         q = "suspend" => t # Idle /\ t # k.current /\ k.stat[t] = "ready",
         q = "resume" => k.stat[t] = "suspend",
         pc' = Updated(pc, k.current, q), arg' = Updated(arg, k.current, t),
         UNCHANGED <<k, thread_timer>>
  PROVE  StepSound /\ HighestKept
<1>1. /\ Sound(k, thread_timer, pc, arg) /\ k.current \in Threads /\ k.stat[k.current] = "running"
      /\ pc \in [Threads -> PC] /\ arg \in [Threads -> Threads \cup {None}]
      /\ CurrentRuns(k, pc)
  BY InvFacts DEF Sound
<1>2. q \in PC \ {"free"}
  BY DEF PC
<1>3. t # k.current /\ Established(k, thread_timer, q, t)
  BY <1>1 DEF Established, CurrentRuns
<1>4. Sound(k, thread_timer, pc', arg')
  BY <1>1, <1>2, PcSound
<1>5. Begins
  <2>1. pc'[k.current] = q /\ arg'[k.current] = t
    BY <1>1 DEF Updated
  <2>2. GoesOn(k', thread_timer', pc', arg', k.current)
    BY <1>1, <1>3, <2>1 DEF GoesOn
  <2> QED
    BY <2>2, BeginsOne
<1>6. HighestKept
  <2>1. CurrentRuns(k', pc')
    BY <1>4 DEF Sound
  <2> QED
    BY <2>1, HighestStays
<1> QED
  BY <1>4, <1>5, <1>6 DEF StepSound

LEMMA SuspendRegionStep ==
  ASSUME Inv, ~overtaken, SuspendRegion
  PROVE  StepSound /\ HighestKept
<1>1. PICK c, t : c = k.current /\ t = arg[c]
  OBVIOUS
<1>2. /\ Sound(k, thread_timer, pc, arg) /\ Consistent(k) /\ c \in Threads
      /\ k.stat \in [Threads -> Stats]
      /\ thread_timer \in [Threads -> BOOLEAN]
      /\ pc \in [Threads -> PC] /\ arg \in [Threads -> Threads \cup {None}]
  BY <1>1, InvFacts
<1>3. /\ pc[c] = "suspend" /\ k' = WithStat(Remove(k, t), t, "suspend")
      /\ thread_timer' = Updated(thread_timer, t, FALSE)
      /\ pc' = Updated(pc, c, "run") /\ arg' = Updated(arg, c, None)
  BY <1>1 DEF SuspendRegion, Cur, WithStat, Enter, Updated
<1>4. /\ t \in Threads \ {Idle, c} /\ k.stat[t] = "ready" /\ k.stat[c] = "running"
      /\ "suspend" \in Stats
  <2>1. /\ t \in Threads \ {Idle, c} /\ k.stat[c] = "running"
        /\ Established(k, thread_timer, "suspend", t) /\ CurrentRuns(k, pc)
    BY <1>1, <1>3, RegionFacts DEF Regions
  <2> QED
    BY <1>1, <2>1 DEF Established, CurrentRuns, Stats
<1>5. /\ Consistent(k') /\ ~Linked(k', t)
      /\ k'.stat = [k.stat EXCEPT ![t] = "suspend"] /\ k'.prio = k.prio /\ k'.current = k.current
      /\ k'.lock_nest = k.lock_nest /\ k'.broken = k.broken
      /\ \A u \in Threads : InTable(k', u) <=> InTable(k, u) /\ u # t
      /\ \A u \in Threads : ~Linked(k, u) => ~Linked(k', u)
  BY <1>2, <1>3, <1>4, TakenOut
<1>6. Sound(k', thread_timer', pc', arg')
  <2>1. k'.current = c /\ k'.stat = Updated(k.stat, t, "suspend")
    BY <1>1, <1>5 DEF Updated
  <2>2. /\ k'.lock_nest = k.lock_nest /\ k'.broken = k.broken /\ Consistent(k')
        /\ \A u \in Threads : InTable(k', u) <=> InTable(k, u) /\ u # t
        /\ \A u \in Threads : ~Linked(k, u) => ~Linked(k', u)
    BY <1>5
  <2>3. /\ pc[c] = "suspend" /\ Sound(k, thread_timer, pc, arg)
        /\ thread_timer \in [Threads -> BOOLEAN]
        /\ pc \in [Threads -> PC] /\ arg \in [Threads -> Threads \cup {None}]
    BY <1>2, <1>3
  <2>4. Sound(k', Updated(thread_timer, t, FALSE), Updated(pc, c, "run"), Updated(arg, c, None))
    BY <1>1, <1>4, <2>1, <2>2, <2>3, SuspendSound
  <2> QED
    BY <1>3, <2>4
<1>7. HighestKept
  <2>1. CurrentRuns(k', pc')
    BY <1>6 DEF Sound
  <2> QED
    BY <1>1, <1>3, <1>5, <2>1, HighestStays
<1> QED
  BY <1>3, <1>6, <1>7, BeginsNone, NotRegions DEF StepSound

LEMMA ResumeRegionStep ==
  ASSUME Inv, ~overtaken, ResumeRegion
  PROVE  StepSound /\ HighestKept
<1>1. PICK c, t : c = k.current /\ t = arg[c]
  OBVIOUS
<1>2. /\ Sound(k, thread_timer, pc, arg) /\ Consistent(k) /\ c \in Threads
      /\ thread_timer \in [Threads -> BOOLEAN]
      /\ pc \in [Threads -> PC] /\ arg \in [Threads -> Threads \cup {None}]
  BY <1>1, InvFacts
<1>3. /\ pc[c] = "resume" /\ k' = Unlinked(k, t)
      /\ thread_timer' = Updated(thread_timer, t, FALSE)
      /\ pc' = Updated(pc, c, "insert") /\ arg' = arg
  BY <1>1 DEF ResumeRegion, Cur, Updated
<1>4. t \in Threads \ {Idle, c} /\ k.stat[t] = "suspend" /\ k.stat[c] = "running"
  <2>1. /\ t \in Threads \ {Idle, c} /\ k.stat[c] = "running"
        /\ Established(k, thread_timer, "resume", t)
    BY <1>1, <1>3, RegionFacts DEF Regions
  <2> QED
    BY <2>1 DEF Established
<1>5. Sound(k', thread_timer', pc, arg)
  BY <1>2, <1>3, <1>4, UnlinkSound
<1>6. /\ k'.stat = k.stat /\ k'.prio = k.prio /\ k'.current = k.current
      /\ k'.lock_nest = k.lock_nest /\ k'.table = k.table /\ ~Linked(k', t)
  <2>1. k.stat[t] # "ready"
    BY <1>4
  <2>2. k'.table = k.table /\ ~Linked(k', t)
    BY <1>2, <1>3, <1>4, <2>1, UnlinkedConsistent
  <2> QED
    BY <1>2, <1>3, <1>4, <2>2, UnlinkedProperties
<1>7. arg' = Updated(arg, c, t) /\ pc'[c] = "insert" /\ ~thread_timer'[t]
  BY <1>1, <1>2, <1>3, <1>4 DEF Updated
<1>8. Sound(k', thread_timer', pc', arg')
  <2>1. "insert" \in PC \ {"free"}
    BY DEF PC
  <2>2. /\ pc[c] # "free" /\ pc[c] \notin {"detach", "close"}
        /\ c = k'.current => k'.stat[c] = "running"
    BY <1>3, <1>4, <1>6
  <2>3. Sound(k', thread_timer', Updated(pc, c, "insert"), Updated(arg, c, t))
    BY <1>2, <1>5, <2>1, <2>2, PcSound
  <2> QED
    BY <1>3, <1>7, <2>3
<1>9. Begins
  <2>1. Established(k', thread_timer', "insert", t)
    BY <1>4, <1>6, <1>7 DEF Established
  <2>2. GoesOn(k', thread_timer', pc', arg', c)
    BY <1>1, <1>3, <1>4, <1>6, <1>7, <2>1 DEF GoesOn
  <2> QED
    BY <1>3, <2>2, BeginsOne
<1>10. HighestKept
  <2>1. CurrentRuns(k', pc')
    BY <1>8 DEF Sound
  <2>2. \A u \in Threads : InTable(k', u) => InTable(k, u)
    BY <1>6 DEF InTable
  <2> QED
    BY <1>1, <1>3, <1>6, <2>1, <2>2, HighestStays
<1> QED
  BY <1>8, <1>9, <1>10 DEF StepSound

LEMMA ResumeInsertStep ==
  ASSUME Inv, ~overtaken, ResumeInsert
  PROVE  StepSound /\ HighestKept
<1>1. PICK c, t : c = k.current /\ t = arg[c]
  OBVIOUS
<1>2. /\ Sound(k, thread_timer, pc, arg) /\ Consistent(k) /\ c \in Threads
      /\ pc \in [Threads -> PC] /\ arg \in [Threads -> Threads \cup {None}]
  BY <1>1, InvFacts
<1>3. /\ pc[c] = "insert" /\ k' = Insert(k, t) /\ thread_timer' = thread_timer
      /\ pc' = Updated(pc, c, "schedule") /\ arg' = Updated(arg, c, None)
  BY <1>1 DEF ResumeInsert, Cur, Enter, Updated
<1>4. /\ t \in Threads \ {Idle, c} /\ k.stat[t] = "suspend" /\ k.stat[c] = "running"
      /\ ~Linked(k, t) /\ ~thread_timer[t]
  <2>1. /\ t \in Threads \ {Idle, c} /\ k.stat[c] = "running"
        /\ Established(k, thread_timer, "insert", t)
    BY <1>1, <1>3, RegionFacts DEF Regions
  <2> QED
    BY <2>1 DEF Established
<1>5. "schedule" \in PC \ {"free"}
  BY DEF PC
<1>6. Sound(k, thread_timer, pc', arg')
  BY <1>1, <1>2, <1>3, <1>4, <1>5, PcSound
<1>7. Sound(k', thread_timer, pc', arg')
  BY <1>3, <1>4, <1>6, InsertSound
<1>8. k'.current = k.current
  BY <1>2, <1>3, InsertKeeps DEF Consistent
<1>9. pc'[k'.current] = "schedule"
  BY <1>1, <1>2, <1>3, <1>8 DEF Updated
<1> QED
  BY <1>3, <1>7, <1>9, BeginsNone, NotRegions, HighestPending DEF StepSound, HighestKept

LEMMA DeleteStep ==
  ASSUME Inv, ~overtaken, NEW t \in Threads, Delete(t)
  PROVE  StepSound /\ HighestKept
<1>1. PICK c : c = k.current
  OBVIOUS
<1>2. /\ Sound(k, thread_timer, pc, arg) /\ Consistent(k) /\ c \in Threads
      /\ thread_timer \in [Threads -> BOOLEAN]
      /\ pc \in [Threads -> PC] /\ arg \in [Threads -> Threads \cup {None}]
  BY <1>1, InvFacts
<1>3. /\ pc[c] = "run" /\ t \in Threads \ {Idle, c}
      /\ k.stat[t] \in {"init", "ready", "suspend"}
      /\ k' = IF k.stat[t] = "init" THEN k ELSE Remove(k, t)
      /\ thread_timer' = thread_timer
      /\ pc' = Updated(pc, c, "detach") /\ arg' = Updated(arg, c, t)
  BY <1>1 DEF Delete, MayCall, Cur, Stat, Enter, Updated
<1>4. k.stat[c] = "running"
  BY <1>1, <1>3, InvFacts
<1>5. /\ Consistent(k') /\ ~Linked(k', t) /\ k'.stat = k.stat /\ k'.prio = k.prio
      /\ k'.current = c /\ k'.lock_nest = k.lock_nest /\ k'.broken = k.broken
      /\ \A u \in Threads : u # t => (InTable(k', u) <=> InTable(k, u))
      /\ \A u \in Threads : ~Linked(k, u) => ~Linked(k', u)
  <2>1. CASE k.stat[t] = "init"
    <3>1. ~Linked(k, t)
      BY <1>2, <2>1, LinkedStats
    <3>2. k' = k
      BY <1>3, <2>1
    <3>3. Consistent(k') /\ ~Linked(k', t) /\ \A u \in Threads : ~Linked(k, u) => ~Linked(k', u)
      BY <1>2, <3>1, <3>2
    <3>4. \A u \in Threads : InTable(k', u) <=> InTable(k, u)
      BY <3>2
    <3>5. /\ k'.stat = k.stat /\ k'.prio = k.prio /\ k'.current = c
          /\ k'.lock_nest = k.lock_nest /\ k'.broken = k.broken
      BY <1>1, <3>2
    <3> QED
      BY <3>3, <3>4, <3>5
  <2>2. CASE k.stat[t] # "init"
    <3>1. k' = Remove(k, t)
      BY <1>3, <2>2
    <3>2. /\ Consistent(k') /\ ~Linked(k', t)
          /\ k'.stat = k.stat /\ k'.prio = k.prio /\ k'.current = k.current
          /\ k'.lock_nest = k.lock_nest /\ k'.broken = k.broken
          /\ \A u \in Threads : InTable(k', u) <=> InTable(k, u) /\ u # t
          /\ \A u \in Threads : ~Linked(k, u) => ~Linked(k', u)
      BY <1>2, <3>1, RemovedFrom, SMTT(30)
    <3> QED
      BY <1>1, <3>2
  <2> QED
    BY <2>1, <2>2
<1>6. Sound(k', thread_timer', pc', arg')
  BY <1>1, <1>2, <1>3, <1>4, <1>5, DeleteSound
<1>7. HighestKept
  <2>1. CurrentRuns(k', pc')
    BY <1>6 DEF Sound
  <2>2. \A u \in Threads : InTable(k', u) => InTable(k, u)
    BY <1>5 DEF Linked
  <2> QED
    BY <1>1, <1>3, <1>5, <2>1, <2>2, HighestStays
<1>8. Begins
  <2>1. pc'[c] = "detach" /\ arg'[c] = t
    BY <1>2, <1>3 DEF Updated
  <2>2. Established(k', thread_timer', "detach", t)
    BY <1>3, <1>5 DEF Established
  <2>3. GoesOn(k', thread_timer', pc', arg', c)
    BY <1>3, <1>4, <1>5, <2>1, <2>2 DEF GoesOn
  <2> QED
    BY <1>3, <2>3, BeginsOne
<1> QED
  BY <1>6, <1>7, <1>8 DEF StepSound

LEMMA DeleteDetachStep ==
  ASSUME Inv, ~overtaken, DeleteDetach
  PROVE  StepSound /\ HighestKept
<1>1. PICK c, t : c = k.current /\ t = arg[c]
  OBVIOUS
<1>2. /\ Sound(k, thread_timer, pc, arg) /\ c \in Threads
      /\ thread_timer \in [Threads -> BOOLEAN]
      /\ pc \in [Threads -> PC] /\ arg \in [Threads -> Threads \cup {None}]
  BY <1>1, InvFacts
<1>3. /\ pc[c] = "detach" /\ k' = k
      /\ thread_timer' = Updated(thread_timer, t, FALSE)
      /\ pc' = Updated(pc, c, "close") /\ arg' = arg
  BY <1>1 DEF DeleteDetach, Cur, Updated
<1>4. /\ t \in Threads \ {Idle, c} /\ k.stat[c] = "running"
      /\ Established(k, thread_timer, "detach", t) /\ TimersOfSleepers(k, thread_timer)
  BY <1>1, <1>3, RegionFacts DEF Regions
<1>5. /\ pc'[c] = "close" /\ arg' = Updated(arg, c, t) /\ ~thread_timer'[t]
      /\ \A u \in Threads : thread_timer'[u] => thread_timer[u]
  BY <1>1, <1>2, <1>3, <1>4 DEF Updated
<1>6. Sound(k, thread_timer', pc, arg)
  <2>1. TimersOfSleepers(k, thread_timer')
    BY <1>4, <1>5 DEF TimersOfSleepers
  <2> QED
    BY <1>2, <2>1 DEF Sound
<1>7. Sound(k', thread_timer', pc', arg')
  <2>1. "close" \in PC \ {"free"} /\ pc[c] # "free"
    BY <1>3 DEF PC
  <2>2. Sound(k, thread_timer', Updated(pc, c, "close"), Updated(arg, c, t))
    BY <1>1, <1>2, <1>4, <1>6, <2>1, PcSound
  <2> QED
    BY <1>3, <1>5, <2>2
<1>8. Begins
  <2>1. Established(k', thread_timer', "close", t)
    BY <1>3, <1>4, <1>5 DEF Established
  <2>2. GoesOn(k', thread_timer', pc', arg', c)
    BY <1>1, <1>3, <1>4, <1>5, <2>1 DEF GoesOn
  <2> QED
    BY <1>3, <2>2, BeginsOne
<1>9. HighestKept
  <2>1. CurrentRuns(k', pc')
    BY <1>7 DEF Sound
  <2> QED
    BY <1>1, <1>3, <2>1, HighestStays
<1> QED
  BY <1>7, <1>8, <1>9 DEF StepSound

LEMMA DeleteCloseStep ==
  ASSUME Inv, ~overtaken, DeleteClose
  PROVE  StepSound /\ HighestKept
<1>1. PICK c, t : c = k.current /\ t = arg[c]
  OBVIOUS
<1>2. /\ Sound(k, thread_timer, pc, arg) /\ c \in Threads /\ k \in KState
      /\ k.stat \in [Threads -> Stats] /\ Idle \in Threads
      /\ pc \in [Threads -> PC] /\ arg \in [Threads -> Threads \cup {None}]
  BY <1>1, InvFacts
<1>3. /\ pc[c] = "close" /\ k' = WithStat(k, t, "close") /\ thread_timer' = thread_timer
      /\ pc' = Updated(pc, c, "defunct") /\ arg' = arg
  BY <1>1 DEF DeleteClose, Cur, Updated, WithStat
<1>4. /\ t \in Threads \ {Idle, c} /\ k.stat[c] = "running"
      /\ k.stat[t] \in {"init", "ready", "suspend"} /\ ~Linked(k, t) /\ ~thread_timer[t]
  <2>1. /\ t \in Threads \ {Idle, c} /\ k.stat[c] = "running"
        /\ Established(k, thread_timer, "close", t)
    BY <1>1, <1>3, RegionFacts DEF Regions
  <2> QED
    BY <2>1 DEF Established
<1>5. Sound(k', thread_timer', pc', arg')
  BY <1>1, <1>2, <1>3, <1>4, CloseSound
<1>6. /\ k'.stat = [k.stat EXCEPT ![t] = "close"] /\ k'.prio = k.prio /\ k'.table = k.table
      /\ k'.current = k.current /\ k'.lock_nest = k.lock_nest
      /\ k'.waiting = k.waiting /\ k'.defunct = k.defunct
  BY <1>2, <1>3 DEF WithStat, KState
<1>7. k'.stat[t] = "close" /\ k'.stat[c] = "running" /\ ~Linked(k', t) /\ pc'[c] = "defunct"
  <2>1. k'.stat[t] = "close" /\ k'.stat[c] = "running" /\ pc'[c] = "defunct"
    BY <1>2, <1>3, <1>4, <1>6 DEF Updated
  <2>2. ~Linked(k', t)
    BY <1>4, <1>6 DEF Linked, InTable, InDefunct
  <2> QED
    BY <2>1, <2>2
<1>8. Begins
  <2>1. Established(k', thread_timer', "defunct", t)
    BY <1>4, <1>7 DEF Established
  <2>2. pc'[Idle] = "free" => t # arg[Idle]
    <3>1. SUFFICES ASSUME pc'[Idle] = "free" PROVE t # arg[Idle]
      OBVIOUS
    <3>2. pc[Idle] = "free"
      BY <1>2, <1>3, <3>1 DEF Updated
    <3>3. k.stat[arg[Idle]] = "close"
      BY <1>2, <3>2 DEF Sound, FreeHolds
    <3> QED
      BY <1>4, <3>3
  <2>3. GoesOn(k', thread_timer', pc', arg', c)
    BY <1>1, <1>3, <1>4, <1>7, <2>1, <2>2 DEF GoesOn
  <2> QED
    BY <1>3, <2>3, BeginsOne
<1>9. HighestKept
  <2>1. CurrentRuns(k', pc')
    BY <1>5 DEF Sound
  <2>2. \A u \in Threads : InTable(k', u) => InTable(k, u)
    BY <1>6 DEF InTable
  <2> QED
    BY <1>1, <1>3, <1>6, <2>1, <2>2, HighestStays
<1> QED
  BY <1>5, <1>8, <1>9 DEF StepSound

LEMMA DeleteDefunctStep ==
  ASSUME Inv, ~overtaken, DeleteDefunct
  PROVE  StepSound /\ HighestKept
<1>1. PICK c, t : c = k.current /\ t = arg[c]
  OBVIOUS
<1>2. /\ Sound(k, thread_timer, pc, arg) /\ c \in Threads /\ k \in KState
      /\ ~k.broken
      /\ thread_timer \in [Threads -> BOOLEAN]
      /\ pc \in [Threads -> PC] /\ arg \in [Threads -> Threads \cup {None}]
  BY <1>1, InvFacts DEF Sound
<1>3. /\ pc[c] = "defunct"
      /\ k' = IF t \in Static THEN k
              ELSE [k EXCEPT !.defunct = <<t>> \o @, !.broken = @ \/ Linked(k, t)]
      /\ thread_timer' = thread_timer
      /\ pc' = Updated(pc, c, "run") /\ arg' = Updated(arg, c, None)
  BY <1>1 DEF DeleteDefunct, Cur, Enter, Updated
<1>4. /\ t \in Threads \ {Idle, c} /\ ~Linked(k, t) /\ k.stat[t] = "close"
      /\ k.stat[c] = "running" /\ (pc[Idle] = "free" => t # arg[Idle])
  <2>1. /\ t \in Threads \ {Idle, c} /\ k.stat[c] = "running"
        /\ Established(k, thread_timer, "defunct", t)
        /\ pc[Idle] = "free" => t # arg[Idle]
    BY <1>1, <1>3, RegionFacts DEF Regions
  <2> QED
    BY <2>1 DEF Established
<1>5. /\ Sound(k', thread_timer', pc', arg')
      /\ k'.stat = k.stat /\ k'.prio = k.prio /\ k'.table = k.table
      /\ k'.current = k.current /\ k'.lock_nest = k.lock_nest
  <2>1. CASE t \in Static
    <3>1. "run" \in PC \ {"free"}
      BY DEF PC
    <3>2. Sound(k, thread_timer, Updated(pc, c, "run"), Updated(arg, c, None))
      BY <1>1, <1>2, <1>3, <1>4, <3>1, PcSound
    <3> QED
      BY <1>3, <2>1, <3>2
  <2>2. CASE t \notin Static
    <3>1. k' = WithDefunct(k, t)
      <4>1. k = AsRecord(k)
        BY <1>2, KStateFields
      <4>2. k' = [k EXCEPT !.defunct = <<t>> \o @, !.broken = @ \/ Linked(k, t)]
        BY <1>3, <2>2
      <4>3. k.broken = (k.broken \/ Linked(k, t))
        BY <1>2, <1>4 DEF KState
      <4> HIDE DEF WithDefunct
      <4> QED
        BY <4>1, <4>2, <4>3 DEF WithDefunct, AsRecord
    <3>2. Sound(WithDefunct(k, t), thread_timer, Updated(pc, c, "run"), Updated(arg, c, None))
      BY <1>1, <1>2, <1>3, <1>4, <2>2, DefunctSound
    <3> QED
      BY <1>2, <1>3, <3>1, <3>2 DEF WithDefunct, KState
  <2> QED
    BY <2>1, <2>2
<1>6. HighestKept
  <2>1. CurrentRuns(k', pc')
    BY <1>5 DEF Sound
  <2>2. \A u \in Threads : InTable(k', u) => InTable(k, u)
    BY <1>5 DEF InTable
  <2> QED
    BY <1>1, <1>3, <1>5, <2>1, <2>2, HighestStays
<1> QED
  BY <1>3, <1>5, <1>6, BeginsNone, NotRegions DEF StepSound

LEMMA IdleTakesStep ==
  ASSUME Inv, ~overtaken, IdleTakes
  PROVE  StepSound /\ HighestKept
<1>1. /\ Sound(k, thread_timer, pc, arg) /\ Consistent(k) /\ IdleKept(pc, arg)
      /\ k.current = Idle /\ Idle \in Threads
      /\ thread_timer \in [Threads -> BOOLEAN]
      /\ pc \in [Threads -> PC] /\ arg \in [Threads -> Threads \cup {None}]
  BY InvFacts DEF IdleTakes, Cur
<1>2. PICK m, x : m = WithTail(k) /\ x = Head(k.defunct)
  OBVIOUS
<1>3. /\ pc[Idle] = "run" /\ k.defunct # << >> /\ k' = Schedule(m)
      /\ thread_timer' = thread_timer
      /\ pc' = Updated(pc, Idle, "free") /\ arg' = Updated(arg, Idle, x)
  BY <1>1, <1>2 DEF IdleTakes, Cur, Enter, Updated, WithTail
<1>5. Sound(m, thread_timer, pc, arg)
  BY <1>1, <1>2, <1>3, TailSound
<1>6. /\ Consistent(m) /\ x \in Threads \ Static /\ m.stat[x] = "close" /\ ~Linked(m, x)
      /\ m.prio = k.prio /\ m.current = k.current /\ m.lock_nest = k.lock_nest
  BY <1>1, <1>2, <1>3, TailConsistent
<1>7. Sound(k', thread_timer, pc, arg)
  BY <1>1, <1>3, <1>5, ScheduleSound
<1>8. Scheduled(m, k') /\ k'.stat[k'.current] = "running"
  BY <1>1, <1>3, <1>5, ScheduleRuns
<1>9. k'.stat[x] = "close" /\ ~Linked(k', x)
  <2>1. k'.stat[x] = "close"
    BY <1>6, <1>8 DEF Scheduled
  <2>2. ~InTable(k', x) /\ ~InTable(m, x)
    BY <1>6, <1>8 DEF Scheduled, Linked
  <2> QED
    BY <1>6, <1>8, <2>1, <2>2 DEF Scheduled, Linked, InDefunct
<1>10. Sound(k', thread_timer, pc', arg')
  BY <1>1, <1>3, <1>6, <1>7, <1>8, <1>9, FreeSound
<1> QED
  BY <1>3, <1>8, <1>10, HighestAfterSchedule, BeginsNone, NotRegions DEF StepSound, HighestKept

LEMMA IdleFreesStep ==
  ASSUME Inv, ~overtaken, IdleFrees
  PROVE  StepSound /\ HighestKept
<1>1. /\ Sound(k, thread_timer, pc, arg) /\ k \in KState /\ k.stat \in [Threads -> Stats]
      /\ k.current = Idle /\ Idle \in Threads
      /\ thread_timer \in [Threads -> BOOLEAN]
      /\ pc \in [Threads -> PC] /\ arg \in [Threads -> Threads \cup {None}]
  BY InvFacts DEF IdleFrees, Cur
<1>2. /\ pc[Idle] = "free" /\ k' = WithStat(k, arg[Idle], "none")
      /\ thread_timer' = thread_timer
      /\ pc' = Updated(pc, k.current, "run") /\ arg' = Updated(arg, k.current, None)
  BY DEF IdleFrees, Cur, Enter, Updated, WithStat
<1>3. Sound(k', thread_timer', pc', arg')
  BY <1>1, <1>2, FreedSound
<1>4. /\ k'.stat = [k.stat EXCEPT ![arg[Idle]] = "none"] /\ k'.prio = k.prio /\ k'.table = k.table
      /\ k'.current = k.current /\ k'.lock_nest = k.lock_nest
  BY <1>1, <1>2 DEF WithStat, KState
<1>5. HighestKept
  <2>1. CurrentRuns(k', pc')
    BY <1>3 DEF Sound
  <2>2. \A u \in Threads : InTable(k', u) => InTable(k, u)
    BY <1>4 DEF InTable
  <2> QED
    BY <1>1, <1>2, <1>4, <2>1, <2>2, HighestStays
<1> QED
  BY <1>2, <1>3, <1>5, BeginsNone, NotRegions DEF StepSound

LEMMA TickStep ==
  ASSUME Inv, ~overtaken, Tick
  PROVE  StepSound /\ HighestKept
<1>1. Sound(k, thread_timer, pc, arg) /\ IdleKept(pc, arg)
  BY InvFacts
<1>2. /\ k' = k \/ k' = Schedule(k)
      /\ thread_timer' = thread_timer /\ pc' = pc /\ arg' = arg
  BY DEF Tick
<1>3. CASE k' = k
  BY <1>1, <1>2, <1>3 DEF StepSound, Begins, HighestKept, HighestIsCurrent, Cur, Stat
<1>4. CASE k' = Schedule(k)
  <2>1. Sound(k', thread_timer, pc, arg)
    BY <1>1, <1>4, ScheduleSound
  <2>2. Scheduled(k, k') /\ k'.stat[k'.current] = "running"
    BY <1>1, <1>4, ScheduleRuns
  <2> QED
    BY <1>2, <2>1, <2>2, HighestAfterSchedule DEF StepSound, Begins, HighestKept
<1> QED
  BY <1>2, <1>3, <1>4

(* rt_thread_timeout and a device interrupt: a thread is woken, and the    *)
(* processor may be given to it.                                           *)
LEMMA InterruptWakeStep ==
  ASSUME Inv, ~overtaken, NEW t \in Threads, k.stat[t] = "suspend",
         thread_timer' = Updated(thread_timer, t, FALSE),
         k' = Schedule(Insert(Unlinked(k, t), t)), UNCHANGED <<pc, arg>>
  PROVE  StepSound /\ HighestKept
<1>1. /\ Sound(k, thread_timer, pc, arg) /\ IdleKept(pc, arg)
      /\ thread_timer \in [Threads -> BOOLEAN]
  BY InvFacts
<1>2. PICK m : m = Insert(Unlinked(k, t), t)
  OBVIOUS
<1>3. Sound(m, thread_timer', pc, arg)
  BY <1>1, <1>2, WakeSound
<1>4. k' = Schedule(m)
  BY <1>2
<1>5. Sound(k', thread_timer', pc', arg')
  BY <1>1, <1>3, <1>4, ScheduleSound
<1>6. Scheduled(m, k') /\ k'.stat[k'.current] = "running"
  BY <1>1, <1>3, <1>4, ScheduleRuns
<1> QED
  BY <1>5, <1>6, HighestAfterSchedule DEF StepSound, Begins, HighestKept

LEMMA TimeoutStep ==
  ASSUME Inv, ~overtaken, NEW t \in Threads, Timeout(t)
  PROVE  StepSound /\ HighestKept
<1>1. /\ thread_timer[t]
      /\ thread_timer' = Updated(thread_timer, t, FALSE)
      /\ k' = Schedule(Insert(Unlinked(k, t), t))
      /\ UNCHANGED <<pc, arg>>
  BY DEF Timeout, Updated
<1>2. k.stat[t] = "suspend"
  BY <1>1, InvFacts DEF Sound, TimersOfSleepers
<1> QED
  BY <1>1, <1>2, InterruptWakeStep

LEMMA IrqWakeStep ==
  ASSUME Inv, ~overtaken, NEW t \in Threads, IrqWake(t)
  PROVE  StepSound /\ HighestKept
<1>1. /\ k.stat[t] = "suspend"
      /\ thread_timer' = Updated(thread_timer, t, FALSE)
      /\ k' = Schedule(Insert(Unlinked(k, t), t))
      /\ UNCHANGED <<pc, arg>>
  BY DEF IrqWake, Sleeps, Stat, Updated
<1> QED
  BY <1>1, InterruptWakeStep

-----------------------------------------------------------------------------
LEMMA NextSound ==
  ASSUME Inv, ~overtaken, Next
  PROVE  /\ StepSound
         /\ ~(\E t \in Threads, x \in NewPrios : ChangePriority(t, x)) => HighestKept
<1>1. ASSUME NEW t \in Threads, NEW x \in NewPrios, ChangePriority(t, x) PROVE StepSound
  BY <1>1, ChangePriorityStep
<1>2. CASE DoSchedule
  BY <1>2, DoScheduleStep
<1>3. CASE Exit
  BY <1>3, ExitStep
<1>4. CASE EnterCritical
  BY <1>4, EnterCriticalStep
<1>5. CASE ExitCritical
  BY <1>5, ExitCriticalStep
<1>6. CASE \E listed, timed \in BOOLEAN : Block(listed, timed)
  BY <1>6, BlockStep
<1>7. ASSUME NEW t \in Threads, Wake(t) PROVE StepSound /\ HighestKept
  BY <1>7, WakeStep
<1>8. ASSUME NEW t \in Threads, Startup(t) PROVE StepSound /\ HighestKept
  BY <1>8, StartupStep
<1>9. ASSUME NEW t \in Threads, Create(t) PROVE StepSound /\ HighestKept
  BY <1>9, CreateStep
<1>10. ASSUME NEW t \in Threads, SuspendOther(t) PROVE StepSound /\ HighestKept
  <2>1. /\ pc[k.current] = "run"
        /\ t # Idle /\ t # k.current /\ k.stat[t] = "ready"
        /\ pc' = Updated(pc, k.current, "suspend") /\ arg' = Updated(arg, k.current, t)
        /\ UNCHANGED <<k, thread_timer>>
    BY <1>10 DEF SuspendOther, MayCall, Cur, Stat, Enter, Updated
  <2> QED
    BY <2>1, EntersStep
<1>11. ASSUME NEW t \in Threads, Resume(t) PROVE StepSound /\ HighestKept
  <2>1. /\ pc[k.current] = "run" /\ k.stat[t] = "suspend"
        /\ pc' = Updated(pc, k.current, "resume") /\ arg' = Updated(arg, k.current, t)
        /\ UNCHANGED <<k, thread_timer>>
    BY <1>11 DEF Resume, MayCall, Cur, Stat, Enter, Updated
  <2> QED
    BY <2>1, EntersStep
<1>12. ASSUME NEW t \in Threads, Delete(t) PROVE StepSound /\ HighestKept
  BY <1>12, DeleteStep
<1>13. CASE SuspendRegion
  BY <1>13, SuspendRegionStep
<1>14. CASE ResumeRegion
  BY <1>14, ResumeRegionStep
<1>15. CASE ResumeInsert
  BY <1>15, ResumeInsertStep
<1>16. CASE DeleteDetach
  BY <1>16, DeleteDetachStep
<1>17. CASE DeleteClose
  BY <1>17, DeleteCloseStep
<1>18. CASE DeleteDefunct
  BY <1>18, DeleteDefunctStep
<1>19. CASE IdleTakes
  BY <1>19, IdleTakesStep
<1>20. CASE IdleFrees
  BY <1>20, IdleFreesStep
<1>21. CASE Tick
  BY <1>21, TickStep
<1>22. ASSUME NEW t \in Threads, Timeout(t) PROVE StepSound /\ HighestKept
  BY <1>22, TimeoutStep
<1>23. ASSUME NEW t \in Threads, IrqWake(t) PROVE StepSound /\ HighestKept
  BY <1>23, IrqWakeStep
<1>24. ThreadStep \/ Interrupt
  BY DEF Next
<1> QED
  BY <1>1, <1>2, <1>3, <1>4, <1>5, <1>6, <1>7, <1>8, <1>9, <1>10, <1>11, <1>12, <1>13,
     <1>14, <1>15, <1>16, <1>17, <1>18, <1>19, <1>20, <1>21, <1>22, <1>23, <1>24
  DEF ThreadStep, Interrupt

(* Main runs, idle is in the table, and the others have not been started.  *)
LEMMA InitInv ==
  ASSUME Init
  PROVE  Inv /\ HighestIsCurrent
<1>1. /\ Idle \in Threads /\ Main \in Threads /\ Idle # Main /\ InitPrio \in [Threads -> Nat]
      /\ InitTick \in 1..InitTick /\ 0 \in 0..MaxNest
      /\ \A t \in Threads : InitPrio[t] <= InitPrio[Idle]
  BY SchedulerAssumption
<1>2. InitPrio \in [Threads -> Prios] /\ InitPrio[Idle] \in Prios
  BY <1>1, PriosAreNaturals
<1>3. /\ k.stat = [t \in Threads |-> IF t = Main THEN "running"
                                    ELSE IF t = Idle THEN "ready" ELSE "init"]
      /\ k.prio = InitPrio
      /\ k.table = [p \in Prios |-> IF p = InitPrio[Idle] THEN <<Idle>> ELSE << >>]
      /\ k.group = {InitPrio[Idle]} /\ k.current = Main /\ k.lock_nest = 0
      /\ k.waiting = {} /\ k.defunct = << >> /\ k.broken = FALSE
      /\ k = AsRecord(k)
  BY DEF Init, AsRecord
<1>4. /\ thread_timer = [t \in Threads |-> FALSE]
      /\ remaining_tick = [t \in Threads |-> InitTick]
      /\ pc = [t \in Threads |-> "run"] /\ arg = [t \in Threads |-> None]
      /\ overtaken = FALSE /\ calls \in CallSets
  BY DEF Init
<1>5. /\ Elements(<< >>) = {} /\ NoRepeat(<< >>)
      /\ Elements(<<Idle>>) = {Idle} /\ NoRepeat(<<Idle>>)
  BY DEF Elements, NoRepeat
<1>6. k \in KState
  <2>1. k.stat \in [Threads -> Stats]
    BY <1>3 DEF Stats
  <2>2. k.table \in [Prios -> Seq(Threads)] /\ k.defunct \in Seq(Threads)
    BY <1>1, <1>3
  <2> QED
    BY <1>1, <1>2, <1>3, <2>1, <2>2 DEF KState, AsRecord
<1>7. Consistent(k)
  <2>1. k.group = {p \in Prios : k.table[p] # << >>}
    BY <1>2, <1>3
  <2>2. \A p \in Prios :
          /\ NoRepeat(k.table[p])
          /\ \A t \in Elements(k.table[p]) : k.prio[t] = p /\ k.stat[t] = "ready"
    BY <1>1, <1>3, <1>5
  <2> QED
    BY <1>3, <1>5, <1>6, <2>1, <2>2 DEF Consistent
<1>8. ReadyInTable(k, pc, arg)
  BY <1>1, <1>2, <1>3, <1>5 DEF ReadyInTable, InTable
<1>9. TimersOfSleepers(k, thread_timer) /\ CurrentRuns(k, pc)
  BY <1>1, <1>3, <1>4 DEF TimersOfSleepers, CurrentRuns
<1>10. RegionsHold(k, thread_timer, pc, arg) /\ FreeHolds(k, pc, arg)
  BY <1>4 DEF RegionsHold, FreeHolds, Regions
<1>11. TypeOK
  BY <1>1, <1>4, <1>6 DEF TypeOK, PC, Regions
<1>12. HighestIsCurrent
  <2>1. InitPrio[Main] <= InitPrio[Idle]
    BY <1>1
  <2>2. \A t \in Threads : InTable(k, t) => t = Idle
    BY <1>3, <1>5 DEF InTable
  <2> QED
    BY <1>1, <1>3, <2>1, <2>2 DEF HighestIsCurrent, Cur, Stat
<1> QED
  BY <1>3, <1>7, <1>8, <1>9, <1>10, <1>11, <1>12 DEF Inv, Sound

(* A call the step leaves between two regions can still go on, unless the  *)
(* step has overtaken it.                                                  *)
LEMMA RegionsKept ==
  ASSUME Inv, ~overtaken, StepSound, ~Overtakes
  PROVE  RegionsHold(k', thread_timer', pc', arg')
<1>1. RegionsHold(k, thread_timer, pc, arg)
  BY InvFacts
<1>2. ASSUME NEW u \in Threads, pc'[u] \in Regions
      PROVE  GoesOn(k', thread_timer', pc', arg', u)
  <2>1. CASE pc'[u] = pc[u]
    <3>1. GoesOn(k, thread_timer, pc, arg, u)
      BY <1>1, <1>2, <2>1 DEF RegionsHold
    <3> QED
      BY <1>2, <2>1, <3>1 DEF Overtakes
  <2>2. CASE pc'[u] # pc[u]
    BY <1>2, <2>2 DEF StepSound, Begins
  <2> QED
    BY <2>1, <2>2
<1> QED
  BY <1>2 DEF RegionsHold

LEMMA TypeNext ==
  ASSUME TypeOK, [Next]_<<vars, overtaken, calls>>
  PROVE  /\ TypeOK'
         /\ k.lock_nest > 0 /\ k'.lock_nest > 0 => k'.current = k.current
<1>1. CASE Next
  <2>1. Typed
    BY <1>1, ThreadStepType, InterruptType DEF Next
  <2>2. overtaken' \in BOOLEAN
    <3>1. overtaken' = (overtaken \/ Overtakes)
      BY <1>1 DEF Next
    <3> QED
      BY <3>1
  <2>3. calls' \in CallSets
    BY <1>1 DEF Next, TypeOK
  <2> QED
    BY <2>1, <2>2, <2>3 DEF Typed, TypeOK
<1>2. CASE UNCHANGED <<vars, overtaken, calls>>
  BY <1>2 DEF vars, TypeOK
<1> QED
  BY <1>1, <1>2

LEMMA InvNext ==
  ASSUME Inv, [Next]_<<vars, overtaken, calls>>
  PROVE  Inv'
<1>1. TypeOK'
  BY TypeNext DEF Inv
<1>2. ASSUME ~overtaken'
      PROVE  Sound(k', thread_timer', pc', arg') /\ RegionsHold(k', thread_timer', pc', arg')
  <2>1. CASE Next
    <3>1. ~overtaken /\ ~Overtakes
      BY <1>2, <2>1 DEF Next
    <3>2. StepSound
      BY <2>1, <3>1, NextSound
    <3> QED
      BY <3>1, <3>2, RegionsKept DEF StepSound
  <2>2. CASE UNCHANGED <<vars, overtaken, calls>>
    BY <1>2, <2>2 DEF vars, Inv
  <2> QED
    BY <2>1, <2>2
<1> QED
  BY <1>1, <1>2 DEF Inv

(* The inductive invariant: until a call is overtaken between two of its   *)
(* regions the lists are consistent, nothing but the current thread runs,  *)
(* and what every such call has found out or done still stands.            *)
THEOREM Invariance == Spec => []Inv
<1>1. Init => Inv
  BY InitInv
<1>2. Inv /\ [Next]_<<vars, overtaken, calls>> => Inv'
  BY InvNext
<1> QED
  BY <1>1, <1>2, PTL DEF Spec

(* The bitmap says which queues have threads, and the ready threads are in *)
(* the table, each once, under its priority, and in no other list, until   *)
(* a call is overtaken between two of its regions.                         *)
THEOREM SchedulerReadyTable == Spec => []ReadyTableConsistent
<1>1. Inv => ReadyTableConsistent
  <2> SUFFICES ASSUME Inv, ~overtaken PROVE GroupMatchesTable /\ ReadyInOneQueue
    BY DEF ReadyTableConsistent, Inv
  <2>1. Consistent(k) /\ ReadyInTable(k, pc, arg)
    BY DEF Inv, Sound
  <2>2. GroupMatchesTable
    BY <2>1 DEF GroupMatchesTable, Consistent
  <2>3. ASSUME NEW t \in Threads
        PROVE  /\ InTable(k, t) => Stat(t) = "ready"
               /\ Stat(t) = "ready" => InTable(k, t) \/ BeingDeleted(t)
    <3>1. InTable(k, t) => k.stat[t] = "ready"
      BY <2>1, LinkedStats
    <3>2. k.stat[t] = "ready" => InTable(k, t) \/ BeingDeleted(t)
      BY <2>1 DEF BeingDeleted, ReadyInTable
    <3> QED
      BY <3>1, <3>2 DEF Stat
  <2>4. ASSUME NEW p \in Prios, NEW i \in 1..Len(k.table[p])
        PROVE  LET t == k.table[p][i]
               IN  /\ k.prio[t] = p /\ t \notin k.waiting /\ ~InDefunct(k, t)
                   /\ \A j \in 1..Len(k.table[p]) : k.table[p][j] = t => i = j
    <3>1. PICK t : t = k.table[p][i]
      OBVIOUS
    <3>2. t \in Elements(k.table[p])
      BY <3>1 DEF Elements
    <3>3. t \in Threads /\ k.prio[t] = p /\ k.stat[t] = "ready"
      BY <2>1, <3>2, QueueThreads DEF Consistent
    <3>4. t \notin k.waiting /\ ~InDefunct(k, t)
      BY <2>1, <3>3, LinkedStats
    <3>5. \A j \in 1..Len(k.table[p]) : k.table[p][j] = t => i = j
      BY <2>1, <3>1 DEF Consistent, NoRepeat
    <3> QED
      BY <3>1, <3>3, <3>4, <3>5
  <2> QED
    BY <2>2, <2>3, <2>4 DEF ReadyInOneQueue
<1> QED
  BY <1>1, Invariance, PTL

(* A thread that is closed, freed or not started cannot be run again,      *)
(* unless a call was overtaken.                                            *)
THEOREM SchedulerDead == Spec => []DeadIsUnreachable
<1>1. Inv => DeadIsUnreachable
  <2> SUFFICES ASSUME Inv, ~overtaken, NEW t \in Threads, Stat(t) \in {"none", "init", "close"}
               PROVE  /\ ~InTable(k, t) /\ t \notin k.waiting /\ ~thread_timer[t]
                      /\ t = Cur => Stat(t) = "close" /\ pc[t] = "schedule"
                      /\ InDefunct(k, t) => Stat(t) = "close"
    BY DEF DeadIsUnreachable, DeadStayDead
  <2>1. Consistent(k) /\ TimersOfSleepers(k, thread_timer) /\ CurrentRuns(k, pc)
    BY DEF Inv, Sound
  <2>2. /\ ~InTable(k, t) /\ t \notin k.waiting
        /\ InDefunct(k, t) => Stat(t) = "close"
    BY <2>1, LinkedStats DEF Stat
  <2>3. ~thread_timer[t]
    BY <2>1 DEF TimersOfSleepers, Stat
  <2>4. t = Cur => Stat(t) = "close" /\ pc[t] = "schedule"
    BY <2>1 DEF CurrentRuns, Stat, Cur
  <2> QED
    BY <2>2, <2>3, <2>4
<1> QED
  BY <1>1, Invariance, PTL

(* Through every preemption between the regions of the calls, a thread is  *)
(* inserted into a second list, or an empty queue taken for a full one,    *)
(* only after somebody else has changed the thread such a call is about.   *)
THEOREM SchedulerBroken == Spec => []BrokenOnlyIfOvertaken
<1>1. Inv => BrokenOnlyIfOvertaken
  BY DEF Inv, Sound, BrokenOnlyIfOvertaken
<1> QED
  BY <1>1, Invariance, PTL

(* With the scheduler unlocked and no rt_schedule pending, the highest     *)
(* priority runs, until a priority is changed or a call overtaken.         *)
THEOREM SchedulerHighestRuns == Spec => HighestRuns
<1>1. Init => HighestIsCurrent
  BY InitInv
<1>2. Inv /\ [Next]_<<vars, overtaken, calls>> =>
        [(/\ HighestIsCurrent /\ ~overtaken'
          /\ ~(\E t \in Threads, p \in NewPrios : ChangePriority(t, p)))
           => HighestIsCurrent']_vars
  <2> SUFFICES ASSUME Inv, Next, HighestIsCurrent, ~overtaken',
                      ~(\E t \in Threads, p \in NewPrios : ChangePriority(t, p))
               PROVE  HighestIsCurrent'
    BY DEF vars
  <2>1. ~overtaken
    BY DEF Next
  <2> QED
    BY <2>1, NextSound DEF HighestKept
<1> QED
  BY <1>1, <1>2, Invariance, PTL DEF Spec, HighestRuns

(* While the scheduler is locked nothing gives the processor away, not     *)
(* even after a call was overtaken.                                        *)
THEOREM SchedulerLocked == Spec => LockedKeepsProcessor
<1>1. TypeOK /\ [Next]_<<vars, overtaken, calls>> =>
        [k.lock_nest > 0 /\ k'.lock_nest > 0 => k'.current = Cur]_vars
  BY TypeNext DEF vars, Cur
<1>2. Inv => TypeOK
  BY DEF Inv
<1> QED
  BY <1>1, <1>2, Invariance, PTL DEF Spec, LockedKeepsProcessor
=============================================================================
