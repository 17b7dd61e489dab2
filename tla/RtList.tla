------------------------------- MODULE RtList -------------------------------
(***************************************************************************)
(* The kernel's doubly linked lists (rtservice.h) as sequences, without    *)
(* their heads: waiting lists, queues of the ready table, timers.          *)
(***************************************************************************)
EXTENDS Integers, Sequences

Elements(q) == {q[i] : i \in 1..Len(q)}

NoRepeat(q) == \A i, j \in 1..Len(q) : q[i] = q[j] => i = j

OrderedBy(q, prio) == \A i, j \in 1..Len(q) : i <= j => prio[q[i]] <= prio[q[j]]

\* rt_list_insert_before the i-th entry; i = Len(q) + 1 appends.
InsertAt(q, i, t) ==
  [k \in 1..(Len(q) + 1) |-> IF k < i THEN q[k]
                             ELSE IF k = i THEN t ELSE q[k - 1]]

\* rt_list_remove: unlinks t when it is linked in q.
Unlink(q, t) ==
  IF t \in Elements(q)
  THEN LET i == CHOOSE j \in 1..Len(q) : q[j] = t
       IN  [k \in 1..(Len(q) - 1) |-> IF k < i THEN q[k] ELSE q[k + 1]]
  ELSE q
=============================================================================
