---------------------------- MODULE BoundedQueue ----------------------------
(***************************************************************************)
(* What a mailbox and a message queue promise: at most Size messages, each *)
(* received once, in the order they were accepted, except that an urgent   *)
(* one goes before the others.  Nothing is said of who waits.              *)
(***************************************************************************)
EXTENDS Naturals, Sequences

CONSTANTS Size, Mails

VARIABLES queue,    \* the messages accepted and not received, the oldest first
          received  \* the message received last

vars == <<queue, received>>

Init == queue = << >> /\ received \notin Mails

Put(m) ==
  /\ Len(queue) < Size
  /\ queue' = Append(queue, m)
  /\ UNCHANGED received

PutUrgent(m) ==
  /\ Len(queue) < Size
  /\ queue' = <<m>> \o queue
  /\ UNCHANGED received

Get ==
  /\ queue # << >>
  /\ received' = Head(queue)
  /\ queue' = Tail(queue)

Clear == queue' = << >> /\ UNCHANGED received

Next == (\E m \in Mails : Put(m) \/ PutUrgent(m)) \/ Get \/ Clear

NextInOrder == (\E m \in Mails : Put(m)) \/ Get \/ Clear

Spec == Init /\ [][Next]_vars

\* Without urgent messages.
SpecInOrder == Init /\ [][NextInOrder]_vars
=============================================================================
