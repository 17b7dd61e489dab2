----------------------------- MODULE RingBlocks -----------------------------
(***************************************************************************)
(* Ring block buffers (ringblk_buf.c): blocks of a buffer, given out one   *)
(* behind the other and around its end, in a list in the order they were   *)
(* given out.  A block is put by who filled it, got by who reads it, and   *)
(* freed.  Several at once may be taken off the list as a queue.  Each     *)
(* call is one region with interrupts disabled, but for the release of a   *)
(* queue, which frees its blocks one by one and is one step here.          *)
(***************************************************************************)
EXTENDS Integers, Sequences

CONSTANTS BlkMaxNum,  \* rbb->blk_max_num
          RbbSize,    \* rbb->buf_size
          MaxAlloc    \* bound on the sizes asked for, 2^24 - 1 in the code

RingBlocksAssumption == {BlkMaxNum, RbbSize} \subseteq Nat \ {0} /\ MaxAlloc \in Nat

Blks == 0..(BlkMaxNum - 1)

NoQueue == [blocks |-> 0, blk_num |-> 0]

VARIABLES blk_set,    \* [Blks -> [status, buf, size]], rbb->blk_set
          blk_list,   \* the oldest first
          blk_queue,  \* the queue the reader has, or NoQueue
          taken,      \* history: the blocks in that queue, in order
          strayed,    \* history: rt_rbb_blk_queue_free has freed other blocks than those
          misfit      \* history: a block of no size, or larger than the buffer, was given out

vars == <<blk_set, blk_list, blk_queue, taken, strayed, misfit>>

Unused == [status |-> "UNUSED", buf |-> 0, size |-> 0]

Init ==
  /\ blk_set = [b \in Blks |-> Unused]
  /\ blk_list = << >> /\ blk_queue = NoQueue
  /\ taken = << >> /\ strayed = FALSE /\ misfit = FALSE

Elems(q) == {q[i] : i \in 1..Len(q)}
Status(b) == blk_set[b].status
Buf(b) == blk_set[b].buf
EndOf(b) == blk_set[b].buf + blk_set[b].size
UnusedBlks == {b \in Blks : Status(b) = "UNUSED"}

\* Mutant: the gap before the first block is measured from its end.
Place_OverHead(size) ==
  LET head == blk_list[1]
      tail == blk_list[Len(blk_list)]
      wrapped == Buf(head) > Buf(tail)
      behind == (IF wrapped THEN Buf(head) ELSE RbbSize) - EndOf(tail)
  IN  IF blk_list = << >> THEN {0}
      ELSE IF behind >= size THEN {EndOf(tail)}
      ELSE IF ~wrapped /\ EndOf(head) >= size THEN {0}
      ELSE {}

(* Where rt_rbb_blk_alloc puts a block: behind the last one or, at the end *)
(* of the buffer, before the first one, if there is room.                  *)
Place(size) ==
  LET head == blk_list[1]
      tail == blk_list[Len(blk_list)]
      wrapped == Buf(head) > Buf(tail)
      behind == (IF wrapped THEN Buf(head) ELSE RbbSize) - EndOf(tail)
  IN  IF blk_list = << >> THEN {0}
      ELSE IF behind >= size THEN {EndOf(tail)}
      ELSE IF ~wrapped /\ Buf(head) >= size THEN {0}
      ELSE {}

(* It takes the first unused entry of blk_set; with no place it changes    *)
(* nothing.  The size is not looked at where the list is empty.            *)
Alloc(size) ==
  /\ UnusedBlks # {}
  /\ LET b == CHOOSE c \in UnusedBlks : \A d \in UnusedBlks : c <= d
     IN  /\ \E at \in Place(size) :
              blk_set' = [blk_set EXCEPT ![b] = [status |-> "INITED", buf |-> at, size |-> size]]
         /\ blk_list' = Append(blk_list, b)
  /\ misfit' = (size \notin 1..RbbSize)
  /\ UNCHANGED <<blk_queue, taken, strayed>>

\* rt_rbb_blk_put by who has the block
Put(b) ==
  /\ Status(b) = "INITED"
  /\ blk_set' = [blk_set EXCEPT ![b].status = "PUT"]
  /\ UNCHANGED <<blk_list, blk_queue, taken, strayed, misfit>>

FirstPut == {i \in 1..Len(blk_list) : /\ Status(blk_list[i]) = "PUT"
                                      /\ \A j \in 1..(i - 1) : Status(blk_list[j]) # "PUT"}

\* rt_rbb_blk_get: the block stays in the list.
Get ==
  /\ \E i \in FirstPut : blk_set' = [blk_set EXCEPT ![blk_list[i]].status = "GET"]
  /\ UNCHANGED <<blk_list, blk_queue, taken, strayed, misfit>>

\* The list q without the blocks freed.
Without(q, freed) ==
  LET left[n \in 0..Len(q)] == IF n = 0 THEN << >>
                               ELSE IF q[n] \in freed THEN left[n - 1]
                               ELSE Append(left[n - 1], q[n])
  IN  left[Len(q)]

\* rt_rbb_blk_free by who has the block, filled or read.
Free(b) ==
  /\ Status(b) \in {"INITED", "GET"} /\ b \notin Elems(taken)
  /\ blk_set' = [blk_set EXCEPT ![b] = Unused]
  /\ blk_list' = Without(blk_list, {b})
  /\ UNCHANGED <<blk_queue, taken, strayed, misfit>>

-----------------------------------------------------------------------------
SizeOf(q) ==
  LET sum[i \in 0..Len(q)] == IF i = 0 THEN 0 ELSE sum[i - 1] + blk_set[q[i]].size
  IN  sum[Len(q)]

\* May the k-th block of the list join those from the i-th on?
Joins(i, k, limit) ==
  /\ Status(blk_list[k]) = "PUT"
  /\ Buf(blk_list[k - 1]) <= Buf(blk_list[k])
  /\ SizeOf(SubSeq(blk_list, i, k)) <= limit

\* The last block of the longest run from the i-th on.
LastOfRun(i, limit) ==
  CHOOSE k \in i..Len(blk_list) :
    /\ \A m \in (i + 1)..k : Joins(i, m, limit)
    /\ k < Len(blk_list) => ~Joins(i, k + 1, limit)

(* rt_rbb_blk_queue_get takes the first block that was put and those that  *)
(* follow in the list and in the buffer off the list.                      *)
QueueGet(limit) ==
  /\ taken = << >>
  /\ \E i \in FirstPut :
       LET run == SubSeq(blk_list, i, LastOfRun(i, limit))
       IN  /\ taken' = run
           /\ blk_queue' = [blocks |-> run[1], blk_num |-> Len(run)]
           /\ blk_list' = Without(blk_list, Elems(run))
           /\ blk_set' = [b \in Blks |-> IF b \in Elems(run) THEN [blk_set[b] EXCEPT !.status = "GET"]
                                         ELSE blk_set[b]]
  /\ UNCHANGED <<strayed, misfit>>

\* The entries rt_rbb_blk_queue_free goes through: neighbours in blk_set.
QueueEntries == blk_queue.blocks..(blk_queue.blocks + blk_queue.blk_num - 1)

\* rt_rbb_blk_queue_free; it may leave blk_set or free what others have.
QueueFree ==
  /\ taken # << >>
  /\ LET freed == QueueEntries \cap Blks
     IN  /\ blk_set' = [b \in Blks |-> IF b \in freed THEN Unused ELSE blk_set[b]]
         /\ blk_list' = Without(blk_list, freed)
  /\ strayed' = (QueueEntries # Elems(taken))
  /\ taken' = << >> /\ blk_queue' = NoQueue
  /\ UNCHANGED misfit

(* No claim is made after the wrong blocks have been freed, nor after a    *)
(* block was given out that does not fit: the room that is left is then    *)
(* computed below zero, or a list around the end of the buffer mistaken    *)
(* for one that is not.                                                    *)
Next ==
  /\ ~strayed /\ ~misfit
  /\ \/ \E size \in 0..MaxAlloc : Alloc(size) \/ QueueGet(size)
     \/ \E b \in Blks : Put(b) \/ Free(b)
     \/ Get \/ QueueFree

Spec == Init /\ [][Next]_vars

-----------------------------------------------------------------------------
TypeOK ==
  /\ blk_set \in [Blks -> [status : {"UNUSED", "INITED", "PUT", "GET"},
                           buf : 0..RbbSize, size : Nat]]
  /\ {blk_list, taken} \subseteq Seq(Blks)
  /\ {strayed, misfit} \subseteq BOOLEAN

(* The blocks in the list lie apart and within the buffer, whatever is     *)
(* given out, read and freed in whatever order and wherever the buffer     *)
(* wraps, but for one that did not fit when it was given out: that is of   *)
(* no size, or larger than the buffer and the only one of the list.  Every *)
(* block in use is in the list, except those of a queue: their memory is   *)
(* given out again while they are read, and a queue whose blocks are not   *)
(* neighbours in blk_set is not what its release frees                     *)
(* (ringblk_buf.c:149-216, :414-417, :476-479).                            *)
BlocksApart ==
  /\ ~misfit =>
       /\ \A i, j \in 1..Len(blk_list) :
            i # j => LET b == blk_list[i]
                         c == blk_list[j]
                     IN  b # c /\ (EndOf(b) <= Buf(c) \/ EndOf(c) <= Buf(b))
       /\ \A b \in Elems(blk_list) : EndOf(b) <= RbbSize
  /\ misfit => \E b \in Elems(blk_list) :
       blk_set[b].size = 0 \/ (blk_set[b].size > RbbSize /\ blk_list = <<b>>)
  /\ ~strayed => Blks \ UnusedBlks = Elems(blk_list) \cup Elems(taken)
-----------------------------------------------------------------------------
(* The inductive invariant behind it: the list goes around the buffer      *)
(* once.                                                                   *)
Rising(x, y, z) == x < y /\ y < z

InTurn ==
  /\ ~misfit =>
       /\ \A b \in Elems(blk_list) : blk_set[b].size > 0
       /\ \A i, j, k \in 1..Len(blk_list) : i < j /\ j < k =>
            \/ Rising(Buf(blk_list[i]), Buf(blk_list[j]), Buf(blk_list[k]))
            \/ Rising(Buf(blk_list[j]), Buf(blk_list[k]), Buf(blk_list[i]))
            \/ Rising(Buf(blk_list[k]), Buf(blk_list[i]), Buf(blk_list[j]))
  /\ Elems(blk_list) \cap Elems(taken) = {}

Inv == TypeOK /\ BlocksApart /\ InTurn
=============================================================================
