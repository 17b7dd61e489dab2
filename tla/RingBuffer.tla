----------------------------- MODULE RingBuffer -----------------------------
(***************************************************************************)
(* Ring buffers (ringbuffer.c): two indices, each with a mirror bit that   *)
(* tells a full buffer from an empty one.  The callers serialise the       *)
(* calls: each is one step.                                                *)
(***************************************************************************)
EXTENDS Integers, Sequences

CONSTANTS BufferSize,  \* rb->buffer_size
          Bytes,
          None         \* what a cell holds before it is written

RingBufferAssumption == BufferSize \in Nat \ {0} /\ None \notin Bytes

VARIABLES rb,      \* read_mirror, read_index, write_mirror, write_index
          buffer,  \* [Cells -> Bytes \cup {None}], rb->buffer_ptr
          data     \* history: the bytes put and not yet read, as the interface promises them

vars == <<rb, buffer, data>>

Cells == 0..(BufferSize - 1)

Empty == [read_mirror |-> FALSE, read_index |-> 0, write_mirror |-> FALSE, write_index |-> 0]

Init == rb = Empty /\ buffer = [c \in Cells |-> None] /\ data = << >>

\* rt_ringbuffer_data_len, rt_ringbuffer_status
DataLen ==
  IF rb.read_index = rb.write_index
  THEN IF rb.read_mirror = rb.write_mirror THEN 0 ELSE BufferSize
  ELSE IF rb.write_index > rb.read_index THEN rb.write_index - rb.read_index
  ELSE BufferSize - (rb.read_index - rb.write_index)

Space == BufferSize - DataLen

\* The bytes a reader would get.
Contents == [i \in 1..DataLen |-> buffer[(rb.read_index + i - 1) % BufferSize]]

Least(m, n) == IF m < n THEN m ELSE n

LastOf(s, n) == IF Len(s) <= n THEN s ELSE SubSeq(s, Len(s) - n + 1, Len(s))

\* Both memcpy calls: s is written from write_index on, around the end.
Copied(s) ==
  [c \in Cells |-> LET i == (c - rb.write_index) % BufferSize
                   IN  IF i < Len(s) THEN s[i + 1] ELSE buffer[c]]

\* write_index is moved n on; the mirror flips when it reaches the end.
Written(n) ==
  IF BufferSize - rb.write_index > n
  THEN [rb EXCEPT !.write_index = @ + n]
  ELSE [rb EXCEPT !.write_mirror = ~@, !.write_index = n - (BufferSize - @)]

\* rt_ringbuffer_put, rt_ringbuffer_putchar: what does not fit is dropped.
Put(s) ==
  LET n == Least(Space, Len(s))
      put == SubSeq(s, 1, n)
  IN  /\ n > 0
      /\ buffer' = Copied(put)
      /\ rb' = Written(n)
      /\ data' = data \o put

(* rt_ringbuffer_put_force: the oldest bytes make room.  Where the write   *)
(* goes around the end the read mirror is flipped, whatever it was.        *)
PutForce(s) ==
  LET put == LastOf(s, BufferSize)
      after == Written(Len(put))
      around == after.write_mirror # rb.write_mirror
  IN  /\ buffer' = Copied(put)
      /\ rb' = IF Len(put) <= Space THEN after
               ELSE [after EXCEPT !.read_index = after.write_index,
                                  !.read_mirror = IF around THEN ~@ ELSE @]
      /\ data' = LastOf(data \o put, BufferSize)

\* rt_ringbuffer_putchar_force: a full buffer gives up its oldest byte.
PutCharForce(b) ==
  LET after == Written(1)
      around == after.write_mirror # rb.write_mirror
  IN  /\ buffer' = Copied(<<b>>)
      /\ rb' = IF Space > 0 THEN after
               ELSE [after EXCEPT !.read_index = after.write_index,
                                  !.read_mirror = IF around THEN ~@ ELSE @]
      /\ data' = LastOf(Append(data, b), BufferSize)

\* Mutant: the mirror only flips when the read goes beyond the end.
Get_LateFlip(length) ==
  LET n == Least(DataLen, length)
  IN  /\ n > 0
      /\ rb' = IF BufferSize - rb.read_index >= n
               THEN [rb EXCEPT !.read_index = (@ + n) % BufferSize]
               ELSE [rb EXCEPT !.read_mirror = ~@, !.read_index = n - (BufferSize - @)]
      /\ data' = SubSeq(data, n + 1, Len(data))
      /\ UNCHANGED buffer

\* rt_ringbuffer_get, rt_ringbuffer_getchar
Get(length) ==
  LET n == Least(DataLen, length)
  IN  /\ n > 0
      /\ rb' = IF BufferSize - rb.read_index > n
               THEN [rb EXCEPT !.read_index = @ + n]
               ELSE [rb EXCEPT !.read_mirror = ~@, !.read_index = n - (BufferSize - @)]
      /\ data' = SubSeq(data, n + 1, Len(data))
      /\ UNCHANGED buffer

\* rt_ringbuffer_reset
Reset == rb' = Empty /\ data' = << >> /\ UNCHANGED buffer

\* What the buffer holds is what the interface promises.
Faithful == Contents = data

Strings == UNION {[1..n -> Bytes] : n \in 1..(BufferSize + 1)}

\* No claim is made of a buffer that has lost its data.
Next ==
  /\ Faithful
  /\ \/ \E s \in Strings : Put(s) \/ PutForce(s)
     \/ \E b \in Bytes : PutCharForce(b)
     \/ \E n \in 1..(BufferSize + 1) : Get(n)
     \/ Reset

Spec == Init /\ [][Next]_vars

-----------------------------------------------------------------------------
TypeOK ==
  /\ rb \in [read_mirror : BOOLEAN, read_index : Cells, write_mirror : BOOLEAN, write_index : Cells]
  /\ buffer \in [Cells -> Bytes \cup {None}]
  /\ data \in Seq(Bytes)

(* When the buffer is full, rt_ringbuffer_put_force discards the old data  *)
(* (ringbuffer.c:96) and keeps the new.                                    *)
ForceKeepsNewest == Faithful

(* The buffer holds the bytes put into it, in order, through every wrap of *)
(* its indices, and the newest of them when more are forced in, except     *)
(* that a forced write that overflows and goes around the end while both   *)
(* mirrors agree leaves it empty (ringbuffer.c:19-24, :85-87, :135-143,    *)
(* :188-190).                                                              *)
KeepsItsData ==
  /\ Faithful
  /\ [][Faithful' \/ /\ rb.read_mirror = rb.write_mirror
                     /\ rb.read_index <= rb.write_index
                     /\ (\E s \in Strings : Len(s) > Space /\ PutForce(s))
                     /\ Contents' = << >>]_vars
-----------------------------------------------------------------------------
\* The inductive invariant behind it: the mirrors tell which index is ahead.
MirrorsTell ==
  IF rb.read_mirror = rb.write_mirror THEN rb.read_index <= rb.write_index
  ELSE rb.write_index <= rb.read_index

Inv == TypeOK /\ MirrorsTell
=============================================================================
