-------------------------------- MODULE Pipe --------------------------------
(***************************************************************************)
(* Pipes with the file operations of pipe.c (20-249) and the wait queues   *)
(* under them (waitqueue.c).  A wake-up resumes the first node of a queue  *)
(* and sets a flag that spares the next wait its sleep; the flag is not    *)
(* anybody's and is cleared when any wait ends.                            *)
(*                                                                         *)
(* What a call does between taking and releasing pipe->lock is one step:   *)
(* the other calls do nothing to the pipe meanwhile but suspend or resume. *)
(* The bytes are counted; that they keep their order is RingBuffer's part. *)
(***************************************************************************)
EXTENDS RtList, FiniteSets

CONSTANTS Threads,
          Readers,  \* the threads that open the pipe to read, the others to write
          BufSz     \* pipe->bufsz

PipeAssumption == Readers \subseteq Threads /\ BufSz \in Nat \ {0}

VARIABLES fifo,          \* the bytes in pipe->fifo
          open,          \* the threads that have the pipe open
          waiting_list,  \* [Queues -> Seq(Threads)]
          wakeup_flag,   \* [Queues -> BOOLEAN], queue->flag
          pc,            \* [Threads -> PC]
          rest           \* [Threads -> 0..BufSz + 1], the bytes a write has still to put

vars == <<fifo, open, waiting_list, wakeup_flag, pc, rest>>

Queues == {"reader_queue", "writer_queue"}

Writers == Threads \ Readers

\* The queue a thread waits in, and the one of the threads it wakes.
Own(t) == IF t \in Readers THEN "reader_queue" ELSE "writer_queue"
Other(t) == IF t \in Readers THEN "writer_queue" ELSE "reader_queue"

(* idle: outside.  lock, again: about to take the mutex, for the first and *)
(* for a later time.  wake: about to wake the other side and then wait.    *)
(* wait: about to call rt_wqueue_wait.  asleep, woken: inside it.  last: a *)
(* write about to wake the reader and return.                              *)
PC == {"idle", "lock", "again", "wake", "wait", "asleep", "woken", "last"}

Init ==
  /\ fifo = 0
  /\ open = {}
  /\ waiting_list = [q \in Queues |-> << >>]
  /\ wakeup_flag = [q \in Queues |-> FALSE]
  /\ pc = [t \in Threads |-> "idle"]
  /\ rest = [t \in Threads |-> 0]

Count(side) == Cardinality(open \cap side)

Goto(t, label) == pc' = [pc EXCEPT ![t] = label]

\* The states of the threads after t has moved to label and q has been woken.
Woken(q, t, label) ==
  LET moved == [pc EXCEPT ![t] = label]
  IN  IF waiting_list[q] = << >> THEN moved
      ELSE [moved EXCEPT ![Head(waiting_list[q])] = "woken"]

WithoutFirst(s) == IF s = << >> THEN s ELSE Tail(s)

\* Mutant: the flag is not set.
Wakeup_NoFlag(q, t, label) ==
  /\ waiting_list' = [waiting_list EXCEPT ![q] = WithoutFirst(@)]
  /\ pc' = Woken(q, t, label)
  /\ UNCHANGED wakeup_flag

\* rt_wqueue_wakeup
Wakeup(q, t, label) ==
  /\ wakeup_flag' = [wakeup_flag EXCEPT ![q] = TRUE]
  /\ waiting_list' = [waiting_list EXCEPT ![q] = WithoutFirst(@)]
  /\ pc' = Woken(q, t, label)

-----------------------------------------------------------------------------
\* pipe_fops_open; the first one creates the buffer.
Open(t) ==
  /\ pc[t] = "idle" /\ t \notin open
  /\ open' = open \cup {t}
  /\ fifo' = IF open = {} THEN 0 ELSE fifo
  /\ UNCHANGED <<waiting_list, wakeup_flag, pc, rest>>

(* pipe_fops_close.  With no writer left it wakes a reader, with no reader *)
(* left a writer; the last one destroys the buffer.                        *)
Close(t) ==
  /\ pc[t] = "idle" /\ t \in open
  /\ open' = open \ {t}
  /\ fifo' = IF open = {t} THEN 0 ELSE fifo
  /\ LET hungUp == {q \in Queues : \/ q = "reader_queue" /\ open \cap Writers \subseteq {t}
                                   \/ q = "writer_queue" /\ open \cap Readers \subseteq {t}}
         first == {Head(waiting_list[q]) : q \in {r \in hungUp : waiting_list[r] # << >>}}
     IN  /\ wakeup_flag' = [q \in Queues |-> q \in hungUp \/ wakeup_flag[q]]
         /\ waiting_list' = [q \in Queues |-> IF q \in hungUp THEN WithoutFirst(waiting_list[q])
                                              ELSE waiting_list[q]]
         /\ pc' = [u \in Threads |-> IF u \in first THEN "woken" ELSE pc[u]]
  /\ UNCHANGED rest

\* pipe_fops_read with a writer, pipe_fops_write of n bytes with a reader.
Read(t) ==
  /\ t \in Readers \cap open /\ pc[t] = "idle"
  /\ Count(Writers) > 0
  /\ Goto(t, "lock")
  /\ UNCHANGED <<fifo, open, waiting_list, wakeup_flag, rest>>

Write(t, n) ==
  /\ t \in Writers \cap open /\ pc[t] = "idle"
  /\ Count(Readers) > 0
  /\ Goto(t, "lock")
  /\ rest' = [rest EXCEPT ![t] = n]
  /\ UNCHANGED <<fifo, open, waiting_list, wakeup_flag>>

(* The body of the loop of pipe_fops_read, with the lock: some bytes were  *)
(* there and a writer is told, or none and the reader is going to wait.    *)
ReadLocked(t) ==
  /\ t \in Readers /\ pc[t] \in {"lock", "again"}
  /\ IF Count(Writers) = 0
     THEN Goto(t, "idle") /\ UNCHANGED <<fifo, waiting_list, wakeup_flag>>
     ELSE \/ /\ fifo = 0
             /\ Goto(t, "wake")
             /\ UNCHANGED <<fifo, waiting_list, wakeup_flag>>
          \/ /\ fifo > 0
             /\ \E n \in 1..fifo : fifo' = fifo - n
             /\ Wakeup("writer_queue", t, "idle")
  /\ UNCHANGED <<open, rest>>

(* The body of the loop of pipe_fops_write, with the lock: what fits is    *)
(* put, and the rest waits for room.                                       *)
WriteLocked(t) ==
  /\ t \in Writers /\ pc[t] \in {"lock", "again"}
  /\ IF Count(Readers) = 0
     THEN /\ Goto(t, IF pc[t] = "lock" THEN "idle" ELSE "last")
          /\ rest' = [rest EXCEPT ![t] = 0]
          /\ UNCHANGED fifo
     ELSE LET n == IF rest[t] <= BufSz - fifo THEN rest[t] ELSE BufSz - fifo
          IN  /\ fifo' = fifo + n
              /\ rest' = [rest EXCEPT ![t] = @ - n]
              /\ Goto(t, IF rest[t] = n THEN "last" ELSE "wake")
  /\ UNCHANGED <<open, waiting_list, wakeup_flag>>

\* Both wake the other side before they wait, and a write before it returns.
WakesOther(t) ==
  /\ pc[t] = "wake"
  /\ Wakeup(Other(t), t, "wait")
  /\ UNCHANGED <<fifo, open, rest>>

WriteReturns(t) ==
  /\ pc[t] = "last"
  /\ Wakeup("reader_queue", t, "idle")
  /\ UNCHANGED <<fifo, open, rest>>

\* rt_wqueue_wait: the flag is consumed, or the thread joins the queue and suspends.
Waits(t) ==
  /\ pc[t] = "wait"
  /\ LET q == Own(t)
     IN  IF wakeup_flag[q]
         THEN /\ wakeup_flag' = [wakeup_flag EXCEPT ![q] = FALSE]
              /\ Goto(t, "again")
              /\ UNCHANGED waiting_list
         ELSE /\ waiting_list' = [waiting_list EXCEPT ![q] = Append(@, t)]
              /\ Goto(t, "asleep")
              /\ UNCHANGED wakeup_flag
  /\ UNCHANGED <<fifo, open, rest>>

\* The end of rt_wqueue_wait after a wake-up: the flag goes, whoever it was for.
WaitEnds(t) ==
  /\ pc[t] = "woken"
  /\ wakeup_flag' = [wakeup_flag EXCEPT ![Own(t)] = FALSE]
  /\ Goto(t, "again")
  /\ UNCHANGED <<fifo, open, waiting_list, rest>>

Next ==
  \E t \in Threads : \/ Open(t) \/ Close(t) \/ Read(t) \/ (\E n \in 1..(BufSz + 1) : Write(t, n))
                     \/ ReadLocked(t) \/ WriteLocked(t) \/ WakesOther(t) \/ WriteReturns(t)
                     \/ Waits(t) \/ WaitEnds(t)

Spec == Init /\ [][Next]_vars

-----------------------------------------------------------------------------
TypeOK ==
  /\ fifo \in 0..BufSz
  /\ open \subseteq Threads
  /\ waiting_list \in [Queues -> Seq(Threads)]
  /\ wakeup_flag \in [Queues -> BOOLEAN]
  /\ pc \in [Threads -> PC]
  /\ rest \in [Threads -> 0..(BufSz + 1)]

Asleep(t) == pc[t] = "asleep"

(* Although the tests of the pipe and the waits are not one region, no     *)
(* wake-up is lost.  The reader of a pipe never sleeps beside bytes nobody *)
(* is about to announce, nor with no writer left; it and a writer never    *)
(* sleep at once unless another thread is on its way to wake one of them;  *)
(* and when the reader is gone some writer finds out (pipe.c:81-89,        *)
(* :166-168, :234-244, waitqueue.c:54, :99, :124).                         *)
NoWakeupLost ==
  LET Busy(t) == pc[t] \notin {"idle", "asleep"}
  IN  /\ \A r \in Readers : Asleep(r) =>
           /\ fifo = 0 \/ \E w \in Writers : pc[w] \in {"wake", "last"}
           /\ Count(Writers) > 0
           /\ \A w \in Writers : Asleep(w) => \E t \in Threads : Busy(t)
      /\ Count(Readers) = 0 => \E w \in Writers : ~Asleep(w)
-----------------------------------------------------------------------------
(* The inductive invariant behind it, for one reader and any writers.  A   *)
(* queue holds those who sleep in it, and who is inside a call has the     *)
(* pipe open.                                                              *)
QueuesHoldSleepers ==
  \A q \in Queues : /\ NoRepeat(waiting_list[q])
                    /\ Elements(waiting_list[q]) = {t \in Threads : Own(t) = q /\ Asleep(t)}

CallsHaveItOpen ==
  \A t \in Threads : /\ pc[t] # "idle" => t \in open
                     /\ pc[t] = "last" => t \in Writers

\* t sleeps, or is about to and the flag will not keep it from that.
Sleeps(t, before) == Asleep(t) \/ (pc[t] \in before /\ ~wakeup_flag[Own(t)])

\* What the reader has looked at before it sleeps holds until somebody is about to tell it.
ReaderTold ==
  \A r \in Readers : Sleeps(r, {"wake", "wait"}) =>
    /\ fifo = 0 \/ \E w \in Writers : pc[w] \in {"wake", "last"}
    /\ open \cap Writers # {}

(* Once the reader has woken a writer, one is on its way to wake the       *)
(* reader, or the flag keeps the next writer from sleeping.                *)
OneOfBothAwake ==
  \A r \in Readers : Sleeps(r, {"wait"}) =>
    \/ \E w \in Writers : pc[w] \in {"lock", "again", "wake", "last", "woken"}
    \/ wakeup_flag["writer_queue"] /\ \A w \in Writers : ~Asleep(w)

\* When the reader is gone some writer is past its wait or will not sleep.
HangUpTold ==
  open \cap Readers = {} =>
    \/ \E w \in Writers : pc[w] \in {"idle", "lock", "again", "last", "woken"}
    \/ wakeup_flag["writer_queue"] /\ \E w \in Writers : ~Asleep(w)

\* A pipe has one reader and somebody to write to it.
OneReader == (\A r, s \in Readers : r = s) /\ Writers # {}

Inv ==
  /\ TypeOK
  /\ QueuesHoldSleepers
  /\ CallsHaveItOpen
  /\ OneReader => ReaderTold /\ OneOfBothAwake /\ HangUpTold
=============================================================================
