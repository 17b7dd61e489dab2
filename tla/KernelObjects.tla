--------------------------- MODULE KernelObjects ---------------------------
(***************************************************************************)
(* The objects of the kernel that carry data (ipc.c, mempool.c, mem.c):    *)
(* event sets, mailboxes, message queues and memory pools, built from the  *)
(* lists and threads of Ipc, and the system heap.  They share nothing but  *)
(* the threads, and a thread is inside one call at a time: in a behaviour  *)
(* one of them is used, which one is chosen initially.                     *)
(***************************************************************************)
EXTENDS Ipc, FiniteSets

CONSTANTS Uses,                             \* the objects used, a subset of Objects
          Flag, Prio,
          Event, Events,
          MbReceivers, MbSenders, MbSize,
          MqReceivers, MqSize,
          Pool, PoolBlocks, MaxWaiters,
          MemSize, Header, MinSize,
          Mails, None

VARIABLES using,
          set, event_set, event_info, asked,
          msg_pool, mb_entry, in_offset, out_offset, mb_call, mb_received,
          next, content, head, tail, free, mq_entry, mq_call, mq_received,
          block_list, block_free_count, suspend_thread_count, in_use, mp_call, expired,
          blocks, lfree, used_mem, allocated, passed

Ev == INSTANCE Event
Mb == INSTANCE Mailbox
        WITH Receivers <- MbReceivers, Senders <- MbSenders, Size <- MbSize,
             entry <- mb_entry, call <- mb_call, received <- mb_received
Mq == INSTANCE MessageQueue
        WITH Receivers <- MqReceivers, Size <- MqSize,
             entry <- mq_entry, call <- mq_call, received <- mq_received
Mp == INSTANCE MemPool WITH Blocks <- PoolBlocks, call <- mp_call
Sm == INSTANCE SmallMem

Objects == {"event", "mailbox", "message queue", "memory pool", "heap"}

\* The lists of suspended threads of an object.
ListsOf(o) ==
  CASE o = "event" -> {Event}
    [] o = "mailbox" -> {MbReceivers, MbSenders}
    [] o = "message queue" -> {MqReceivers}
    [] o = "memory pool" -> {Pool}
    [] o = "heap" -> {}

ASSUME KernelAssumption ==
  /\ Uses \subseteq Objects
  /\ IsFiniteSet(Threads)
  /\ \A o, p \in Objects : o # p => ListsOf(o) \cap ListsOf(p) = {}
  /\ Ev!EventAssumption /\ Mb!MailboxAssumption /\ Mq!QueueAssumption
  /\ Mp!MemPoolAssumption /\ Sm!SmallMemAssumption

evVars == <<set, event_set, event_info, asked>>
mbVars == <<msg_pool, mb_entry, in_offset, out_offset, mb_call, mb_received>>
mqVars == <<next, content, head, tail, free, mq_entry, mq_call, mq_received>>
mpVars == <<block_list, block_free_count, suspend_thread_count, in_use, mp_call, expired>>
smVars == <<blocks, lfree, used_mem, allocated, passed>>
vars == <<using, ipcVars, evVars, mbVars, mqVars, mpVars, smVars>>

Init ==
  /\ using \in Uses
  /\ Ev!Init /\ Mb!Init /\ Mq!Init /\ Mp!Init /\ Sm!Init

Next ==
  \/ /\ using = "event"
     /\ Ev!Next
     /\ UNCHANGED <<using, mbVars, mqVars, mpVars, smVars>>
  \/ /\ using = "mailbox"
     /\ Mb!Next
     /\ UNCHANGED <<using, evVars, mqVars, mpVars, smVars>>
  \/ /\ using = "message queue"
     /\ Mq!Next
     /\ UNCHANGED <<using, evVars, mbVars, mpVars, smVars>>
  \/ /\ using = "memory pool"
     /\ Mp!Next
     /\ UNCHANGED <<using, evVars, mbVars, mqVars, smVars>>
  \/ /\ using = "heap"
     /\ Sm!Next
     /\ UNCHANGED <<using, ipcVars, evVars, mbVars, mqVars, mpVars>>

Spec == Init /\ [][Next]_vars

-----------------------------------------------------------------------------
(* The types of the variables; and the waiting lists, the states of the    *)
(* threads and their timers agree, although events take threads out of the *)
(* middle of a list and pools put them in at its head.                     *)
TypeOK ==
  /\ using \in Uses
  /\ Ev!TypeOK /\ Mb!TypeOK /\ Mq!TypeOK /\ Mp!TypeOK
  /\ IpcInv

(* Events: nobody sleeps through the events it waits for, and a woken call *)
(* returns what it asked for (ipc.c:1056-1099, :1227).                     *)
EventsAnswer == Ev!NoneMissed /\ Ev!AnswersFit

\* Events: no bit is lost or received twice (ipc.c:1049, :1076, :1090-1091).
EventsClearedOnce == Ev!ClearedOnce

(* Mailboxes and message queues: what is sent is received once, in order,  *)
(* whatever blocks, retries, times out or resets in between (ipc.c:1467-   *)
(* 1550, :1615-1702, :1982-2034, :2163-2255).                              *)
QueuesImplemented == Mb!ImplementsQueue /\ Mq!ImplementsQueue

(* Message queues: each block is in one place, and the message that is     *)
(* copied with interrupts enabled is the one taken off (ipc.c:1982-2021,   *)
(* :2234-2255, :2297-2311).                                                *)
MessageBlocksInOnePlace == Mq!BlocksInOnePlace /\ Mq!CopyIntact

(* Nobody sleeps beside mail, a message, room or a free block, unless it   *)
(* is meant for another who is already woken, nor in a mailbox whose       *)
(* deletion has returned (ipc.c:1338, :1415-1418, :1467-1550, :1615-1702,  *)
(* :2163-2232, mempool.c:317-368, :421-435).                               *)
NoneStranded ==
  Mb!NoneStranded /\ Mb!DrainedWhenDeleted /\ Mq!NoneStranded /\ Mp!NoneStranded

(* Memory pools: each block is free or in one caller's hands, and the      *)
(* count of waiters errs by the waits that timed out (mempool.c:370-378,   *)
(* :414-435).                                                              *)
PoolAccounts == using = "memory pool" => Mp!PoolAccounts

\* Memory pools: a block freed resumes a thread (thread.c:712).
FreesResumeThreads == Mp!FreesResumeThreads

(* The heap: blocks tile it and rt_malloc finds a free one of the size if  *)
(* there is, but for an exact fit at the end and those that rt_realloc     *)
(* left below lfree (mem.c:131, :165-192, :305, :471-493, :596-607).       *)
HeapSound == Sm!HeapTiles /\ Sm!MallocFinds

-----------------------------------------------------------------------------
(* The inductive invariant behind the safety properties: the one of the    *)
(* object that is used, while nobody is in the others and they are in      *)
(* service.                                                                *)
OthersUntouched ==
  /\ \A l \in Lists : l \notin ListsOf(using) =>
                     suspend_thread[l] = << >> /\ teardown[l] = "live"
  /\ using # "event" =>
       set = {} /\ \A t \in Threads : asked[t] = {} /\ event_set[t] = {} /\ ~event_info[t].all

Inv ==
  /\ TypeOK
  /\ OthersUntouched
  /\ Mq!ListsEnd /\ MessageBlocksInOnePlace
  /\ using = "event" => Ev!Inv
  /\ using = "mailbox" => Mb!Inv
  /\ using = "message queue" => Mq!Inv
  /\ using = "memory pool" => Mp!Inv
=============================================================================
