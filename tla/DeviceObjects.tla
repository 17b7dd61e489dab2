--------------------------- MODULE DeviceObjects ---------------------------
(***************************************************************************)
(* The objects of the device drivers (components/drivers): data queues and *)
(* completions, built from the threads of Ipc, pipes and work queues, with *)
(* lists of their own, ring and block buffers, the two directions of a     *)
(* serial device, and the parts of the WLAN framework: configurations,     *)
(* scan results and the manager.  The objects share nothing but the        *)
(* threads, and a thread is inside one call at a time: in a behaviour one  *)
(* of them is used, chosen initially.                                      *)
(***************************************************************************)
EXTENDS Ipc, FiniteSets

CONSTANTS Uses,                         \* the objects that may be used, a subset of Objects
          Pushers, Poppers, Size, Lwm, IndexMod, Mails,
          Done,
          Readers, BufSz,
          Works, Delayed,
          BufferSize, Bytes,
          BlkMaxNum, RbbSize, MaxAlloc,
          Bufsz, QueueSize,
          Aps, Keys, InfoMax,
          Reports, CacheNum,
          Users, Joiners, Worker, Stations, MishapMax,
          None

VARIABLES using,
          items, put_index, get_index, dq_call, dq_received, overrun,
          flag, co_call,
          fifo, open, waiting_list, wakeup_flag, pipe_pc, rest,
          work_list, work_current, pending, submitting, timed, attached,
          worker, wq_pc, arg, broken, unlinked, missed,
          rb, buffer, data,
          blk_set, blk_list, blk_queue, taken, strayed, misfit,
          open_flag, rx_buffer, rx_put_index, rx_get_index, is_full, dma_index, last_index,
          complete_irq, in_isr, unread, arriving, miscounted,
          data_queue, activated, dma, tx_pc, overtaken,
          cfg_cache, cfg_ops, flash, cfg_pc, unwritten, torn, overwritten,
          scan_result, held, info_best, freed,
          mg_owner, hold, mg_state, auto, info, mg_call, mg_pc, target, seen, complete, mg_timer,
          work, joining, link, leaving, scanning, event, report, old, mishaps

Dq == INSTANCE DataQueue WITH call <- dq_call, received <- dq_received
Co == INSTANCE Completion WITH call <- co_call
Pi == INSTANCE Pipe WITH pc <- pipe_pc
Wq == INSTANCE WorkQueue WITH pc <- wq_pc
Rb == INSTANCE RingBuffer
Rbb == INSTANCE RingBlocks
Rx == INSTANCE SerialReceive WITH buffer <- rx_buffer, put_index <- rx_put_index,
                                  get_index <- rx_get_index
Tx == INSTANCE SerialTransmit WITH pc <- tx_pc
Cfg == INSTANCE WlanConfig WITH Threads <- Users
Scan == INSTANCE ScanTable WITH Callers <- Users
Mg == INSTANCE WlanManager WITH Threads <- Joiners, Aps <- Stations, owner <- mg_owner, state <- mg_state,
                                call <- mg_call, pc <- mg_pc, timer <- mg_timer

Objects == {"data queue", "completion", "pipe", "work queue", "ring buffer", "block buffer",
            "reception", "transmission", "configurations", "scan results", "manager"}

ASSUME DeviceAssumption ==
  /\ Uses \subseteq Objects
  /\ IsFiniteSet(Threads)
  /\ Dq!DataQueueAssumption /\ Co!CompletionAssumption /\ Pi!PipeAssumption
  /\ Done \notin {Pushers, Poppers}
  /\ Wq!WorkQueueAssumption /\ Rb!RingBufferAssumption
  /\ Rbb!RingBlocksAssumption
  /\ Rx!SerialReceiveAssumption /\ Tx!SerialTransmitAssumption
  /\ Cfg!WlanConfigAssumption /\ Scan!ScanTableAssumption /\ Mg!WlanManagerAssumption

dqVars == <<items, put_index, get_index, dq_call, dq_received, overrun>>
coVars == <<flag, co_call>>
piVars == <<fifo, open, waiting_list, wakeup_flag, pipe_pc, rest>>
wqVars == <<work_list, work_current, pending, submitting, timed, attached,
            worker, wq_pc, arg, broken, unlinked, missed>>
rbVars == <<rb, buffer, data>>
rbbVars == <<blk_set, blk_list, blk_queue, taken, strayed, misfit>>
rxVars == <<open_flag, rx_buffer, rx_put_index, rx_get_index, is_full, dma_index, last_index,
            complete_irq, in_isr, unread, arriving, miscounted>>
txVars == <<data_queue, activated, dma, tx_pc, overtaken>>
cfgVars == <<cfg_cache, cfg_ops, flash, cfg_pc, unwritten, torn, overwritten>>
scanVars == <<scan_result, held, info_best, freed>>
mgVars == <<mg_owner, hold, mg_state, auto, info, mg_call, mg_pc, target, seen, complete,
            mg_timer, work, joining, link, leaving, scanning, event, report, old, mishaps>>
driverVars == <<ipcVars, dqVars, coVars, piVars, wqVars, rbVars, rbbVars>>
serialVars == <<rxVars, txVars>>
wlanVars == <<cfgVars, scanVars, mgVars>>
vars == <<using, driverVars, serialVars, wlanVars>>

Init ==
  /\ using \in Uses
  /\ Dq!Init /\ Co!Init /\ Pi!Init /\ Wq!Init /\ Rb!Init /\ Rbb!Init
  /\ Rx!Init /\ Tx!Init
  /\ Cfg!Init /\ Scan!Init /\ Mg!Init

DriverNext ==
  \/ /\ using = "data queue"
     /\ Dq!Next
     /\ UNCHANGED <<coVars, piVars, wqVars, rbVars, rbbVars>>
  \/ /\ using = "completion"
     /\ Co!Next
     /\ UNCHANGED <<dqVars, piVars, wqVars, rbVars, rbbVars>>
  \/ /\ using = "pipe"
     /\ Pi!Next
     /\ UNCHANGED <<ipcVars, dqVars, coVars, wqVars, rbVars, rbbVars>>
  \/ /\ using = "work queue"
     /\ Wq!Next
     /\ UNCHANGED <<ipcVars, dqVars, coVars, piVars, rbVars, rbbVars>>
  \/ /\ using = "ring buffer"
     /\ Rb!Next
     /\ UNCHANGED <<ipcVars, dqVars, coVars, piVars, wqVars, rbbVars>>
  \/ /\ using = "block buffer"
     /\ Rbb!Next
     /\ UNCHANGED <<ipcVars, dqVars, coVars, piVars, wqVars, rbVars>>

SerialNext ==
  \/ using = "reception" /\ Rx!Next /\ UNCHANGED txVars
  \/ using = "transmission" /\ Tx!Next /\ UNCHANGED rxVars

WlanNext ==
  \/ using = "configurations" /\ Cfg!Next /\ UNCHANGED <<scanVars, mgVars>>
  \/ using = "scan results" /\ Scan!Next /\ UNCHANGED <<cfgVars, mgVars>>
  \/ using = "manager" /\ Mg!Next /\ UNCHANGED <<cfgVars, scanVars>>

Next ==
  \/ DriverNext /\ UNCHANGED <<using, serialVars, wlanVars>>
  \/ SerialNext /\ UNCHANGED <<using, driverVars, wlanVars>>
  \/ WlanNext /\ UNCHANGED <<using, driverVars, serialVars>>

Spec == Init /\ [][Next]_vars

-----------------------------------------------------------------------------
(* The types of the variables of the object in use, the others being as    *)
(* they were initially; and the waiting lists, the states of the threads   *)
(* and their timers agree also for calls that wait again, and where the    *)
(* scheduler is locked (dataqueue.c:69-101, :277-325, completion.c:49-87). *)
TypeOK ==
  /\ using \in Uses
  /\ using \in {"data queue", "completion"} => IpcInv
  /\ using = "data queue" => Dq!TypeOK
  /\ using = "completion" => Co!TypeOK
  /\ using = "pipe" => Pi!TypeOK
  /\ using = "work queue" => Wq!TypeOK
  /\ using = "ring buffer" => Rb!TypeOK
  /\ using = "block buffer" => Rbb!TypeOK
  /\ using = "reception" => Rx!TypeOK
  /\ using = "transmission" => Tx!TypeOK
  /\ using = "configurations" => Cfg!TypeOK
  /\ using = "scan results" => Scan!TypeOK
  /\ using = "manager" => Mg!TypeOK

(* Data queues: items are popped once each and in the order pushed, none   *)
(* is lost before put_index wraps, and nobody sleeps beside what it waits  *)
(* for (dataqueue.c:66, :107, :112, :198, :203).  Ring buffers: the bytes  *)
(* come out as they were put in (ringbuffer.c:85, :135, :188).             *)
BuffersKeepData == Dq!ImplementsQueue /\ []Dq!NoneStranded /\ Rb!KeepsItsData

(* Completions: none is slept through and each answers one wait            *)
(* (completion.c:42, :88, :102).  Pipes: no wake-up is lost between a test *)
(* and the wait that follows it (pipe.c:166, :234, waitqueue.c:54, :99).   *)
NoWakeupLost ==
  /\ using = "completion" => Co!CompletionKept
  /\ using = "pipe" => Pi!NoWakeupLost

(* Work queues: what is refused as pending is queued, and whoever waits    *)
(* for a work is told of its end; the worker sleeps beside a work only if  *)
(* it came between its look at the list and its suspension                 *)
(* (workqueue.c:61, :93, :112, :360).                                      *)
WorksServed == using = "work queue" => Wq!PendingMeansQueued /\ Wq!NoWorkStranded

(* Block buffers: blocks given out lie apart (ringblk_buf.c:149, :414).    *)
BlocksApart == using = "block buffer" => Rbb!BlocksApart

(* Serial devices: the newest bytes received are kept in order, but for    *)
(* those the DMA overwrites before it reports so; and what is written by   *)
(* DMA is transmitted once and in order, unless two writers, or a writer   *)
(* and two ends of transfers, cross (serial.c:381-436, :507-522,           *)
(* :1163-1178, :1217-1227, drv_usart.c:287).                               *)
SerialKeepsData ==
  /\ using = "reception" => Rx!KeepsNewest
  /\ using = "transmission" => Tx!TransmitsHead

(* WLAN configurations: a restart brings back what was saved               *)
(* (wlan_cfg.c:100-129, :179-224, :268-313).                               *)
ConfigsStored == using = "configurations" => Cfg!ConfigsStored

(* WLAN scans: the table is sorted and a search finds the strongest        *)
(* (wlan_mgnt.c:197-283, :884-924).                                        *)
ScanTableSound == using = "scan results" => Scan!ScanTableSound

(* WLAN calls keep the mutex as long as they are inside, and are answered  *)
(* (wlan_mgnt.c:646-710, :962-1137).                                       *)
CallsKeepMutex == using = "manager" => Mg!CallsKeepMutex

(* The WLAN manager's state is that of the link (wlan_mgnt.c:385-450,      *)
(* :499-533, :1067-1083, :1846-1856).                                      *)
StationStateTrue == using = "manager" => Mg!StationStateTrue

(* Ring buffers: a forced write keeps the newest bytes (ringbuffer.c:96).  *)
ForceKeepsNewest == Rb!ForceKeepsNewest

-----------------------------------------------------------------------------
(* The inductive invariant behind them: that of the object in use.         *)
Inv ==
  /\ using \in Uses
  /\ IF using = "data queue" THEN Dq!Inv
     ELSE suspend_thread[Pushers] = << >> /\ suspend_thread[Poppers] = << >>
  /\ using = "completion" => Co!Inv
  /\ using = "pipe" => Pi!Inv
  /\ using = "work queue" => Wq!Inv
  /\ using = "ring buffer" => Rb!Inv
  /\ using = "block buffer" => Rbb!Inv
  /\ using = "reception" => Rx!Inv
  /\ using = "transmission" => Tx!Inv
  /\ using = "configurations" => Cfg!Inv
  /\ using = "scan results" => Scan!Inv
  /\ using = "manager" => Mg!Inv
=============================================================================
