# RT-Thread kernel: TLA+ models, model checking and proofs

The repository is an IoT SDK for one board (STM32L475, Cortex-M4) on top of the
RT-Thread real-time kernel. What is its own core logic, as opposed to vendored
stacks, hardware access and demonstrations, is the kernel (threads and their
scheduler, timers, the objects on which threads block, pools and the heap), the
objects that device drivers are built from (data queues, completions, pipes,
work queues, ring buffers), and two frameworks with a protocol of their own:
serial devices and the WLAN manager. This directory models them as
`src/bsp/stm32l475-atk-pandora/rtconfig.h` configures them: one processor, hard
timers only, no signals, heap and assertions on.

Paths below are relative to `src/rt-thread/`, and in tables `drivers/` stands for
`components/drivers/`.

Contents: [1 Inventory](#1-inventory) · [2 Plan](#2-plan) ·
[3 How the code is modelled](#3-how-the-code-is-modelled) ·
[4 The modules](#4-the-modules) · [5 The runs](#5-the-runs) ·
[6 Fairness](#6-fairness) · [7 The proofs](#7-the-proofs) ·
[8 Findings](#8-findings) · [9 Not modelled](#9-not-modelled) ·
[10 Running it](#10-running-it)

## 1 Inventory

| Component | State | Operations | Correct means | Module |
|---|---|---|---|---|
| waiting lists (`src/ipc.c` 60-184, `src/thread.c` 657-771) | list of suspended threads of each object; `stat`, `error`, thread timer of each thread | suspend in FIFO or priority order, resume first, resume all, timeout | a thread is suspended exactly while it is in one list; a wake-up leaves neither link nor armed timer | `Ipc` |
| semaphore (`ipc.c` 189-514) | count, waiters | take, trytake, release, reset, detach/delete | no waiter beside a unit; every unit consumed once; highest priority first; timed waits end | `Semaphore`, `CountingSemaphore` |
| mutex (`ipc.c` 516-905) | owner, hold, value, original priority, waiters | take (recursive, inheriting), release, detach/delete | one owner; a boost lasts as long as its reason; no inversion | `Mutex` |
| event set (`ipc.c` 907-1276) | set of flags, what each waiter wants | send, recv (and/or, clear), reset, detach/delete | nobody sleeps through its events; flags given out once | `Event` |
| mailbox (`ipc.c` 1278-1757) | ring of mails, two waiting lists | send, recv, both blocking with retry; reset; detach/delete | a bounded FIFO queue; nobody stranded beside room or mail | `Mailbox`, `BoundedQueue` |
| message queue (`ipc.c` 1759-2325) | linked blocks, free stack, waiters | send, urgent, recv, reset, detach/delete | a bounded queue; every block in one place although calls take two regions | `MessageQueue`, `BoundedQueue` |
| threads, scheduler, idle thread (`src/scheduler.c`, `thread.c`, `idle.c`, `clock.c`) | ready table and bitmap, current thread, scheduler lock, defunct list, time slices | create, startup, suspend, resume, delete, exit, yield, priority change, lock/unlock, `rt_schedule`, tick, reclaiming | table and bitmap agree; the highest priority runs; equals take turns; the dead never run and are reclaimed | `Scheduler` |
| timers (`src/timer.c`, `clock.c`) | tick, ordered timer list, flags | init, start, stop, control, detach/delete, check in the interrupt | fire on time and in order across wrap-around; the flag says whether linked | `Timer` |
| memory pool (`src/mempool.c`) | free blocks, waiters and their count | alloc (blocks, retries), free, detach/delete | every block in one place; nobody stranded; count and list of waiters agree | `MemPool` |
| system heap (`src/mem.c`) | blocks linked by address, `lfree`, amount used | malloc, calloc, realloc, free | blocks tile the heap, neighbours that are free are merged, a fitting block is found | `SmallMem` |
| other heaps (`src/memheap.c`, `slab.c`) | block lists | malloc, realloc, free | as above | - |
| data queue (`drivers/src/dataqueue.c`) | ring of items, 16-bit indices, two waiting lists | push, pop, reset | a bounded queue; nobody stranded | `DataQueue` |
| completion (`drivers/src/completion.c`) | flag, one waiter | wait, done | no completion slept through, each answers one wait | `Completion` |
| wait queue, pipe (`drivers/src/waitqueue.c`, `pipe.c`) | wake-up flag, waiters; fifo, readers and writers | open, close, read, write; wakeup, wait | no lost wake-up | `Pipe` |
| work queue (`drivers/src/workqueue.c`) | list of works, the current one, worker thread, timers of delayed works | submit, critical, delayed, cancel, cancel and wait, cancel all | submitted work runs; who waits for a work is told | `WorkQueue` |
| ring buffer, block buffer (`drivers/src/ringbuffer.c`, `ringblk_buf.c`) | indices and mirror bits; blocks in a ring | put, get, forced put; alloc, put, get, free, queues of blocks | bytes come out as they went in; blocks given out lie apart | `RingBuffer`, `RingBlocks` |
| serial devices (`drivers/serial/serial.c`, `/src/drivers/drv_usart.c`) | receive buffer and indices, position and reports of the DMA; transmit queue | open, receive by interrupt or DMA, read, write by DMA | the newest bytes are kept in order; what is written is sent once and in order | `SerialReceive`, `SerialTransmit` |
| WLAN configurations (`drivers/wlan/wlan_cfg.c`, the board's `wifi_config.c`) | list of stations, its copy in flash | save, refresh, delete, read, reset of the board | one entry per station; a restart brings back what was saved | `WlanConfig` |
| WLAN scan results (`drivers/wlan/wlan_mgnt.c`) | sorted table | report, search, clear | no station twice, strongest first, the strongest found | `ScanTable` |
| WLAN manager (`drivers/wlan/wlan_mgnt.c`) | recursive mutex, state flags, joined station, entries of waiting calls, reconnect timer and work | connect, disconnect, scan, automatic reconnection, events of the driver | calls keep the mutex and are answered; the state tells of the link | `WlanManager` |
| objects, devices, start-up, formatting | registries | - | - | - |
| other drivers, file systems, networking, shell, libc, board | - | - | - | - |

**How they interact.** A blocking call of a thread disables interrupts, tests
its object, calls `rt_thread_suspend` (which takes the thread out of the ready
table and stops its timer), inserts the thread in the object's list, starts the
thread's timer if the wait is timed, enables interrupts and calls
`rt_schedule`. Another thread or an interrupt takes the first thread out of the
list with `rt_thread_resume`, which puts it in the ready table. The tick
interrupt decrements the time slice, and `rt_timer_check` runs the timeout
function of every timer that is due; for a thread timer that is
`rt_thread_timeout`, which sets `-RT_ETIMEOUT`, unlinks the thread from
whatever list it is in and makes it ready. The object learns nothing of that.
Exited and deleted threads go to the defunct list, which the idle thread frees.

Data queues, completions and memory pools are built from the same calls. Wait
queues and work queues have lists of their own and call `rt_thread_suspend` and
`rt_thread_resume` directly. A serial device queues what it transmits in a data
queue and completes receptions from interrupts. The WLAN manager takes a kernel
mutex around its calls, waits for the driver's answers on an event set of each
call, and reconnects from a work that a timer submits to a work queue; it reads
and saves the configurations. The driver reports from a thread of its own.

**What is hard.**

* Interrupts and other threads come between any two regions with interrupts
  disabled. Several operations take more than one region: deletion of objects
  and of threads, `rt_thread_resume`, `rt_timer_start`, message queue sends and
  receives, and every blocking call (before and after the sleep).
* A timeout, a resumption, a reset and a deletion race for the same waiter.
* A woken mailbox or message queue call may find that a faster one took what it
  was woken for, and sleeps again with the time that is left.
* Priority inheritance saves a priority that may be a boost already.
* Counters have a width: ticks wrap around in normal operation, `hold` has 8
  bits, the semaphore count 16.
* Some waits test a condition in one region and sleep in another (worker of a
  work queue, wait queue, serial transmission).
* The WLAN manager's state is changed by calls, by the driver's thread and by
  the worker without a common lock; answers come early, late or never; memory
  runs out in the middle of nested calls; the board is reset between two writes
  to flash.
* Liveness depends on order: lists, time slices, the defunct list.

The list of hazards, each at its line with the properties that cover it, is in
`PROJECT.json`.

## 2 Plan

Done: `Ipc` and the five blocking objects of the kernel with their abstract
specifications, `Scheduler`, `Timer`; then `MemPool` and `SmallMem`, composed
with the objects that carry data in `KernelObjects`; the driver objects, both
directions of a serial device and the three parts of the WLAN framework,
composed in `DeviceObjects`. Proofs for the waiting lists, the semaphore and its
refinement, the mutex, the scheduler, the timers, of `KernelObjects` the
event set, the mailbox, the message queue and the memory pool, with both
refinements of `BoundedQueue`, and of `DeviceObjects` every object, with the
third.

Left, in this order:

1. **Proof of `HeapSound`**, in steps: that the blocks of `SmallMem` tile the heap
   does not need the search of `rt_malloc`, only what it finds. No module that is
   proved about uses a RECURSIVE operator.
2. **Composition of `Scheduler` with `Semaphore`**: a unit given to the highest
   waiter is consumed before any lower thread runs.
3. **WLAN**: the saving of the joined configuration by `rt_wlan_mgnt_work`
   (which composes `WlanManager` with `WlanConfig`), the access point side,
   changes of mode and protocols.
4. **Serial**: closing and reopening a device, transmission by interrupts.
5. **`memheap.c`**, beside `SmallMem`.

## 3 How the code is modelled

**Grain of atomicity.** One processor; a region between
`rt_hw_interrupt_disable` and `rt_hw_interrupt_enable` is one step. What runs
in an interrupt is a step too, or, for `rt_timer_check` with its callbacks, a
sequence of steps no thread comes between. Reads outside of a region (the
emptiness test of `rt_ipc_list_resume_all`, the `stat` test of
`rt_thread_resume`, the flag test of `rt_timer_stop`) are steps of their own,
and what is done with them later uses the value read then.

**Which thread runs.** The object modules let any ready thread take the next
step. That includes every order the scheduler produces, and more; it is what
makes their safety properties independent of priorities. `Scheduler` has the
reverse abstraction: which threads run is exact, and the objects they block on
are one set, `waiting`.

**Which object.** The objects of `KernelObjects`, and those of `DeviceObjects`,
share nothing but the threads, and a thread is inside one call at a time. A
behaviour therefore uses one of them, chosen initially (`using`); what it shows
of each is what it would show of all together, without the product of their
states. Their invariants are gated by `using` where they are costly.

**Time.** In `Ipc` a thread's timer is armed or not, and an armed one may expire
at any moment. `Timer` has real ticks.

**Errors and faults.** Where the code would follow a list head as if it were a
thread, the model sets `fault` (`Ipc`) and stops; where a list node would be
linked twice, or the head of an empty queue of the ready table would run, it
sets `broken` (`Scheduler`). Both are checked, not assumed away.

**What callers are taken to do.** The kernel trusts its callers in places, and
the models say where:

* A mailbox or message queue is deleted only when no call that was resumed (or
  has a block in hand) has yet to run: it would go on in freed memory
  (`Delete` in both modules). The code does not ensure it.
* Only one context at a time starts or stops a given timer, besides its own
  callback; its mode is changed only while it is not running.
* `Scheduler`'s `CallSets` says which calls the applications of a configuration
  make. Nothing keeps them apart: timers, interrupts that wake threads and other
  threads preempt the calls on other threads (start, suspend, resume, delete)
  between any two regions. Such a step may undo what the call has established:
  between the regions of `rt_thread_resume`, say, somebody else resumes the
  thread, and the last region inserts a linked node (`thread.c:716`, `:736`). The
  history `overtaken` records it, and the properties say what holds until then.
* In `Scheduler` who wakes (`Wake`, `IrqWake`) resumes threads that sleep in a call
  of their own; a thread that others suspended is resumed with
  `rt_thread_resume` region by region (`Resume`).
* A memory pool is deleted under the same condition as a mailbox.
* One thread at a time waits for a completion (`completion.c:49` asserts it).
* Calls on one ring buffer do not overlap: they disable no interrupts, and their
  users serialise them. Those on a block buffer run with interrupts disabled,
  one region each; but putting a block is a single assignment, and the release
  of a queue takes a region for every block, which is one step here. Any size
  may be asked of a block buffer, up to `MaxAlloc`, and the model stops after a
  block that does not fit was given out (`misfit`).
* Calls on a pipe run under its lock, and are one step up to the wait.
* Threads of a semaphore change their priority at any time, also while they wait
  (`ChangePriority`, `NewPrios`), by `rt_thread_control` or by a mutex they hold;
  those of a mutex do so by inheritance. `Mailbox`, `MessageQueue` and the other
  objects keep constant priorities: their properties do not depend on the order of
  a waiting list.
* Writes to flash that are begun succeed, unless the board is reset:
  `wifi_config.c:238-243` ignores what they return.
* Searches and clearings of the scan table are called by any thread, with
  `scan_result_mutex` as their only lock (`Callers`).
* The driver of the WLAN is a closed library. `WlanManager` states what it is
  taken to do: one attempt to join at a time, an answer to each that is not
  ended by another or by a disconnection, an event for a lost link.
* Interrupts of the serial DMA are served before it wraps a second time.
* `Nesters` (`Mutex`) are the threads that take a second mutex while they own
  or wait for one. What a boost does to them is a finding (section 8).

## 4 The modules

`PROJECT.json` maps every definition to its lines. In outline:

* **`RtList`** - lists of threads or timers as sequences: `InsertAt`, `Unlink`,
  `PrioPosition`, `Enqueue`, `NoRepeat`, `OrderedBy`, written with functions so
  that proofs can use them.
* **`Ipc`** - `ListSuspend`, `ListResume`, `ListResumeAll`, `ThreadTimeout` and
  the deletion of an object as `BeginTeardown`, `TeardownTest`,
  `TeardownResume`: the test of the loop and the region it guards are separate.
  `IpcInv` is what every object module needs of it.
* **`Semaphore`** - `value`, `pc`, `ret` and `current_priority` of each thread. A
  release with a waiter hands the unit over and leaves the count. A waiter
  whose priority changes stays where it stands in the list; `shuffled` and
  `precedes` are history, and say what is left of the order. **`CountingSemaphore`** is the promise: a call
  answers `RT_EOK` only for a unit of its own. The refinement maps a waiting
  call to *asking*, a resumed one to *granted* or *refused*.
* **`Mutex`** - `value`, `owner`, `hold`, `original_priority` of each mutex,
  `prio` and what each thread `wants`; `depth` is history, what each thread has
  taken by its own account. `TakeBlocks` raises the owner's priority,
  `LastRelease` restores it and hands the mutex over or frees it.
* **`Event`** - `event_set`, `event_info` of each waiter, overwritten by the
  answer as in the code; `Walk` goes over the waiting list as `rt_event_send`
  does, and `Serve` is the body of its loop, which resumes a thread, takes it
  out of the list and clears flags.
* **`Mailbox`** - ring with `in_offset`, `out_offset`, `entry`; blocked calls
  retry. **`MessageQueue`** - blocks linked by `next`, the free stack, and the
  two regions of each call with the block in hand. Both refine
  **`BoundedQueue`** (the mailbox its `SpecInOrder`, which has no urgent
  messages).
* **`Scheduler`** - the state touched with interrupts disabled is a record `k`,
  so that `Insert`, `Unlink`, `Schedule` compose as the functions call each
  other; `pc` and `arg` say in which multi-region call a thread is.
  `rt_thread_startup` sets `stat` and goes on with the regions of
  `rt_thread_resume`. `Established` says what a call knows of the thread it is about
  when it goes on; `Overtakes` is a step between two regions that undoes it.
* **`Timer`** - `timer_list`, the fields of each timer, and where the call of
  its owner is. `left` (ticks until the timer must fire) and `rearmed` are
  history. Because a callback and the interrupt do several operations in one
  step, these are operators on records (`Removed`, `Timed`, `Inserted`,
  `Started`, `Stopped`).

* **`MemPool`** - `block_list`, and beside the waiting list the separate
  `suspend_thread_count` that `rt_mp_free` consults; `expired` counts the waits
  that timed out, by which the two differ.
* **`SmallMem`** - `blocks` maps the address of each block to its header.
  `Merged`, `PlugForward` and `PlugBackward` are `plug_holes`; `Malloc` walks
  from `lfree`. `allocated` is what callers have, `passed` the free blocks that
  `rt_realloc` left below `lfree`.
* **`KernelObjects`** - event set, mailbox, message queue, memory pool and heap.
* **`DataQueue`** - ring between two indices modulo `IndexMod`, subtracted as the
  code does; a call that wakes tests again. Refines `BoundedQueue`.
  **`Completion`** - `rt_completion_done` from a thread in two steps (it reads
  the flag before its region) and from an interrupt in one.
* **`Pipe`** - what a pipe makes of its wait queue: `Waits` is
  `rt_wqueue_wait`'s region, `WaitEnds` its end, which clears the flag of
  wake-ups. Lists are its own, so that it does not use `Ipc`.
* **`WorkQueue`** - the worker's loop in its five regions, `SubmitFor` as every
  submission composes it, delayed works with the regions of their submission
  and cancellation;
  `broken` says which undefined behaviour a behaviour ended with.
* **`RingBuffer`** - indices with mirror bits; `data` is the reference contents.
  **`RingBlocks`** - blocks in a ring, in `blk_list` order; `taken` and
  `strayed` mark what a queue of blocks took out of the list, `misfit` a block that
  does not fit.
* **`SerialReceive`** - the buffer with the indices of `serial.c`, and the DMA
  that writes by itself: `DmaWrites` moves it, `RxCpltCallback` and the idle
  interrupt report. The idle interrupt is two steps, since the DMA goes on
  while it starts. `unread` and `arriving` are the reference.
  **`SerialTransmit`** - queueing, looking and starting are separate steps of a
  writer.
* **`WlanConfig`** - list and flash; a save writes two entries in two steps.
  `Restart` is a reset of the board at any moment.
* **`ScanTable`** - `Cache` inserts a report in order, `FindBest` and `ReadBest`
  are the two parts of a search, before and after it releases the mutex; several
  callers may be between them, while reports and `Clean` free the entries that
  they have found (`freed`).
* **`WlanManager`** - `owner` and `hold` of the recursive mutex, `pc` of each
  call (the calls nest: connect calls scan, connect_adv and disconnect), and
  what the driver is about. Reading and writing the state are separate steps of
  everyone who does it; several updates in a row by one thread are one read and
  one write. `mishaps` is history: which of the known weaknesses of the code a
  behaviour has met, so that the properties can say that nothing else makes
  them untrue.
* **`DeviceObjects`** - all of these.

Definitions named `X_Something` with the comment *Mutant* are faulty variants of
`X`, used to see that a property notices the fault; no specification uses them.

`MC*` modules hold the instances: threads, lists, priorities, symmetry sets.

## 5 The runs

| Run | Instance | Shows |
|---|---|---|
| `SemaphoreCalls` | 3 threads, two of them of the same, higher priority, one of which falls below the third and rises again; priority order; all waiting times; count up to 2 | types; `NoUnitWhileWaiting`; `CleanWakeup`; `HighestPriorityFirst`; `TimedTakeWakes` and `NoStarvation` (liveness); refinement of `CountingSemaphore` |
| `SemaphoreDeleteTimed` | the same | *violated*: `ResumesOnlyThreads` (finding 1) |
| `MutexNesting` | 3 threads, 2 mutexes, the upper two nest, recursion to depth 2 | types; `OwnersAgree`, `FreeMeansFree`, `PriorityRestored`, `OwnerInherits` |
| `MutexNestedRestore` | the same | *violated*: `EveryPriorityRestored` (finding 2) |
| `SchedulerKernel` | idle, main and two threads of distinct priorities, which priority changes make equal; in some behaviours blocking, timeouts, wake-ups by interrupts, exits, a static thread started again, lock nested twice; in others start, suspend, resume and delete of others; in others again these with timeouts and interrupts that preempt them between their regions | `ReadyTableConsistent`, `DeadIsUnreachable`, `BrokenOnlyIfOvertaken`, `HighestRuns`, `LockedKeepsProcessor` |
| `SchedulerTurns` | equal priorities, slices of two ticks | liveness: `EqualsTakeTurns`, `DefunctReclaimed` |
| `SchedulerDeleteRace` | deletion of threads in timed waits | *violated*: `DeadStayDead` (finding 3) |
| `TimerCalls` | a timer of a thread, two of interrupts; ticks of 4 bits, times 1 and 3, insertion up to 1 tick late | `FiresOnTime`, `ActiveMeansLinked` |
| `KernelObjects` | 3 alike threads and interrupts; 2 events with all options, mailbox and message queue of 2, pool of 2 blocks, heap of 10 units with headers of 1 and blocks of 2 at least | types and lists; events: `EventsAnswer`, `EventsClearedOnce`; `QueuesImplemented` (both refine `BoundedQueue`); `MessageBlocksInOnePlace`; `NoneStranded`; `PoolAccounts`; `HeapSound` |
| `MemPoolTimeout` | the pool of it | *violated*: `FreesResumeThreads` (finding 4) |
| `DeviceObjects` | 3 threads and interrupts; data queue of 2 with low water mark 1 and indices modulo 4, pipe of 2 bytes with one reader, 2 works of which one delayed, ring of 4 bytes, 3 blocks in 4 bytes, sizes 0 to 5 asked for, receive buffer of 3, transmit queue of 3; 2 users of configurations of 3 stations with room for 2; 6 scan reports, room for 3, 3 callers; 1 caller and the worker, 2 stations, one kind of mishap | types; `BuffersKeepData` (data queue refines `BoundedQueue`, ring buffer keeps its bytes); `NoWakeupLost` (completion, pipe); `WorksServed`; `BlocksApart`; `SerialKeepsData`; `ConfigsStored`; `ScanTableSound`; `CallsKeepMutex`; `StationStateTrue` |
| `RingBufferForce` | the ring buffer of it | *violated*: `ForceKeepsNewest` (finding 5) |

**Why the bounds suffice.** Three threads are one that acts, one that waits and
one that overtakes; they make a list with a first, a middle and a last entry.
Two slots or blocks let a ring wrap and a linked list have a head that is not
its tail; indices modulo 4 wrap over a queue of 2 after two rounds. Two mutexes
are what nesting and an order of release need. Two events are what *and*, *or*
and partial clearing need. Ticks of 4 bits put the wrap-around within every
timer's reach; times stay below half the range by the lateness, as they do at
the real width by a far larger margin. A heap of 10 units holds three blocks and
a rest, so that a freed block has a used, a free or no neighbour on either side.
A receive buffer of 3 is longer than what interrupts can put in it (one less),
and three stations more than the configurations have room for. The reports
contain one station three times (stronger, weaker, hidden), one without a valid
strength, two of equal strength, and more than the table holds. The caller of
the WLAN manager meets the worker, the driver's thread, the timer and the
interrupts; `MishapMax` allows one kind of mishap per behaviour, which is how
the exceptions in `CallsKeepMutex` and `StationStateTrue` are shown to be
separate.

Where `Times` has no `forever`, a finite wait stands for it: it may end at any
moment, also after everything else has.

**Bounds of the models**, all constants: `MaxValue` (callers stop releasing;
the count itself is modulo `ValueMod`), `NewPrios` (priorities given later), `MaxHold` (depth of recursion, below
`HoldMod`), `MaxNest` (scheduler lock), `InitTick`, `MaxLate` (ticks between
reading the tick and inserting a timer), `MaxWaiters` (count of a pool's
waiters), `MaxAlloc` (sizes asked of a block buffer, one above the buffer), the sizes of rings, buffers, queues, tables and heap, `TickMod` and
`IndexMod` (widths), `MishapMax`.

**Symmetry** is used only where threads (timers, mails, bytes, stations) are
interchangeable and only safety is checked. `TimerCalls` has a `VIEW` that
ignores `timeout_tick` of a timer that is not linked nor being started: it is
written before it is read.

**Deadlock** checking is off where a system may stop: after an object was
deleted, after `fault`, where threads deadlock on two mutexes, which the kernel
neither prevents nor detects, after a work queue broke, after the lists of the scheduler were lost, after a
block that does not fit was given out, when the scan table's
mutex is kept for good, and after the receive DMA was miscounted.

## 6 Fairness

* `WF(Timeout(t))` (`Semaphore`): the tick interrupt is never masked for good and
  `rt_timer_check` runs every due timer, as `TimerCalls` shows of the timers
  themselves. Nothing else is fair: callers need not call.
* `NoStarvation` assumes that releases keep coming, `DefunctReclaimed` that the
  idle thread gets the processor again and again and that threads stop ending;
  both are premises in the property, not in the specification.
* `WF(Tick)` (`Scheduler`): the hardware tick. `SF(IdleTakes)`, `SF(IdleGoesOn)`:
  the idle thread executes its loop whenever it has the processor; it is
  preempted between any two steps, hence strong fairness. Other threads need no
  fairness: a thread that never leaves its loop is what time slices are for.

## 7 The proofs

Checked with TLAPS for every set of threads, every priority assignment, list
order and waiting time, every size and every width, from the assumptions named in
the modules (`TimesAssumption`, `SemAssumption`, `MutexAssumption`,
`SchedulerAssumption`, `TimerAssumption`, `KernelAssumption`, `DeviceAssumption`
with those of its parts). The modules whose
names end in `Proofs` hold them. All safety theorems have the same form: `Inv` (at
the end of the component's own module, where TLC can check it as any invariant)
holds initially, every action keeps it, and it implies the property. Most
invariants are longer than the property they serve; what they add is said here.

* **`RtListProofs`**, **`IpcProofs`** - lemmas on lists (what insertion, unlinking
  and the priority position return and preserve), on indices that wrap, on
  recursion along a sequence (`RecursionAlong`: the function that the definition
  speaks of exists; `KeptAlong`: what a step keeps holds of the result), and, for each operation of `Ipc`,
  that it preserves `IpcInv`: *a thread is in at most one list, once; it is
  suspended exactly while it is in one; its timer is armed only while it is
  suspended*. None of the three is inductive alone: a timeout keeps lists
  without repetition only because an armed timer means a suspended thread,
  hence a linked one.
* **`SemaphoreProofs`** - `Inv` adds to it `NoUnitWhileWaiting`,
  `CallsMatchStat` (a thread outside of the semaphore is not suspended, so a
  new call cannot link it twice) and `WaitersOrdered`. From it: `TypeCorrect`,
  `NoLostUnit`, `WakeupsAreClean` and the action property `GrantsByPriority`.
  Priorities change while threads wait, and the list does not follow:
  `WaitersOrdered` therefore keeps, beside the order by priority that lasts until a
  waiter's priority changes, the pairs in which the later came in before the
  earlier (`precedes`), which stays true of the list whatever changes. `DeletionSafeWithoutTimedWaits`
  shows that finding 1 needs a timed wait: with none, the list that was tested
  nonempty still is. `SemaphoreCounts` is the refinement of
  `CountingSemaphore`, step by step. It needs `ErrorsTell`: a resumed thread
  tells a unit from a refusal by its error number alone, which works because a
  wait starts with `RT_EOK` and only a timeout or a deletion writes another.
* **`MutexProofs`** - `Inv` adds `WaitsForOne` and `WaitersUnanswered` to
  `OwnersAgree` and `FreeMeansFree`: the owner the kernel records and the depth
  each thread counts for itself agree only because a waiter waits for one mutex,
  does not own it and has no answer yet. From it `TypeCorrect`,
  `MutualExclusion`, `FreeMutexIsFree`. `RestoreInv` adds that a thread that does not
  nest owns one mutex at most and that this mutex keeps the thread's own
  priority; with it `BoostEnds`. `InheritInv` adds, for `NoInversion`, that
  nobody stands before a waiter of higher priority that owns nothing
  (`NoneOvertakes`): the new owner after a hand-over is the first of the list,
  and must be worth the waiters left behind. The list itself need not be
  ordered: a waiter that owns another mutex may be boosted where it stands,
  and the code does not move it. The assumption `MaxHold < HoldMod` matters:
  beyond it `hold` wraps and the mutex looks free.
* **`SchedulerProofs`** - `Inv` says of the record `k` that the table and its
  bitmap agree, that ready threads are in it (`ReadyInTable`), that only threads
  that sleep have a timer (`TimersOfSleepers`), that the current thread runs or is
  about to give up the processor (`CurrentRuns`), and what each call of several
  regions has established and still relies on (`RegionsHold`, `FreeHolds`). All
  of it is claimed until a call is overtaken (`overtaken`). The proof has no
  premise about what applications call: each step that comes between two regions
  of another's call either leaves what that call has established, and the
  invariant goes on, or does not, and then `overtaken` is true by its definition.
  From it `SchedulerReadyTable`, `SchedulerDead`, `SchedulerBroken`, and the action
  property `SchedulerHighestRuns`; `SchedulerLocked` needs the types alone.
  Finding 3 (`SchedulerDeleteRace`) is an example of what happens after: a
  timeout overtakes a deletion.
* **`TimerProofs`** - `Inv` keeps the list in the order of the ticks *left*
  (`InOrder`) and ties each `timeout_tick` to them modulo the width of the tick
  (`KeepsTime`). That the code's comparison `now - timeout < HALF` agrees with
  the order of the ticks left is arithmetic modulo `TickMod`, from the range of
  `left` that `State` gives: it is where the condition *times stay below half
  the range* enters. From it `TimersFireOnTime` (an action property) and
  `ActiveIsLinked`. A call that has removed a timer finds it removed when its
  next region inserts it (`CallsHold`): that, and not the region that inserts,
  is why no timer is linked twice.
* **`KernelProofs`** - `KernelObjects!Inv` is the invariant of the object that is
  used, together with `OthersUntouched`: nobody waits in the lists of the
  others, which `KernelAssumption` takes to be other lists. `Threads` is assumed
  finite there, for wake-ups are counted.
  * *Nobody is stranded* (`NobodyStranded`, `PoolSound`): the number of free
    places, mails or blocks is bounded by the number of threads that were resumed
    and have yet to run, while anyone waits. `CallsWait` says why a resumed thread
    counts: who waits is in the call of its list and has no answer yet. A
    timeout takes a waiter and no wake-up; a call that retries and blocks again
    gives its wake-up back only when there is nothing to take. Of a pool,
    `EmptiedByTimeouts` says that a deletion meets an empty list only if a wait
    timed out, which is finding 4 from the other side.
  * *Events* (`EventsAnswered`, `ReceivedOnce`): `Walk` is recursive, and what it
    leaves is shown for every length of the list by its least counterexample:
    were it wrong after some number of waiters, there would be a first number
    (lemma `WalkServes`). After each, the set holds what was sent less what the
    woken ones that clear have got, and no waiter passed so far is satisfied by
    it, since the set only shrinks.
  * *Message queue* (`MessagesKept`): `ListsEnd` says that the pointers from head
    and free list end in null and reach no block twice. `LinkedBy` follows
    them; that it yields the chain they form is shown in the same way.
  * *Queues* (`QueuesServe`): mailbox and message queue implement
    `BoundedQueue`. For the mailbox it needs `OffsetsAgree` (the next mail goes
    behind the last of the ring, also after it wraps around); for the message
    queue, that linking a block last, first, or taking the first off changes the
    sequence of messages as the abstract step says, although the tail pointer and
    the copy of a message are handled in other regions.

* **`DeviceProofs`** - `DeviceObjects!Inv` (`DeviceInv`) is the invariant of the
  object that is used; of the threads' lists it adds that those of a data queue
  are empty while another object is used. `TypesKept` is the type invariant, for
  every object.
  * *Data queue* (`BuffersKept`): `CallsWait` and the count of woken calls serve
    as in a mailbox, with the low water mark in the place of a free slot.
    `CountKept` bounds the count until `put_index` wraps over `get_index`; up to
    then each step is one of `BoundedQueue`. The indices are subtracted and
    reduced modulo `IndexMod`, the slots modulo `Size`: that both agree needs
    that `Size` divides `IndexMod`, which `DataQueueAssumption` states. The queues
    that the repository creates have 8 and 4 items; one whose size is not a
    power of two would jump where the 16-bit index wraps.
  * *Ring buffer* (also `BuffersKept`): `MirrorsTell` says which index is ahead. A
    forced write is shown to leave the newest bytes, except in the case that
    finding 5 shows.
  * *Block buffer* (`BlocksKept`), until a block that does not fit is given out:
    that blocks lie apart is not inductive, for it
    does not say that the first and the last of the list border the free
    space. `InTurn` says that the list goes around the buffer once: of any three
    blocks in list order, the starts rise or rise after one turn. Then nothing lies between the
    last block and the first, whichever blocks were freed in between.
  * *Completion* (`WakeupsKept`): one thread waits, and only it is suspended, with
    nothing told to it yet (`OneWaits`, `SleepersWait`).
  * *Pipe* (also `WakeupsKept`): `ReaderTold`, `OneOfBothAwake` and `HangUpTold` extend
    the property to a reader or writer that is about to sleep and that the flag
    will not keep from it. The theorem has the premise `OneReader`, one reader and
    at least one writer, any number of them: with two readers the first may
    take what the second was woken for, and TLC finds both asleep.
  * *Work queue* (`QueuedWorksServed`): the two properties are inductive together.
  * *Serial devices* (`SerialDataKept`): reception needs where each index stands
    relative to what is unread (`IndicesMeet`) and to what the DMA has written
    without a report (`DmaAhead`), and that each byte is in its slot until the
    one that comes `Bufsz` later (`InSlots`). It is arithmetic modulo the size
    of the buffer. Transmission needs that the DMA is at work only if it was
    claimed (`DmaClaimed`).
  * *Configurations* (`ConfigsKept`): the list does not change while its copy is
    written, so the length in flash is that of what follows
    (`LengthWritten`). That a restart brings the list back is that `Merged` of a list
    without repetition is the list, by recursion along it.
  * *Scan results* (`ScanTableKept`): the property with its types is inductive:
    inserting a report after the last that is stronger keeps the order,
    removing the weaker one of the same station the uniqueness, and
    `Best` is the strongest of its name after every prefix of the table. What
    several searches have found stays in the table until it is freed, which
    marks all of them.
  * *WLAN manager* (`MutexKept`, `StateOfLink`): `MutexHeld` counts the mutex
    against what the call will release (`Depth`), also where memory has run out;
    `StagesFit` ties stages to calls; `ReportsTrue` says what an event under way
    tells of the link; `StateFollows` has the state right before the calls have
    settled, `InfoSaved` what is saved while they have not.

Only model-checked: liveness (with fairness, out of TLAPS's reach) and
`HeapSound`. The walks of `SmallMem` search addresses and merge neighbours over
several steps of one operation; the lemmas on them, of which `RecursionAlong` and
`KeptAlong` would be the base, have not been done. The runs that find a violation
state properties the code does not have; there is nothing to prove.

## 8 Findings

1. **Deletion may resume the list head** (`src/ipc.c:162`).
   `rt_ipc_list_resume_all` tests the list before it disables interrupts. If
   the only waiter's timer expires in between, the region takes `list->next`
   of an empty list for a thread. Run `SemaphoreDeleteTimed`.
2. **A boost outlives its cause** (`src/ipc.c:832`). The priority that the last
   release restores was sampled when the mutex was taken, boosts by other
   mutexes included. Take A, be boosted through A, take B, release A, then B:
   the thread owns nothing and keeps the boost. Run `MutexNestedRestore`.
   `BoostEnds` proves that threads which do not nest are safe from it.
3. **Deleting a thread in a timed wait** (`src/thread.c:439`). The thread's
   timer may expire between the region that takes it out of the scheduler and the
   one that detaches the timer: the dead thread is back in the ready table when
   the idle thread frees it. Run `SchedulerDeleteRace`.

4. **A pool counts waiters that are gone** (`src/mempool.c:421`). A wait that
   times out leaves `suspend_thread_count` as it was; the next `rt_mp_free`
   takes the first entry of an empty list for a thread. Run `MemPoolTimeout`.
5. **A forced write empties the ring** (`components/drivers/src/ringbuffer.c:141`).
   When it overflows around the end, `rt_ringbuffer_put_force` flips both mirror
   bits also if they agreed before: the buffer reads as empty. Run
   `RingBufferForce`.

Weaknesses without a run of their own; the property named states the exception,
that is, shows that nothing else makes it untrue:

* Semaphore (`HighestPriorityFirst`): a waiter whose priority changes stays where
  it stands (`src/thread.c:597`, `src/ipc.c:724`), so that units go past more
  urgent waiters until the list is empty.
* Scheduler (`BrokenOnlyIfOvertaken`): `rt_thread_resume` and `rt_thread_suspend` test
  `stat` and act in later regions (`src/thread.c:716`, `:667`); whoever resumes,
  suspends or deletes the same thread in between makes them link it twice.
* Timers: a one-shot timer started by its own callback cannot be stopped
  (`src/timer.c:540`, `ActiveMeansLinked`); a periodic timer of zero ticks never
  lets the interrupt end (`src/timer.c:537`).
* Heap (`HeapSound`): the exact fit at the end is never found (`src/mem.c:305`);
  `rt_realloc` leaves free blocks below `lfree` (`src/mem.c:493`).
* Data queue: once `put_index` has wrapped the queue is never full
  (`dataqueue.c:66`, `BuffersKeepData`).
* Completion: a wait that times out clears the flag of a late `done`
  (`completion.c:88`).
* Work queue (`WorksServed`): a work submitted between the worker's look and its
  suspension stays queued (`workqueue.c:61`); a worker resumed without work takes
  the list head for one (`:70`); cancelling a queued delayed work recurses without
  end (`:158`); its timer may fire, or another thread attach it, between the
  regions of a cancellation (`:166`); `rt_workqueue_cancel_all_work` leaves the
  works pending (`:384`).
* Block buffer (`BlocksApart`): the blocks of a queue may be given out again
  while they are read, and a queue of blocks that are not neighbours frees
  others (`ringblk_buf.c:414`, `:478`). An allocation from an empty list does not
  look at the size (`:209`): a block may reach beyond the buffer, and the room that is
  left is then computed below zero (`:161`).
* Serial (`SerialKeepsData`): a writer may start the DMA with data that does not
  head the queue (`serial.c:517`); the idle interrupt miscounts when the DMA
  begins anew in it (`/src/drivers/drv_usart.c:288`); a DMA ahead of its reports
  overwrites what is unread. `rt_serial_close` frees the buffer before it
  disables the interrupt that fills it (`serial.c:720`) and does not stop the DMA
  (`:742`); closing is not modelled.
* WLAN configurations (`ConfigsStored`): `rt_wlan_cfg_read` copies the wrong way
  (`wlan_cfg.c:247`); a reset between the two entries loses the copy
  (`wifi_config.c:238`); a save is skipped when its entry heads the list though
  it was never written (`wlan_cfg.c:280`); deletions are not written.
* WLAN scans (`ScanTableSound`): a report to a full table keeps the mutex
  (`wlan_mgnt.c:252`); a search reads its result after releasing the mutex
  (`:924`), when a report or another caller may have freed it.
* WLAN manager (`CallsKeepMutex`, `StationStateTrue`): without memory the mutex
  is released twice (`:650`); a call whose station joined meanwhile waits in
  vain (`:1000`); the state is read and written by several threads without a
  lock (`:1075`), and READY may be set after the link is gone (`:1856`); a
  disconnection that ends an attempt leaves CONNECTING set, and the station
  never reconnects by itself (`:527`).

## 9 Not modelled

Within modelled components: soft timers, signals and several processors (not
configured); hooks, names and debug output; the memory of objects, except as
"freed"; priorities beyond 32 levels (two-level bitmap); `rt_tick_set`;
`rt_thread_mdelay` and tick conversion. `Timer` leaves out callbacks that detach
their own timer (the check goes on reading it). Data queue: the notification
callback and `rt_data_queue_peak`, which reads. Pipe: polling, `ioctl`, the
non-blocking mode, the device interface and deletion; `rt_wqueue_wait` with a
time. Work queue: `rt_workqueue_destroy`, which frees the queue under its users.
Buffers: create and destroy, which are calls to the heap. Serial: closing,
reconfiguring, polling, the POSIX layer, and transmission by interrupts, whose
`putc` never asks to wait on this board. WLAN: the access point side, changes of
mode, power saving, protocols, user callbacks, saving of the joined
configuration, `rt_wlan_scan_find_cache` and other queries.

Components: `memheap.c` and `slab.c` (nothing configured allocates from them);
the object registry, devices, the interrupt counter, start-up and kernel
services have no concurrency beyond a masked list operation. Ports are
assembly. File systems, network stacks, shell, C library, other drivers and
applications are vendored, hardware-bound or adaptation over what is modelled:
most of the repository's lines are vendor headers, HAL, character tables and
third-party stacks, in which there is nothing of this system's own to state.

## 10 Running it

    tlc -workers 2 -config SemaphoreCalls.cfg MCSemaphore.tla
    tlapm SemaphoreProofs.tla

`PROJECT.json` lists the `MC` module of each configuration. The longest runs
(`SemaphoreCalls`, `SchedulerTurns`) take three minutes each, `DeviceObjects`,
`KernelObjects`, `TimerCalls` and `SchedulerKernel` one to two. The proofs take
seconds to four minutes a module, those of `KernelProofs` about ten and those of
`DeviceProofs` about twenty.
