----------------------------- MODULE Completion -----------------------------
(***************************************************************************)
(* Completions (completion.c): a flag that rt_completion_done sets, and    *)
(* the one thread that may wait for it.  The flag, not the wake-up, says   *)
(* that the work is done, and the wait that ends clears it.                *)
(***************************************************************************)
EXTENDS Ipc

CONSTANTS Done  \* the completion, which also names its suspended_list

CompletionAssumption == Done \in Lists

VARIABLES flag,  \* completion->flag is RT_COMPLETED
          call   \* [Threads -> Calls], the call a thread is inside of

completionVars == <<flag, call>>
vars == <<ipcVars, completionVars>>

\* wait: rt_completion_wait has blocked.  done: rt_completion_done has seen the flag unset.
Calls == {"none", "wait", "done"}

Init ==
  /\ IpcInit
  /\ flag = FALSE
  /\ call = [t \in Threads |-> "none"]

\* t has been resumed by rt_completion_done and has not run yet.
Woken(t) == call[t] = "wait" /\ stat[t] = "ready" /\ error[t] = "EOK"

(* Only one thread may wait for a completion: the code asserts it while    *)
(* the other is suspended, and its callers keep to it until that returned. *)
MayWait(t) == ~fault /\ call[t] = "none" /\ \A u \in Threads : call[u] # "wait"

\* rt_completion_wait finds the work done; undone and with no time it changes nothing.
WaitAtOnce(t) ==
  /\ MayWait(t)
  /\ flag
  /\ flag' = FALSE
  /\ UNCHANGED <<ipcVars, call>>

WaitBlocks(t) ==
  /\ MayWait(t)
  /\ ~flag
  /\ \E time \in Times \ {"zero"} : ListSuspend(Done, t, "FIFO", [u \in Threads |-> 0], time)
  /\ call' = [call EXCEPT ![t] = "wait"]
  /\ UNCHANGED flag

\* The thread was woken or has timed out; it clears the flag in either case.
WaitReturns(t) ==
  /\ ~fault
  /\ call[t] = "wait" /\ stat[t] = "ready"
  /\ flag' = FALSE
  /\ call' = [call EXCEPT ![t] = "none"]
  /\ UNCHANGED ipcVars

\* rt_completion_done returns at once when it reads the flag set, or goes on.
DoneReads(t) ==
  /\ ~fault /\ call[t] = "none"
  /\ ~flag
  /\ call' = [call EXCEPT ![t] = "done"]
  /\ UNCHANGED <<ipcVars, flag>>

\* Mutant: a waiter is resumed without setting the flag.
Complete_HandsOver ==
  /\ flag' = (suspend_thread[Done] = << >>)
  /\ ResumeFirst(Done)

Complete ==
  /\ flag' = TRUE
  /\ ResumeFirst(Done)

\* The region of rt_completion_done, which does not read the flag again.
DoneRegion(t) ==
  /\ ~fault /\ call[t] = "done"
  /\ Complete
  /\ call' = [call EXCEPT ![t] = "none"]

\* rt_completion_done called by an interrupt.
InterruptDone == ~fault /\ ~flag /\ Complete /\ UNCHANGED call

Timeout(t) == ThreadTimeout(t) /\ UNCHANGED completionVars

Next ==
  \/ \E t \in Threads : \/ WaitAtOnce(t) \/ WaitBlocks(t) \/ WaitReturns(t)
                        \/ DoneReads(t) \/ DoneRegion(t) \/ Timeout(t)
  \/ InterruptDone

Spec == Init /\ [][Next]_vars

-----------------------------------------------------------------------------
TypeOK ==
  /\ IpcTypeOK
  /\ flag \in BOOLEAN
  /\ call \in [Threads -> Calls]

(* Nobody sleeps through a completion, however the unlocked test of        *)
(* rt_completion_done, timeouts and other completions interleave, and a    *)
(* wait that was woken finds its flag still set: it answers that wait and  *)
(* no other (completion.c:42-45, :88, :102-119).                           *)
CompletionKept ==
  /\ suspend_thread[Done] # << >> => ~flag
  /\ \A t \in Threads : Woken(t) => flag
-----------------------------------------------------------------------------
(* The inductive invariant behind it: at most one thread waits, only who   *)
(* waits is suspended, and nothing has been told to it yet.                *)
OneWaits == \A t, u \in Threads : call[t] = "wait" /\ call[u] = "wait" => t = u

SleepersWait == \A t \in Threads : stat[t] = "suspend" => call[t] = "wait" /\ error[t] = "EOK"

Inv == TypeOK /\ IpcInv /\ OneWaits /\ SleepersWait /\ CompletionKept
=============================================================================
