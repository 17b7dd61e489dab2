-------------------------- MODULE CountingSemaphore --------------------------
(***************************************************************************)
(* What a semaphore promises its callers, without lists or timers: a call  *)
(* answers RT_EOK only if it consumed a unit of its own, and a unit is     *)
(* never left lying while a call waits for one.                            *)
(***************************************************************************)
EXTENDS Integers

CONSTANTS Threads, ValueMod

VARIABLES units,   \* units nobody has consumed
          phase,   \* [Threads -> {"idle", "asking", "granted", "refused"}]
          answer   \* [Threads -> {"EOK", "ERROR", "ETIMEOUT"}]

vars == <<units, phase, answer>>

Asking == {t \in Threads : phase[t] = "asking"}

Init ==
  /\ units \in 0..(ValueMod - 1)
  /\ phase = [t \in Threads |-> "idle"]
  /\ answer = [t \in Threads |-> "EOK"]

TakeAtOnce(t) ==
  /\ phase[t] = "idle"
  /\ units > 0
  /\ units' = units - 1
  /\ answer' = [answer EXCEPT ![t] = "EOK"]
  /\ UNCHANGED phase

FailAtOnce(t) ==
  /\ phase[t] = "idle"
  /\ units = 0
  /\ answer' = [answer EXCEPT ![t] = "ETIMEOUT"]
  /\ UNCHANGED <<units, phase>>

Ask(t) ==
  /\ phase[t] = "idle"
  /\ units = 0
  /\ phase' = [phase EXCEPT ![t] = "asking"]
  /\ UNCHANGED <<units, answer>>

\* A new unit goes to one of the calls that wait, or is kept.
Put ==
  /\ \/ /\ Asking = {}
        /\ units' = (units + 1) % ValueMod
        /\ UNCHANGED phase
     \/ \E t \in Asking : /\ phase' = [phase EXCEPT ![t] = "granted"]
                          /\ UNCHANGED units
  /\ UNCHANGED answer

Refuse(t) ==
  /\ phase[t] = "asking"
  /\ phase' = [phase EXCEPT ![t] = "refused"]
  /\ UNCHANGED <<units, answer>>

Reset ==
  /\ units' \in 0..(ValueMod - 1)
  /\ phase' = [t \in Threads |-> IF t \in Asking THEN "refused" ELSE phase[t]]
  /\ UNCHANGED answer

Answer(t) ==
  /\ phase[t] \in {"granted", "refused"}
  /\ phase' = [phase EXCEPT ![t] = "idle"]
  /\ \E e \in IF phase[t] = "granted" THEN {"EOK"} ELSE {"ERROR", "ETIMEOUT"} :
       answer' = [answer EXCEPT ![t] = e]
  /\ UNCHANGED units

Next ==
  \/ \E t \in Threads : \/ TakeAtOnce(t) \/ FailAtOnce(t) \/ Ask(t)
                        \/ Refuse(t) \/ Answer(t)
  \/ Put
  \/ Reset

Spec == Init /\ [][Next]_vars
=============================================================================
