----------------------------- MODULE WlanManager -----------------------------
(***************************************************************************)
(* Joining and leaving as a station (wlan_mgnt.c): calls of threads, one   *)
(* at a time under the recursive mgnt_mutex, that command the driver and   *)
(* wait for its events; the driver's thread, which reports events without  *)
(* the mutex; the reconnect timer and the work it submits.                 *)
(*                                                                         *)
(* The driver is a library that is not part of the repository: it accepts  *)
(* or refuses a command, works on one attempt to join at a time, answers   *)
(* it unless another one or a disconnection ends it, and may lose the link *)
(* at any time.                                                            *)
(***************************************************************************)
EXTENDS Naturals, FiniteSets

CONSTANTS Threads,
          Worker,  \* the thread of the WLAN work queue
          Aps,     \* the stations, each with its name and its key
          MishapMax, \* a bound: how many kinds of mishaps a behaviour has
          None

Events == {"CONNECT", "CONNECT_FAIL", "DISCONNECT", "SCAN_DONE"}

WlanManagerAssumption ==
  /\ Worker \notin Threads /\ None \notin Aps \cup Threads \cup {Worker} \cup Events
  /\ MishapMax \in Nat

Callers == Threads \cup {Worker}

VARIABLES owner, hold,  \* mgnt_mutex
          state,        \* _sta_mgnt.state
          auto,         \* RT_WLAN_STATE_AUTOEN in _sta_mgnt.flags
          info,         \* _sta_mgnt.info and key
          call,         \* [Callers -> Calls]
          pc,           \* [Callers -> Stages]
          target,       \* [Callers -> Aps \cup {None}], what a call is to join
          seen,         \* [Callers -> SUBSET Flags], the state read before it is written
          complete,     \* [Callers -> SUBSET Events], flagged in what complete_tab has of it
          timer,        \* reconnect_time runs
          work,         \* the work of the timer is submitted and has not ended
          joining,      \* driver: the station it tries to join, or None
          link,         \* driver: the station it is linked to, or None
          leaving,      \* driver: a disconnection is under way
          scanning,     \* driver: a scan is under way
          event,        \* the event the driver's thread reports, or None
          report,       \* "begun", then "read" and "written" as to the state
          old,          \* the state as the driver's thread has read it
          mishaps       \* history: what has gone wrong, a subset of Mishaps

Flags == {"CONNECT", "CONNECTING", "READY"}
Calls == {"none", "connect", "disconnect", "scan", "auto"}

(* lock: about to take the mutex.  search: looking for the station.  scan: *)
(* waiting for the end of a scan, found: after that.  adv: about to begin  *)
(* rt_wlan_connect_adv.  drop: waiting for the disconnection.  save: about *)
(* to save what to join and to read the state.  flag: about to write it.   *)
(* command: about to command the driver.  undo: about to write the state.  *)
(* wait: waiting for the answer.  ready: the worker is about to set READY. *)
Stages == {"out", "lock", "search", "scan", "found", "adv", "drop", "save", "flag",
           "command", "undo", "wait", "ready"}

(* memory: there was none for a rt_wlan_complete_des, and the mutex was    *)
(* released once too often.  update: one thread has written to the state   *)
(* what another had changed since it was read.  aborted: a disconnection   *)
(* ended an attempt to join.  ready: READY was set after the link was      *)
(* gone.  late: an attempt or a link was there when another one began.     *)
(* vain: rt_wlan_connect waits although it found the station joined.       *)
Mishaps == {"memory", "update", "aborted", "ready", "late", "vain"}

mutexVars == <<owner, hold>>
stationVars == <<state, auto, info>>
callVars == <<call, pc, target, seen, complete>>
timerVars == <<timer, work>>
driverVars == <<joining, link, leaving, scanning>>
reportVars == <<event, report, old>>
vars == <<mutexVars, stationVars, callVars, timerVars, driverVars, reportVars, mishaps>>

Init ==
  /\ owner = None /\ hold = 0
  /\ state = {} /\ auto = FALSE /\ info = None
  /\ call = [t \in Callers |-> "none"] /\ pc = [t \in Callers |-> "out"]
  /\ target = [t \in Callers |-> None] /\ seen = [t \in Callers |-> {}]
  /\ complete = [t \in Callers |-> {}]
  /\ timer = TRUE /\ work = FALSE
  /\ joining = None /\ link = None /\ leaving = FALSE /\ scanning = FALSE
  /\ event = None /\ report = "begun" /\ old = {}
  /\ mishaps = {}

Unless(condition, mishap) == IF condition THEN {} ELSE {mishap}

\* The mutex, taken or released n times in a row; a release by another thread does nothing.
CanLock(t) == owner \in {None, t}
Take(t, n) == CanLock(t) /\ owner' = t /\ hold' = hold + n
Release(t, n) ==
  IF owner # t THEN UNCHANGED mutexVars
  ELSE /\ hold' = IF hold > n THEN hold - n ELSE 0
       /\ owner' = IF hold > n THEN t ELSE None

Goto(t, stage) ==
  pc' = [pc EXCEPT ![t] = stage] /\ UNCHANGED <<call, target, seen, complete, timerVars>>

\* The call ends; that of the work clears the work, so that it can be submitted again.
Exit(t) ==
  /\ pc' = [pc EXCEPT ![t] = "out"] /\ call' = [call EXCEPT ![t] = "none"]
  /\ target' = [target EXCEPT ![t] = None] /\ seen' = [seen EXCEPT ![t] = {}]
  /\ complete' = [complete EXCEPT ![t] = {}]
  /\ work' = (work /\ t # Worker)
  /\ UNCHANGED timer

-----------------------------------------------------------------------------
\* A call begins; rt_wlan_connect returns at once if the station is joined.
Begin(t, c, a) ==
  /\ pc[t] = "out"
  /\ call' = [call EXCEPT ![t] = c] /\ target' = [target EXCEPT ![t] = a]
  /\ pc' = [pc EXCEPT ![t] = "lock"]
  /\ UNCHANGED <<mutexVars, stationVars, seen, complete, timerVars, driverVars, reportVars,
                 mishaps>>

Joined(a) == "CONNECT" \in state /\ info = a

Connect(t, a) == ~Joined(a) /\ Begin(t, "connect", a)
Disconnect(t) == Begin(t, "disconnect", None)
ScanSync(t) == Begin(t, "scan", None)

\* rt_wlan_config_autoreconnect
ConfigAutoreconnect(t) ==
  /\ pc[t] = "out" /\ owner = None
  /\ auto' = ~auto
  /\ UNCHANGED <<mutexVars, state, info, callVars, timerVars, driverVars, reportVars, mishaps>>

\* rt_wlan_connect with the mutex, before the table is searched
ConnectLocks(t) ==
  /\ pc[t] = "lock" /\ call[t] = "connect"
  /\ Take(t, 1) /\ Goto(t, "search")
  /\ UNCHANGED <<stationVars, driverVars, reportVars, mishaps>>

-----------------------------------------------------------------------------
\* rt_wlan_complete_create has no memory: it releases the mutex, as its caller will again.
NoMemory(t, n) ==
  /\ Release(t, n)
  /\ mishaps' = mishaps \cup {"memory"}
  /\ UNCHANGED <<stationVars, driverVars, reportVars>>

AfterScan(t) == IF call[t] = "connect" THEN Goto(t, "found") ELSE Exit(t)

\* rt_wlan_scan_sync and rt_wlan_scan_with_info, both of which take the mutex
Scan(t) ==
  /\ pc[t] = "search" \/ (pc[t] = "lock" /\ call[t] = "scan")
  /\ CanLock(t)
  /\ \/ NoMemory(t, 1) /\ AfterScan(t)
     \/ /\ AfterScan(t)                       \* the driver refuses
        /\ UNCHANGED <<mutexVars, stationVars, driverVars, reportVars, mishaps>>
     \/ /\ Take(t, 2) /\ Goto(t, "scan")
        /\ scanning' = TRUE
        /\ UNCHANGED <<stationVars, joining, link, leaving, reportVars, mishaps>>

\* The scan is done or the time is over, which makes no difference here.
ScanEnds(t) ==
  /\ pc[t] = "scan"
  /\ Release(t, 2)
  /\ IF call[t] = "connect"
     THEN /\ pc' = [pc EXCEPT ![t] = "found"] /\ complete' = [complete EXCEPT ![t] = {}]
          /\ UNCHANGED <<call, target, seen, timerVars>>
     ELSE Exit(t)
  /\ UNCHANGED <<stationVars, driverVars, reportVars, mishaps>>

\* The table was cleared, with the mutex; the station was not in it.
NotFound(t) ==
  /\ pc[t] = "found" /\ CanLock(t)
  /\ Release(t, 1) /\ Exit(t)
  /\ UNCHANGED <<stationVars, driverVars, reportVars, mishaps>>

\* The station is found, in the table as it was or after a scan.
Found(t) ==
  /\ pc[t] = "search" \/ (pc[t] = "found" /\ CanLock(t))
  /\ \/ NoMemory(t, 2) /\ Exit(t)
     \/ Goto(t, "adv") /\ UNCHANGED <<mutexVars, stationVars, driverVars, reportVars, mishaps>>

-----------------------------------------------------------------------------
\* The driver takes the command to disconnect, which ends an attempt to join without an answer.
Leave ==
  /\ leaving' = TRUE /\ joining' = None
  /\ mishaps' = mishaps \cup Unless(joining = None, "aborted")
  /\ UNCHANGED <<link, scanning>>

\* rt_wlan_disconnect, as a call of its own
DisconnectLocks(t) ==
  /\ pc[t] = "lock" /\ call[t] = "disconnect" /\ CanLock(t)
  /\ \/ NoMemory(t, 1) /\ Exit(t)
     \/ /\ Exit(t)                            \* the driver refuses
        /\ UNCHANGED <<mutexVars, stationVars, driverVars, reportVars, mishaps>>
     \/ Take(t, 1) /\ Goto(t, "drop") /\ Leave /\ UNCHANGED <<stationVars, reportVars>>

\* rt_wlan_connect_adv finds the station joined, and rt_wlan_connect waits all the same.
AdvJoined(t) ==
  /\ pc[t] = "adv" /\ CanLock(t) /\ Joined(target[t])
  /\ IF call[t] = "connect"
     THEN /\ Goto(t, "wait") /\ UNCHANGED mutexVars
          /\ mishaps' = mishaps \cup {"vain"}
     ELSE Release(t, 1) /\ Exit(t) /\ UNCHANGED mishaps
  /\ UNCHANGED <<stationVars, driverVars, reportVars>>

\* It finds another one joined and calls rt_wlan_disconnect.
AdvDrops(t) ==
  /\ pc[t] = "adv" /\ CanLock(t) /\ "CONNECT" \in state /\ info # target[t]
  /\ \/ NoMemory(t, 2) /\ Exit(t)
     \/ /\ Release(t, 1) /\ Exit(t)           \* the driver refuses
        /\ UNCHANGED <<stationVars, driverVars, reportVars, mishaps>>
     \/ Take(t, 2) /\ Goto(t, "drop") /\ Leave /\ UNCHANGED <<stationVars, reportVars>>

\* It finds none joined.
AdvBegins(t) ==
  /\ pc[t] = "adv" /\ "CONNECT" \notin state
  /\ Take(t, 1) /\ Goto(t, "save")
  /\ UNCHANGED <<stationVars, driverVars, reportVars, mishaps>>

\* Mutant: the mutex is released once for rt_wlan_disconnect and rt_wlan_connect_adv.
DropEnds_ReleasesTwice(t) ==
  /\ pc[t] = "drop"
  /\ IF call[t] = "disconnect"
     THEN Release(t, 1) /\ Exit(t)
     ELSE IF "DISCONNECT" \in complete[t]
          THEN /\ Release(t, 1)
               /\ pc' = [pc EXCEPT ![t] = "save"]
               /\ complete' = [complete EXCEPT ![t] = @ \ {"DISCONNECT"}]
               /\ UNCHANGED <<call, target, seen, timerVars>>
          ELSE Release(t, 2) /\ Exit(t)
  /\ UNCHANGED <<stationVars, driverVars, reportVars, mishaps>>

\* The link is down; or the time is over, and all three calls fail.
DropEnds(t) ==
  /\ pc[t] = "drop"
  /\ IF call[t] = "disconnect"
     THEN Release(t, 1) /\ Exit(t)
     ELSE IF "DISCONNECT" \in complete[t]
          THEN /\ Release(t, 1)
               /\ pc' = [pc EXCEPT ![t] = "save"]
               /\ complete' = [complete EXCEPT ![t] = @ \ {"DISCONNECT"}]
               /\ UNCHANGED <<call, target, seen, timerVars>>
          ELSE Release(t, 3) /\ Exit(t)
  /\ UNCHANGED <<stationVars, driverVars, reportVars, mishaps>>

\* What to join is saved with interrupts locked out, and the state is read,
SaveInfo(t) ==
  /\ pc[t] = "save"
  /\ info' = target[t]
  /\ seen' = [seen EXCEPT ![t] = state]
  /\ pc' = [pc EXCEPT ![t] = "flag"]
  /\ mishaps' = mishaps \cup Unless(<<joining, event, link>> = <<None, None, None>>, "late")
  /\ UNCHANGED <<mutexVars, state, auto, call, target, complete, timerVars, driverVars,
                 reportVars>>

\* and written.
SetConnecting(t) ==
  /\ pc[t] = "flag"
  /\ state' = seen[t] \cup {"CONNECTING"}
  /\ mishaps' = mishaps \cup Unless(state = seen[t], "update")
  /\ Goto(t, "command")
  /\ UNCHANGED <<mutexVars, auto, info, driverVars, reportVars>>

\* rt_wlan_dev_connect; rt_wlan_connect waits for the answer, the work does not.
Command(t) ==
  /\ pc[t] = "command"
  /\ joining' = target[t] /\ link' = None
  /\ IF call[t] = "connect" THEN Release(t, 1) /\ Goto(t, "wait") ELSE Release(t, 2) /\ Exit(t)
  /\ UNCHANGED <<stationVars, leaving, scanning, reportVars, mishaps>>

Refused(t) ==
  /\ pc[t] = "command"
  /\ info' = None
  /\ seen' = [seen EXCEPT ![t] = state]
  /\ pc' = [pc EXCEPT ![t] = "undo"]
  /\ UNCHANGED <<mutexVars, state, auto, call, target, complete, timerVars, driverVars,
                 reportVars, mishaps>>

ClearConnecting(t) ==
  /\ pc[t] = "undo"
  /\ state' = seen[t] \ {"CONNECTING"}
  /\ mishaps' = mishaps \cup Unless(state = seen[t], "update")
  /\ Release(t, 2) /\ Exit(t)
  /\ UNCHANGED <<auto, info, driverVars, reportVars>>

\* rt_wlan_connect is answered, or the time is over.
WaitEnds(t) ==
  /\ pc[t] = "wait"
  /\ Release(t, 1) /\ Exit(t)
  /\ UNCHANGED <<stationVars, driverVars, reportVars, mishaps>>

-----------------------------------------------------------------------------
\* What the driver reports next
Joins ==
  /\ joining # None /\ ~leaving
  /\ link' = joining /\ joining' = None /\ event' = "CONNECT"
  /\ UNCHANGED <<leaving, scanning>>
Fails ==
  /\ joining # None
  /\ joining' = None /\ event' = "CONNECT_FAIL"
  /\ UNCHANGED <<link, leaving, scanning>>
LosesLink ==
  /\ leaving \/ link # None
  /\ link' = None /\ leaving' = FALSE /\ event' = "DISCONNECT"
  /\ UNCHANGED <<joining, scanning>>
Scanned ==
  /\ scanning
  /\ scanning' = FALSE /\ event' = "SCAN_DONE"
  /\ UNCHANGED <<joining, link, leaving>>

DriverReports ==
  /\ event = None
  /\ Joins \/ Fails \/ LosesLink \/ Scanned
  /\ UNCHANGED <<mutexVars, stationVars, callVars, timerVars, report, old, mishaps>>

\* rt_wlan_event_dispatch reads the state,
DispatchReads ==
  /\ event \notin {None, "SCAN_DONE"} /\ report = "begun"
  /\ old' = state /\ report' = "read"
  /\ UNCHANGED <<mutexVars, stationVars, callVars, timerVars, driverVars, event, mishaps>>

\* Mutant: a lost link does not end READY.
NewState_KeepsReady ==
  CASE event = "CONNECT"      -> (old \ {"CONNECTING"}) \cup {"CONNECT"}
    [] event = "CONNECT_FAIL" -> {}
    [] event = "DISCONNECT"   -> old \ {"CONNECT"}

NewState ==
  CASE event = "CONNECT"      -> (old \ {"CONNECTING"}) \cup {"CONNECT"}
    [] event = "CONNECT_FAIL" -> {}
    [] event = "DISCONNECT"   -> old \ {"CONNECT", "READY"}

\* Mutant: the timer is started again after a failure only.
DispatchWrites_FailRestarts ==
  /\ report = "read"
  /\ state' = NewState /\ report' = "written"
  /\ timer' = (event = "CONNECT_FAIL" \/ (timer /\ event # "CONNECT"))
  /\ mishaps' = mishaps \cup Unless(state = old, "update")
  /\ UNCHANGED <<mutexVars, auto, info, callVars, work, driverVars, event, old>>

\* writes it and stops or starts the timer,
DispatchWrites ==
  /\ report = "read"
  /\ state' = NewState /\ report' = "written"
  /\ timer' = (event # "CONNECT")
  /\ mishaps' = mishaps \cup Unless(state = old, "update")
  /\ UNCHANGED <<mutexVars, auto, info, callVars, work, driverVars, event, old>>

\* The events that the entries of t in complete_tab wait for
Awaits(t) ==
  CASE pc[t] = "scan" -> {"SCAN_DONE"}
    [] pc[t] = "drop" -> {"DISCONNECT"} \cup
         IF call[t] = "connect" THEN {"CONNECT", "CONNECT_FAIL"} ELSE {}
    [] pc[t] \in {"adv", "save", "flag", "command", "undo", "wait"} /\ call[t] = "connect" ->
         {"CONNECT", "CONNECT_FAIL"}
    [] OTHER -> {}

\* and flags the event in every entry of complete_tab.
DispatchSends ==
  /\ event = "SCAN_DONE" \/ report = "written"
  /\ complete' = [t \in Callers |-> complete[t] \cup (Awaits(t) \cap {event})]
  /\ event' = None /\ report' = "begun" /\ old' = {}
  /\ UNCHANGED <<mutexVars, stationVars, call, pc, target, seen, timerVars, driverVars, mishaps>>

-----------------------------------------------------------------------------
DoConnect == auto /\ state \cap {"CONNECT", "CONNECTING"} = {}

\* rt_wlan_cyclic_check, in the tick interrupt
CyclicCheck ==
  /\ timer /\ DoConnect /\ ~work
  /\ work' = TRUE
  /\ UNCHANGED <<mutexVars, stationVars, callVars, timer, driverVars, reportVars, mishaps>>

\* rt_wlan_auto_connect_run has nothing to join, or somebody has the mutex, for which it
\* does not wait.
AutoReturns ==
  /\ pc[Worker] = "out" /\ work
  /\ work' = FALSE
  /\ UNCHANGED <<mutexVars, stationVars, callVars, timer, driverVars, reportVars, mishaps>>

AutoRuns(a) ==
  /\ pc[Worker] = "out" /\ work
  /\ Take(Worker, 1) /\ DoConnect
  /\ call' = [call EXCEPT ![Worker] = "auto"] /\ target' = [target EXCEPT ![Worker] = a]
  /\ pc' = [pc EXCEPT ![Worker] = "adv"]
  /\ UNCHANGED <<stationVars, seen, complete, timerVars, driverVars, reportVars, mishaps>>

\* rt_wlan_prot_ready_event tests the state
ReadyTests ==
  /\ pc[Worker] = "out"
  /\ "CONNECT" \in state /\ "READY" \notin state
  /\ Goto(Worker, "ready")
  /\ UNCHANGED <<mutexVars, stationVars, driverVars, reportVars, mishaps>>

\* and sets READY with interrupts locked out.
SetsReady ==
  /\ pc[Worker] = "ready"
  /\ state' = state \cup {"READY"}
  /\ mishaps' = mishaps \cup Unless("CONNECT" \in state, "ready")
  /\ pc' = [pc EXCEPT ![Worker] = "out"]
  /\ UNCHANGED <<mutexVars, auto, info, call, target, seen, complete, timerVars, driverVars,
                 reportVars>>

CallStep(t) ==
  \/ ConnectLocks(t) \/ Scan(t) \/ ScanEnds(t) \/ NotFound(t) \/ Found(t)
  \/ DisconnectLocks(t) \/ AdvJoined(t) \/ AdvDrops(t) \/ AdvBegins(t) \/ DropEnds(t)
  \/ SaveInfo(t) \/ SetConnecting(t) \/ Command(t) \/ Refused(t) \/ ClearConnecting(t)
  \/ WaitEnds(t)

Next ==
  /\ \/ \E t \in Threads :
          \/ Disconnect(t) \/ ScanSync(t) \/ ConfigAutoreconnect(t)
          \/ \E a \in Aps : Connect(t, a)
     \/ \E t \in Callers : CallStep(t)
     \/ DriverReports \/ DispatchReads \/ DispatchWrites \/ DispatchSends
     \/ CyclicCheck \/ AutoReturns \/ ReadyTests \/ SetsReady
     \/ \E a \in Aps : AutoRuns(a)
  /\ Cardinality(mishaps') <= MishapMax

Spec == Init /\ [][Next]_vars

-----------------------------------------------------------------------------
TypeOK ==
  /\ owner \in Callers \cup {None} /\ hold \in 0..3
  /\ state \subseteq Flags /\ auto \in BOOLEAN /\ info \in Aps \cup {None}
  /\ call \in [Callers -> Calls] /\ pc \in [Callers -> Stages]
  /\ target \in [Callers -> Aps \cup {None}] /\ seen \in [Callers -> SUBSET Flags]
  /\ complete \in [Callers -> SUBSET Events]
  /\ {timer, work, leaving, scanning} \subseteq BOOLEAN
  /\ {joining, link} \subseteq Aps \cup {None}
  /\ event \in Events \cup {None} /\ report \in {"begun", "read", "written"}
  /\ old \subseteq Flags /\ mishaps \subseteq Mishaps

\* How often a call that is inside has taken the mutex
Depth(t) ==
  CASE pc[t] \in {"out", "lock", "ready"} -> 0
    [] pc[t] \in {"search", "found", "adv", "wait"} -> 1
    [] pc[t] = "scan" -> IF call[t] = "connect" THEN 3 ELSE 2
    [] pc[t] = "drop" -> IF call[t] = "disconnect" THEN 1 ELSE 3
    [] OTHER -> 2

\* What t waits for has been flagged, or is under way.
AnswerComes(t) ==
  CASE pc[t] = "scan" -> scanning \/ "SCAN_DONE" \in complete[t] \cup {event}
    [] pc[t] = "drop" -> leaving \/ "DISCONNECT" \in complete[t] \cup {event}
    [] pc[t] = "wait" ->
         joining # None \/ (complete[t] \cup {event}) \cap {"CONNECT", "CONNECT_FAIL"} # {}
    [] OTHER -> TRUE

(* Nobody keeps the mutex when a call is over.  Unless memory has run out, *)
(* the call that is inside has it, as often as it will release it, and no  *)
(* call waits for an answer that has come or cannot come any more, but one *)
(* that waits although its station was joined (wlan_mgnt.c:646-710,        *)
(* :962-1011, :1045-1089, :1106-1137, :1604-1606, :1628-1661).             *)
CallsKeepMutex ==
  /\ owner # None => pc[owner] \notin {"out", "lock", "ready"}
  /\ "memory" \notin mishaps => \A t \in Callers :
       /\ hold * Cardinality({owner} \cap {t}) = Depth(t)
       /\ "vain" \notin mishaps => AnswerComes(t)

\* The driver has reported what it did, and nobody is about to write the state or command it.
Settled ==
  /\ joining = None /\ ~leaving /\ event = None
  /\ \A t \in Callers : pc[t] \notin {"flag", "command", "undo", "ready"}

(* When the driver and the manager are settled, the state says whether     *)
(* there is a link, READY only with a link, and info is the station        *)
(* joined; the reconnect timer runs without a link only, and nothing keeps *)
(* its work from being submitted.  It takes one of the mishaps to make     *)
(* that untrue (wlan_mgnt.c:385-450, :499-533, :1067-1083, :1846-1856).    *)
StationStateTrue ==
  Settled /\ "update" \notin mishaps =>
    /\ "CONNECT" \in state <=> link # None
    /\ timer <=> link = None
    /\ "CONNECTING" \in state => "aborted" \in mishaps
    /\ "READY" \in state => "CONNECT" \in state \/ "ready" \in mishaps
    /\ link # None => info = link \/ "late" \in mishaps

-----------------------------------------------------------------------------
(* The inductive invariant behind both.  The mutex is held as often as the *)
(* call will release it at most, and from rt_wlan_connect_adv's command to *)
(* its end in any case, even if memory has run out.                        *)
MutexHeld ==
  /\ owner = None <=> hold = 0
  /\ owner # None => hold <= Depth(owner)
  /\ "memory" \notin mishaps => \A t \in Callers : Depth(t) > 0 => owner = t /\ hold = Depth(t)
  /\ \A t \in Callers :
       /\ pc[t] \in {"drop", "save", "flag", "command", "undo"} => owner = t
       /\ pc[t] = "drop" /\ call[t] # "disconnect" => hold > 1

\* Which stage belongs to which call, and who has something to join.
StagesFit ==
  /\ \A t \in Callers :
       /\ pc[t] = "lock" => call[t] \in {"connect", "disconnect", "scan"}
       /\ pc[t] \in {"search", "found", "wait"} => call[t] = "connect"
       /\ pc[t] = "scan" => call[t] \in {"connect", "scan"}
       /\ pc[t] = "drop" => call[t] \in {"connect", "disconnect", "auto"}
       /\ pc[t] \in {"adv", "save", "flag", "command", "undo"} => call[t] \in {"connect", "auto"}
       /\ call[t] \in {"connect", "auto"} => target[t] # None
  /\ \A t \in Threads : pc[t] # "ready"
  /\ event \in {None, "SCAN_DONE"} => report = "begun"

\* What the driver has reported, unless another command has come meanwhile.
ReportsTrue ==
  /\ joining # None => link = None
  /\ event \in {"CONNECT_FAIL", "DISCONNECT"} => link = None
  /\ event = "CONNECT" /\ joining = None /\ ~leaving => link # None

AnswersCome ==
  "memory" \notin mishaps /\ "vain" \notin mishaps => \A t \in Callers : AnswerComes(t)

\* An event that is reported and not yet in the state
Unwritten(events) == event \in events /\ report # "written"

\* The state as far as the driver is settled, before the calls are.
StateFollows ==
  "update" \notin mishaps =>
    /\ joining = None /\ ~leaving /\ ~Unwritten({"CONNECT", "CONNECT_FAIL", "DISCONNECT"}) =>
         /\ "CONNECT" \in state <=> link # None
         /\ timer <=> link = None
    /\ "CONNECTING" \in state =>
         \/ "aborted" \in mishaps
         \/ joining # None \/ Unwritten({"CONNECT", "CONNECT_FAIL"})
         \/ \E t \in Callers : pc[t] \in {"command", "undo"}
    /\ "READY" \in state => "CONNECT" \in state \/ "ready" \in mishaps

\* What is saved is what is joined or to be joined next.
InfoSaved ==
  "late" \notin mishaps =>
    /\ joining # None => info = joining
    /\ link # None => info = link
    /\ \A t \in Callers : pc[t] \in {"flag", "command", "undo"} => joining = None /\ link = None
    /\ \A t \in Callers : pc[t] \in {"flag", "command"} => info = target[t]

Inv == TypeOK /\ MutexHeld /\ StagesFit /\ ReportsTrue /\ AnswersCome /\ StateFollows /\ InfoSaved
=============================================================================
