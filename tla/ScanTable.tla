------------------------------ MODULE ScanTable ------------------------------
(***************************************************************************)
(* The table of the stations a scan has found (scan_result in wlan_mgnt.c).*)
(* The driver's thread adds reports to it, sorted; callers search it and   *)
(* clear it.  scan_result_mutex protects the table, but not the entry that *)
(* a search has found, and a search takes no other mutex.                  *)
(***************************************************************************)
EXTENDS Integers, Sequences

CONSTANTS Reports,   \* [ssid, bssid, rssi, channel, datarate] of what the driver may report;
                     \* a name is a sequence, the empty one that of a hidden station
          Callers,   \* the threads that call rt_wlan_find_best_by_cache
          CacheNum,  \* RT_WLAN_SCAN_CACHE_NUM
          None

ScanTableAssumption ==
  /\ CacheNum \in Nat \ {0}
  /\ \A r \in Reports : {r.rssi, r.channel, r.datarate} \subseteq Int
  /\ None \notin Reports

VARIABLES scan_result,
          held,       \* the driver's thread has scan_result_mutex for good
          info_best,  \* [Callers -> Reports \cup {None}], what each one's pointer points at
          freed       \* the callers whose pointer is into a table that has been freed

vars == <<scan_result, held, info_best, freed>>

Init ==
  /\ scan_result = << >> /\ held = FALSE
  /\ info_best = [c \in Callers |-> None] /\ freed = {}

\* The signal strengths tell r and s apart.
StrengthTells(r, s) == r.rssi < 0 /\ s.rssi < 0 /\ r.rssi # s.rssi

\* Mutant: the signals are compared the wrong way round.
Before_Weaker(r, s) ==
  IF StrengthTells(r, s) THEN r.rssi < s.rssi
  ELSE IF r.channel # s.channel THEN r.channel < s.channel
  ELSE r.datarate > s.datarate

\* A report goes before the first entry of which this holds.
Before(r, s) ==
  IF StrengthTells(r, s) THEN r.rssi > s.rssi
  ELSE IF r.channel # s.channel THEN r.channel < s.channel
  ELSE r.datarate > s.datarate

Position(r) ==
  CHOOSE i \in 1..(Len(scan_result) + 1) :
    /\ \A j \in 1..(i - 1) : ~Before(r, scan_result[j])
    /\ i <= Len(scan_result) => Before(r, scan_result[i])

Inserted(table, i, r) == SubSeq(table, 1, i - 1) \o <<r>> \o SubSeq(table, i, Len(table))

\* r and s count as the same station: names are compared by their length only.
Same(r, s) == r.bssid = s.bssid /\ Len(r.ssid) = Len(s.ssid)

\* The same station was reported before; what has changed since is ignored.
Duplicate(r) == \E i \in DOMAIN scan_result : Same(r, scan_result[i])

\* The callers between the search of the table and the reading of the entry found.
Reading == {c \in Callers : info_best[c] # None}

\* rt_wlan_scan_result_cache; when the table is full it returns without releasing the mutex.
Cache(r) ==
  /\ ~Duplicate(r)
  /\ IF Len(scan_result) >= CacheNum
     THEN held' = TRUE /\ UNCHANGED <<scan_result, freed>>
     ELSE /\ scan_result' = Inserted(scan_result, Position(r), r)
          /\ freed' = Reading
          /\ UNCHANGED held
  /\ UNCHANGED info_best

\* r is a better choice than the best so far.
Better(r, best) ==
  IF StrengthTells(r, best) THEN r.rssi > best.rssi ELSE r.datarate > best.datarate

\* Mutant: the last entry wins.
Best_Last(ssid) ==
  LET best[n \in 0..Len(scan_result)] ==
        IF n = 0 THEN None
        ELSE IF scan_result[n].ssid # ssid THEN best[n - 1]
        ELSE scan_result[n]
  IN  best[Len(scan_result)]

Best(ssid) ==
  LET best[n \in 0..Len(scan_result)] ==
        IF n = 0 THEN None
        ELSE IF scan_result[n].ssid # ssid THEN best[n - 1]
        ELSE IF best[n - 1] = None \/ Better(scan_result[n], best[n - 1]) THEN scan_result[n]
        ELSE best[n - 1]
  IN  best[Len(scan_result)]

(* rt_wlan_find_best_by_cache releases the mutex before it reads the entry *)
(* it has found: by then the table may have been freed.                    *)
FindBest(c, ssid) ==
  /\ ~held /\ c \notin Reading
  /\ Best(ssid) # None
  /\ info_best' = [info_best EXCEPT ![c] = Best(ssid)]
  /\ UNCHANGED <<scan_result, held, freed>>

ReadBest(c) ==
  /\ c \in Reading
  /\ info_best' = [info_best EXCEPT ![c] = None]
  /\ freed' = freed \ {c}
  /\ UNCHANGED <<scan_result, held>>

\* rt_wlan_scan_result_clean
Clean ==
  /\ ~held
  /\ scan_result' = << >>
  /\ freed' = Reading
  /\ UNCHANGED <<held, info_best>>

Next ==
  \/ \E r \in Reports : Cache(r) \/ \E c \in Callers : FindBest(c, r.ssid)
  \/ \E c \in Callers : ReadBest(c)
  \/ Clean

Spec == Init /\ [][Next]_vars

-----------------------------------------------------------------------------
TypeOK ==
  /\ scan_result \in Seq(Reports)
  /\ info_best \in [Callers -> Reports \cup {None}]
  /\ held \in BOOLEAN
  /\ freed \subseteq Callers

\* All strengths in the table are valid.
Measured(table) == \A i \in DOMAIN table : table[i].rssi < 0

(* A station is listed once (twice if it is reported with its name and     *)
(* hidden), the strongest signals first, unless stations without a valid   *)
(* strength are among them.  What a search has found is, until it is read, *)
(* a station of the table that none of its name exceeds, however many      *)
(* search at once, unless the table has been freed meanwhile, by a report  *)
(* or by a caller.  The mutex is kept only after a report to the full      *)
(* table, which nobody can clear from then on                              *)
(* (wlan_mgnt.c:197-253, :265-283, :884-924, :1692-1706).                  *)
ScanTableSound ==
  /\ Len(scan_result) <= CacheNum
  /\ \A i, j \in DOMAIN scan_result : i < j =>
       /\ ~Same(scan_result[i], scan_result[j])
       /\ Measured(scan_result) => scan_result[i].rssi >= scan_result[j].rssi
  /\ \A c \in Reading \ freed :
       /\ \E i \in DOMAIN scan_result : scan_result[i] = info_best[c]
       /\ Measured(scan_result) => \A i \in DOMAIN scan_result :
            scan_result[i].ssid = info_best[c].ssid => scan_result[i].rssi <= info_best[c].rssi
  /\ held => Len(scan_result) = CacheNum

Inv == TypeOK /\ ScanTableSound
=============================================================================
