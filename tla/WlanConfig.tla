----------------------------- MODULE WlanConfig -----------------------------
(***************************************************************************)
(* The configurations of the stations joined before (wlan_cfg.c), the last *)
(* one first: a list in memory, and its copy in flash, which the callbacks *)
(* of the board (wifi_config.c) write as two entries, its length and the   *)
(* package itself.  A reset of the board forgets the list, not the flash.  *)
(***************************************************************************)
EXTENDS Naturals, Sequences

CONSTANTS Threads,
          Aps,      \* the stations, by ssid and bssid
          Keys,
          InfoMax,  \* RT_WLAN_CFG_INFO_MAX
          None

WlanConfigAssumption == InfoMax \in Nat \ {0} /\ None \notin Nat

Configs == [ap : Aps, key : Keys]

VARIABLES cfg_cache,
          cfg_ops,    \* whether the callbacks are set
          flash,      \* the entries [len, info] (len counts configurations)
          cfg_pc,     \* [Threads -> Stages]
          unwritten,  \* history: the list may differ from its copy although nobody writes
          torn,       \* history: the last write to flash was cut off between its entries
          overwritten \* history: rt_wlan_cfg_read has written to the list

vars == <<cfg_cache, cfg_ops, flash, cfg_pc, unwritten, torn, overwritten>>

(* out: outside.  save: about to take the mutex in rt_wlan_cfg_cache_save. *)
(* info: with the mutex, the length is written and the package is not.     *)
Stages == {"out", "save", "info"}

Init ==
  /\ cfg_cache = << >>
  /\ cfg_ops = FALSE
  /\ flash = [len |-> None, info |-> << >>]
  /\ cfg_pc = [t \in Threads |-> "out"]
  /\ unwritten = FALSE /\ torn = FALSE /\ overwritten = FALSE

\* Mutant: nobody waits for the mutex.
Unlocked_Never == TRUE

\* Every region but the writing to flash is one step.
Unlocked == \A t \in Threads : cfg_pc[t] # "info"
Free(t) == cfg_pc[t] = "out" /\ Unlocked

Goto(t, stage) == cfg_pc' = [cfg_pc EXCEPT ![t] = stage]

\* The first configuration for ap, 0 if there is none.
IndexOf(list, ap) ==
  LET found == {i \in DOMAIN list : list[i].ap = ap}
  IN  IF found = {} THEN 0 ELSE CHOOSE i \in found : \A j \in found : i <= j

Without(list, i) == SubSeq(list, 1, i - 1) \o SubSeq(list, i + 1, Len(list))

-----------------------------------------------------------------------------
\* rt_wlan_cfg_set_ops, with callbacks or with none
SetOps(t) ==
  /\ Free(t)
  /\ cfg_ops' \in BOOLEAN
  /\ UNCHANGED <<cfg_cache, flash, cfg_pc, unwritten, torn, overwritten>>

\* Mutant: a configuration that is known stays where it is, too.
ToHead_Twice(list, c) ==
  <<c>> \o SubSeq(list, 1, IF Len(list) < InfoMax THEN Len(list) ELSE InfoMax - 1)

\* The list with c at its head: moved there, added, or pushing out the last.
ToHead(list, c) ==
  LET i == IndexOf(list, c.ap)
      known == IF i # 0 THEN i ELSE IF Len(list) = InfoMax THEN InfoMax ELSE 0
  IN  <<c>> \o (IF known = 0 THEN list ELSE Without(list, known))

(* rt_wlan_cfg_save.  It skips the write if c heads the list already, as   *)
(* if what is in the list were in flash; without callbacks nothing is      *)
(* written either.                                                         *)
Save(t, c) ==
  /\ Free(t)
  /\ ~(cfg_cache # << >> /\ Head(cfg_cache) = c)
  /\ cfg_cache' = ToHead(cfg_cache, c)
  /\ IF cfg_ops
     THEN Goto(t, "save") /\ UNCHANGED unwritten
     ELSE unwritten' = TRUE /\ UNCHANGED cfg_pc
  /\ UNCHANGED <<cfg_ops, flash, torn, overwritten>>

\* rt_wlan_cfg_cache_save, as a call of its own.
CacheSave(t) ==
  /\ Free(t) /\ cfg_ops
  /\ Goto(t, "save")
  /\ UNCHANGED <<cfg_cache, cfg_ops, flash, unwritten, torn, overwritten>>

(* It builds the package and write_cfg stores its length, then the package *)
(* itself.  It ignores the results of ef_set_env_blob: that a write to     *)
(* flash succeeds is assumed.                                              *)
WriteLen(t) ==
  /\ cfg_pc[t] = "save" /\ Unlocked
  /\ flash' = [flash EXCEPT !.len = Len(cfg_cache)]
  /\ Goto(t, "info")
  /\ UNCHANGED <<cfg_cache, cfg_ops, unwritten, torn, overwritten>>

WriteInfo(t) ==
  /\ cfg_pc[t] = "info"
  /\ flash' = [flash EXCEPT !.info = cfg_cache]
  /\ unwritten' = FALSE /\ torn' = FALSE
  /\ Goto(t, "out")
  /\ UNCHANGED <<cfg_cache, cfg_ops, overwritten>>

\* There was no memory for the package.
WriteFails(t) ==
  /\ cfg_pc[t] = "save" /\ Unlocked
  /\ unwritten' = TRUE
  /\ Goto(t, "out")
  /\ UNCHANGED <<cfg_cache, cfg_ops, flash, torn, overwritten>>

-----------------------------------------------------------------------------
\* rt_wlan_cfg_delete_index; the memory for an empty list cannot be had, so the last one stays.
DeleteIndex(t, i) ==
  /\ Free(t)
  /\ i \in DOMAIN cfg_cache /\ Len(cfg_cache) > 1
  /\ cfg_cache' = Without(cfg_cache, i)
  /\ unwritten' = TRUE
  /\ UNCHANGED <<cfg_ops, flash, cfg_pc, torn, overwritten>>

DeleteAll(t) ==
  /\ Free(t)
  /\ cfg_cache' = << >>
  /\ unwritten' = TRUE
  /\ overwritten' = FALSE
  /\ UNCHANGED <<cfg_ops, flash, cfg_pc, torn>>

\* rt_wlan_cfg_read copies the caller's buffer to the list instead of the list to the buffer.
ReadOverwrites(t, buffer) ==
  /\ Free(t)
  /\ Len(buffer) <= Len(cfg_cache)
  /\ cfg_cache' = [i \in DOMAIN cfg_cache |->
                     IF i \in DOMAIN buffer THEN buffer[i] ELSE cfg_cache[i]]
  /\ unwritten' = TRUE /\ overwritten' = TRUE
  /\ UNCHANGED <<cfg_ops, flash, cfg_pc, torn>>

\* What the checks of rt_wlan_cfg_cache_refresh accept: magic, length, number and crc agree.
Readable == flash.len # None /\ flash.len = Len(flash.info)

\* The list with the configurations of q it lacks, as far as there is room.
Merged(list, q) ==
  LET merged[n \in 0..Len(q)] ==
        IF n = 0 THEN list
        ELSE IF Len(merged[n - 1]) = InfoMax \/ IndexOf(merged[n - 1], q[n].ap) # 0 THEN merged[n - 1]
        ELSE Append(merged[n - 1], q[n])
  IN  merged[Len(q)]

\* rt_wlan_cfg_cache_refresh; the memory may run out after n configurations.
Refresh(t, n) ==
  /\ Free(t) /\ cfg_ops
  /\ Len(cfg_cache) < InfoMax
  /\ Readable /\ n \in 0..Len(flash.info)
  /\ cfg_cache' = Merged(cfg_cache, SubSeq(flash.info, 1, n))
  /\ unwritten' = (cfg_cache' # flash.info)
  /\ UNCHANGED <<cfg_ops, flash, cfg_pc, torn, overwritten>>

\* The board is reset, whoever writes.
Restart ==
  /\ cfg_cache' = << >>
  /\ cfg_ops' = FALSE
  /\ cfg_pc' = [t \in Threads |-> "out"]
  /\ unwritten' = TRUE
  /\ torn' = (torn \/ ~Unlocked)
  /\ overwritten' = FALSE
  /\ UNCHANGED flash

Next ==
  \/ \E t \in Threads :
       \/ SetOps(t) \/ CacheSave(t) \/ WriteLen(t) \/ WriteInfo(t) \/ WriteFails(t)
       \/ DeleteAll(t)
       \/ \E c \in Configs : Save(t, c)
       \/ \E i \in 1..InfoMax : DeleteIndex(t, i)
       \/ \E buffer \in UNION {[1..n -> Configs] : n \in 1..InfoMax} : ReadOverwrites(t, buffer)
       \/ \E n \in 0..InfoMax : Refresh(t, n)
  \/ Restart

Spec == Init /\ [][Next]_vars

-----------------------------------------------------------------------------
TypeOK ==
  /\ cfg_cache \in Seq(Configs)
  /\ cfg_ops \in BOOLEAN
  /\ flash \in [len : Nat \cup {None}, info : Seq(Configs)]
  /\ cfg_pc \in [Threads -> Stages]
  /\ {unwritten, torn, overwritten} \subseteq BOOLEAN

(* A station has one configuration and there are InfoMax at most.  When    *)
(* nobody writes, a restart would bring back the list as it is, unless it  *)
(* was changed by a call that does not write or whose write failed.  And   *)
(* what is in flash passes the checks at any time, but while it is written *)
(* and after a reset in the middle of that (wlan_cfg.c:100-129, :179-224,  *)
(* :268-313, wifi_config.c:235-244).                                       *)
ConfigsStored ==
  /\ Len(cfg_cache) <= InfoMax
  /\ ~overwritten => \A i, j \in DOMAIN cfg_cache : cfg_cache[i].ap = cfg_cache[j].ap => i = j
  /\ (\A t \in Threads : cfg_pc[t] = "out") /\ ~unwritten /\ ~overwritten =>
       cfg_cache = IF Readable THEN Merged(<< >>, flash.info) ELSE << >>
  /\ ~Readable => flash.len = None \/ torn \/ ~Unlocked

(* The inductive invariant behind it: the list does not change while its   *)
(* copy is written.                                                        *)
LengthWritten == ~Unlocked => flash.len = Len(cfg_cache)

Inv == TypeOK /\ ConfigsStored /\ LengthWritten
=============================================================================
