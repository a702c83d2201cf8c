----------------------------- MODULE TableCache -----------------------------
(***************************************************************************)
(* The in-process cache of four tables: a map from keys to copies of rows  *)
(* (data/inproc_kv.go), the repositories that read through it and drop     *)
(* keys after a write (data/bom_platform_script_repo_cache.go,             *)
(* agent_script_auth_repo_cache.go, bom_manufacturer_alias_repo_cache.go,  *)
(* agent_registry_repo_cache.go) and the refresher that fills it from time *)
(* to time (data/table_cache_refresher.go).                                *)
(*                                                                         *)
(* A copy is the function from the rows a key shows to the number of the   *)
(* request that wrote them (0: no such row, 1: from before), so that a     *)
(* copy equals the table's content exactly when it is not stale.  A step   *)
(* is one statement or one locked operation of the map.  The canonicals    *)
(* listed for the two limits are read and dropped alike: one key stands    *)
(* for both.  Stored passwords can be decrypted (a copy of one that cannot *)
(* is dropped and the table read).                                         *)
(***************************************************************************)
EXTENDS Naturals, Sequences, SequencesExt

CONSTANTS
    None,        \* no copy
    Platform, Agent, Script, Norm, \* ids in the tables; Norm: alias_norm
    Cases,       \* bound: [mode, asked: tables the requests are about, rows: rows there at first]
    Handler,     \* requests in progress
    refresher,   \* the refresher's goroutine
    MaxRequests, \* bound: requests that read past the cache or write
    MaxFaults,   \* bound: statements that fail
    MaxRestarts  \* bound: restarts of the server

Proc == Handler \cup {refresher}

Pair == Agent \X Script
Row  == [table : {"platform"}, id : Platform] \cup [table : {"auth", "installed"}, id : Pair]
        \cup [table : {"alias"}, id : Norm]
Key  == [of : {"all", "canonicals"}, id : {None}] \cup [of : {"one"}, id : Platform]
        \cup [of : {"agent", "installed"}, id : Agent] \cup [of : {"pair"}, id : Pair]
        \cup [of : {"norm"}, id : Norm]

All        == [of |-> "all", id |-> None]
Canonicals == [of |-> "canonicals", id |-> None]

ASSUME CacheAssumption ==
    /\ Cases \subseteq [mode  : {"off", "once", "loop"}, rows : SUBSET Row,
                        asked : SUBSET {"platform", "auth", "alias", "installed"}]
    /\ refresher \notin Handler
    /\ MaxRequests \in Nat /\ MaxFaults \in Nat /\ MaxRestarts \in Nat

VARIABLES
    mode,     \* configuration of the refresher: "off", "once" or "loop"
    asked,    \* tables the requests are about
    version,  \* [Row -> number of the request that wrote it, 0: no row]
    kv,       \* [Key -> copy or None]
    h,        \* [Proc -> record of what it does and has read]
    missed,   \* history: keys whose copy was read before a write and stored after it, or
              \* whose writer gave up before dropping them
    requests, faults, restarts

vars == <<mode, asked, version, kv, h, missed, requests, faults, restarts>>

\* The rows a key shows, and what the table has of them.  Keys of different rows are
\* different: no platform is called "all", no agent or script has a colon in its name.
RowsOf(k) ==
    CASE k.of = "all"        -> [table : {"platform"}, id : Platform]
      [] k.of = "one"        -> {[table |-> "platform", id |-> k.id]}
      [] k.of = "agent"      -> [table : {"auth"}, id : {k.id} \X Script]
      [] k.of = "pair"       -> {[table |-> "auth", id |-> k.id]}
      [] k.of = "installed"  -> [table : {"installed"}, id : {k.id} \X Script]
      [] k.of = "norm"       -> {[table |-> "alias", id |-> k.id]}
      [] k.of = "canonicals" -> [table : {"alias"}, id : Norm]
Content(k) == [r \in RowsOf(k) |-> version[r]]
NoRows(k)  == \A r \in RowsOf(k) : version[r] = 0

\* The keys dropped after a row is written, in that order.
DropsList(r) == \* Mutant of Drops: of a login, only the list it is in
    CASE r.table = "platform"  -> <<All, [of |-> "one", id |-> r.id]>>
      [] r.table = "auth"      -> <<[of |-> "agent", id |-> r.id[1]]>>
      [] r.table = "alias"     -> <<[of |-> "norm", id |-> r.id], Canonicals>>
Drops(r) ==
    CASE r.table = "platform"  -> <<All, [of |-> "one", id |-> r.id]>>
      [] r.table = "auth"      -> <<[of |-> "agent", id |-> r.id[1]], [of |-> "pair", id |-> r.id]>>
      [] r.table = "alias"     -> <<[of |-> "norm", id |-> r.id], Canonicals>>

\* Next step; keys to read; copies read and not yet stored; rows to write; number of
\* the request; keys to drop; table the refresher is at.
Idle  == [pc |-> "idle", keys |-> {}, read |-> <<>>, rows |-> {}, n |-> 0, drops |-> <<>>, at |-> 0]
Start == [Idle EXCEPT !.pc = IF mode = "off" THEN "idle" ELSE "scan", !.at = 1]

Init ==
    /\ \E c \in Cases :
          /\ mode = c.mode /\ asked = c.asked
          /\ version = [r \in Row |-> IF r \in c.rows THEN 1 ELSE 0]
    /\ kv = [k \in Key |-> None]
    /\ h = [p \in Proc |-> IF p = refresher THEN Start ELSE Idle]
    /\ missed = {}
    /\ requests = 0 /\ faults = 0 /\ restarts = 0

At(p, pc)      == h[p].pc = pc
Become(p, rec) == h' = [h EXCEPT ![p] = rec]
Done(p)        == Become(p, Idle)

Ask(p) ==
    /\ p \in Handler /\ At(p, "idle")
    /\ requests < MaxRequests /\ requests' = requests + 1
    /\ UNCHANGED <<mode, asked, faults, restarts>>

\* A step of what is going on: no new request.
Step(p, pc) == At(p, pc) /\ UNCHANGED <<mode, asked, requests, faults, restarts>>

Fault(p) ==
    /\ faults < MaxFaults /\ faults' = faults + 1
    /\ UNCHANGED <<mode, asked, version, kv, requests, restarts>>

-----------------------------------------------------------------------------
(* Reads *)

\* What a get answers without the table: the list of all platforms is looked at first.
Answer(k) ==
    LET row == [table |-> "platform", id |-> k.id]
    IN  IF k.of = "one" /\ kv[All] # None /\ kv[All][row] # 0
        THEN [r \in {row} |-> kv[All][row]]
        ELSE kv[k]

\* A get that misses; several names of makers may be looked up at once.  A hit changes nothing.
Get(p) ==
    /\ Ask(p)
    /\ \E ks \in (SUBSET {k \in Key : Answer(k) = None}) \ {{}} :
          /\ \A k \in ks : \A r \in RowsOf(k) : r.table \in asked
          /\ (\A k \in ks : k.of = "norm") \/ \E k \in ks : ks = {k}
          /\ Become(p, [Idle EXCEPT !.pc = "query", !.keys = ks])
    /\ UNCHANGED <<version, kv, missed>>

\* The copies a statement brings: from the table, not through the cache.
ThroughCache(ks) == \* Mutant of FromTable: the cached copy is taken, if there is one
    [k \in ks |-> IF kv[k] = None THEN Content(k) ELSE kv[k]]
FromTable(ks) == [k \in ks |-> Content(k)]

\* A single platform or login that is not there is not stored.
Query(p) ==
    /\ Step(p, "query")
    /\ LET found == {k \in h[p].keys : ~(k.of \in {"one", "pair"} /\ NoRows(k))}
       IN  Become(p, IF found = {} THEN Idle
                     ELSE [h[p] EXCEPT !.pc = "fill", !.keys = found, !.read = FromTable(found)])
    /\ UNCHANGED <<version, kv, missed>>

\* Set.
Store(k, copy) ==
    /\ kv' = [kv EXCEPT ![k] = copy]
    /\ missed' = IF copy = Content(k) THEN missed \ {k} ELSE missed \cup {k}

Fill(p) ==
    /\ p \in Handler /\ Step(p, "fill")
    /\ \E k \in h[p].keys :
          /\ Store(k, h[p].read[k])
          /\ Become(p, IF h[p].keys = {k} THEN Idle ELSE [h[p] EXCEPT !.keys = @ \ {k}])
    /\ UNCHANGED version

\* The entry of a maker's name ends with its time to live.
Expire(k) ==
    /\ k.of = "norm" /\ kv[k] # None
    /\ kv' = [kv EXCEPT ![k] = None]
    /\ missed' = missed \ {k}
    /\ UNCHANGED <<mode, asked, version, h, requests, faults, restarts>>

-----------------------------------------------------------------------------
(* Writes *)

\* The row is written, the keys are dropped in the steps that follow.
Write(p, r, v) ==
    /\ Ask(p) /\ r.table \in asked
    /\ version' = [version EXCEPT ![r] = v]
    /\ Become(p, [Idle EXCEPT !.pc = "drop", !.drops = Drops(r)])
    /\ UNCHANGED <<kv, missed>>

\* Upsert of a platform or a login.
Upsert(p) == \E r \in Row : r.table \in {"platform", "auth"} /\ Write(p, r, requests + 2)

\* Delete of a platform or a login, there or not.
Delete(p) == \E r \in Row : r.table \in {"platform", "auth"} /\ Write(p, r, 0)

\* CreateRow: a name that has a row is refused.
CreateRow(p) == \E r \in Row : r.table = "alias" /\ version[r] = 0 /\ Write(p, r, requests + 2)

\* UpsertTaskHeartbeat: the scripts an agent reports, one statement each.
Heartbeat(p) ==
    /\ Ask(p) /\ "installed" \in asked
    /\ \E a \in Agent : \E rows \in SUBSET [table : {"installed"}, id : {a} \X Script] :
          Become(p, [Idle EXCEPT !.pc = IF rows = {} THEN "drop" ELSE "beat",
                                 !.rows = rows, !.n = requests + 2,
                                 !.drops = <<[of |-> "installed", id |-> a]>>])
    /\ UNCHANGED <<version, kv, missed>>

Beat(p) ==
    /\ Step(p, "beat")
    /\ \E r \in h[p].rows :
          /\ version' = [version EXCEPT ![r] = h[p].n]
          /\ Become(p, [h[p] EXCEPT !.rows = @ \ {r}, !.pc = IF h[p].rows = {r} THEN "drop" ELSE @])
    /\ UNCHANGED <<kv, missed>>

Drop(p) ==
    /\ Step(p, "drop")
    /\ LET k == Head(h[p].drops)
       IN  kv' = [kv EXCEPT ![k] = None] /\ missed' = missed \ {k}
    /\ Become(p, IF Len(h[p].drops) = 1 THEN Idle ELSE [h[p] EXCEPT !.drops = Tail(@)])
    /\ UNCHANGED version

\* The keys a request will still drop.
Pending(p) == ToSet(h[p].drops)

\* A statement fails: the request ends, a heartbeat with some scripts written and no key dropped.
Fail(p) ==
    /\ p \in Handler /\ h[p].pc \in {"query", "beat"}
    /\ Fault(p)
    /\ missed' = missed \cup {k \in Pending(p) : kv[k] \notin {None, Content(k)}}
    /\ Done(p)

-----------------------------------------------------------------------------
(* The refresher *)

\* The tables in the order of refreshOnce, each with the keys it fills: lists by agent and
\* names of makers only for those that have rows.
Scans   == <<"all", "agent", "norm", "installed", "canonicals">>
Found(i) == {k \in Key : k.of = Scans[i] /\ (k.of \in {"all", "canonicals"} \/ ~NoRows(k))}

\* After the last table the goroutine waits for its ticker, or ends.
Following(i) ==
    IF i < Len(Scans) THEN [Idle EXCEPT !.pc = "scan", !.at = i + 1]
    ELSE IF mode = "loop" THEN Start ELSE Idle

Scan ==
    /\ Step(refresher, "scan")
    /\ LET i == h[refresher].at
       IN  Become(refresher, IF Found(i) = {} THEN Following(i)
                             ELSE [h[refresher] EXCEPT !.pc = "fill", !.keys = Found(i),
                                                       !.read = FromTable(Found(i))])
    /\ UNCHANGED <<version, kv, missed>>

\* The old copies are kept.
ScanFails ==
    /\ At(refresher, "scan")
    /\ Fault(refresher)
    /\ Become(refresher, Following(h[refresher].at))
    /\ UNCHANGED missed

Refill ==
    /\ Step(refresher, "fill")
    /\ \E k \in h[refresher].keys :
          /\ Store(k, h[refresher].read[k])
          /\ Become(refresher, IF h[refresher].keys = {k} THEN Following(h[refresher].at)
                               ELSE [h[refresher] EXCEPT !.keys = @ \ {k}])
    /\ UNCHANGED version

\* The server stops and starts with an empty map.
Restart ==
    /\ restarts < MaxRestarts /\ restarts' = restarts + 1
    /\ kv' = [k \in Key |-> None] /\ missed' = {}
    /\ h' = [p \in Proc |-> IF p = refresher THEN Start ELSE Idle]
    /\ UNCHANGED <<mode, asked, version, requests, faults>>

Refresh == Scan \/ ScanFails \/ Refill

Next ==
    \/ \E p \in Handler :
          \/ Get(p) \/ Query(p) \/ Fill(p)
          \/ Upsert(p) \/ Delete(p) \/ CreateRow(p) \/ Heartbeat(p) \/ Beat(p) \/ Drop(p) \/ Fail(p)
    \/ \E k \in Key : Expire(k)
    \/ Refresh \/ Restart

\* The refresher's goroutine runs and its ticker ticks; time passes for the entries of names.
\* Nothing is asked of the requests.
Fairness ==
    /\ WF_vars(Refresh)
    /\ \A n \in Norm : WF_vars(Expire([of |-> "norm", id |-> n]))

Spec == Init /\ [][Next]_vars /\ Fairness

-----------------------------------------------------------------------------
(* Properties *)

\* A copy that differs from the table is about to be dropped by its writer, or was stored by a
\* reader or the refresher that had read before the write, or its heartbeat gave up half-way:
\* every other write reaches every copy of its row (Upsert, Delete, CreateRow and
\* UpsertTaskHeartbeat of the caching repositories).
StaleIsMissed ==
    \A k \in Key : kv[k] \notin {None, Content(k)} =>
        k \in missed \/ \E p \in Handler : k \in Pending(p)

\* What is read is stale, and someone should mend it: time the names of makers, and the
\* refresher, if it runs more than once, all lists and single platforms that have rows.
Stale(k)  == Answer(k) # None /\ Answer(k) # Content(k)
Mended(k) ==
    \/ k.of = "norm"
    \/ mode = "loop" /\ k.of \in {"all", "canonicals"}
    \/ mode = "loop" /\ k.of \in {"one", "agent", "installed"} /\ ~NoRows(k)

\* Once the requests are over, such an answer does not stay stale: the refresher or the time to
\* live replaces what a reader or a failed heartbeat left behind, and the list of all platforms
\* hides a stale single one (refreshOnce, CachedBomPlatformScriptRepo.Get, CanonicalID).
Heals == []<>(\A k \in Key : Mended(k) => ~Stale(k))

=============================================================================
