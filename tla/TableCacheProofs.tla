------------------------- MODULE TableCacheProofs ---------------------------
(***************************************************************************)
(* A theorem about TableCache for any sets of platforms, agents, scripts,  *)
(* names and requests, and any number of requests, faults and restarts:    *)
(* every stale copy has one of the three excuses of StaleIsMissed.         *)
(***************************************************************************)
EXTENDS TableCache, TLAPS

\* A record of what a process does: keys to drop are there only in a heartbeat's and a
\* writer's own steps, and a heartbeat writes the rows its key shows.
RecordOK(r) ==
    /\ r \in [pc : {r.pc}, keys : SUBSET Key, read : {r.read}, rows : SUBSET Row, n : {r.n},
              drops : Seq(Key), at : {r.at}]
    /\ r.pc \notin {"beat", "drop"} => r.drops = <<>>
    /\ r.pc \in {"beat", "drop"} => r.drops # <<>>
    /\ r.pc = "beat" => \A k \in Key : \A w \in r.rows : w \in RowsOf(k) => k \in ToSet(r.drops)

\* The shapes of the variables; the refresher never has keys to drop.
Shapes ==
    /\ version = [r \in Row |-> version[r]]
    /\ kv = [k \in Key |-> kv[k]]
    /\ h = [p \in Proc |-> h[p]]
    /\ \A p \in Proc : RecordOK(h[p])
    /\ h[refresher].pc \notin {"beat", "drop"}

IInv == Shapes /\ StaleIsMissed

-----------------------------------------------------------------------------
(* Keys and rows *)

\* A request that writes a row drops every key that shows it.
LEMMA DropsCover ==
  ASSUME NEW r \in Row, r.table # "installed"
  PROVE  /\ Drops(r) \in Seq(Key) /\ Drops(r) # <<>>
         /\ \A k \in Key : r \in RowsOf(k) => k \in ToSet(Drops(r))
<1>1. CASE r.table = "platform"
  BY <1>1 DEF Row, Key, Pair, RowsOf, Drops, All, Canonicals, ToSet
<1>2. CASE r.table = "auth"
  BY <1>2 DEF Row, Key, Pair, RowsOf, Drops, All, Canonicals, ToSet
<1>3. CASE r.table = "alias"
  BY <1>3 DEF Row, Key, Pair, RowsOf, Drops, All, Canonicals, ToSet
<1> QED BY <1>1, <1>2, <1>3 DEF Row

\* The keys of a record that is left to drop.
LEMMA RestOfDrops ==
  ASSUME NEW s \in Seq(Key), s # <<>>
  PROVE  /\ Head(s) \in Key /\ Tail(s) \in Seq(Key)
         /\ Len(s) = 1 => ToSet(s) = {Head(s)}
         /\ Len(s) # 1 => Tail(s) # <<>>
         /\ ToSet(s) \subseteq {Head(s)} \cup ToSet(Tail(s))
<1>1. Head(s) \in Key /\ Tail(s) \in Seq(Key) /\ Len(s) \in Nat /\ Len(s) > 0
  OBVIOUS
<1>2. Len(s) = 1 => ToSet(s) = {Head(s)}
  BY DEF ToSet
<1>3. Len(s) # 1 => Tail(s) # <<>>
  <2>1. Len(Tail(s)) = Len(s) - 1
    BY <1>1
  <2>2. Len(<<>>) = 0
    OBVIOUS
  <2> QED BY <1>1, <2>1, <2>2
<1>4. ASSUME NEW i \in DOMAIN s
      PROVE  s[i] = Head(s) \/ s[i] \in ToSet(Tail(s))
  <2>1. CASE i = 1
    BY <2>1
  <2>2. CASE i # 1
    <3>1. i - 1 \in DOMAIN Tail(s) /\ Tail(s)[i - 1] = s[i]
      BY <1>1, <2>2
    <3> QED BY <3>1 DEF ToSet
  <2> QED BY <2>1, <2>2
<1> QED BY <1>1, <1>2, <1>3, <1>4 DEF ToSet

-----------------------------------------------------------------------------
(* Steps *)

\* The processes after one of them gets another record.
LEMMA BecomeKeeps ==
  ASSUME Shapes, NEW p \in Proc, NEW rec, RecordOK(rec), Become(p, rec),
         p = refresher => rec.pc \notin {"beat", "drop"},
         version' = [r \in Row |-> version'[r]], kv' = [k \in Key |-> kv'[k]]
  PROVE  /\ Shapes'
         /\ h'[p] = rec /\ \A q \in Proc : q # p => h'[q] = h[q]
<1>1. h'[p] = rec /\ \A q \in Proc : q # p => h'[q] = h[q]
  BY DEF Become, Shapes
<1>2. h' = [q \in Proc |-> h'[q]]
  BY DEF Become, Shapes
<1>3. \A q \in Proc : RecordOK(h'[q])
  BY <1>1 DEF Shapes
<1>4. h'[refresher].pc \notin {"beat", "drop"}
  BY <1>1 DEF Shapes, Proc
<1> QED BY <1>1, <1>2, <1>3, <1>4 DEF Shapes

LEMMA IdleOK == RecordOK(Idle) /\ Idle.pc = "idle" /\ Idle.drops = <<>> /\ Idle.rows = {}
BY DEF RecordOK, Idle

\* The record of a refresher that is about to read a table.
LEMMA ScanOK ==
  ASSUME NEW i, NEW pc \in {"idle", "scan"}
  PROVE  LET r == [Idle EXCEPT !.pc = pc, !.at = i] IN RecordOK(r) /\ r.pc = pc
BY IdleOK DEF RecordOK

LEMMA StartOK == RecordOK(Start) /\ Start.pc \in {"idle", "scan"}
BY ScanOK DEF Start

LEMMA FollowingOK ==
  ASSUME NEW i
  PROVE  RecordOK(Following(i)) /\ Following(i).pc \in {"idle", "scan"}
BY ScanOK, StartOK, IdleOK DEF Following

\* A step that touches neither table nor map and takes nothing off a list of keys to drop.
LEMMA QuietKeeps ==
  ASSUME StaleIsMissed, UNCHANGED <<version, kv, missed>>,
         \A q \in Handler : Pending(q) \subseteq Pending(q)'
  PROVE  StaleIsMissed'
BY DEF StaleIsMissed, Content

\* A copy that is stored is fresh or noted as missed.
LEMMA StoreKeeps ==
  ASSUME Shapes, StaleIsMissed, NEW k \in Key, NEW copy, Store(k, copy), version' = version,
         \A q \in Handler : Pending(q) \subseteq Pending(q)'
  PROVE  StaleIsMissed' /\ kv' = [j \in Key |-> kv'[j]]
<1>1. kv' = [j \in Key |-> kv'[j]]
  BY DEF Shapes, Store
<1>2. ASSUME NEW j \in Key, kv'[j] \notin {None, Content(j)'}
      PROVE  j \in missed' \/ \E q \in Handler : j \in Pending(q)'
  <2>1. Content(j)' = Content(j)
    BY DEF Content
  <2>2. CASE j = k
    BY <1>2, <2>1, <2>2 DEF Store, Shapes
  <2>3. CASE j # k
    <3>1. kv'[j] = kv[j]
      BY <2>3 DEF Store, Shapes
    <3>2. j \in missed => j \in missed'
      BY <2>3 DEF Store
    <3> QED BY <1>2, <2>1, <3>1, <3>2 DEF StaleIsMissed
  <2> QED BY <2>2, <2>3
<1> QED BY <1>1, <1>2 DEF StaleIsMissed

\* A key that loses its copy needs no excuse.
LEMMA DropKeeps ==
  ASSUME Shapes, StaleIsMissed, NEW k \in Key, version' = version,
         kv' = [kv EXCEPT ![k] = None], missed' = missed \ {k},
         \A q \in Handler : Pending(q) \subseteq {k} \cup Pending(q)'
  PROVE  StaleIsMissed' /\ kv' = [j \in Key |-> kv'[j]]
<1>1. kv' = [j \in Key |-> kv'[j]]
  BY DEF Shapes
<1>2. ASSUME NEW j \in Key, kv'[j] \notin {None, Content(j)'}
      PROVE  j \in missed' \/ \E q \in Handler : j \in Pending(q)'
  <2>1. Content(j)' = Content(j)
    BY DEF Content
  <2>2. j # k /\ kv'[j] = kv[j]
    BY <1>2 DEF Shapes
  <2> QED BY <1>2, <2>1, <2>2 DEF StaleIsMissed
<1> QED BY <1>1, <1>2 DEF StaleIsMissed

\* A row is written by a request that will drop every key that shows it.
LEMMA RowKeeps ==
  ASSUME Shapes, StaleIsMissed, NEW p \in Handler, NEW r \in Row, NEW v,
         version' = [version EXCEPT ![r] = v], UNCHANGED <<kv, missed>>,
         \A q \in Handler : Pending(q) \subseteq Pending(q)',
         \A k \in Key : r \in RowsOf(k) => k \in Pending(p)'
  PROVE  StaleIsMissed' /\ version' = [w \in Row |-> version'[w]]
<1>1. version' = [w \in Row |-> version'[w]]
  BY DEF Shapes
<1>2. ASSUME NEW j \in Key, kv'[j] \notin {None, Content(j)'}
      PROVE  j \in missed' \/ \E q \in Handler : j \in Pending(q)'
  <2>1. CASE r \in RowsOf(j)
    BY <2>1
  <2>2. CASE r \notin RowsOf(j)
    <3>1. \A w \in RowsOf(j) : version'[w] = version[w]
      <4>1. RowsOf(j) \subseteq Row
        BY DEF RowsOf, Row, Key, Pair
      <4> QED BY <2>2, <4>1 DEF Shapes
    <3>2. Content(j)' = Content(j)
      BY <3>1 DEF Content
    <3> QED BY <1>2, <3>2 DEF StaleIsMissed
  <2> QED BY <2>1, <2>2
<1> QED BY <1>1, <1>2 DEF StaleIsMissed

-----------------------------------------------------------------------------
(* The invariant *)

LEMMA InitIInv == Init => IInv
<1> SUFFICES ASSUME Init PROVE IInv
  OBVIOUS
<1>1. \A p \in Proc : RecordOK(h[p]) /\ h[p].pc \in {"idle", "scan"}
  BY IdleOK, StartOK DEF Init
<1>2. Shapes
  BY <1>1 DEF Init, Shapes, Proc
<1>3. StaleIsMissed
  BY DEF Init, StaleIsMissed
<1> QED BY <1>2, <1>3 DEF IInv

\* Requests.
LEMMA AskPlaces ==
  ASSUME Shapes, NEW p \in Handler
  PROVE  /\ p \in Proc /\ p # refresher /\ RecordOK(h[p])
         /\ (At(p, "idle") \/ At(p, "query") \/ At(p, "fill")) => Pending(p) = {}
<1>1. p \in Proc /\ p # refresher
  BY CacheAssumption DEF Proc
<1>2. RecordOK(h[p])
  BY <1>1 DEF Shapes
<1> QED BY <1>1, <1>2 DEF RecordOK, At, Pending, ToSet

\* Only the keys of the process that takes the step may change.
LEMMA OthersKeep ==
  ASSUME NEW p \in Proc, \A q \in Proc : q # p => h'[q] = h[q],
         NEW S, p \in Handler => Pending(p) \subseteq S \cup Pending(p)'
  PROVE  \A q \in Handler : Pending(q) \subseteq S \cup Pending(q)'
BY DEF Pending, Proc

LEMMA GetStep ==
  ASSUME IInv, NEW p \in Handler, Get(p)
  PROVE  IInv'
<1>1. PICK ks \in SUBSET Key : Become(p, [Idle EXCEPT !.pc = "query", !.keys = ks])
  BY DEF Get
<1> DEFINE r == [Idle EXCEPT !.pc = "query", !.keys = ks]
<1>2. Become(p, r)
  BY <1>1
<1>3. RecordOK(r) /\ r.pc = "query"
  BY IdleOK DEF RecordOK
<1>4. UNCHANGED <<version, kv, missed>> /\ At(p, "idle")
  BY DEF Get, Ask
<1>5. Shapes' /\ \A q \in Proc : q # p => h'[q] = h[q]
  BY <1>2, <1>3, <1>4, BecomeKeeps, AskPlaces DEF IInv, Shapes
<1>6. \A q \in Handler : Pending(q) \subseteq {} \cup Pending(q)'
  BY <1>4, <1>5, OthersKeep, AskPlaces DEF IInv
<1> QED BY <1>4, <1>5, <1>6, QuietKeeps DEF IInv

LEMMA QueryStep ==
  ASSUME IInv, NEW p \in Handler, Query(p)
  PROVE  IInv'
<1> DEFINE found == {k \in h[p].keys : ~(k.of \in {"one", "pair"} /\ NoRows(k))}
           r == [h[p] EXCEPT !.pc = "fill", !.keys = found, !.read = FromTable(found)]
<1>1. RecordOK(h[p]) /\ At(p, "query") /\ Pending(p) = {}
  BY AskPlaces DEF IInv, Query, Step
<1>2. found \subseteq Key /\ RecordOK(r) /\ r.pc = "fill"
  BY <1>1 DEF RecordOK, At
<1>3. PICK rec \in {Idle, r} : Become(p, rec)
  BY DEF Query
<1>4. UNCHANGED <<version, kv, missed>>
  BY DEF Query
<1>5. Shapes' /\ \A q \in Proc : q # p => h'[q] = h[q]
  BY <1>2, <1>3, <1>4, BecomeKeeps, AskPlaces, IdleOK DEF IInv, Shapes
<1>6. \A q \in Handler : Pending(q) \subseteq {} \cup Pending(q)'
  BY <1>1, <1>5, OthersKeep, AskPlaces DEF IInv
<1> QED BY <1>4, <1>5, <1>6, QuietKeeps DEF IInv

LEMMA FillStep ==
  ASSUME IInv, NEW p \in Handler, Fill(p)
  PROVE  IInv'
<1>1. RecordOK(h[p]) /\ At(p, "fill") /\ Pending(p) = {}
  BY AskPlaces DEF IInv, Fill, Step
<1>2. PICK k \in h[p].keys :
         /\ Store(k, h[p].read[k])
         /\ Become(p, IF h[p].keys = {k} THEN Idle ELSE [h[p] EXCEPT !.keys = @ \ {k}])
  BY DEF Fill
<1> DEFINE r == [h[p] EXCEPT !.keys = @ \ {k}]
<1>3. k \in Key /\ RecordOK(r) /\ r.pc = "fill"
  BY <1>1 DEF RecordOK, At
<1>4. PICK rec \in {Idle, r} : Become(p, rec)
  BY <1>2
<1> HIDE DEF r
<1>5. version' = version
  BY DEF Fill
<1>6. kv' = [j \in Key |-> kv'[j]]
  BY <1>2 DEF IInv, Shapes, Store
<1>7. Shapes' /\ \A q \in Proc : q # p => h'[q] = h[q]
  BY <1>3, <1>4, <1>5, <1>6, BecomeKeeps, AskPlaces, IdleOK DEF IInv, Shapes
<1>8. \A q \in Handler : Pending(q) \subseteq {} \cup Pending(q)'
  BY <1>1, <1>7, OthersKeep, AskPlaces DEF IInv
<1> QED BY <1>2, <1>3, <1>5, <1>7, <1>8, StoreKeeps DEF IInv

LEMMA ExpireStep ==
  ASSUME IInv, NEW k \in Key, Expire(k)
  PROVE  IInv'
<1>1. /\ version' = version /\ h' = h
      /\ kv' = [kv EXCEPT ![k] = None] /\ missed' = missed \ {k}
  BY DEF Expire
<1>2. \A q \in Handler : Pending(q) \subseteq {k} \cup Pending(q)'
  BY <1>1 DEF Pending
<1>3. StaleIsMissed' /\ kv' = [j \in Key |-> kv'[j]]
  BY <1>1, <1>2, DropKeeps DEF IInv
<1> QED BY <1>1, <1>3 DEF IInv, Shapes

LEMMA WriteStep ==
  ASSUME IInv, NEW p \in Handler, NEW r \in Row, NEW v, Write(p, r, v), r.table # "installed"
  PROVE  IInv'
<1> DEFINE rec == [Idle EXCEPT !.pc = "drop", !.drops = Drops(r)]
<1>1. RecordOK(rec) /\ rec.pc = "drop" /\ rec.drops = Drops(r)
  BY DropsCover, IdleOK DEF RecordOK
<1>2. /\ version' = [version EXCEPT ![r] = v] /\ Become(p, rec) /\ UNCHANGED <<kv, missed>>
      /\ At(p, "idle")
  BY DEF Write, Ask
<1>3. version' = [w \in Row |-> version'[w]]
  BY <1>2 DEF IInv, Shapes
<1>4. Shapes' /\ h'[p] = rec /\ \A q \in Proc : q # p => h'[q] = h[q]
  BY <1>1, <1>2, <1>3, BecomeKeeps, AskPlaces DEF IInv, Shapes
<1>5. \A q \in Handler : Pending(q) \subseteq {} \cup Pending(q)'
  BY <1>2, <1>4, OthersKeep, AskPlaces DEF IInv
<1>6. \A k \in Key : r \in RowsOf(k) => k \in Pending(p)'
  BY <1>1, <1>4, DropsCover DEF Pending
<1> QED BY <1>2, <1>4, <1>5, <1>6, RowKeeps DEF IInv

LEMMA HeartbeatStep ==
  ASSUME IInv, NEW p \in Handler, Heartbeat(p)
  PROVE  IInv'
<1>1. PICK a \in Agent : \E rows \in SUBSET [table : {"installed"}, id : {a} \X Script] :
         Become(p, [Idle EXCEPT !.pc = IF rows = {} THEN "drop" ELSE "beat",
                                !.rows = rows, !.n = requests + 2,
                                !.drops = <<[of |-> "installed", id |-> a]>>])
  BY DEF Heartbeat
<1>0. PICK rows \in SUBSET [table : {"installed"}, id : {a} \X Script] :
         Become(p, [Idle EXCEPT !.pc = IF rows = {} THEN "drop" ELSE "beat",
                                !.rows = rows, !.n = requests + 2,
                                !.drops = <<[of |-> "installed", id |-> a]>>])
  BY <1>1
<1> DEFINE key == [of |-> "installed", id |-> a]
           pc == IF rows = {} THEN "drop" ELSE "beat"
           rec == [Idle EXCEPT !.pc = pc, !.rows = rows, !.n = requests + 2, !.drops = <<key>>]
<1>2. key \in Key /\ rows \subseteq Row
  BY DEF Key, Row, Pair
<1>3. <<key>> \in Seq(Key) /\ <<key>> # <<>> /\ key \in ToSet(<<key>>)
  BY <1>2 DEF ToSet
<1>4. \A k \in Key : \A w \in rows : w \in RowsOf(k) => k = key
  BY DEF Key, RowsOf, Pair
<1>5. RecordOK(rec)
  <2>1. rec \in [pc : {rec.pc}, keys : SUBSET Key, read : {rec.read}, rows : SUBSET Row,
                 n : {rec.n}, drops : Seq(Key), at : {rec.at}]
    BY <1>2, <1>3, IdleOK DEF RecordOK
  <2>2. rec.pc \in {"beat", "drop"} /\ rec.drops = <<key>> /\ rec.rows = rows
    BY IdleOK DEF RecordOK
  <2> HIDE DEF rec
  <2> QED BY <1>3, <1>4, <2>1, <2>2 DEF RecordOK
<1>6. UNCHANGED <<version, kv, missed>> /\ At(p, "idle") /\ Become(p, rec)
  BY <1>0 DEF Heartbeat, Ask
<1> HIDE DEF rec
<1>7. Shapes' /\ \A q \in Proc : q # p => h'[q] = h[q]
  BY <1>5, <1>6, BecomeKeeps, AskPlaces DEF IInv, Shapes
<1>8. \A q \in Handler : Pending(q) \subseteq {} \cup Pending(q)'
  BY <1>6, <1>7, OthersKeep, AskPlaces DEF IInv
<1> QED BY <1>6, <1>7, <1>8, QuietKeeps DEF IInv

LEMMA BeatStep ==
  ASSUME IInv, NEW p \in Handler, Beat(p)
  PROVE  IInv'
<1>1. RecordOK(h[p]) /\ At(p, "beat")
  BY AskPlaces DEF IInv, Beat, Step
<1>2. PICK r \in h[p].rows :
         /\ version' = [version EXCEPT ![r] = h[p].n]
         /\ Become(p, [h[p] EXCEPT !.rows = @ \ {r},
                                   !.pc = IF h[p].rows = {r} THEN "drop" ELSE @])
  BY DEF Beat
<1> DEFINE rec == [h[p] EXCEPT !.rows = @ \ {r}, !.pc = IF h[p].rows = {r} THEN "drop" ELSE @]
<1>3. r \in Row /\ \A k \in Key : r \in RowsOf(k) => k \in ToSet(h[p].drops)
  BY <1>1 DEF RecordOK, At
<1>4. rec.drops = h[p].drops
  BY <1>1 DEF RecordOK
<1>5. RecordOK(rec)
  <2>1. \/ rec.pc = "beat"
        \/ rec.pc = "drop"
    BY <1>1 DEF RecordOK, At
  <2>2. /\ rec.rows = h[p].rows \ {r}
        /\ rec \in [pc : {rec.pc}, keys : SUBSET Key, read : {rec.read}, rows : SUBSET Row,
                    n : {rec.n}, drops : Seq(Key), at : {rec.at}]
    BY <1>1 DEF RecordOK
  <2> QED BY <1>1, <1>4, <2>1, <2>2 DEF RecordOK, At
<1> HIDE DEF rec
<1>6. UNCHANGED <<kv, missed>> /\ Become(p, rec)
  BY <1>2 DEF Beat, rec
<1>7. version' = [w \in Row |-> version'[w]]
  BY <1>2 DEF IInv, Shapes
<1>8. Shapes' /\ h'[p] = rec /\ \A q \in Proc : q # p => h'[q] = h[q]
  BY <1>5, <1>6, <1>7, BecomeKeeps, AskPlaces DEF IInv, Shapes
<1>9. \A q \in Handler : Pending(q) \subseteq {} \cup Pending(q)'
  BY <1>4, <1>8, OthersKeep, AskPlaces DEF IInv, Pending
<1>10. \A k \in Key : r \in RowsOf(k) => k \in Pending(p)'
  BY <1>3, <1>4, <1>8 DEF Pending
<1> QED BY <1>2, <1>3, <1>6, <1>8, <1>9, <1>10, RowKeeps DEF IInv

LEMMA DropStep ==
  ASSUME IInv, NEW p \in Proc, Drop(p)
  PROVE  IInv'
<1>1. RecordOK(h[p]) /\ At(p, "drop") /\ p # refresher
  BY DEF IInv, Shapes, Drop, Step, At
<1> DEFINE s == h[p].drops
           rec == [h[p] EXCEPT !.drops = Tail(@)]
<1>2. /\ s \in Seq(Key) /\ s # <<>> /\ Head(s) \in Key /\ Tail(s) \in Seq(Key)
      /\ Len(s) = 1 => ToSet(s) = {Head(s)}
      /\ Len(s) # 1 => Tail(s) # <<>>
      /\ ToSet(s) \subseteq {Head(s)} \cup ToSet(Tail(s))
  BY <1>1, RestOfDrops DEF RecordOK, At
<1>3. rec.drops = Tail(s) /\ (Len(s) # 1 => RecordOK(rec))
  BY <1>1, <1>2 DEF RecordOK, At
<1>4. PICK next : Become(p, next) /\ next = IF Len(s) = 1 THEN Idle ELSE rec
  BY DEF Drop
<1>5. /\ version' = version /\ kv' = [kv EXCEPT ![Head(s)] = None]
      /\ missed' = missed \ {Head(s)}
  BY DEF Drop
<1>6. Shapes' /\ h'[p] = next /\ \A q \in Proc : q # p => h'[q] = h[q]
  <2>1. RecordOK(next)
    BY <1>3, <1>4, IdleOK
  <2> QED BY <1>1, <1>4, <1>5, <2>1, BecomeKeeps DEF IInv, Shapes
<1>7. Pending(p) \subseteq {Head(s)} \cup Pending(p)'
  BY <1>2, <1>3, <1>4, <1>6, IdleOK DEF Pending
<1>8. \A q \in Handler : Pending(q) \subseteq {Head(s)} \cup Pending(q)'
  BY <1>6, <1>7, OthersKeep
<1> QED BY <1>2, <1>5, <1>6, <1>8, DropKeeps DEF IInv

LEMMA FailStep ==
  ASSUME IInv, NEW p \in Handler, Fail(p)
  PROVE  IInv'
<1>1. /\ version' = version /\ kv' = kv /\ Become(p, Idle)
      /\ missed' = missed \cup {k \in Pending(p) : kv[k] \notin {None, Content(k)}}
  BY DEF Fail, Fault, Done
<1>2. Shapes' /\ \A q \in Proc : q # p => h'[q] = h[q]
  BY <1>1, BecomeKeeps, AskPlaces, IdleOK DEF IInv, Shapes
<1>3. \A q \in Handler : q # p => Pending(q)' = Pending(q)
  BY <1>2 DEF Pending, Proc
<1>4. ASSUME NEW j \in Key, kv'[j] \notin {None, Content(j)'}
      PROVE  j \in missed' \/ \E q \in Handler : j \in Pending(q)'
  <2>1. Content(j)' = Content(j) /\ kv'[j] = kv[j]
    BY <1>1 DEF Content
  <2>2. j \in missed \/ \E q \in Handler : j \in Pending(q)
    BY <1>4, <2>1 DEF IInv, StaleIsMissed
  <2> QED BY <1>1, <1>3, <1>4, <2>1, <2>2
<1> QED BY <1>2, <1>4 DEF IInv, StaleIsMissed

\* A step of the refresher leaves the lists of the handlers alone.
LEMMA RefresherKeeps ==
  ASSUME Shapes, \A q \in Proc : q # refresher => h'[q] = h[q]
  PROVE  \A q \in Handler : Pending(q) \subseteq Pending(q)'
BY CacheAssumption DEF Pending, Proc

LEMMA ScanStep ==
  ASSUME IInv, Scan
  PROVE  IInv'
<1> DEFINE i == h[refresher].at
           r == [h[refresher] EXCEPT !.pc = "fill", !.keys = Found(i), !.read = FromTable(Found(i))]
<1>1. RecordOK(h[refresher]) /\ At(refresher, "scan") /\ refresher \in Proc
  BY DEF IInv, Shapes, Scan, Step, Proc
<1>2. RecordOK(r) /\ r.pc = "fill"
  BY <1>1 DEF RecordOK, At, Found
<1>3. PICK rec \in {Following(i), r} : Become(refresher, rec)
  BY DEF Scan
<1> HIDE DEF r
<1>4. UNCHANGED <<version, kv, missed>>
  BY DEF Scan
<1>5. Shapes' /\ \A q \in Proc : q # refresher => h'[q] = h[q]
  BY <1>1, <1>2, <1>3, <1>4, BecomeKeeps, FollowingOK DEF IInv, Shapes
<1> QED BY <1>4, <1>5, RefresherKeeps, QuietKeeps DEF IInv

LEMMA ScanFailsStep ==
  ASSUME IInv, ScanFails
  PROVE  IInv'
<1>1. /\ UNCHANGED <<version, kv, missed>> /\ refresher \in Proc
      /\ Become(refresher, Following(h[refresher].at))
  BY DEF ScanFails, Fault, Proc
<1>2. Shapes' /\ \A q \in Proc : q # refresher => h'[q] = h[q]
  BY <1>1, BecomeKeeps, FollowingOK DEF IInv, Shapes
<1> QED BY <1>1, <1>2, RefresherKeeps, QuietKeeps DEF IInv

LEMMA RefillStep ==
  ASSUME IInv, Refill
  PROVE  IInv'
<1>1. RecordOK(h[refresher]) /\ At(refresher, "fill") /\ refresher \in Proc
  BY DEF IInv, Shapes, Refill, Step, Proc
<1>2. PICK k \in h[refresher].keys :
         /\ Store(k, h[refresher].read[k])
         /\ Become(refresher, IF h[refresher].keys = {k} THEN Following(h[refresher].at)
                              ELSE [h[refresher] EXCEPT !.keys = @ \ {k}])
  BY DEF Refill
<1> DEFINE r == [h[refresher] EXCEPT !.keys = @ \ {k}]
<1>3. k \in Key /\ RecordOK(r) /\ r.pc = "fill"
  BY <1>1 DEF RecordOK, At
<1>4. PICK rec \in {Following(h[refresher].at), r} : Become(refresher, rec)
  BY <1>2
<1> HIDE DEF r
<1>5. version' = version
  BY DEF Refill
<1>6. kv' = [j \in Key |-> kv'[j]]
  BY <1>2 DEF IInv, Shapes, Store
<1>7. Shapes' /\ \A q \in Proc : q # refresher => h'[q] = h[q]
  BY <1>1, <1>3, <1>4, <1>5, <1>6, BecomeKeeps, FollowingOK DEF IInv, Shapes
<1> QED BY <1>2, <1>3, <1>5, <1>7, RefresherKeeps, StoreKeeps DEF IInv

LEMMA RestartStep ==
  ASSUME IInv, Restart
  PROVE  IInv'
<1>1. /\ version' = version /\ kv' = [k \in Key |-> None]
      /\ h' = [p \in Proc |-> IF p = refresher THEN Start ELSE Idle]
  BY DEF Restart
<1>2. \A p \in Proc : RecordOK(h'[p]) /\ h'[p].pc \in {"idle", "scan"}
  BY <1>1, IdleOK, StartOK
<1> HIDE DEF Start, Idle
<1>3. Shapes'
  BY <1>1, <1>2 DEF IInv, Shapes, Proc
<1> QED BY <1>1, <1>3 DEF IInv, StaleIsMissed

LEMMA NextKeeps == IInv /\ [Next]_vars => IInv'
<1> SUFFICES ASSUME IInv, [Next]_vars
             PROVE  IInv'
  OBVIOUS
<1>1. CASE Refresh \/ Restart
  BY <1>1, ScanStep, ScanFailsStep, RefillStep, RestartStep DEF Refresh
<1>2. CASE \E k \in Key : Expire(k)
  BY <1>2, ExpireStep
<1>3. ASSUME NEW p \in Handler,
             Get(p) \/ Query(p) \/ Fill(p) \/ Heartbeat(p) \/ Beat(p) \/ Drop(p) \/ Fail(p)
      PROVE  IInv'
  BY <1>3, GetStep, QueryStep, FillStep, HeartbeatStep, BeatStep, DropStep, FailStep DEF Proc
<1>4. ASSUME NEW p \in Handler, Upsert(p) \/ Delete(p) \/ CreateRow(p)
      PROVE  IInv'
  <2>1. PICK r \in Row, v \in {0, requests + 2} : r.table # "installed" /\ Write(p, r, v)
    BY <1>4 DEF Upsert, Delete, CreateRow
  <2> QED BY <2>1, WriteStep
<1>5. CASE UNCHANGED vars
  BY <1>5 DEF vars, IInv, Shapes, StaleIsMissed, Pending, Content
<1> QED BY <1>1, <1>2, <1>3, <1>4, <1>5 DEF Next

\* A copy that differs from the table is about to be dropped, was stored by someone who had
\* read before the write, or comes from a heartbeat that gave up: for any tables and requests.
THEOREM StaleIsMissedHolds == Spec => []StaleIsMissed
<1>1. Init => IInv
  BY InitIInv
<1>2. IInv /\ [Next]_vars => IInv'
  BY NextKeeps
<1>3. IInv => StaleIsMissed
  BY DEF IInv
<1> QED BY <1>1, <1>2, <1>3, PTL DEF Spec

=============================================================================
