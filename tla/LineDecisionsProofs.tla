------------------------ MODULE LineDecisionsProofs -------------------------
(***************************************************************************)
(* Theorems about LineDecisions for any lines, parts, platforms and        *)
(* results and any number of requests in progress: gaps and runs first,    *)
(* whatever is computed from the rows; then what is computed, the verdict  *)
(* on a line, the saved runs it leads to and the quote that is chosen.     *)
(***************************************************************************)
EXTENDS LineDecisions, FiniteSetTheorems, WellFoundedInduction, TLAPS

\* What a handler has read and where it is, when there are g gaps and n runs.
RecordOK(r) ==
    r \in [pc : {r.pc}, gap : Nat, mpn : Subs, line : {r.line}, asked : {r.asked},
          keys : {r.keys}, subs : {r.subs}, marked : {r.marked}, tasks : {r.tasks},
          excuse : SUBSET Line, matched : {r.matched}, source : {r.source}, run : Nat]

Typed(r, g, n) ==
    /\ RecordOK(r)
    /\ r.pc = "open" => r.keys \subseteq Line \X GapTypes
    /\ r.pc \in {"close", "askSub", "closeSub"} => r.gap \in 1 .. g
    /\ r.pc \in {"askSub", "closeSub"} => r.mpn \in Mpn
    /\ r.pc = "create" => r.source \in [Line -> Sources]
    /\ r.pc = "supersede" => r.run \in 1 .. n

Types ==
    /\ TypeOK
    /\ h = [p \in Handler |-> h[p]]
    /\ \A p \in Handler : Typed(h[p], Len(gap), Len(run))

\* Tasks that were asked for and quotes that were entered stay.
Grown == /\ \A k \in Key : task[k] # None => task'[k] # None
         /\ \A m \in Mpn : manual[m] # {} => manual'[m] # {}

\* A handler that is about to close a gap has written what backs it.
Backs(r, g, m, t) ==
    /\ r.pc = "close" => m[Bom[g[r.gap].line].mpn] # {}
    /\ r.pc = "closeSub" => \A p \in Platform : t[<<r.mpn, p>>] # None

GapInv ==
    /\ ClosedIsBacked
    /\ \A g \in DOMAIN gap : gap[g].status = "substitute_selected" => gap[g].sub \in Mpn
    /\ \A p \in Handler : Backs(h[p], gap, manual, task)

\* Of a run whose save is not finished one handler has charge; when it alone was under
\* way when the newest run was created, it has charge of that one.
InCharge(r, n) ==
    r.pc = "supersede" =>
        /\ r.run \in DOMAIN n /\ ~n[r.run].done
        /\ ~n[Len(n)].overlap => r.run = Len(n)

Alone ==
    \A p, q \in Handler :
        (p # q /\ h[p].pc = "supersede" /\ h[q].pc = "supersede") => h[p].run # h[q].run

RunInv ==
    /\ CurrentRun
    /\ \A p \in Handler : InCharge(h[p], run)
    /\ Alone

-----------------------------------------------------------------------------
(* Records, sequences and types *)

LEMMA IdleOK ==
  /\ \A g, n : Typed(Idle, g, n)
  /\ Idle.pc = "idle" /\ Idle.run = 0 /\ Idle.gap = 0
BY DEF Typed, RecordOK, Idle, Subs

LEMMA BecomeKeeps ==
  ASSUME h = [q \in Handler |-> h[q]], NEW p \in Handler, NEW rec, Become(p, rec)
  PROVE  /\ h' = [q \in Handler |-> h'[q]]
         /\ h'[p] = rec /\ \A q \in Handler : q # p => h'[q] = h[q]
BY DEF Become

LEMMA TypedGrows ==
  ASSUME NEW r, NEW g \in Nat, NEW n \in Nat, NEW g2 \in Nat, NEW n2 \in Nat,
         g <= g2, n <= n2, Typed(r, g, n)
  PROVE  Typed(r, g2, n2)
BY DEF Typed

\* A finite set can be listed.
LEMMA ListedSet ==
  ASSUME NEW S, IsFiniteSet(S)
  PROVE  SetToSeq(S) \in Seq(S)
<1>1. PICK f \in [1 .. Cardinality(S) -> S] : IsInjective(f)
  BY FS_CardinalityType DEF ExistsBijection, Bijection, Injection, IsInjective
<1>2. SetToSeq(S) \in [1 .. Cardinality(S) -> S]
  BY <1>1 DEF SetToSeq
<1>3. Cardinality(S) \in Nat
  BY FS_CardinalityType
<1> QED BY <1>2, <1>3

LEMMA TypesInit == Init => Types
<1> SUFFICES ASSUME Init PROVE Types
  OBVIOUS
<1>1. gap \in Seq(Gap) /\ run \in Seq(Run)
  BY DEF Init
<1>2. sub \in [Line -> Subs] /\ task \in [Key -> TaskStates]
  BY DEF Init, Subs, TaskStates
<1>3. /\ manual \in [Mpn -> SUBSET Line] /\ marked \in BOOLEAN
      /\ pool \in [Key -> Results \cup {"none", None}]
  BY DEF Init
<1>4. TypeOK
  BY <1>1, <1>2, <1>3 DEF TypeOK
<1>5. h = [p \in Handler |-> h[p]] /\ \A p \in Handler : h[p] = Idle
  BY DEF Init
<1> QED BY <1>4, <1>5, IdleOK DEF Types

\* A step of one handler.
LEMMA MoveKeeps ==
  ASSUME Types, TypeOK', Len(gap) <= Len(gap'), Len(run) <= Len(run'), NEW p \in Handler,
         NEW rec, Become(p, rec), Typed(rec, Len(gap'), Len(run'))
  PROVE  Types'
<1>1. Len(gap) \in Nat /\ Len(run) \in Nat /\ Len(gap') \in Nat /\ Len(run') \in Nat
  BY DEF Types, TypeOK
<1>2. /\ h' = [q \in Handler |-> h'[q]]
      /\ h'[p] = rec /\ \A q \in Handler : q # p => h'[q] = h[q]
  BY BecomeKeeps DEF Types
<1>3. \A q \in Handler : Typed(h'[q], Len(gap'), Len(run'))
  BY <1>1, <1>2, TypedGrows DEF Types
<1> QED BY <1>2, <1>3 DEF Types

LEMMA StoreTypes ==
  ASSUME Types, NEW k \in Key, Crawled(k) \/ CrawledForOthers(k)
  PROVE  Types'
<1>1. UNCHANGED <<sub, marked, manual, gap, run>>
  BY DEF Crawled, CrawledForOthers, session
<1>2. task' \in [Key -> TaskStates]
  BY DEF Types, TypeOK, Crawled, CrawledForOthers, TaskStates
<1>3. ASSUME NEW r, r \in Results \cup {"none"}, Put(k, r)
      PROVE  Types'
  <2>1. pool' \in [Key -> Results \cup {"none", None}]
    BY <1>3 DEF Types, TypeOK, Put
  <2>2. h' = [p \in Handler |-> h'[p]]
    BY <1>3 DEF Put
  <2>3. ASSUME NEW p \in Handler
        PROVE  Typed(h'[p], Len(gap'), Len(run'))
    <3>1. PICK e \in SUBSET Line : h'[p] = [h[p] EXCEPT !.excuse = e]
      <4>1. h[p].excuse \in SUBSET Line
        BY DEF Types, Typed, RecordOK
      <4>2. h'[p] = [h[p] EXCEPT !.excuse = IF At(p, "ready") \/ At(p, "match")
                                             THEN Line ELSE h[p].excuse]
        BY <1>3 DEF Put
      <4> QED BY <4>1, <4>2
    <3>2. Typed(h[p], Len(gap), Len(run))
      BY DEF Types
    <3> QED BY <1>1, <3>1, <3>2 DEF Typed, RecordOK
  <2> QED BY <1>1, <1>2, <2>1, <2>2, <2>3 DEF Types, TypeOK
<1>4. CASE UNCHANGED <<pool, h>>
  BY <1>1, <1>2, <1>4 DEF Types, TypeOK
<1>6. Found[k] \subseteq Results
  BY DEF Results
<1> QED BY <1>3, <1>4, <1>6 DEF Crawled, CrawledForOthers

LEMMA GapOfTypes ==
  ASSUME NEW line, NEW asked, NEW c
  PROVE  GapOf(line, asked, c) \subseteq GapTypes
BY DEF GapOf, GapTypes

\* The list of gaps that are opened.
LEMMA OpenedGaps ==
  ASSUME NEW keys, keys \subseteq Line \X GapTypes, NEW old
  PROVE  SetToSeq({[line |-> k[1], type |-> k[2], status |-> "open", sub |-> None] :
                      k \in keys \ old}) \in Seq({g \in Gap : g.status = "open"})
<1> DEFINE new == {[line |-> k[1], type |-> k[2], status |-> "open", sub |-> None] :
                      k \in keys \ old}
           Open == {g \in Gap : g.status = "open"}
<1>1. new \subseteq Open
  BY DEF Gap, GapStatuses, Subs
<1>2. IsFiniteSet(new)
  <2>1. IsFiniteSet(GapTypes)
    <3>1. IsFiniteSet({"NO_DATA"})
      BY FS_Singleton
    <3>2. IsFiniteSet({"NO_DATA"} \cup {"COLLECTION_UNAVAILABLE"})
      BY <3>1, FS_AddElement
    <3>3. IsFiniteSet(({"NO_DATA"} \cup {"COLLECTION_UNAVAILABLE"}) \cup {"NO_MATCH_AFTER_FILTER"})
      BY <3>2, FS_AddElement
    <3>4. GapTypes = ({"NO_DATA"} \cup {"COLLECTION_UNAVAILABLE"}) \cup {"NO_MATCH_AFTER_FILTER"}
      BY DEF GapTypes
    <3> QED BY <3>3, <3>4
  <2>2. IsFiniteSet(Line \X GapTypes)
    BY <2>1, DecisionsAssumption, FS_Product
  <2>3. IsFiniteSet(keys \ old)
    BY <2>2, FS_Subset
  <2> DEFINE f == [k \in keys \ old |->
                     [line |-> k[1], type |-> k[2], status |-> "open", sub |-> None]]
  <2>4. f \in Surjection(keys \ old, new)
    BY DEF Surjection
  <2> HIDE DEF f, new
  <2> QED BY <2>3, <2>4, FS_Surjection
<1> HIDE DEF new, Open
<1>3. SetToSeq(new) \in Seq(new)
  BY <1>2, ListedSet
<1>4. SetToSeq(new) \in Seq(Open)
  BY <1>1, <1>3
<1> QED BY <1>4 DEF new, Open

LEMMA CloseTypes ==
  ASSUME gap \in Seq(Gap), NEW g \in 1 .. Len(gap), NEW st \in GapStatuses, NEW m \in Subs,
         Close(g, st, m)
  PROVE  gap' \in Seq(Gap) /\ Len(gap') = Len(gap)
<1>1. gap[g] \in Gap
  OBVIOUS
<1>2. [gap[g] EXCEPT !.status = st, !.sub = m] \in Gap
  BY <1>1 DEF Gap
<1>3. CASE gap' = gap
  BY <1>3
<1>4. CASE gap' = [gap EXCEPT ![g].status = st, ![g].sub = m]
  <2>1. gap' = [gap EXCEPT ![g] = [gap[g] EXCEPT !.status = st, !.sub = m]]
    BY <1>4
  <2> QED BY <1>2, <2>1
<1> QED BY <1>3, <1>4 DEF Close

\* The steps about gaps.
LEMMA GapTypesStep ==
  ASSUME Types, NEW p \in Handler,
         ListGaps(p) \/ FindGaps(p) \/ OpenGaps(p) \/ CloseManual(p) \/ CloseSubstitute(p)
  PROVE  Types'
<1> USE DEF Step, Ask, At, session, market
<1>1. /\ UNCHANGED <<sub, marked, task, pool, manual, run>>
      /\ Typed(h[p], Len(gap), Len(run)) /\ gap \in Seq(Gap) /\ TypeOK
  BY DEF ListGaps, FindGaps, OpenGaps, CloseManual, CloseSubstitute, Types, TypeOK
<1>2. ASSUME gap' \in Seq(Gap), Len(gap) <= Len(gap'), NEW rec, Become(p, rec),
             Typed(rec, Len(gap'), Len(run'))
      PROVE  Types'
  <2>1. TypeOK'
    BY <1>1, <1>2 DEF TypeOK
  <2>2. Len(run) <= Len(run')
    BY <1>1 DEF TypeOK
  <2> QED BY <1>2, <2>1, <2>2, MoveKeeps
<1>3. Len(gap) \in Nat /\ Len(gap) <= Len(gap)
  BY <1>1
<1>4. CASE ListGaps(p)
  <2> DEFINE rec == [Idle EXCEPT !.pc = "sync",
           !.asked = {l \in Line : \E q \in Platform : task[<<Bom[l].mpn, q>>] # None}]
  <2>1. Typed(rec, Len(gap), Len(run))
    BY IdleOK DEF Typed, RecordOK
  <2> HIDE DEF rec
  <2>2. Become(p, rec) /\ gap' = gap
    BY <1>4 DEF ListGaps, rec
  <2> QED BY <1>1, <1>2, <1>3, <2>1, <2>2
<1>5. CASE FindGaps(p)
  <2> DEFINE keys == UNION {{l} \X GapOf(Bom[l], l \in h[p].asked, cache) : l \in Line}
             rec == [Idle EXCEPT !.pc = "open", !.keys = keys]
  <2>1. keys \subseteq Line \X GapTypes
    BY GapOfTypes
  <2> HIDE DEF keys
  <2>2. Typed(rec, Len(gap), Len(run))
    BY <2>1, IdleOK DEF Typed, RecordOK
  <2> HIDE DEF rec
  <2>3. Become(p, rec) /\ gap' = gap
    BY <1>5 DEF FindGaps, rec, keys
  <2> QED BY <1>1, <1>2, <1>3, <2>2, <2>3
<1>6. CASE OpenGaps(p)
  <2> DEFINE new == SetToSeq({[line |-> k[1], type |-> k[2], status |-> "open", sub |-> None] :
                                k \in h[p].keys \ OpenKeys})
  <2>1. h[p].keys \subseteq Line \X GapTypes
    BY <1>1, <1>6 DEF OpenGaps, Typed
  <2>2. new \in Seq({g \in Gap : g.status = "open"})
    BY <2>1, OpenedGaps
  <2> HIDE DEF new
  <2>3. new \in Seq(Gap)
    BY <2>2
  <2>4. gap' = gap \o new /\ Become(p, Idle)
    BY <1>6 DEF OpenGaps, Done, new
  <2>5. gap' \in Seq(Gap) /\ Len(gap) <= Len(gap')
    BY <1>1, <2>3, <2>4
  <2> QED BY <1>2, <2>4, <2>5, IdleOK
<1>7. CASE CloseManual(p) \/ CloseSubstitute(p)
  <2>1. h[p].gap \in 1 .. Len(gap) /\ (h[p].pc = "closeSub" => h[p].mpn \in Mpn)
    BY <1>1, <1>7 DEF CloseManual, CloseSubstitute, Typed
  <2>2. gap[h[p].gap] \in Gap
    BY <1>1, <2>1
  <2>3. PICK st \in GapStatuses, m \in Subs : Close(h[p].gap, st, m)
    BY <1>7, <2>1, <2>2 DEF CloseManual, CloseSubstitute, GapStatuses, Gap, Subs
  <2>4. gap' \in Seq(Gap) /\ Len(gap') = Len(gap)
    BY <1>1, <2>1, <2>3, CloseTypes
  <2>5. Become(p, Idle)
    BY <1>7 DEF CloseManual, CloseSubstitute, Done
  <2> QED BY <1>2, <1>3, <2>4, <2>5, IdleOK
<1> QED BY <1>4, <1>5, <1>6, <1>7

\* The other steps of gaps and substitutes.
LEMMA SubTypesStep ==
  ASSUME Types, NEW p \in Handler,
         \/ AskSubstitute(p) \/ CancelOldSub(p) \/ AskNewSub(p)
         \/ \E g \in DOMAIN gap : Resolve(p, g) \/ \E m \in Mpn : Substitute(p, g, m)
         \/ \E l \in Line, m \in Subs : Patch(p, l, m)
  PROVE  Types'
<1> USE DEF Step, Ask, At, session, market
<1>1. /\ UNCHANGED <<marked, pool, gap, run>>
      /\ Typed(h[p], Len(gap), Len(run)) /\ gap \in Seq(Gap) /\ run \in Seq(Run) /\ TypeOK
  BY DEF AskSubstitute, CancelOldSub, AskNewSub, Resolve, Substitute, Patch, Types, TypeOK
<1>2. ASSUME sub' \in [Line -> Subs], task' \in [Key -> TaskStates],
             manual' \in [Mpn -> SUBSET Line],
             NEW rec, Become(p, rec), Typed(rec, Len(gap), Len(run))
      PROVE  Types'
  <2>1. TypeOK'
    BY <1>1, <1>2 DEF TypeOK
  <2> QED BY <1>1, <1>2, <2>1, MoveKeeps
<1>3. /\ sub \in [Line -> Subs] /\ task \in [Key -> TaskStates] /\ manual \in [Mpn -> SUBSET Line]
  BY <1>1 DEF TypeOK
<1>4. \A keys : Asked(keys) \in [Key -> TaskStates]
  BY <1>3 DEF Asked, TaskStates
<1>5. CASE AskSubstitute(p)
  <2> DEFINE rec == [h[p] EXCEPT !.pc = "closeSub"]
  <2>1. Typed(rec, Len(gap), Len(run))
    BY <1>1, <1>5 DEF AskSubstitute, Typed, RecordOK
  <2> HIDE DEF rec
  <2>2. Become(p, rec) /\ task' \in [Key -> TaskStates] /\ UNCHANGED <<sub, manual>>
    BY <1>4, <1>5 DEF AskSubstitute, Goto, Become, rec
  <2> QED BY <1>2, <1>3, <2>1, <2>2
<1>6. CASE CancelOldSub(p)
  <2>1. PICK keys : Become(p, [h[p] EXCEPT !.pc = "askNew", !.keys = keys])
    BY <1>6 DEF CancelOldSub
  <2> DEFINE rec == [h[p] EXCEPT !.pc = "askNew", !.keys = keys]
  <2>2. Typed(rec, Len(gap), Len(run))
    BY <1>1 DEF Typed, RecordOK
  <2> HIDE DEF rec
  <2>3. Become(p, rec) /\ task' \in [Key -> TaskStates] /\ UNCHANGED <<sub, manual>>
    BY <1>3, <1>6, <2>1 DEF CancelOldSub, TaskStates, rec
  <2> QED BY <1>2, <1>3, <2>2, <2>3
<1>7. CASE AskNewSub(p)
  <2>1. Become(p, Idle) /\ task' \in [Key -> TaskStates] /\ UNCHANGED <<sub, manual>>
    BY <1>4, <1>7 DEF AskNewSub, Done
  <2> QED BY <1>2, <1>3, <2>1, IdleOK
<1>8. ASSUME NEW g \in DOMAIN gap, Resolve(p, g)
      PROVE  Types'
  <2>1. g \in 1 .. Len(gap) /\ gap[g] \in Gap
    BY <1>1, <1>8
  <2> DEFINE rec == [Idle EXCEPT !.pc = "close", !.gap = g]
  <2>2. Typed(rec, Len(gap), Len(run))
    <3>1. Typed(Idle, Len(gap), Len(run)) /\ Len(gap) \in Nat
      BY <1>1, IdleOK
    <3>0. g \in Nat
      BY <2>1
    <3>2. rec.pc = "close" /\ rec.gap = g /\ RecordOK(rec)
      BY <3>0 DEF RecordOK, Idle, Subs
    <3> HIDE DEF rec
    <3> QED BY <2>1, <3>2 DEF Typed
  <2> HIDE DEF rec
  <2>3. manual' \in [Mpn -> SUBSET Line]
    BY <1>3, <1>8, <2>1 DEF Resolve, Gap
  <2>4. Become(p, rec) /\ UNCHANGED <<sub, task>>
    BY <1>8 DEF Resolve, rec
  <2> QED BY <1>2, <1>3, <2>2, <2>3, <2>4
<1>9. ASSUME NEW g \in DOMAIN gap, NEW m \in Mpn, Substitute(p, g, m)
      PROVE  Types'
  <2>1. g \in 1 .. Len(gap)
    BY <1>1, <1>9
  <2> DEFINE rec == [Idle EXCEPT !.pc = "askSub", !.gap = g, !.mpn = m]
  <2>2. Typed(rec, Len(gap), Len(run))
    <3>1. Typed(Idle, Len(gap), Len(run)) /\ Len(gap) \in Nat
      BY <1>1, IdleOK
    <3>0. g \in Nat
      BY <2>1
    <3>2. rec.pc = "askSub" /\ rec.gap = g /\ rec.mpn = m /\ RecordOK(rec)
      BY <3>0 DEF RecordOK, Idle, Subs
    <3> HIDE DEF rec
    <3> QED BY <2>1, <3>2 DEF Typed
  <2> HIDE DEF rec
  <2>3. Become(p, rec) /\ UNCHANGED <<sub, task, manual>>
    BY <1>9 DEF Substitute, rec
  <2> QED BY <1>2, <1>3, <2>2, <2>3
<1>10. ASSUME NEW l \in Line, NEW m \in Subs, Patch(p, l, m)
       PROVE  Types'
  <2> DEFINE rec == [Idle EXCEPT !.pc = "cancelSub", !.line = {l}, !.mpn = sub[l]]
  <2>1. Typed(rec, Len(gap), Len(run))
    <3>1. Typed(Idle, Len(gap), Len(run)) /\ sub[l] \in Subs
      BY <1>3, IdleOK
    <3> QED BY <3>1 DEF Typed, RecordOK
  <2> HIDE DEF rec
  <2>2. Become(p, rec) /\ sub' \in [Line -> Subs] /\ UNCHANGED <<task, manual>>
    BY <1>3, <1>10 DEF Patch, rec
  <2> QED BY <1>2, <1>3, <2>1, <2>2
<1> QED BY <1>5, <1>6, <1>7, <1>8, <1>9, <1>10

\* The steps of a save, and a handler that ends.
LEMMA SaveTypesStep ==
  ASSUME Types, NEW p \in Handler, Save(p) \/ SaveStep(p) \/ Abort(p)
  PROVE  Types'
<1> USE DEF Step, Ask, At, session, market
<1>1. /\ UNCHANGED <<sub, marked, task, pool, manual, gap>>
      /\ Typed(h[p], Len(gap), Len(run)) /\ gap \in Seq(Gap) /\ run \in Seq(Run) /\ TypeOK
  BY DEF Save, SaveStep, ReadTasks, Judge, CheckTasks, Match, ReadGaps, CreateRun, Supersede,
         Abort, Types, TypeOK
<1>2. ASSUME run' \in Seq(Run), Len(run) <= Len(run'), NEW rec, Become(p, rec),
             Typed(rec, Len(gap), Len(run'))
      PROVE  Types'
  <2>1. TypeOK'
    BY <1>1, <1>2 DEF TypeOK
  <2> QED BY <1>1, <1>2, <2>1, MoveKeeps
<1>3. ASSUME run' = run, NEW rec, RecordOK(rec), Become(p, rec),
             rec.pc \in {"tasks", "judge", "ready", "match", "sources", "create", "idle"},
             rec.pc = "create" => rec.source \in [Line -> Sources]
      PROVE  Types'
  BY <1>1, <1>2, <1>3 DEF Typed
<1>4. RecordOK(h[p]) /\ RecordOK(Idle) /\ Idle.pc = "idle"
  BY <1>1, IdleOK DEF Typed
<1>5. CASE Abort(p)
  BY <1>3, <1>4, <1>5 DEF Abort, Done
<1>6. CASE Save(p)
  <2> DEFINE rec == [Idle EXCEPT !.pc = "tasks", !.subs = sub, !.marked = marked]
  <2>1. RecordOK(rec) /\ rec.pc = "tasks"
    BY <1>4 DEF RecordOK
  <2> HIDE DEF rec
  <2>2. Become(p, rec) /\ run' = run
    BY <1>6 DEF Save, rec
  <2> QED BY <1>3, <2>1, <2>2
<1>7. CASE ReadTasks(p)
  <2> DEFINE rec == [h[p] EXCEPT !.pc = "judge", !.tasks = task]
  <2>1. RecordOK(rec) /\ rec.pc = "judge"
    BY <1>4 DEF RecordOK
  <2> HIDE DEF rec
  <2>2. Become(p, rec) /\ run' = run
    BY <1>7 DEF ReadTasks, rec
  <2> QED BY <1>3, <2>1, <2>2
<1>8. CASE Judge(p)
  <2>1. run' = run /\ (Done(p) \/ \E e \in SUBSET Line :
            Become(p, [h[p] EXCEPT !.pc = "ready", !.tasks = <<>>, !.excuse = e]))
    <3> DEFINE e == {l \in Line : \/ Collecting(l, p)
                                  \/ Foreign(WithSub(l, h[p].subs))}
    <3>1. e \in SUBSET Line
      OBVIOUS
    <3>2. Done(p) \/ Become(p, [h[p] EXCEPT !.pc = "ready", !.tasks = <<>>, !.excuse = e])
      BY <1>8 DEF Judge
    <3> HIDE DEF e
    <3> QED BY <1>8, <3>1, <3>2 DEF Judge
  <2>2. ASSUME NEW e \in SUBSET Line,
               Become(p, [h[p] EXCEPT !.pc = "ready", !.tasks = <<>>, !.excuse = e])
        PROVE  Types'
    <3> DEFINE rec == [h[p] EXCEPT !.pc = "ready", !.tasks = <<>>, !.excuse = e]
    <3>1. RecordOK(rec) /\ rec.pc = "ready"
      BY <1>4 DEF RecordOK
    <3> HIDE DEF rec
    <3>2. Become(p, rec)
      BY <2>2 DEF rec
    <3> QED BY <1>3, <2>1, <3>1, <3>2
  <2> QED BY <1>3, <1>4, <2>1, <2>2 DEF Done
<1>9. CASE CheckTasks(p)
  <2> DEFINE rec == [h[p] EXCEPT !.pc = "match"]
  <2>1. RecordOK(rec) /\ rec.pc = "match"
    BY <1>4 DEF RecordOK
  <2> HIDE DEF rec
  <2>2. run' = run /\ (Become(p, rec) \/ Done(p))
    BY <1>9 DEF CheckTasks, Goto, Become, rec
  <2> QED BY <1>3, <1>4, <2>1, <2>2 DEF Done
<1>10. CASE Match(p)
  <2>1. PICK m : run' = run /\ (Done(p) \/
            Become(p, [Idle EXCEPT !.pc = "sources", !.excuse = h[p].excuse, !.matched = m]))
    BY <1>10 DEF Match
  <2> DEFINE rec == [Idle EXCEPT !.pc = "sources", !.excuse = h[p].excuse, !.matched = m]
  <2>2. RecordOK(rec) /\ rec.pc = "sources"
    BY <1>4 DEF RecordOK
  <2> HIDE DEF rec
  <2>3. Done(p) \/ Become(p, rec)
    BY <2>1 DEF rec
  <2> QED BY <1>3, <1>4, <2>1, <2>2, <2>3 DEF Done
<1>11. CASE ReadGaps(p)
  <2> DEFINE src == [l \in Line |-> SourceOf(IF l \in h[p].matched THEN {l} ELSE {}, GapSubstitute(l))]
             rec == [Idle EXCEPT !.pc = "create", !.excuse = h[p].excuse, !.source = src]
  <2>1. src \in [Line -> Sources]
    BY DEF SourceOf, Sources
  <2> HIDE DEF src
  <2>2. RecordOK(rec) /\ rec.pc = "create" /\ rec.source = src
    BY <1>4 DEF RecordOK
  <2> HIDE DEF rec
  <2>3. Become(p, rec) /\ run' = run
    BY <1>11 DEF ReadGaps, rec, src
  <2> QED BY <1>3, <2>1, <2>2, <2>3
<1>12. CASE CreateRun(p)
  <2> DEFINE row == [status |-> "saved", source |-> h[p].source, done |-> FALSE,
                     overlap |-> \E r \in DOMAIN run : ~run[r].done, excuse  |-> h[p].excuse]
             rec == [Idle EXCEPT !.pc = "supersede", !.run = Len(run) + 1]
  <2>1. h[p].source \in [Line -> Sources] /\ h[p].excuse \in SUBSET Line
    BY <1>1, <1>12 DEF CreateRun, Typed, RecordOK
  <2>2. row \in Run
    BY <2>1 DEF Run
  <2> HIDE DEF row
  <2>3. run' = Append(run, row) /\ Become(p, rec)
    BY <1>12 DEF CreateRun, row
  <2>4. run' \in Seq(Run) /\ Len(run') = Len(run) + 1 /\ Len(run) \in Nat
    BY <1>1, <2>2, <2>3
  <2>5. Typed(rec, Len(gap), Len(run'))
    <3>0. Len(run) + 1 \in Nat
      BY <2>4
    <3>1. rec.pc = "supersede" /\ rec.run = Len(run) + 1 /\ RecordOK(rec)
      BY <3>0 DEF RecordOK, Idle, Subs
    <3> HIDE DEF rec
    <3> QED BY <2>4, <3>1 DEF Typed
  <2> HIDE DEF rec
  <2> QED BY <1>2, <2>3, <2>4, <2>5
<1>13. CASE Supersede(p)
  <2>1. /\ run' = [r \in DOMAIN run |->
                  [run[r] EXCEPT !.status = IF Superseded(r, h[p].run) THEN "superseded" ELSE @,
                                 !.done   = @ \/ r = h[p].run]]
        /\ Become(p, Idle)
    BY <1>13 DEF Supersede, Done
  <2>2. ASSUME NEW r \in DOMAIN run
        PROVE  run'[r] \in Run
    <3>1. run[r] \in Run
      BY <1>1, <2>2
    <3>2. PICK st \in {"saved", "superseded"}, d \in BOOLEAN :
             run'[r] = [run[r] EXCEPT !.status = st, !.done = d]
      BY <2>1, <2>2, <3>1 DEF Run
    <3> QED BY <3>1, <3>2 DEF Run
  <2>3. DOMAIN run = 1 .. Len(run) /\ Len(run) \in Nat
    BY <1>1
  <2>4. run' \in [1 .. Len(run) -> Run]
    BY <2>1, <2>2, <2>3
  <2>5. run' \in Seq(Run) /\ Len(run') = Len(run)
    BY <2>3, <2>4
  <2>6. Typed(Idle, Len(gap), Len(run')) /\ Len(run) <= Len(run')
    BY <2>3, <2>5, IdleOK
  <2>7. Become(p, Idle)
    BY <2>1
  <2> HIDE DEF Idle
  <2> QED BY <1>2, <2>5, <2>6, <2>7
<1> QED BY <1>5, <1>6, <1>7, <1>8, <1>9, <1>10, <1>11, <1>12, <1>13 DEF SaveStep

LEMMA TypesNext == Types /\ [Next]_vars => Types'
<1> SUFFICES ASSUME Types, [Next]_vars
             PROVE  Types'
  OBVIOUS
<1>1. CASE Marked
  BY <1>1 DEF Marked, Types, TypeOK, market
<1>2. CASE UNCHANGED vars
  BY <1>2 DEF vars, Types, TypeOK
<1>3. ASSUME NEW k \in Key, Crawled(k) \/ CrawledForOthers(k)
      PROVE  Types'
  BY <1>3, StoreTypes
<1>4. ASSUME NEW p \in Handler, NewRequest(p) \/ GapStep(p) \/ SaveStep(p) \/ Abort(p)
      PROVE  Types'
  BY <1>4, GapTypesStep, SubTypesStep, SaveTypesStep DEF NewRequest, GapStep
<1> QED BY <1>1, <1>2, <1>3, <1>4 DEF Next

LEMMA Invariance == Spec => []Types
BY TypesInit, TypesNext, PTL DEF Spec

-----------------------------------------------------------------------------
(* Gaps *)

\* What a step does to the gaps: those that were there keep their line; one that is
\* not as before was open, and a handler that was about to close it has done so; and
\* new ones are open.
GapsMove ==
    /\ DOMAIN gap \subseteq DOMAIN gap'
    /\ \A g \in DOMAIN gap :
          \/ gap'[g] = gap[g]
          \/ /\ gap[g].status = "open" /\ gap'[g].line = gap[g].line
             /\ \E p \in Handler :
                   /\ h[p].gap = g
                   /\ \/ h[p].pc = "close" /\ gap'[g].status = "manual_quote_added"
                      \/ /\ h[p].pc = "closeSub" /\ gap'[g].status = "substitute_selected"
                         /\ gap'[g].sub = h[p].mpn
    /\ \A g \in DOMAIN gap' \ DOMAIN gap : gap'[g].status = "open"

LEMMA GapsMoveNext == Types /\ [Next]_vars => GapsMove
<1> SUFFICES ASSUME Types, [Next]_vars
             PROVE  GapsMove
  OBVIOUS
<1> USE DEF Step, Ask, At, session, market
<1>1. gap \in Seq(Gap)
  BY DEF Types, TypeOK
<1>2. CASE gap' = gap
  BY <1>2 DEF GapsMove
<1>3. ASSUME NEW p \in Handler, OpenGaps(p)
      PROVE  GapsMove
  <2> DEFINE new == SetToSeq({[line |-> k[1], type |-> k[2], status |-> "open", sub |-> None] :
                                k \in h[p].keys \ OpenKeys})
             Open == {g \in Gap : g.status = "open"}
  <2>1. h[p].keys \subseteq Line \X GapTypes
    BY <1>3 DEF OpenGaps, Types, Typed
  <2>2. new \in Seq(Open)
    BY <2>1, OpenedGaps
  <2>3. gap' = gap \o new
    BY <1>3 DEF OpenGaps
  <2>4. \A e \in Open : e.status = "open"
    OBVIOUS
  <2> HIDE DEF new, Open
  <2>5. /\ DOMAIN gap = 1 .. Len(gap) /\ DOMAIN gap' = 1 .. (Len(gap) + Len(new))
        /\ Len(gap) \in Nat /\ Len(new) \in Nat
        /\ \A g \in 1 .. Len(gap) : gap'[g] = gap[g]
        /\ \A g \in (Len(gap) + 1) .. (Len(gap) + Len(new)) : gap'[g] = new[g - Len(gap)]
    BY <1>1, <2>2, <2>3
  <2>6. ASSUME NEW g \in DOMAIN gap' \ DOMAIN gap
        PROVE  gap'[g].status = "open"
    <3>1. g - Len(gap) \in 1 .. Len(new) /\ gap'[g] = new[g - Len(gap)]
      BY <2>5
    <3> QED BY <2>2, <2>4, <3>1
  <2> QED BY <2>5, <2>6 DEF GapsMove
<1>4. ASSUME NEW p \in Handler, CloseManual(p) \/ CloseSubstitute(p)
      PROVE  GapsMove
  <2> DEFINE g == h[p].gap
  <2>1. g \in DOMAIN gap /\ DOMAIN gap = 1 .. Len(gap)
    BY <1>1, <1>4 DEF CloseManual, CloseSubstitute, Types, Typed
  <2>2. gap[g] \in Gap
    BY <1>1, <2>1
  <2>3. ASSUME NEW st, NEW m, gap' = [gap EXCEPT ![g].status = st, ![g].sub = m]
        PROVE  /\ DOMAIN gap' = DOMAIN gap /\ \A i \in DOMAIN gap \ {g} : gap'[i] = gap[i]
               /\ gap'[g].line = gap[g].line /\ gap'[g].status = st /\ gap'[g].sub = m
    <3>1. gap' = [gap EXCEPT ![g] = [gap[g] EXCEPT !.status = st, !.sub = m]]
      BY <2>3
    <3> QED BY <2>1, <2>2, <3>1 DEF Gap
  <2>4. CASE gap[g].status = "open" /\ gap' # gap
    <3>1. CASE CloseManual(p)
      <4>1. gap' = [gap EXCEPT ![g].status = "manual_quote_added", ![g].sub = gap[g].sub]
        BY <2>4, <3>1 DEF CloseManual, Close
      <4>2. h[p].pc = "close"
        BY <3>1 DEF CloseManual
      <4> QED BY <2>1, <2>3, <2>4, <4>1, <4>2 DEF GapsMove
    <3>2. CASE CloseSubstitute(p)
      <4>1. gap' = [gap EXCEPT ![g].status = "substitute_selected", ![g].sub = h[p].mpn]
        BY <2>4, <3>2 DEF CloseSubstitute, Close
      <4>2. h[p].pc = "closeSub"
        BY <3>2 DEF CloseSubstitute
      <4>3. /\ DOMAIN gap' = DOMAIN gap /\ \A i \in DOMAIN gap \ {g} : gap'[i] = gap[i]
            /\ gap'[g].line = gap[g].line /\ gap'[g].status = "substitute_selected"
            /\ gap'[g].sub = h[p].mpn
        BY <2>3, <4>1
      <4> QED BY <2>1, <2>4, <4>2, <4>3 DEF GapsMove
    <3> QED BY <1>4, <3>1, <3>2
  <2>5. gap' # gap => gap[g].status = "open"
    BY <1>4 DEF CloseManual, CloseSubstitute, Close
  <2> QED BY <1>2, <2>4, <2>5
<1>5. ASSUME NEW p \in Handler, NewRequest(p) \/ GapStep(p) \/ SaveStep(p) \/ Abort(p)
      PROVE  GapsMove
  <2>1. gap' = gap \/ OpenGaps(p) \/ CloseManual(p) \/ CloseSubstitute(p)
    BY <1>5 DEF NewRequest, ListGaps, Save, Resolve, Substitute, Patch, GapStep, FindGaps,
       AskSubstitute, CancelOldSub, AskNewSub, SaveStep, ReadTasks, Judge, CheckTasks, Match,
       ReadGaps, CreateRun, Supersede, Abort
  <2> QED BY <1>2, <1>3, <1>4, <2>1
<1>6. CASE Marked \/ UNCHANGED vars \/ \E k \in Key : Crawled(k) \/ CrawledForOthers(k)
  BY <1>2, <1>6 DEF Marked, vars, Crawled, CrawledForOthers
<1> QED BY <1>5, <1>6 DEF Next

LEMMA FinalNext == Types /\ [Next]_vars => [\A g \in DOMAIN gap : gap[g].status # "open" => gap'[g] = gap[g]]_vars
BY GapsMoveNext DEF GapsMove

\* A gap that is closed stays as it is: neither another request that closes it nor the
\* next listing changes it.
THEOREM Closed == Spec => ClosedIsFinal
BY Invariance, FinalNext, PTL DEF Spec, ClosedIsFinal

\* What backs a closed gap is not taken away.
LEMMA GrownNext == Types /\ [Next]_vars => Grown
<1> SUFFICES ASSUME Types, [Next]_vars
             PROVE  Grown
  OBVIOUS
<1> USE DEF Step, Ask, At, session, market
<1>1. /\ task \in [Key -> TaskStates] /\ manual \in [Mpn -> SUBSET Line]
  BY DEF Types, TypeOK
<1>2. CASE UNCHANGED <<task, manual>>
  BY <1>2 DEF Grown
<1>3. ASSUME NEW keys, task' = Asked(keys), manual' = manual
      PROVE  Grown
  BY <1>3, DecisionsAssumption DEF Grown, Asked
<1>4. ASSUME NEW p \in Handler, CancelOldSub(p)
      PROVE  Grown
  BY <1>1, <1>4, DecisionsAssumption DEF CancelOldSub, Grown
<1>5. ASSUME NEW p \in Handler, NEW g \in DOMAIN gap, Resolve(p, g)
      PROVE  Grown
  BY <1>1, <1>5 DEF Resolve, Grown
<1>6. ASSUME NEW k \in Key, Crawled(k) \/ CrawledForOthers(k)
      PROVE  Grown
  BY <1>1, <1>6, DecisionsAssumption DEF Crawled, CrawledForOthers, Grown
<1>7. CASE Marked \/ UNCHANGED vars
  BY <1>2, <1>7 DEF Marked, vars
<1>8. ASSUME NEW p \in Handler, NewRequest(p) \/ GapStep(p) \/ SaveStep(p) \/ Abort(p)
      PROVE  Grown
  <2>1. CASE NewRequest(p)
    BY <1>2, <1>5, <2>1 DEF NewRequest, ListGaps, Save, Substitute, Patch
  <2>2. CASE GapStep(p)
    BY <1>2, <1>3, <1>4, <2>2 DEF GapStep, FindGaps, OpenGaps, CloseManual, AskSubstitute,
       CloseSubstitute, AskNewSub
  <2>3. CASE SaveStep(p) \/ Abort(p)
    BY <1>2, <2>3 DEF SaveStep, ReadTasks, Judge, CheckTasks, Match, ReadGaps, CreateRun,
       Supersede, Abort
  <2> QED BY <1>8, <2>1, <2>2, <2>3
<1> QED BY <1>6, <1>7, <1>8 DEF Next

\* A handler comes to close a gap with what backs it written.
LEMMA BacksNext ==
  ASSUME Types, Types', \A p \in Handler : Backs(h[p], gap, manual, task), [Next]_vars
  PROVE  \A p \in Handler : Backs(h'[p], gap', manual', task')
<1> USE DEF Step, Ask, At, session, market
<1>1. Grown /\ GapsMove
  BY GrownNext, GapsMoveNext
<1>2. ASSUME NEW p \in Handler, h'[p] = h[p] \/ \E e : h'[p] = [h[p] EXCEPT !.excuse = e]
      PROVE  Backs(h'[p], gap', manual', task')
  <2>1. RecordOK(h[p]) /\ Typed(h[p], Len(gap), Len(run)) /\ gap \in Seq(Gap)
    BY DEF Types, TypeOK, Typed
  <2>2. h'[p].pc = h[p].pc /\ h'[p].gap = h[p].gap /\ h'[p].mpn = h[p].mpn
    BY <1>2, <2>1 DEF RecordOK
  <2>3. Backs(h[p], gap, manual, task)
    OBVIOUS
  <2>4. CASE h[p].pc = "close"
    <3>1. h[p].gap \in DOMAIN gap
      BY <2>1, <2>4 DEF Typed
    <3>2. gap'[h[p].gap].line = gap[h[p].gap].line /\ gap[h[p].gap] \in Gap
      BY <1>1, <2>1, <3>1 DEF GapsMove
    <3>3. Bom[gap[h[p].gap].line].mpn \in Mpn
      BY <3>2, DecisionsAssumption DEF Gap
    <3> QED BY <1>1, <2>2, <2>3, <2>4, <3>2, <3>3 DEF Backs, Grown
  <2>5. CASE h[p].pc = "closeSub"
    <3>1. \A q \in Platform : <<h[p].mpn, q>> \in Key
      BY <2>1, <2>5 DEF Typed, Key
    <3>2. \A q \in Platform : task[<<h[p].mpn, q>>] # None
      BY <2>3, <2>5 DEF Backs
    <3>3. \A q \in Platform : task'[<<h[p].mpn, q>>] # None
      BY <1>1, <3>1, <3>2 DEF Grown
    <3> QED BY <2>2, <2>5, <3>3 DEF Backs
  <2> QED BY <2>2, <2>4, <2>5 DEF Backs
<1>3. ASSUME NEW p \in Handler, h'[p].pc \notin {"close", "closeSub"}
      PROVE  Backs(h'[p], gap', manual', task')
  BY <1>3 DEF Backs
<1>4. ASSUME NEW q \in Handler, NEW g \in DOMAIN gap, Resolve(q, g), NEW p \in Handler
      PROVE  Backs(h'[p], gap', manual', task')
  <2> DEFINE rec == [Idle EXCEPT !.pc = "close", !.gap = g]
  <2>1. Become(q, rec) /\ h = [r \in Handler |-> h[r]] /\ gap' = gap
    BY <1>4 DEF Resolve, Types
  <2>2. rec.pc = "close" /\ rec.gap = g
    BY DEF Idle
  <2> HIDE DEF rec
  <2>3. h'[q] = rec /\ \A r \in Handler : r # q => h'[r] = h[r]
    BY <2>1, BecomeKeeps
  <2>4. gap[g] \in Gap /\ manual \in [Mpn -> SUBSET Line]
    BY DEF Types, TypeOK
  <2>5. Bom[gap[g].line].mpn \in Mpn
    BY <2>4, DecisionsAssumption DEF Gap
  <2>6. manual'[Bom[gap[g].line].mpn] # {}
    BY <1>4, <2>4, <2>5 DEF Resolve
  <2> QED BY <1>2, <2>1, <2>2, <2>3, <2>6 DEF Backs
<1>5. ASSUME NEW q \in Handler, AskSubstitute(q), NEW p \in Handler
      PROVE  Backs(h'[p], gap', manual', task')
  <2> DEFINE rec == [h[q] EXCEPT !.pc = "closeSub"]
  <2>1. Become(q, rec) /\ h = [r \in Handler |-> h[r]]
    BY <1>5 DEF AskSubstitute, Goto, Become, Types
  <2>2. RecordOK(h[q]) /\ h[q].mpn \in Mpn
    BY <1>5 DEF AskSubstitute, Types, Typed
  <2>3. rec.pc = "closeSub" /\ rec.mpn = h[q].mpn
    BY <2>2 DEF RecordOK
  <2> HIDE DEF rec
  <2>4. h'[q] = rec /\ \A r \in Handler : r # q => h'[r] = h[r]
    BY <2>1, BecomeKeeps
  <2>5. ASSUME NEW r \in Platform
        PROVE  task'[<<h[q].mpn, r>>] # None
    <3>1. <<h[q].mpn, r>> \in Key /\ <<h[q].mpn, r>> \in {h[q].mpn} \X Platform
      BY <2>2 DEF Key
    <3>2. task' = Asked({h[q].mpn} \X Platform)
      BY <1>5 DEF AskSubstitute
    <3>3. task'[<<h[q].mpn, r>>] = "pending"
      BY <3>1, <3>2 DEF Asked
    <3>4. None # "pending"
      BY DecisionsAssumption
    <3> QED BY <3>3, <3>4
  <2> QED BY <1>2, <2>3, <2>4, <2>5 DEF Backs
<1>6. ASSUME NEW q \in Handler, NEW rec, Become(q, rec), rec.pc \notin {"close", "closeSub"},
             NEW p \in Handler
      PROVE  Backs(h'[p], gap', manual', task')
  <2>1. h = [r \in Handler |-> h[r]]
    BY DEF Types
  <2>2. h'[q] = rec /\ \A r \in Handler : r # q => h'[r] = h[r]
    BY <1>6, <2>1, BecomeKeeps
  <2> QED BY <1>2, <1>3, <1>6, <2>2
<1>7. Idle.pc \notin {"close", "closeSub"}
  BY DEF Idle
<1>8. ASSUME NEW q \in Handler, NewRequest(q) \/ GapStep(q) \/ SaveStep(q) \/ Abort(q),
             NEW p \in Handler
      PROVE  Backs(h'[p], gap', manual', task')
  <2>1. RecordOK(h[q])
    BY DEF Types, Typed
  <2>2. \A pc : [h[q] EXCEPT !.pc = pc].pc = pc
    BY <2>1 DEF RecordOK
  <2>3. CASE NewRequest(q)
    <3>1. CASE \E g \in DOMAIN gap : Resolve(q, g)
      BY <1>4, <3>1
    <3>2. CASE ~\E g \in DOMAIN gap : Resolve(q, g)
      <4>1. \/ \E a : Become(q, [Idle EXCEPT !.pc = "sync", !.asked = a])
            \/ \E b, c : Become(q, [Idle EXCEPT !.pc = "tasks", !.subs = b, !.marked = c])
            \/ \E g, m : Become(q, [Idle EXCEPT !.pc = "askSub", !.gap = g, !.mpn = m])
            \/ \E l, m : Become(q, [Idle EXCEPT !.pc = "cancelSub", !.line = l, !.mpn = m])
        BY <2>3, <3>2 DEF NewRequest, ListGaps, Save, Substitute, Patch
      <4>2. /\ \A a : [Idle EXCEPT !.pc = "sync", !.asked = a].pc = "sync"
            /\ \A b, c : [Idle EXCEPT !.pc = "tasks", !.subs = b, !.marked = c].pc = "tasks"
            /\ \A g, m : [Idle EXCEPT !.pc = "askSub", !.gap = g, !.mpn = m].pc = "askSub"
            /\ \A l, m : [Idle EXCEPT !.pc = "cancelSub", !.line = l, !.mpn = m].pc = "cancelSub"
        BY DEF Idle
      <4>3. ASSUME NEW rec, Become(q, rec), rec.pc \in {"sync", "tasks", "askSub", "cancelSub"}
            PROVE  Backs(h'[p], gap', manual', task')
        BY <1>6, <4>3
      <4>4. \E rec : Become(q, rec) /\ rec.pc \in {"sync", "tasks", "askSub", "cancelSub"}
        <5>1. ASSUME NEW a, Become(q, [Idle EXCEPT !.pc = "sync", !.asked = a])
              PROVE  \E rec : Become(q, rec) /\ rec.pc \in {"sync", "tasks", "askSub", "cancelSub"}
          <6> DEFINE rec == [Idle EXCEPT !.pc = "sync", !.asked = a]
          <6>1. Become(q, rec) /\ rec.pc = "sync"
            BY <4>2, <5>1
          <6> HIDE DEF rec
          <6> QED BY <6>1
        <5>2. ASSUME NEW b, NEW c, Become(q, [Idle EXCEPT !.pc = "tasks", !.subs = b, !.marked = c])
              PROVE  \E rec : Become(q, rec) /\ rec.pc \in {"sync", "tasks", "askSub", "cancelSub"}
          <6> DEFINE rec == [Idle EXCEPT !.pc = "tasks", !.subs = b, !.marked = c]
          <6>1. Become(q, rec) /\ rec.pc = "tasks"
            BY <4>2, <5>2
          <6> HIDE DEF rec
          <6> QED BY <6>1
        <5>3. ASSUME NEW g, NEW m, Become(q, [Idle EXCEPT !.pc = "askSub", !.gap = g, !.mpn = m])
              PROVE  \E rec : Become(q, rec) /\ rec.pc \in {"sync", "tasks", "askSub", "cancelSub"}
          <6> DEFINE rec == [Idle EXCEPT !.pc = "askSub", !.gap = g, !.mpn = m]
          <6>1. Become(q, rec) /\ rec.pc = "askSub"
            BY <4>2, <5>3
          <6> HIDE DEF rec
          <6> QED BY <6>1
        <5>4. ASSUME NEW l, NEW m, Become(q, [Idle EXCEPT !.pc = "cancelSub", !.line = l, !.mpn = m])
              PROVE  \E rec : Become(q, rec) /\ rec.pc \in {"sync", "tasks", "askSub", "cancelSub"}
          <6> DEFINE rec == [Idle EXCEPT !.pc = "cancelSub", !.line = l, !.mpn = m]
          <6>1. Become(q, rec) /\ rec.pc = "cancelSub"
            BY <4>2, <5>4
          <6> HIDE DEF rec
          <6> QED BY <6>1
        <5> QED BY <4>1, <5>1, <5>2, <5>3, <5>4
      <4> QED BY <4>3, <4>4
    <3> QED BY <3>1, <3>2
  <2>4. CASE GapStep(q)
    <3>1. CASE FindGaps(q)
      <4>1. \E ks : Become(q, [Idle EXCEPT !.pc = "open", !.keys = ks])
        BY <3>1 DEF FindGaps
      <4>2. \A ks : [Idle EXCEPT !.pc = "open", !.keys = ks].pc = "open"
        BY DEF Idle
      <4> QED BY <1>6, <4>1, <4>2
    <3>2. CASE OpenGaps(q) \/ CloseManual(q) \/ CloseSubstitute(q) \/ AskNewSub(q)
      BY <1>6, <1>7, <3>2 DEF OpenGaps, CloseManual, CloseSubstitute, AskNewSub, Done
    <3>3. CASE CancelOldSub(q)
      <4>1. PICK keys : Become(q, [h[q] EXCEPT !.pc = "askNew", !.keys = keys])
        BY <3>3 DEF CancelOldSub
      <4>2. [h[q] EXCEPT !.pc = "askNew", !.keys = keys].pc = "askNew"
        BY <2>1 DEF RecordOK
      <4> QED BY <1>6, <4>1, <4>2
    <3> QED BY <1>5, <2>4, <3>1, <3>2, <3>3 DEF GapStep
  <2>5. CASE SaveStep(q)
    <3>1. CASE ReadTasks(q)
      <4>1. Become(q, [h[q] EXCEPT !.pc = "judge", !.tasks = task])
        BY <3>1 DEF ReadTasks
      <4>2. [h[q] EXCEPT !.pc = "judge", !.tasks = task].pc = "judge"
        BY <2>1 DEF RecordOK
      <4> QED BY <1>6, <4>1, <4>2
    <3>2. CASE Judge(q)
      <4>1. Done(q) \/ \E e : Become(q, [h[q] EXCEPT !.pc = "ready", !.tasks = <<>>, !.excuse = e])
        BY <3>2 DEF Judge
      <4>2. \A e : [h[q] EXCEPT !.pc = "ready", !.tasks = <<>>, !.excuse = e].pc = "ready"
        BY <2>1 DEF RecordOK
      <4> QED BY <1>6, <1>7, <4>1, <4>2 DEF Done
    <3>3. CASE CheckTasks(q)
      <4>1. Done(q) \/ Become(q, [h[q] EXCEPT !.pc = "match"])
        BY <3>3 DEF CheckTasks, Goto, Become
      <4> QED BY <1>6, <1>7, <2>2, <4>1 DEF Done
    <3>4. CASE Match(q)
      <4>1. Done(q) \/ \E e, m : Become(q, [Idle EXCEPT !.pc = "sources", !.excuse = e, !.matched = m])
        BY <3>4 DEF Match
      <4>2. \A e, m : [Idle EXCEPT !.pc = "sources", !.excuse = e, !.matched = m].pc = "sources"
        BY DEF Idle
      <4> QED BY <1>6, <1>7, <4>1, <4>2 DEF Done
    <3>5. CASE ReadGaps(q)
      <4>1. \E e, s : Become(q, [Idle EXCEPT !.pc = "create", !.excuse = e, !.source = s])
        BY <3>5 DEF ReadGaps
      <4>2. \A e, s : [Idle EXCEPT !.pc = "create", !.excuse = e, !.source = s].pc = "create"
        BY DEF Idle
      <4> QED BY <1>6, <4>1, <4>2
    <3>6. CASE CreateRun(q)
      <4>1. \E n : Become(q, [Idle EXCEPT !.pc = "supersede", !.run = n])
        BY <3>6 DEF CreateRun
      <4>2. \A n : [Idle EXCEPT !.pc = "supersede", !.run = n].pc = "supersede"
        BY DEF Idle
      <4> QED BY <1>6, <4>1, <4>2
    <3>7. CASE Supersede(q)
      BY <1>6, <1>7, <3>7 DEF Supersede, Done
    <3> QED BY <2>5, <3>1, <3>2, <3>3, <3>4, <3>5, <3>6, <3>7 DEF SaveStep
  <2>6. CASE Abort(q)
    BY <1>6, <1>7, <2>6 DEF Abort, Done
  <2> QED BY <1>8, <2>3, <2>4, <2>5, <2>6
<1>9. ASSUME NEW k \in Key, Crawled(k) \/ CrawledForOthers(k), NEW p \in Handler
      PROVE  Backs(h'[p], gap', manual', task')
  <2>1. h' = h \/ h' = [q \in Handler |-> [h[q] EXCEPT !.excuse =
                                     IF At(q, "ready") \/ At(q, "match") THEN Line ELSE @]]
    BY <1>9 DEF Crawled, CrawledForOthers, Put
  <2>2. h'[p] = h[p] \/ \E e : h'[p] = [h[p] EXCEPT !.excuse = e]
    BY <2>1
  <2> QED BY <1>2, <2>2
<1>10. ASSUME Marked \/ UNCHANGED vars, NEW p \in Handler
       PROVE  Backs(h'[p], gap', manual', task')
  BY <1>2, <1>10 DEF Marked, vars
<1> QED BY <1>8, <1>9, <1>10 DEF Next

LEMMA BackedNext == Types /\ Types' /\ GapInv /\ [Next]_vars => GapInv'
<1> SUFFICES ASSUME Types, Types', GapInv, [Next]_vars
             PROVE  GapInv'
  OBVIOUS
<1>1. GapsMove /\ Grown
  BY GapsMoveNext, GrownNext
<1>2. \A p \in Handler : Backs(h'[p], gap', manual', task')
  BY BacksNext DEF GapInv
<1>3. ASSUME NEW g \in DOMAIN gap'
      PROVE  /\ gap'[g].status = "manual_quote_added" => manual'[Bom[gap'[g].line].mpn] # {}
             /\ gap'[g].status = "substitute_selected" =>
                   gap'[g].sub \in Mpn /\ \A p \in Platform : task'[<<gap'[g].sub, p>>] # None
  <2>1. CASE g \notin DOMAIN gap
    BY <1>1, <1>3, <2>1 DEF GapsMove
  <2>2. CASE g \in DOMAIN gap
    <3>1. gap[g] \in Gap
      BY <2>2 DEF Types, TypeOK
    <3>2. Bom[gap[g].line].mpn \in Mpn
      BY <3>1, DecisionsAssumption DEF Gap
    <3>3. CASE gap'[g] = gap[g]
      <4>1. gap[g].status = "manual_quote_added" => manual'[Bom[gap[g].line].mpn] # {}
        BY <1>1, <2>2, <3>2 DEF GapInv, ClosedIsBacked, Grown
      <4>2. ASSUME gap[g].status = "substitute_selected", NEW p \in Platform
            PROVE  task'[<<gap[g].sub, p>>] # None
        <5>1. task[<<gap[g].sub, p>>] # None
          BY <2>2, <4>2 DEF GapInv, ClosedIsBacked
        <5>2. gap[g].sub \in Mpn
          BY <2>2, <4>2 DEF GapInv
        <5> QED BY <1>1, <5>1, <5>2 DEF Grown, Key
      <4>3. gap[g].status = "substitute_selected" => gap[g].sub \in Mpn
        BY <2>2 DEF GapInv
      <4> QED BY <3>3, <4>1, <4>2, <4>3
    <3>4. ASSUME NEW p \in Handler, h[p].gap = g, h[p].pc = "close", gap'[g].line = gap[g].line,
                 gap'[g].status = "manual_quote_added"
          PROVE  manual'[Bom[gap'[g].line].mpn] # {}
      BY <1>1, <3>2, <3>4 DEF GapInv, Backs, Grown
    <3>5. ASSUME NEW p \in Handler, h[p].pc = "closeSub", gap'[g].sub = h[p].mpn,
                 NEW q \in Platform
          PROVE  task'[<<gap'[g].sub, q>>] # None
      <4>1. task[<<h[p].mpn, q>>] # None /\ h[p].mpn \in Mpn
        BY <3>5 DEF GapInv, Backs, Types, Typed
      <4> QED BY <1>1, <3>5, <4>1 DEF Grown, Key
    <3>6. ASSUME NEW p \in Handler, h[p].pc = "closeSub", gap'[g].sub = h[p].mpn
          PROVE  gap'[g].sub \in Mpn
      BY <3>6 DEF Types, Typed
    <3> QED BY <1>1, <2>2, <3>3, <3>4, <3>5, <3>6 DEF GapsMove
  <2> QED BY <2>1, <2>2
<1> QED BY <1>2, <1>3 DEF GapInv, ClosedIsBacked

\* A gap is closed only after the manual quote is there, or a search task of the
\* substitute on each platform, and neither goes away again.
THEOREM Backed == Spec => []ClosedIsBacked
<1>1. Init => GapInv
  <2> SUFFICES ASSUME Init PROVE GapInv
    OBVIOUS
  <2>1. gap = <<>> /\ \A p \in Handler : h[p] = Idle
    BY DEF Init
  <2> QED BY <2>1 DEF GapInv, ClosedIsBacked, Backs, Idle
<1>2. GapInv => ClosedIsBacked
  BY DEF GapInv
<1> QED BY <1>1, <1>2, Invariance, BackedNext, PTL DEF Spec

-----------------------------------------------------------------------------
(* Runs *)

\* A new run is nobody else's; when all others are finished nobody has one.
LEMMA CreateKeeps ==
  ASSUME Types, Types', RunInv, NEW p \in Handler, CreateRun(p)
  PROVE  RunInv'
<1> DEFINE n == Len(run)
           row == [status |-> "saved", source |-> h[p].source, done |-> FALSE,
                   overlap |-> \E r \in DOMAIN run : ~run[r].done, excuse  |-> h[p].excuse]
           rec == [Idle EXCEPT !.pc = "supersede", !.run = n + 1]
<1>1. run \in Seq(Run) /\ run' \in Seq(Run) /\ h = [q \in Handler |-> h[q]]
  BY DEF Types, TypeOK
<1>2. run' = Append(run, row) /\ Become(p, rec)
  BY DEF CreateRun
<1>3. rec.pc = "supersede" /\ rec.run = n + 1
  BY DEF Idle
<1>4. /\ row.status = "saved" /\ row.done = FALSE
      /\ row.overlap = \E r \in DOMAIN run : ~run[r].done
  OBVIOUS
<1>5. row \in Run
  <2>1. h[p].source \in [Line -> Sources] /\ h[p].excuse \in SUBSET Line
    BY DEF CreateRun, Step, At, Types, Typed, RecordOK
  <2> QED BY <2>1 DEF Run
<1> HIDE DEF rec, row
<1>6. /\ n \in Nat /\ DOMAIN run = 1 .. n /\ Len(run') = n + 1 /\ DOMAIN run' = 1 .. (n + 1)
      /\ run'[n + 1] = row /\ \A r \in 1 .. n : run'[r] = run[r]
  BY <1>1, <1>2, <1>5
<1>7. h'[p] = rec /\ \A q \in Handler : q # p => h'[q] = h[q]
  BY <1>1, <1>2, BecomeKeeps
<1>8. \A q \in Handler : h[q].pc = "supersede" => h[q].run \in 1 .. n /\ ~run[h[q].run].done
  BY <1>6 DEF RunInv, InCharge
<1>9. CurrentRun'
  <2>1. ASSUME NEW r \in DOMAIN run', NEW s \in DOMAIN run', r < s, run'[s].done
        PROVE  run'[r].status = "superseded"
    <3>1. s # n + 1
      BY <1>4, <1>6, <2>1
    <3>2. s \in DOMAIN run /\ r \in DOMAIN run /\ run[s].done
      BY <1>6, <2>1, <3>1
    <3> QED BY <1>6, <2>1, <3>2 DEF RunInv, CurrentRun
  <2>2. run'[Len(run')].status = "saved"
    BY <1>4, <1>6
  <2> QED BY <2>1, <2>2 DEF CurrentRun
<1>10. ASSUME NEW q \in Handler
       PROVE  InCharge(h'[q], run')
  <2>1. CASE q = p
    BY <1>3, <1>4, <1>6, <1>7, <2>1 DEF InCharge
  <2>2. CASE q # p
    <3> SUFFICES ASSUME h[q].pc = "supersede"
                 PROVE  InCharge(h[q], run')
      BY <1>7, <2>2 DEF InCharge
    <3>1. h[q].run \in 1 .. n /\ ~run[h[q].run].done
      BY <1>8
    <3>2. row.overlap
      BY <1>4, <1>6, <3>1
    <3> QED BY <1>6, <3>1, <3>2 DEF InCharge
  <2> QED BY <2>1, <2>2
<1>11. Alone'
  <2>1. \A q \in Handler : h[q].pc = "supersede" => h[q].run # n + 1
    BY <1>6, <1>8
  <2> QED BY <1>3, <1>7, <2>1 DEF RunInv, Alone
<1> QED BY <1>9, <1>10, <1>11 DEF RunInv

\* Who finishes a save supersedes all other runs, and its run was nobody else's.
LEMMA SupersedeKeeps ==
  ASSUME Types, Types', RunInv, NEW p \in Handler, Supersede(p)
  PROVE  RunInv'
<1> DEFINE k == h[p].run
<1>1. run \in Seq(Run) /\ run' \in Seq(Run) /\ h = [q \in Handler |-> h[q]]
  BY DEF Types, TypeOK
<1>2. /\ run' = [r \in DOMAIN run |->
                  [run[r] EXCEPT !.status = IF Superseded(r, k) THEN "superseded" ELSE @,
                                 !.done   = @ \/ r = k]]
      /\ Become(p, Idle) /\ h[p].pc = "supersede"
  BY DEF Supersede, Done, Step, At
<1>3. h'[p].pc = "idle" /\ \A q \in Handler : q # p => h'[q] = h[q]
  <2>1. h'[p] = Idle /\ \A q \in Handler : q # p => h'[q] = h[q]
    BY <1>1, <1>2, BecomeKeeps
  <2> QED BY <2>1, IdleOK
<1>4. ASSUME NEW r \in DOMAIN run
      PROVE  /\ run'[r].status = (IF r # k THEN "superseded" ELSE run[r].status)
             /\ run'[r].done = (run[r].done \/ r = k) /\ run'[r].overlap = run[r].overlap
  <2>1. run[r] \in Run
    BY <1>1, <1>4
  <2> QED BY <1>2, <1>4, <2>1 DEF Run, Superseded
<1>5. /\ DOMAIN run' = DOMAIN run /\ Len(run') = Len(run)
      /\ DOMAIN run = 1 .. Len(run) /\ Len(run) \in Nat
  <2>1. DOMAIN run = 1 .. Len(run) /\ Len(run) \in Nat
    BY <1>1
  <2>2. run' \in [1 .. Len(run') -> Run] /\ Len(run') \in Nat
    BY <1>1
  <2>3. DOMAIN run' = DOMAIN run
    BY <1>2
  <2>4. run' \in [1 .. Len(run) -> Run]
    BY <2>1, <2>2, <2>3
  <2>5. Len(run') = Len(run)
    BY <2>1, <2>4
  <2> QED BY <2>1, <2>3, <2>5
<1>6. k \in DOMAIN run /\ ~run[k].done /\ (~run[Len(run)].overlap => k = Len(run))
  BY <1>2 DEF RunInv, InCharge
<1>7. CurrentRun'
  <2>1. ASSUME NEW r \in DOMAIN run', NEW s \in DOMAIN run', r < s, run'[s].done
        PROVE  run'[r].status = "superseded"
    <3>1. CASE r # k
      BY <1>4, <1>5, <2>1, <3>1
    <3>2. CASE r = k
      <4>0. s # k /\ s \in DOMAIN run
        BY <1>5, <2>1, <3>2
      <4>1. run[s].done
        BY <1>4, <2>1, <4>0
      <4>2. run[r].status = "superseded"
        BY <1>5, <2>1, <4>1 DEF RunInv, CurrentRun
      <4> QED BY <1>4, <1>5, <2>1, <3>2, <4>2
    <3> QED BY <3>1, <3>2
  <2>2. ASSUME NEW r \in DOMAIN run', r = Len(run'), ~run'[r].overlap
        PROVE  run'[r].status = "saved"
    <3>1. r \in DOMAIN run /\ r = Len(run) /\ ~run[r].overlap
      BY <1>4, <1>5, <2>2
    <3>2. run[r].status = "saved" /\ r = k
      BY <1>6, <3>1 DEF RunInv, CurrentRun
    <3> QED BY <1>4, <3>1, <3>2
  <2> QED BY <2>1, <2>2 DEF CurrentRun
<1>8. ASSUME NEW q \in Handler
      PROVE  InCharge(h'[q], run')
  <2>1. CASE q = p
    BY <1>3, <2>1 DEF InCharge
  <2>2. CASE q # p
    <3> SUFFICES ASSUME h[q].pc = "supersede"
                 PROVE  InCharge(h[q], run')
      BY <1>3, <2>2 DEF InCharge
    <3>1. /\ h[q].run \in DOMAIN run /\ ~run[h[q].run].done
          /\ ~run[Len(run)].overlap => h[q].run = Len(run)
      BY DEF RunInv, InCharge
    <3>2. h[q].run # k
      BY <1>2, <2>2 DEF RunInv, Alone
    <3>3. ~run'[h[q].run].done
      BY <1>4, <3>1, <3>2
    <3>4. Len(run) \in DOMAIN run
      BY <1>5, <3>1
    <3> QED BY <1>4, <1>5, <3>1, <3>3, <3>4 DEF InCharge
  <2> QED BY <2>1, <2>2
<1>9. Alone'
  BY <1>3 DEF RunInv, Alone
<1> QED BY <1>7, <1>8, <1>9 DEF RunInv

\* A step that writes no run and brings no handler to the end of a save.
LEMMA RunsKeep ==
  ASSUME Types, RunInv, run' = run,
         \A p \in Handler : h'[p].pc = "supersede" =>
             h[p].pc = "supersede" /\ h'[p].run = h[p].run
  PROVE  RunInv'
BY DEF RunInv, CurrentRun, InCharge, Alone

\* A handler outside the part of a save that judges lines and writes runs touches no
\* run and no entry, and does not enter that part.
Moves(q, rec) ==
    /\ Become(q, rec)
    /\ rec.pc \notin {"ready", "match", "sources", "create", "supersede"}

LEMMA RequestMoves ==
  ASSUME NEW q \in Handler, NewRequest(q)
  PROVE  run' = run /\ pool' = pool /\ \E rec : Moves(q, rec)
<1> USE DEF Moves, market
<1>0. run' = run /\ pool' = pool
  BY DEF NewRequest, ListGaps, Save, Resolve, Substitute, Patch
<1>1. CASE ListGaps(q)
  <2>1. PICK a : Become(q, [Idle EXCEPT !.pc = "sync", !.asked = a])
    BY <1>1 DEF ListGaps
  <2> DEFINE rec == [Idle EXCEPT !.pc = "sync", !.asked = a]
  <2>2. rec.pc = "sync"
    BY DEF Idle
  <2> HIDE DEF rec
  <2> QED BY <1>0, <2>1, <2>2 DEF rec
<1>2. CASE Save(q)
  <2>1. PICK b, c : Become(q, [Idle EXCEPT !.pc = "tasks", !.subs = b, !.marked = c])
    BY <1>2 DEF Save
  <2> DEFINE rec == [Idle EXCEPT !.pc = "tasks", !.subs = b, !.marked = c]
  <2>2. rec.pc = "tasks"
    BY DEF Idle
  <2> HIDE DEF rec
  <2> QED BY <1>0, <2>1, <2>2 DEF rec
<1>3. CASE \E g \in DOMAIN gap : Resolve(q, g)
  <2>1. PICK g : Become(q, [Idle EXCEPT !.pc = "close", !.gap = g])
    BY <1>3 DEF Resolve
  <2> DEFINE rec == [Idle EXCEPT !.pc = "close", !.gap = g]
  <2>2. rec.pc = "close"
    BY DEF Idle
  <2> HIDE DEF rec
  <2> QED BY <1>0, <2>1, <2>2 DEF rec
<1>4. CASE \E g \in DOMAIN gap, m \in Mpn : Substitute(q, g, m)
  <2>1. PICK g, m : Become(q, [Idle EXCEPT !.pc = "askSub", !.gap = g, !.mpn = m])
    BY <1>4 DEF Substitute
  <2> DEFINE rec == [Idle EXCEPT !.pc = "askSub", !.gap = g, !.mpn = m]
  <2>2. rec.pc = "askSub"
    BY DEF Idle
  <2> HIDE DEF rec
  <2> QED BY <1>0, <2>1, <2>2 DEF rec
<1>5. CASE \E l \in Line, m \in Subs : Patch(q, l, m)
  <2>1. PICK l, m : Become(q, [Idle EXCEPT !.pc = "cancelSub", !.line = l, !.mpn = m])
    BY <1>5 DEF Patch
  <2> DEFINE rec == [Idle EXCEPT !.pc = "cancelSub", !.line = l, !.mpn = m]
  <2>2. rec.pc = "cancelSub"
    BY DEF Idle
  <2> HIDE DEF rec
  <2> QED BY <1>0, <2>1, <2>2 DEF rec
<1> QED BY <1>1, <1>2, <1>3, <1>4, <1>5 DEF NewRequest

LEMMA StepMoves ==
  ASSUME Types, NEW q \in Handler, GapStep(q) \/ ReadTasks(q) \/ Abort(q)
  PROVE  run' = run /\ pool' = pool /\ \E rec : Moves(q, rec)
<1> USE DEF Moves, market
<1>0. run' = run /\ pool' = pool
  BY DEF GapStep, FindGaps, OpenGaps, CloseManual, AskSubstitute, CloseSubstitute,
     CancelOldSub, AskNewSub, ReadTasks, Abort
<1>1. RecordOK(h[q])
  BY DEF Types, Typed
<1>2. CASE FindGaps(q)
  <2>1. PICK ks : Become(q, [Idle EXCEPT !.pc = "open", !.keys = ks])
    BY <1>2 DEF FindGaps
  <2> DEFINE rec == [Idle EXCEPT !.pc = "open", !.keys = ks]
  <2>2. rec.pc = "open"
    BY DEF Idle
  <2> HIDE DEF rec
  <2> QED BY <1>0, <2>1, <2>2 DEF rec
<1>3. CASE OpenGaps(q) \/ CloseManual(q) \/ CloseSubstitute(q) \/ AskNewSub(q) \/ Abort(q)
  <2>1. Become(q, Idle)
    BY <1>3 DEF OpenGaps, CloseManual, CloseSubstitute, AskNewSub, Abort, Done
  <2> QED BY <1>0, <2>1, IdleOK
<1>4. CASE CancelOldSub(q)
  <2>1. PICK ks : Become(q, [h[q] EXCEPT !.pc = "askNew", !.keys = ks])
    BY <1>4 DEF CancelOldSub
  <2> DEFINE rec == [h[q] EXCEPT !.pc = "askNew", !.keys = ks]
  <2>2. rec.pc = "askNew"
    BY <1>1 DEF RecordOK
  <2> HIDE DEF rec
  <2> QED BY <1>0, <2>1, <2>2 DEF rec
<1>5. CASE AskSubstitute(q)
  <2> DEFINE rec == [h[q] EXCEPT !.pc = "closeSub"]
  <2>1. Become(q, rec)
    BY <1>5 DEF AskSubstitute, Goto, Become
  <2>2. rec.pc = "closeSub"
    BY <1>1 DEF RecordOK
  <2> HIDE DEF rec
  <2> QED BY <1>0, <2>1, <2>2
<1>6. CASE ReadTasks(q)
  <2> DEFINE rec == [h[q] EXCEPT !.pc = "judge", !.tasks = task]
  <2>1. Become(q, rec)
    BY <1>6 DEF ReadTasks
  <2>2. rec.pc = "judge"
    BY <1>1 DEF RecordOK
  <2> HIDE DEF rec
  <2> QED BY <1>0, <2>1, <2>2 DEF rec
<1> QED BY <1>2, <1>3, <1>4, <1>5, <1>6 DEF GapStep

LEMMA RunNext == Types /\ Types' /\ RunInv /\ [Next]_vars => RunInv'
<1> SUFFICES ASSUME Types, Types', RunInv, [Next]_vars
             PROVE  RunInv'
  OBVIOUS
<1>1. ASSUME NEW q \in Handler, NEW rec, Become(q, rec), rec.pc # "supersede", run' = run
      PROVE  RunInv'
  <2>1. h'[q] = rec /\ \A r \in Handler : r # q => h'[r] = h[r]
    BY <1>1, BecomeKeeps DEF Types
  <2> QED BY <1>1, <2>1, RunsKeep
<1>2. ASSUME NEW q \in Handler, NewRequest(q) \/ GapStep(q) \/ ReadTasks(q) \/ Abort(q)
      PROVE  RunInv'
  BY <1>1, <1>2, RequestMoves, StepMoves DEF Moves
<1>3. ASSUME NEW q \in Handler, Judge(q) \/ CheckTasks(q) \/ Match(q) \/ ReadGaps(q)
      PROVE  RunInv'
  <2> USE DEF Step, At
  <2>1. RecordOK(h[q]) /\ run' = run
    BY <1>3 DEF Types, Typed, Judge, CheckTasks, Match, ReadGaps
  <2>2. CASE Done(q)
    BY <1>1, <2>1, <2>2, IdleOK DEF Done
  <2>3. CASE Judge(q) /\ ~Done(q)
    <3>1. \E e : Become(q, [h[q] EXCEPT !.pc = "ready", !.tasks = <<>>, !.excuse = e])
      BY <2>3 DEF Judge
    <3>2. \A e : [h[q] EXCEPT !.pc = "ready", !.tasks = <<>>, !.excuse = e].pc = "ready"
      BY <2>1 DEF RecordOK
    <3> QED BY <1>1, <2>1, <3>1, <3>2
  <2>4. CASE CheckTasks(q) /\ ~Done(q)
    <3>1. Become(q, [h[q] EXCEPT !.pc = "match"])
      BY <2>4 DEF CheckTasks, Goto, Become
    <3>2. [h[q] EXCEPT !.pc = "match"].pc = "match"
      BY <2>1 DEF RecordOK
    <3> QED BY <1>1, <2>1, <3>1, <3>2
  <2>5. CASE Match(q) /\ ~Done(q)
    <3>1. \E e, m : Become(q, [Idle EXCEPT !.pc = "sources", !.excuse = e, !.matched = m])
      BY <2>5 DEF Match
    <3>2. \A e, m : [Idle EXCEPT !.pc = "sources", !.excuse = e, !.matched = m].pc = "sources"
      BY DEF Idle
    <3> QED BY <1>1, <2>1, <3>1, <3>2
  <2>6. CASE ReadGaps(q)
    <3>1. \E e, s : Become(q, [Idle EXCEPT !.pc = "create", !.excuse = e, !.source = s])
      BY <2>6 DEF ReadGaps
    <3>2. \A e, s : [Idle EXCEPT !.pc = "create", !.excuse = e, !.source = s].pc = "create"
      BY DEF Idle
    <3> QED BY <1>1, <2>1, <3>1, <3>2
  <2> QED BY <1>3, <2>2, <2>3, <2>4, <2>5, <2>6
<1>4. ASSUME NEW k \in Key, Crawled(k) \/ CrawledForOthers(k)
      PROVE  RunInv'
  <2>1. run' = run
    BY <1>4 DEF Crawled, CrawledForOthers
  <2>2. ASSUME NEW p \in Handler
        PROVE  h'[p].pc = h[p].pc /\ h'[p].run = h[p].run
    <3>1. h' = h \/ h' = [q \in Handler |-> [h[q] EXCEPT !.excuse =
                                     IF At(q, "ready") \/ At(q, "match") THEN Line ELSE @]]
      BY <1>4 DEF Crawled, CrawledForOthers, Put
    <3>2. h'[p] = h[p] \/ \E e : h'[p] = [h[p] EXCEPT !.excuse = e]
      BY <3>1
    <3>3. RecordOK(h[p])
      BY DEF Types, Typed
    <3> QED BY <3>2, <3>3 DEF RecordOK
  <2> QED BY <2>1, <2>2, RunsKeep
<1>5. CASE Marked \/ UNCHANGED vars
  BY <1>5, RunsKeep DEF Marked, vars
<1> QED BY <1>2, <1>3, <1>4, <1>5, CreateKeeps, SupersedeKeeps DEF Next, SaveStep

\* Whatever saves overlap or end early, a finished save has superseded every run before
\* its own, and the newest run stays saved unless it overlapped with another.
THEOREM Current == Spec => []CurrentRun
<1>1. Init => RunInv
  <2> SUFFICES ASSUME Init PROVE RunInv
    OBVIOUS
  <2>1. run = <<>> /\ \A p \in Handler : h[p] = Idle
    BY DEF Init
  <2> QED BY <2>1 DEF RunInv, CurrentRun, InCharge, Alone, Idle
<1>2. RunInv => CurrentRun
  BY DEF RunInv
<1> QED BY <1>1, <1>2, Invariance, RunNext, PTL DEF Spec

-----------------------------------------------------------------------------
(* A line that is ready is matched *)

\* The review and the canonical id of a row are not what its price is computed from.
LEMMA RowStays ==
  ASSUME NEW q, QuoteOK(q), NEW review, NEW canon
  PROVE  /\ QuoteOK([q EXCEPT !.review = review, !.canon = canon])
         /\ QuoteOK([q EXCEPT !.canon = canon, !.review = review])
         /\ QuoteOK([q EXCEPT !.review = review])
         /\ [q EXCEPT !.review = review, !.canon = canon].model = q.model
         /\ [q EXCEPT !.review = review].model = q.model
BY DEF QuoteOK, QuoteColumns

\* The rows of the entries, which are usable when they have any.
RowsOK(c) ==
    \A k \in Key : LET rows == Items(c[k]) IN
        /\ IsFiniteSet(DOMAIN rows) /\ DOMAIN rows \subseteq Nat
        /\ \A i \in DOMAIN rows : QuoteOK(rows[i]) /\ Usable(c[k])

LEMMA CacheRows == TypeOK => RowsOK(cache)
<1> SUFFICES ASSUME TypeOK, NEW k \in Key
             PROVE  LET rows == Items(cache[k])
                    IN  /\ IsFiniteSet(DOMAIN rows) /\ DOMAIN rows \subseteq Nat
                        /\ \A i \in DOMAIN rows : QuoteOK(rows[i]) /\ Usable(cache[k])
  BY DEF RowsOK
<1> DEFINE r == pool[k]
           rows == Items(cache[k])
<1>1. r \in Results \cup {"none", None} /\ cache[k] = Entry[r]
  BY DEF TypeOK, cache
<1>2. ASSUME rows = <<>>
      PROVE  /\ IsFiniteSet(DOMAIN rows) /\ DOMAIN rows \subseteq Nat
             /\ \A i \in DOMAIN rows : QuoteOK(rows[i]) /\ Usable(cache[k])
  <2>1. DOMAIN rows = {}
    BY <1>2
  <2> HIDE DEF rows
  <2> QED BY <2>1, FS_EmptySet
<1>3. CASE r = None \/ cache[k] = None
  BY <1>1, <1>2, <1>3 DEF Entry, Items
<1>4. CASE r = "none" /\ r # None
  <2>1. cache[k] = [outcome |-> "no_mpn_match", quotes |-> <<>>]
    BY <1>1, <1>4 DEF Entry
  <2> QED BY <1>2, <1>3, <2>1 DEF Items
<1>5. CASE r # None /\ r # "none" /\ cache[k] # None
  <2>1. cache[k] = [outcome |-> "ok",
                    quotes |-> [j \in DOMAIN Rows[r] |-> Reviewed(Rows[r][j])]]
    BY <1>1, <1>5 DEF Entry
  <2>2. rows = [j \in DOMAIN Rows[r] |-> Reviewed(Rows[r][j])] /\ Usable(cache[k])
    BY <1>5, <2>1 DEF Items, Usable, NoMatchOutcomes
  <2>3. r \in UNION {Found[q] : q \in Mpn \X Platform}
    BY <1>1, <1>5 DEF Results, Key
  <2>4. /\ DOMAIN Rows[r] \subseteq Nat /\ IsFiniteSet(DOMAIN Rows[r])
        /\ \A i \in DOMAIN Rows[r] : QuoteOK(Rows[r][i])
    BY <2>3, DecisionsAssumption
  <2>5. \A i \in DOMAIN Rows[r] : QuoteOK(Reviewed(Rows[r][i]))
    BY <2>4, RowStays DEF Reviewed
  <2>6. DOMAIN rows = DOMAIN Rows[r] /\ \A i \in DOMAIN rows : rows[i] = Reviewed(Rows[r][i])
    BY <2>2
  <2> QED BY <2>2, <2>4, <2>5, <2>6
<1> QED BY <1>1, <1>3, <1>4, <1>5

\* A row keeps its model and what it costs when it is given the review of an item.
LEMMA MergedRow ==
  ASSUME NEW rows, NEW items, NEW i \in DOMAIN rows, QuoteOK(rows[i])
  PROVE  /\ Merged(rows, items)[i].model = rows[i].model
         /\ QuoteOK(Merged(rows, items)[i])
<1> DEFINE row == Unreviewed(rows[i])
<1>1. QuoteOK(row) /\ row.model = rows[i].model
  BY RowStays DEF Unreviewed
<1> HIDE DEF row
<1>2. Merged(rows, items)[i] = row \/ \E item : Merged(rows, items)[i] =
           [row EXCEPT !.review = item.review,
                       !.canon = IF item.canon # None THEN item.canon ELSE @]
  <2> DEFINE same == {j \in DOMAIN items : Alike(items[j], row) /\ Nth(items, j, row) = Nth(rows, i, row)}
             item == items[CHOOSE j \in same : TRUE]
  <2>1. Merged(rows, items)[i] =
          IF same = {} THEN row
          ELSE [row EXCEPT !.review = item.review,
                           !.canon = IF item.canon # None THEN item.canon ELSE @]
    BY DEF Merged, row
  <2> HIDE DEF same, item
  <2> QED BY <2>1
<1>3. ASSUME NEW item
      PROVE  LET q == [row EXCEPT !.review = item.review,
                                  !.canon = IF item.canon # None THEN item.canon ELSE @]
             IN  q.model = row.model /\ QuoteOK(q)
  <2> DEFINE canon == IF item.canon # None THEN item.canon ELSE row.canon
  <2>1. LET q == [row EXCEPT !.review = item.review, !.canon = canon]
        IN  q.model = row.model /\ QuoteOK(q)
    <3> HIDE DEF canon
    <3> QED BY <1>1 DEF QuoteOK, QuoteColumns
  <2> QED BY <2>1
<1> QED BY <1>1, <1>2, <1>3

\* A best row is a row about the part it is sought for.
LEMMA PickedModel ==
  ASSUME NEW line, NEW mpn, NEW p, NEW quotes, PickBest(line, mpn, p, quotes) # {}
  PROVE  \E i \in DOMAIN quotes : quotes[i].model = mpn
<1>1. Eligible(line, mpn, quotes) # {}
  BY DEF PickBest
<1>2. PICK r \in {[at |-> i, quote |-> quotes[i]] : i \in DOMAIN quotes} :
         RowPasses(line, mpn, r.quote)
  BY <1>1 DEF Eligible
<1> QED BY <1>2 DEF RowPasses

\* The candidates when the rows of a part are read with its entries.
Offers(line, mpn, c, p) ==
    {[at |-> Rank[p], platform |-> p, quote |-> q, key |-> SortKey(line, p, q)] :
        q \in IF Usable(c[<<mpn, p>>])
              THEN PickBest(line, mpn, p, Merged(Items(c[<<mpn, p>>]), Items(c[<<mpn, p>>])))
              ELSE {}}
AllOffers(line, mpn, c) == UNION {Offers(line, mpn, c, p) : p \in Platform}

LEMMA CandidatesUnion ==
  ASSUME NEW line, NEW mpns, NEW mpn \in mpns, NEW c
  PROVE  CandidatesRead(line, mpn, c, ItemsOf(mpns, c)) = AllOffers(line, mpn, c)
<1> DEFINE On(p, rows) ==
             {[at |-> Rank[p], platform |-> p, quote |-> q, key |-> SortKey(line, p, q)] :
                q \in IF Usable(c[<<mpn, p>>])
                      THEN PickBest(line, mpn, p, Merged(Items(c[<<mpn, p>>]), rows)) ELSE {}}
           read == ItemsOf(mpns, c)
<1>1. CandidatesRead(line, mpn, c, read) = UNION {On(p, read[<<mpn, p>>]) : p \in Platform}
  BY DEF CandidatesRead
<1>2. \A p \in Platform : read[<<mpn, p>>] = Items(c[<<mpn, p>>])
  BY DEF ItemsOf
<1>3. {On(p, read[<<mpn, p>>]) : p \in Platform} = {Offers(line, mpn, c, p) : p \in Platform}
  <2>1. \A p \in Platform : On(p, Items(c[<<mpn, p>>])) = Offers(line, mpn, c, p)
    BY DEF Offers
  <2> HIDE DEF On
  <2>2. \A p \in Platform : On(p, read[<<mpn, p>>]) = Offers(line, mpn, c, p)
    BY <1>2, <2>1
  <2> QED BY <2>2
<1> QED BY <1>1, <1>3 DEF AllOffers

LEMMA OneRead ==
  ASSUME NEW line, NEW mpns, NEW mpn \in mpns, NEW c
  PROVE  /\ CandidatesRead(line, mpn, c, ItemsOf(mpns, c)) = Candidates(line, mpn, c)
         /\ Candidates(line, mpn, c) = AllOffers(line, mpn, c)
<1>1. mpn \in {mpn}
  OBVIOUS
<1> QED BY <1>1, CandidatesUnion DEF Candidates

\* Matching when the rows are read with the entries.
LEMMA MatchedAtOnce ==
  ASSUME NEW line, NEW c
  PROVE  MatchOneLine(line, c) =
           LET own == Candidates(line, line.mpn, c)
               all == IF own = {} /\ HasSubstitute(line) THEN Candidates(line, line.sub, c) ELSE own
           IN  IF all = {} THEN {} ELSE {First(all)}
<1>1. \A mpn \in {line.mpn, line.sub} :
         CandidatesRead(line, mpn, c, ItemsOf({line.mpn, line.sub}, c)) = Candidates(line, mpn, c)
  <2> DEFINE mpns == {line.mpn, line.sub}
  <2> HIDE DEF mpns
  <2>1. \A mpn \in mpns : CandidatesRead(line, mpn, c, ItemsOf(mpns, c)) = Candidates(line, mpn, c)
    BY OneRead
  <2> QED BY <2>1 DEF mpns
<1> QED BY <1>1 DEF MatchOneLine, MatchOneLineRead

\* A line that is ready, though not by a foreign row, has a candidate for its own part.
LEMMA ReadyCore ==
  ASSUME NEW line, NEW tasks, NEW c, RowsOK(c), line.mpn \in Mpn,
         Availability(line, tasks, c) = "ready",
         ~(HasSubstitute(line) /\ \E p \in Platform :
             \E i \in DOMAIN Items(c[<<line.mpn, p>>]) : Items(c[<<line.mpn, p>>])[i].model = line.sub)
  PROVE  MatchOneLine(line, c) # {}
<1>1. PICK p \in Platform : PlatformFact(line, p, tasks[<<line.mpn, p>>], c).usable
  BY DEF Availability, Classify
<1> DEFINE rows == Items(c[<<line.mpn, p>>])
<1>2. Usable(c[<<line.mpn, p>>]) /\ HasUsableQuote(line, p, c)
  BY <1>1 DEF PlatformFact
<1>3. \A i \in DOMAIN rows : QuoteOK(rows[i])
  BY DEF RowsOK, Key
<1>4. PickBest(line, line.mpn, p, Merged(rows, Items(c[<<line.mpn, p>>]))) # {}
  <2>1. ASSUME HasSubstitute(line),
               PickBest(line, line.sub, p, Merged(rows, Items(c[<<line.sub, p>>]))) # {}
        PROVE  FALSE
    <3>1. PICK i \in DOMAIN Merged(rows, Items(c[<<line.sub, p>>])) :
             Merged(rows, Items(c[<<line.sub, p>>]))[i].model = line.sub
      BY <2>1, PickedModel
    <3>2. i \in DOMAIN rows
      BY <3>1 DEF Merged
    <3>3. rows[i].model = line.sub
      BY <1>3, <3>1, <3>2, MergedRow
    <3> QED BY <2>1, <3>2, <3>3
  <2> QED BY <1>2, <2>1 DEF HasUsableQuote
<1> DEFINE Of(q, r) == [at |-> Rank[q], platform |-> q, quote |-> r, key |-> SortKey(line, q, r)]
           On(q) == {Of(q, r) : r \in IF Usable(c[<<line.mpn, q>>])
                                      THEN PickBest(line, line.mpn, q,
                                                    Merged(Items(c[<<line.mpn, q>>]),
                                                           Items(c[<<line.mpn, q>>])))
                                      ELSE {}}
<1>5. On(p) # {}
  BY <1>2, <1>4
<1>6. Candidates(line, line.mpn, c) = UNION {On(q) : q \in Platform}
  BY OneRead DEF AllOffers, Offers
<1> HIDE DEF On
<1>7. Candidates(line, line.mpn, c) # {}
  BY <1>5, <1>6
<1> QED BY <1>7, MatchedAtOnce

\* A line with its substitute is sought for its own part number.
LEMMA WithSubMpn ==
  ASSUME NEW l \in Line, NEW subs
  PROVE  WithSub(l, subs).mpn \in Mpn
BY DecisionsAssumption DEF WithSub, LineColumns

LEMMA ReadyMatched ==
  ASSUME TypeOK, NEW l \in Line, NEW subs, NEW tasks,
         Availability(WithSub(l, subs), tasks, cache) = "ready", ~Foreign(WithSub(l, subs))
  PROVE  MatchOneLine(WithSub(l, subs), cache) # {}
<1> DEFINE line == WithSub(l, subs)
<1>1. RowsOK(cache) /\ line.mpn \in Mpn
  BY CacheRows, WithSubMpn
<1>2. ~(HasSubstitute(line) /\ \E p \in Platform :
          \E i \in DOMAIN Items(cache[<<line.mpn, p>>]) :
             Items(cache[<<line.mpn, p>>])[i].model = line.sub)
  BY DEF Foreign
<1> HIDE DEF line
<1>3. Availability(line, tasks, cache) = "ready" => MatchOneLine(line, cache) # {}
  BY <1>1, <1>2, ReadyCore
<1> QED BY <1>3 DEF line

\* Whatever was found for its part, its substitute and other sessions, a line that is
\* called ready is matched.
THEOREM ReadyMeansMatched == Spec => []ReadyIsMatched
<1>1. Types => ReadyIsMatched
  BY ReadyMatched DEF Types, ReadyIsMatched
<1> QED BY <1>1, Invariance, PTL

-----------------------------------------------------------------------------
(* Saved runs are complete *)

\* What the handler of a save has judged holds of the lines it has no excuse for.
Judged(r, c) ==
    /\ r.pc \in {"ready", "match"} =>
          \A l \in Line \ r.excuse : MatchOneLine(WithSub(l, r.subs), c) # {}
    /\ r.pc = "sources" => Line \ r.excuse \subseteq r.matched
    /\ r.pc = "create"  => \A l \in Line \ r.excuse : r.source[l] # "unresolved"

SaveInv == SavedComplete /\ \A p \in Handler : Judged(h[p], cache)

LEMMA OtherJudged ==
  ASSUME NEW r, NEW c, r.pc \notin {"ready", "match", "sources", "create"}
  PROVE  Judged(r, c)
BY DEF Judged

\* A step that writes no run and no entry, and leaves one handler with a judgement
\* that holds.
LEMMA JudgedKeeps ==
  ASSUME Types, SaveInv, run' = run, pool' = pool, NEW p \in Handler, NEW rec,
         Become(p, rec), Judged(rec, cache)
  PROVE  SaveInv'
<1>1. cache' = cache
  BY DEF cache
<1>2. h'[p] = rec /\ \A q \in Handler : q # p => h'[q] = h[q]
  BY BecomeKeeps DEF Types
<1>3. \A q \in Handler : Judged(h'[q], cache')
  BY <1>1, <1>2 DEF SaveInv
<1> QED BY <1>3 DEF SaveInv, SavedComplete

LEMMA JudgeKeeps ==
  ASSUME Types, SaveInv, NEW p \in Handler, Judge(p)
  PROVE  SaveInv'
<1> USE DEF Step, session, market
<1>0. run' = run /\ pool' = pool
  BY DEF Judge
<1>1. CASE Done(p)
  BY <1>0, <1>1, JudgedKeeps, IdleOK, OtherJudged DEF Done
<1>2. CASE ~Done(p)
  <2> DEFINE e == {l \in Line : \/ Collecting(l, p)
                                \/ Foreign(WithSub(l, h[p].subs))}
             rec == [h[p] EXCEPT !.pc = "ready", !.tasks = <<>>, !.excuse = e]
  <2>1. Become(p, rec) /\ NoStrictGap(Lines(p), h[p].tasks, cache)
    BY <1>2 DEF Judge
  <2>2. ASSUME NEW l \in Line \ e
        PROVE  MatchOneLine(WithSub(l, h[p].subs), cache) # {}
    <3>1. WithSub(l, h[p].subs) \in Lines(p)
      BY DEF Lines
    <3>2. Availability(WithSub(l, h[p].subs), h[p].tasks, cache) \notin StrictGap
      BY <2>1, <3>1 DEF NoStrictGap
    <3>3. ~Collecting(l, p) /\ ~Foreign(WithSub(l, h[p].subs))
      OBVIOUS
    <3>4. Availability(WithSub(l, h[p].subs), h[p].tasks, cache)
            \in StrictGap \cup {"collecting", "ready"}
      BY DEF Availability, Classify, StrictGap, HardGap
    <3>5. Availability(WithSub(l, h[p].subs), h[p].tasks, cache) = "ready"
      BY <3>2, <3>3, <3>4 DEF Collecting
    <3> QED BY <3>3, <3>5, ReadyMatched DEF Types
  <2> HIDE DEF e
  <2>3. rec.pc = "ready" /\ rec.excuse = e /\ rec.subs = h[p].subs
    BY DEF Types, Typed, RecordOK
  <2> HIDE DEF rec
  <2>4. Judged(rec, cache)
    BY <2>2, <2>3 DEF Judged
  <2> QED BY <1>0, <2>1, <2>4, JudgedKeeps
<1> QED BY <1>1, <1>2

LEMMA MatchKeeps ==
  ASSUME Types, SaveInv, NEW p \in Handler, Match(p)
  PROVE  SaveInv'
<1> USE DEF Step, At, session, market
<1>0. run' = run /\ pool' = pool /\ h[p].pc = "match"
  BY DEF Match
<1>1. CASE Done(p)
  BY <1>0, <1>1, JudgedKeeps, IdleOK, OtherJudged DEF Done
<1>2. CASE ~Done(p)
  <2> DEFINE e == h[p].excuse
             m == {l \in Line : MatchOneLine(WithSub(l, h[p].subs), cache) # {}}
             rec == [Idle EXCEPT !.pc = "sources", !.excuse = e, !.matched = m]
  <2>1. Become(p, rec)
    BY <1>2 DEF Match
  <2>2. Line \ e \subseteq m
    BY <1>0 DEF SaveInv, Judged
  <2> HIDE DEF e, m
  <2>3. rec.pc = "sources" /\ rec.excuse = e /\ rec.matched = m
    BY DEF Idle
  <2> HIDE DEF rec
  <2>4. Judged(rec, cache)
    BY <2>2, <2>3 DEF Judged
  <2> QED BY <1>0, <2>1, <2>4, JudgedKeeps
<1> QED BY <1>1, <1>2

LEMMA ReadGapsKeeps ==
  ASSUME Types, SaveInv, NEW p \in Handler, ReadGaps(p)
  PROVE  SaveInv'
<1> USE DEF Step, At, session, market
<1>0. run' = run /\ pool' = pool /\ h[p].pc = "sources"
  BY DEF ReadGaps
<1> DEFINE e == h[p].excuse
           src == [l \in Line |-> SourceOf(IF l \in h[p].matched THEN {l} ELSE {},
                                           GapSubstitute(l))]
           rec == [Idle EXCEPT !.pc = "create", !.excuse = e, !.source = src]
<1>1. Become(p, rec)
  BY DEF ReadGaps
<1>2. \A l \in Line \ e : l \in h[p].matched
  BY <1>0 DEF SaveInv, Judged
<1>3. \A l \in Line \ e : src[l] # "unresolved"
  BY <1>2 DEF SourceOf
<1> HIDE DEF e, src
<1>4. rec.pc = "create" /\ rec.excuse = e /\ rec.source = src
  BY DEF Idle
<1> HIDE DEF rec
<1>5. Judged(rec, cache)
  BY <1>3, <1>4 DEF Judged
<1> QED BY <1>0, <1>1, <1>5, JudgedKeeps

\* The run that is created has the sources and the excuses of its handler.
LEMMA CreateComplete ==
  ASSUME Types, SaveInv, NEW p \in Handler, CreateRun(p)
  PROVE  SaveInv'
<1> DEFINE o == \E r \in DOMAIN run : ~run[r].done
           row == [status |-> "saved", source |-> h[p].source, done |-> FALSE,
                   overlap |-> o, excuse |-> h[p].excuse]
           rec == [Idle EXCEPT !.pc = "supersede", !.run = Len(run) + 1]
<1>1. run' = Append(run, row) /\ Become(p, rec) /\ pool' = pool /\ h[p].pc = "create"
  BY DEF CreateRun, Step, At, session, market
<1>2. row.source = h[p].source /\ row.excuse = h[p].excuse
  OBVIOUS
<1> HIDE DEF row
<1>3. \A l \in Line : row.source[l] = "unresolved" => l \in row.excuse
  BY <1>1, <1>2 DEF SaveInv, Judged
<1>4. run \in Seq(Run)
  BY DEF Types, TypeOK
<1>5. /\ DOMAIN run' = 1 .. Len(run) + 1 /\ run'[Len(run) + 1] = row
      /\ \A r \in DOMAIN run : run'[r] = run[r]
      /\ Len(run) \in Nat /\ DOMAIN run = 1 .. Len(run)
  BY <1>1, <1>4
<1>6. SavedComplete'
  BY <1>3, <1>5 DEF SaveInv, SavedComplete
<1>7. rec.pc = "supersede"
  BY DEF Idle
<1> HIDE DEF rec
<1>8. cache' = cache
  BY <1>1 DEF cache
<1>9. h'[p] = rec /\ \A q \in Handler : q # p => h'[q] = h[q]
  BY <1>1, BecomeKeeps DEF Types
<1>10. \A q \in Handler : Judged(h'[q], cache')
  BY <1>7, <1>8, <1>9, OtherJudged DEF SaveInv
<1> QED BY <1>6, <1>10 DEF SaveInv

\* Superseding runs leaves what they say of the lines.
LEMMA SupersedeComplete ==
  ASSUME Types, SaveInv, NEW p \in Handler, Supersede(p)
  PROVE  SaveInv'
<1>1. /\ run' = [r \in DOMAIN run |->
                  [run[r] EXCEPT !.status = IF Superseded(r, h[p].run) THEN "superseded" ELSE @,
                                 !.done   = @ \/ r = h[p].run]]
      /\ Become(p, Idle) /\ pool' = pool
  BY DEF Supersede, Done, Step, session, market
<1>2. run \in Seq(Run)
  BY DEF Types, TypeOK
<1>3. ASSUME NEW r \in DOMAIN run
      PROVE  run'[r].source = run[r].source /\ run'[r].excuse = run[r].excuse
  <2>1. run[r] \in Run
    BY <1>2
  <2> QED BY <1>1, <2>1 DEF Run
<1>4. DOMAIN run' = DOMAIN run
  BY <1>1
<1>5. SavedComplete'
  BY <1>3, <1>4 DEF SaveInv, SavedComplete
<1>6. cache' = cache
  BY <1>1 DEF cache
<1>7. h'[p] = Idle /\ \A q \in Handler : q # p => h'[q] = h[q]
  BY <1>1, BecomeKeeps DEF Types
<1>8. \A q \in Handler : Judged(h'[q], cache')
  BY <1>6, <1>7, IdleOK, OtherJudged DEF SaveInv
<1> QED BY <1>5, <1>8 DEF SaveInv

\* A new entry is an excuse for all lines that were judged by the old one.
LEMMA PutKeeps ==
  ASSUME Types, SaveInv, run' = run, NEW k, NEW r, Put(k, r)
  PROVE  SaveInv'
<1>1. ASSUME NEW p \in Handler
      PROVE  Judged(h'[p], cache')
  <2> DEFINE e == IF At(p, "ready") \/ At(p, "match") THEN Line ELSE h[p].excuse
  <2>1. h'[p] = [h[p] EXCEPT !.excuse = e]
    BY DEF Put
  <2>2. RecordOK(h[p])
    BY DEF Types, Typed
  <2> HIDE DEF e
  <2>3. /\ h'[p].pc = h[p].pc /\ h'[p].excuse = e /\ h'[p].matched = h[p].matched
        /\ h'[p].source = h[p].source
    BY <2>1, <2>2 DEF RecordOK
  <2> QED BY <2>3 DEF SaveInv, Judged, e, At
<1> QED BY <1>1 DEF SaveInv, SavedComplete

LEMMA SaveNext == Types /\ SaveInv /\ [Next]_vars => SaveInv'
<1> SUFFICES ASSUME Types, SaveInv, [Next]_vars
             PROVE  SaveInv'
  OBVIOUS
<1> USE DEF Step, Ask, At, session, market
<1>1. ASSUME NEW p \in Handler, NEW rec, Moves(p, rec), run' = run, pool' = pool
      PROVE  SaveInv'
  BY <1>1, OtherJudged, JudgedKeeps DEF Moves
<1>2. ASSUME NEW p \in Handler, NewRequest(p) \/ GapStep(p) \/ ReadTasks(p) \/ Abort(p)
      PROVE  SaveInv'
  BY <1>1, <1>2, RequestMoves, StepMoves
<1>3. ASSUME NEW p \in Handler, CheckTasks(p)
      PROVE  SaveInv'
  <2>0. run' = run /\ pool' = pool /\ h[p].pc = "ready"
    BY <1>3 DEF CheckTasks
  <2>1. CASE Done(p)
    BY <1>1, <2>0, <2>1, IdleOK DEF Done, Moves
  <2>2. CASE ~Done(p)
    <3> DEFINE rec == [h[p] EXCEPT !.pc = "match"]
    <3>1. Become(p, rec)
      BY <1>3, <2>2 DEF CheckTasks, Goto, Become
    <3>2. rec.pc = "match" /\ rec.excuse = h[p].excuse /\ rec.subs = h[p].subs
      BY DEF Types, Typed, RecordOK
    <3> HIDE DEF rec
    <3>3. Judged(rec, cache)
      BY <2>0, <3>2 DEF SaveInv, Judged
    <3> QED BY <2>0, <3>1, <3>3, JudgedKeeps
  <2> QED BY <2>1, <2>2
<1>4. ASSUME NEW k \in Key, Crawled(k) \/ CrawledForOthers(k)
      PROVE  SaveInv'
  <2>1. run' = run
    BY <1>4 DEF Crawled, CrawledForOthers
  <2>2. CASE \E r : Put(k, r)
    BY <2>1, <2>2, PutKeeps
  <2>3. CASE UNCHANGED <<pool, h>>
    BY <2>1, <2>3 DEF SaveInv, SavedComplete, cache
  <2> QED BY <1>4, <2>2, <2>3 DEF Crawled, CrawledForOthers
<1>5. CASE Marked \/ UNCHANGED vars
  BY <1>5 DEF Marked, vars, SaveInv, SavedComplete, cache
<1> QED BY <1>2, <1>3, <1>4, <1>5, JudgeKeeps, MatchKeeps, ReadGapsKeeps, CreateComplete,
           SupersedeComplete DEF Next, SaveStep

\* A run is saved without an unresolved line unless something excuses the line.
THEOREM Complete == Spec => []SavedComplete
<1>1. Init => SaveInv
  <2> SUFFICES ASSUME Init PROVE SaveInv
    OBVIOUS
  <2>1. run = <<>> /\ \A p \in Handler : h[p] = Idle
    BY DEF Init
  <2> QED BY <2>1, IdleOK, OtherJudged DEF SaveInv, SavedComplete
<1>2. SaveInv => SavedComplete
  BY DEF SaveInv
<1> QED BY <1>1, <1>2, Invariance, SaveNext, PTL DEF Spec

-----------------------------------------------------------------------------
(* The cheapest quote is chosen *)

\* A finite set has a least element for every strict order: the sets of lesser ones
\* are ordered by inclusion, which is well-founded on finite sets.
LEMMA FiniteLeast ==
  ASSUME NEW S, IsFiniteSet(S), S # {}, NEW R,
         \A x \in S : <<x, x>> \notin R,
         \A x, y, z \in S : <<x, y>> \in R /\ <<y, z>> \in R => <<x, z>> \in R
  PROVE  \E x \in S : \A y \in S : <<y, x>> \notin R
<1> DEFINE Lesser(x) == {y \in S : <<y, x>> \in R}
           T == {Lesser(x) : x \in S}
<1>1. T \subseteq FiniteSubsetsOf(S)
  <2>1. \A x \in S : Lesser(x) \in SUBSET S
    OBVIOUS
  <2>2. SUBSET S = FiniteSubsetsOf(S)
    BY FS_FiniteSubsetsOfFinite
  <2> HIDE DEF Lesser
  <2> QED BY <2>1, <2>2
<1>2. T # {}
  <2> HIDE DEF Lesser
  <2> QED OBVIOUS
<1>3. IsWellFoundedOn(StrictSubsetOrdering(S), FiniteSubsetsOf(S))
  BY FS_StrictSubsetOrderingWellFounded
<1>4. PICK L \in T : \A M \in T : <<M, L>> \notin StrictSubsetOrdering(S)
  <2> HIDE DEF T
  <2> QED BY <1>1, <1>2, <1>3, WFMin
<1>5. PICK x \in S : L = Lesser(x)
  BY <1>4
<1>6. ASSUME NEW y \in S, <<y, x>> \in R
      PROVE  FALSE
  <2>1. Lesser(y) \subseteq Lesser(x) /\ y \in Lesser(x) /\ y \notin Lesser(y)
    BY <1>6
  <2>2. Lesser(y) \in T
    OBVIOUS
  <2>3. <<Lesser(y), Lesser(x)>> \in StrictSubsetOrdering(S)
    BY <2>1 DEF StrictSubsetOrdering
  <2> QED BY <1>4, <1>5, <2>2, <2>3
<1> QED BY <1>6

KeyOK(key) == key.price \in Int /\ key.lead \in Int /\ key.stock \in Int /\ key.rank \in Int

\* Of finitely many candidates the first one is there, and none is better.
LEMMA FirstIsBest ==
  ASSUME NEW cands, IsFiniteSet(cands), cands # {},
         \A c \in cands : KeyOK(c.key) /\ c.at \in Int
  PROVE  /\ First(cands) \in cands
         /\ \A d \in cands : First(cands).key.price <= d.key.price
<1> DEFINE Beats(d, c) == \/ LessMatchCandidate(d.key, c.key)
                          \/ ~LessMatchCandidate(c.key, d.key) /\ d.at < c.at
           R == {e \in cands \X cands : Beats(e[1], e[2])}
           Wins(c) == \A d \in cands : \/ LessMatchCandidate(c.key, d.key)
                                       \/ ~LessMatchCandidate(d.key, c.key) /\ c.at <= d.at
<1>1. \A c, d \in cands : <<d, c>> \in R <=> Beats(d, c)
  OBVIOUS
<1>2. \A x \in cands : ~Beats(x, x)
  BY DEF LessMatchCandidate, KeyOK
<1>3. \A x, y, z \in cands : Beats(x, y) /\ Beats(y, z) => Beats(x, z)
  BY DEF LessMatchCandidate, KeyOK
<1>4. \E x \in cands : \A y \in cands : <<y, x>> \notin R
  <2>1. \A x \in cands : <<x, x>> \notin R
    BY <1>1, <1>2
  <2>2. \A x, y, z \in cands : <<x, y>> \in R /\ <<y, z>> \in R => <<x, z>> \in R
    <3> HIDE DEF Beats, R
    <3> QED BY <1>1, <1>3
  <2> HIDE DEF R
  <2> QED BY <2>1, <2>2, FiniteLeast
<1>5. PICK x \in cands : \A y \in cands : ~Beats(y, x)
  <2> HIDE DEF R, Beats
  <2> QED BY <1>1, <1>4
<1>6. Wins(x)
  BY <1>5
<1>7. First(cands) \in cands /\ Wins(First(cands))
  BY <1>6 DEF First
<1>8. \A c, d \in cands : Wins(c) => c.key.price <= d.key.price
  BY DEF LessMatchCandidate, KeyOK
<1> QED BY <1>7, <1>8

\* Prices and keys are numbers.
LEMMA PricesAreNumbers ==
  ASSUME NEW q, QuoteOK(q), NEW n
  PROVE  BasePrice(q, n) \subseteq Int
<1> DEFINE segments == RangeOf(q.mainland) \cup RangeOf(q.hk) \cup RangeOf(q.tiers)
<1>1. \A s : PickTier(s, n) \subseteq RangeOf(s) \ {Bad}
  BY DEF PickTier, ParsePriceTiers
<1>2. ComparePrice(q, n) \subseteq segments \ {Bad}
  BY <1>1 DEF ComparePrice
<1>3. ASSUME NEW t \in segments \ {Bad}
      PROVE  ToBaseCCY(t) \subseteq Int
  <2>1. t.price \in Int /\ Rate[<<t.ccy, Base>>] \in Nat /\ Rate[<<Base, t.ccy>>] \in Nat
    BY <1>3 DEF QuoteOK
  <2>2. \A a \in Int, b \in Nat : b # 0 => (2 * a + b) \div (2 * b) \in Int
    OBVIOUS
  <2>3. \A a \in Int, b \in Nat : a * b \in Int
    OBVIOUS
  <2> QED BY <2>1, <2>2, <2>3 DEF ToBaseCCY
<1> QED BY <1>2, <1>3 DEF BasePrice

LEMMA KeysAreNumbers ==
  ASSUME NEW line, NEW p \in Platform, NEW q, QuoteOK(q), BasePrice(q, line.qty) # {}
  PROVE  KeyOK(SortKey(line, p, q))
<1>1. (CHOOSE x \in BasePrice(q, line.qty) : TRUE) \in Int
  BY PricesAreNumbers
<1>2. 2 ^ 30 \in Int
  OBVIOUS
<1>3. Rank[p] \in Int
  BY DecisionsAssumption
<1> QED BY <1>1, <1>2, <1>3 DEF KeyOK, SortKey, QuoteOK, LeadUnknown

\* The best row of a platform is one of those that fit, and none of them is cheaper.
LEMMA BestOfPlatform ==
  ASSUME NEW line, NEW mpn, NEW p \in Platform, NEW rows,
         IsFiniteSet(DOMAIN rows), DOMAIN rows \subseteq Nat,
         \A i \in DOMAIN rows : QuoteOK(rows[i])
  PROVE  /\ \A q \in PickBest(line, mpn, p, rows) :
              /\ \E r \in Eligible(line, mpn, rows) : q = r.quote
              /\ \A r \in Eligible(line, mpn, rows) :
                    SortKey(line, p, q).price <= SortKey(line, p, r.quote).price
         /\ Eligible(line, mpn, rows) # {} => PickBest(line, mpn, p, rows) # {}
<1> DEFINE fit == Eligible(line, mpn, rows)
           Cand(r) == [at |-> r.at, quote |-> r.quote, key |-> SortKey(line, p, r.quote)]
           cands == {Cand(r) : r \in fit}
<1>1. PickBest(line, mpn, p, rows) = IF cands = {} THEN {} ELSE {First(cands).quote}
  BY DEF PickBest
<1>2. \A r \in fit : /\ r.at \in DOMAIN rows /\ r.quote = rows[r.at]
                     /\ r = [at |-> r.at, quote |-> rows[r.at]]
                     /\ BasePrice(r.quote, line.qty) # {}
  BY DEF Eligible
<1>3. \A r \in fit : KeyOK(SortKey(line, p, r.quote)) /\ r.at \in Int
  BY <1>2, KeysAreNumbers
<1>4. IsFiniteSet(cands)
  <2> DEFINE f == [i \in {r.at : r \in fit} |-> Cand([at |-> i, quote |-> rows[i]])]
  <2>1. {r.at : r \in fit} \subseteq DOMAIN rows
    BY <1>2
  <2>2. IsFiniteSet({r.at : r \in fit})
    BY <2>1, FS_Subset
  <2>3. f \in Surjection({r.at : r \in fit}, cands)
    BY <1>2 DEF Surjection
  <2> QED BY <2>2, <2>3, FS_Surjection
<1>5. \A c \in cands : KeyOK(c.key) /\ c.at \in Int
  BY <1>3
<1>6. fit # {} => cands # {}
  OBVIOUS
<1>7. CASE cands = {}
  BY <1>1, <1>6, <1>7
<1>8. CASE cands # {}
  <2>1. First(cands) \in cands /\ \A d \in cands : First(cands).key.price <= d.key.price
    <3> HIDE DEF cands
    <3> QED BY <1>4, <1>5, <1>8, FirstIsBest
  <2>2. PICK r \in fit : First(cands) = Cand(r)
    BY <2>1
  <2>3. \A s \in fit : Cand(s) \in cands
    OBVIOUS
  <2>4. \A s \in fit : SortKey(line, p, r.quote).price <= SortKey(line, p, s.quote).price
    <3>1. \A s \in fit : Cand(s).key = SortKey(line, p, s.quote)
      OBVIOUS
    <3> HIDE DEF Cand, cands, fit
    <3> QED BY <2>1, <2>2, <2>3, <3>1
  <2>5. Cand(r).quote = r.quote
    OBVIOUS
  <2>6. PickBest(line, mpn, p, rows) = {r.quote}
    BY <1>1, <1>8, <2>2, <2>5
  <2> HIDE DEF Cand, fit, cands
  <2>7. /\ \A q \in PickBest(line, mpn, p, rows) :
              /\ \E s \in fit : q = s.quote
              /\ \A s \in fit : SortKey(line, p, q).price <= SortKey(line, p, s.quote).price
        /\ PickBest(line, mpn, p, rows) # {}
    BY <2>4, <2>6
  <2> QED BY <2>7 DEF fit
<1> QED BY <1>7, <1>8

\* The candidates: one of each platform, with the key its row has there.
LEMMA CandidatesOf ==
  ASSUME NEW line, NEW mpn \in Mpn, NEW c, RowsOK(c)
  PROVE  /\ IsFiniteSet(Candidates(line, mpn, c))
         /\ \A d \in Candidates(line, mpn, c) : KeyOK(d.key) /\ d.at \in Int
         /\ \A p \in Platform :
               LET items == Items(c[<<mpn, p>>])
               IN  \A r \in Eligible(line, mpn, Merged(items, items)) :
                      /\ SortKey(line, p, r.quote).price \in Int
                      /\ \E d \in Candidates(line, mpn, c) :
                            d.key.price <= SortKey(line, p, r.quote).price
<1> DEFINE items(p) == Items(c[<<mpn, p>>])
           rows(p) == Merged(items(p), items(p))
           best(p) == IF Usable(c[<<mpn, p>>]) THEN PickBest(line, mpn, p, rows(p)) ELSE {}
           Of(p, q) == [at |-> Rank[p], platform |-> p, quote |-> q, key |-> SortKey(line, p, q)]
           On(p) == {Of(p, q) : q \in best(p)}
<1>1. Candidates(line, mpn, c) = UNION {On(p) : p \in Platform}
  BY OneRead DEF AllOffers, Offers
<1>2. ASSUME NEW p \in Platform
      PROVE  /\ IsFiniteSet(DOMAIN rows(p)) /\ DOMAIN rows(p) \subseteq Nat
             /\ \A i \in DOMAIN rows(p) : QuoteOK(rows(p)[i]) /\ Usable(c[<<mpn, p>>])
  <2>1. <<mpn, p>> \in Key
    BY DEF Key
  <2>2. /\ IsFiniteSet(DOMAIN items(p)) /\ DOMAIN items(p) \subseteq Nat
        /\ \A i \in DOMAIN items(p) : QuoteOK(items(p)[i]) /\ Usable(c[<<mpn, p>>])
    BY <2>1 DEF RowsOK
  <2>3. DOMAIN rows(p) = DOMAIN items(p)
    BY DEF Merged
  <2> QED BY <2>2, <2>3, MergedRow
<1>3. ASSUME NEW p \in Platform, NEW q \in best(p)
      PROVE  /\ KeyOK(SortKey(line, p, q))
             /\ \A r \in Eligible(line, mpn, rows(p)) :
                   SortKey(line, p, q).price <= SortKey(line, p, r.quote).price
  <2>1. q \in PickBest(line, mpn, p, rows(p))
    OBVIOUS
  <2>2. PICK r \in Eligible(line, mpn, rows(p)) : q = r.quote
    BY <1>2, <2>1, BestOfPlatform
  <2>3. QuoteOK(q) /\ BasePrice(q, line.qty) # {}
    BY <1>2, <2>2 DEF Eligible
  <2> QED BY <1>2, <2>1, <2>3, KeysAreNumbers, BestOfPlatform
<1>4. ASSUME NEW p \in Platform, NEW r \in Eligible(line, mpn, rows(p))
      PROVE  best(p) # {}
  <2>1. Usable(c[<<mpn, p>>])
    BY <1>2 DEF Eligible
  <2> QED BY <1>2, <2>1, BestOfPlatform
<1>5. ASSUME NEW p \in Platform, NEW r \in Eligible(line, mpn, rows(p))
      PROVE  SortKey(line, p, r.quote).price \in Int
  <2>1. QuoteOK(r.quote) /\ BasePrice(r.quote, line.qty) # {}
    BY <1>2 DEF Eligible
  <2> QED BY <2>1, KeysAreNumbers DEF KeyOK
<1>6. ASSUME NEW p \in Platform
      PROVE  IsFiniteSet(On(p))
  <2>1. best(p) = {} \/ \E q : best(p) = {q}
    BY DEF PickBest
  <2>2. On(p) = {} \/ \E q : On(p) = {Of(p, q)}
    BY <2>1
  <2> QED BY <2>2, FS_EmptySet, FS_Singleton
<1>7. IsFiniteSet(UNION {On(p) : p \in Platform})
  <2> DEFINE f == [p \in Platform |-> On(p)]
             sets == {On(p) : p \in Platform}
  <2>1. f \in Surjection(Platform, sets)
    BY DEF Surjection
  <2>2. IsFiniteSet(sets)
    BY <2>1, FS_Surjection, DecisionsAssumption
  <2>3. \A X \in sets : IsFiniteSet(X)
    BY <1>6
  <2> HIDE DEF sets
  <2>4. IsFiniteSet(UNION sets)
    BY <2>2, <2>3, FS_UNION
  <2> QED BY <2>4 DEF sets
<1>8. \A p \in Platform : \A q : Of(p, q).at \in Int /\ Of(p, q).key = SortKey(line, p, q)
  BY DecisionsAssumption
<1> HIDE DEF Of, rows, best
<1>9. \A d \in UNION {On(p) : p \in Platform} : KeyOK(d.key) /\ d.at \in Int
  BY <1>3, <1>8
<1>10. ASSUME NEW p \in Platform, NEW r \in Eligible(line, mpn, rows(p))
       PROVE  \E d \in UNION {On(s) : s \in Platform} :
                d.key.price <= SortKey(line, p, r.quote).price
  <2>1. PICK q \in best(p) : TRUE
    BY <1>4, <1>10
  <2>2. Of(p, q) \in UNION {On(s) : s \in Platform}
    BY <2>1
  <2> QED BY <1>3, <1>8, <1>10, <2>1, <2>2
<1> QED BY <1>1, <1>5, <1>7, <1>9, <1>10 DEF rows

LEMMA ChosenIsCheapest ==
  ASSUME NEW line, NEW mpn \in Mpn, NEW c, RowsOK(c), Candidates(line, mpn, c) # {}
  PROVE  \A p \in Platform :
            LET items == Items(c[<<mpn, p>>])
            IN  \A r \in Eligible(line, mpn, Merged(items, items)) :
                   First(Candidates(line, mpn, c)).key.price <= SortKey(line, p, r.quote).price
<1> DEFINE all == Candidates(line, mpn, c)
<1>1. /\ IsFiniteSet(all) /\ \A d \in all : KeyOK(d.key) /\ d.at \in Int
  BY CandidatesOf
<1>2. First(all) \in all /\ \A d \in all : First(all).key.price <= d.key.price
  <2> HIDE DEF all
  <2> QED BY <1>1, FirstIsBest DEF all
<1>3. First(all).key.price \in Int /\ \A d \in all : d.key.price \in Int
  BY <1>1, <1>2 DEF KeyOK
<1> SUFFICES ASSUME NEW p \in Platform,
                    NEW r \in Eligible(line, mpn, Merged(Items(c[<<mpn, p>>]), Items(c[<<mpn, p>>])))
             PROVE  First(all).key.price <= SortKey(line, p, r.quote).price
  OBVIOUS
<1>4. PICK d \in all : d.key.price <= SortKey(line, p, r.quote).price
  BY CandidatesOf
<1>5. SortKey(line, p, r.quote).price \in Int
  BY CandidatesOf
<1> QED BY <1>2, <1>3, <1>4, <1>5

\* Whatever entries, currencies and reviews there are, no row that fits the line on
\* any platform is cheaper than the one chosen.
THEOREM Cheapness == Spec => []CheapestChosen
<1>1. ASSUME Types, NEW l \in Line
      PROVE  LET line   == WithSub(l, sub)
                 own    == Candidates(line, line.mpn, cache)
                 mpn    == IF own # {} THEN line.mpn ELSE line.sub
                 chosen == MatchOneLine(line, cache)
             IN  chosen # {} =>
                    \A p \in Platform :
                       LET items == Items(cache[<<mpn, p>>])
                           rows  == Merged(items, items)
                       IN  \A r \in Eligible(line, mpn, rows), c \in chosen :
                              c.key.price <= SortKey(line, p, r.quote).price
  <2> DEFINE line   == WithSub(l, sub)
             own    == Candidates(line, line.mpn, cache)
             mpn    == IF own # {} THEN line.mpn ELSE line.sub
             all    == Candidates(line, mpn, cache)
             chosen == MatchOneLine(line, cache)
  <2>1. SUFFICES ASSUME chosen # {}
                 PROVE  \A p \in Platform :
                          LET items == Items(cache[<<mpn, p>>])
                              rows  == Merged(items, items)
                          IN  \A r \in Eligible(line, mpn, rows), c \in chosen :
                                 c.key.price <= SortKey(line, p, r.quote).price
    OBVIOUS
  <2>2. RowsOK(cache) /\ line.mpn \in Mpn
    BY <1>1, CacheRows, WithSubMpn DEF Types
  <2>3. line.sub = sub[l] /\ sub[l] \in Subs
    BY <1>1, DecisionsAssumption DEF WithSub, LineColumns, Types, TypeOK
  <2>4. all # {} /\ chosen = {First(all)} /\ mpn \in Mpn
    <3>1. CASE own # {}
      BY <2>2, <3>1, MatchedAtOnce
    <3>2. CASE own = {}
      <4>1. HasSubstitute(line)
        BY <2>1, <3>2, MatchedAtOnce
      <4> QED BY <2>1, <2>3, <3>2, <4>1, MatchedAtOnce DEF HasSubstitute, Subs
    <3> QED BY <3>1, <3>2
  <2> HIDE DEF mpn, chosen, line
  <2>5. \A p \in Platform :
           \A r \in Eligible(line, mpn, Merged(Items(cache[<<mpn, p>>]), Items(cache[<<mpn, p>>]))) :
              First(all).key.price <= SortKey(line, p, r.quote).price
    BY <2>2, <2>4, ChosenIsCheapest
  <2> QED BY <2>4, <2>5
<1>2. Types => CheapestChosen
  BY <1>1 DEF CheapestChosen
<1> QED BY <1>2, Invariance, PTL

-----------------------------------------------------------------------------
\* Types of all columns, for any part numbers, platforms and results.
THEOREM TypeCorrectness == Spec => []TypeOK
<1>1. Types => TypeOK
  BY DEF Types
<1> QED BY <1>1, Invariance, PTL
=============================================================================
