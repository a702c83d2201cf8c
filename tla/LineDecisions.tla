---------------------------- MODULE LineDecisions ----------------------------
(***************************************************************************)
(* The decisions a user makes about the lines of one session while quotes  *)
(* keep coming in: line gaps that are opened, filled by a manual quote or  *)
(* given a substitute (service/bom_gap_service.go,                         *)
(* data/bom_line_gap_repo.go), the substitute of a line that is edited     *)
(* (PatchSessionLine), and match runs that are saved                       *)
(* (service/bom_match_run_service.go, data/bom_match_run_repo.go).         *)
(* What is computed from the rows read is LineMatching.                    *)
(*                                                                         *)
(* A handler's step is one read, one statement or one transaction.  The    *)
(* part number, maker, package and quantity of a line do not change here;  *)
(* the items of a cache entry are read together with it, and the loop of   *)
(* UpsertPendingTasks is one step: BomSession has its interleavings.       *)
(***************************************************************************)
EXTENDS LineMatching, SequencesExt

CONSTANTS
    Line,           \* lines of the session
    Mpn,            \* part numbers of lines and substitutes
    Bom,            \* [Line -> what the line asks for]
    Found,          \* [Key -> set of results a crawl may bring]
    Rows,           \* [result -> its rows]
    Shared,         \* bound: keys that other sessions search too
    Handler,        \* handlers in progress
    MaxRequests,    \* bound: requests of users that change something
    MaxStores,      \* bound: results that are stored
    MaxGaps,        \* bound: gaps there may be when they are listed
    MaxAborts       \* bound: handlers that die half-way

ASSUME DecisionsAssumption ==
    /\ MaxRequests \in Nat /\ MaxStores \in Nat
    /\ MaxGaps \in Nat /\ MaxAborts \in Nat
    /\ None \notin Mpn \cup {"pending", "succeeded", "no_result", "failed_terminal", "cancelled"}
    /\ IsFiniteSet(Line)
    /\ \A l \in Line : DOMAIN Bom[l] = LineColumns /\ Bom[l].mpn \in Mpn
    /\ IsFiniteSet(Platform) /\ Rank \in [Platform -> Nat]
    /\ \A r \in UNION {Found[k] : k \in Mpn \X Platform} :
          /\ DOMAIN Rows[r] \subseteq Nat /\ IsFiniteSet(DOMAIN Rows[r])
          /\ \A i \in DOMAIN Rows[r] : QuoteOK(Rows[r][i])

Key == Mpn \X Platform

VARIABLES
    sub,        \* [Line -> t_bom_session_line.substitute_mpn, None if empty]
    task,       \* [Key -> state of the session's search task, None if there is none]
    pool,       \* [Key -> result in t_bom_quote_cache of the day, None if there is none]
    manual,     \* [Mpn -> line of the part's entry for the platform "manual", as a set]
    marked,     \* the status of the session is data_ready
    gap,        \* t_bom_line_gap, by id
    run,        \* t_bom_match_run with its items, by id
    h,          \* [Handler -> record of what it does and has read]
    requests, stores, aborts

vars == <<sub, task, pool, manual, marked, gap, run, h, requests, stores, aborts>>

TaskStates  == {None, "pending", "succeeded", "no_result", "failed_terminal", "cancelled"}
GapTypes    == {"NO_DATA", "COLLECTION_UNAVAILABLE", "NO_MATCH_AFTER_FILTER"}
GapStatuses == {"open", "manual_quote_added", "substitute_selected"}
Sources     == {"unresolved", "substitute_match", "auto_match"}
Subs        == Mpn \cup {None}
Gap == [line : Line, type : GapTypes, status : GapStatuses, sub : Subs]

\* A saved run; "done", "overlap" and "excuse" are history: its save has run the
\* update of the runs before it, began while another had not, and the lines it
\* may leave unresolved, see SavedComplete.
Run == [status : {"saved", "superseded"}, source : [Line -> Sources],
        done : BOOLEAN, overlap : BOOLEAN, excuse : SUBSET Line]

\* Next step; gap, substitute, line and part worked on; what was read: lines with
\* a task, gaps to open, substitutes, mark, tasks; what was computed.
Idle == [pc |-> "idle", gap |-> 0, mpn |-> None, line |-> {}, asked |-> {}, keys |-> {},
         subs |-> <<>>, marked |-> FALSE, tasks |-> <<>>,
         excuse |-> {}, matched |-> {}, source |-> <<>>, run |-> 0]

\* A session whose import has just ended.
Init ==
    /\ sub    = [l \in Line |-> None]
    /\ task   = [k \in Key |-> IF \E l \in Line : Bom[l].mpn = k[1] THEN "pending" ELSE None]
    /\ pool   = [k \in Key |-> None]
    /\ manual = [m \in Mpn |-> {}]
    /\ marked = FALSE
    /\ gap    = <<>>
    /\ run    = <<>>
    /\ h      = [p \in Handler |-> Idle]
    /\ requests = 0 /\ stores = 0 /\ aborts = 0

At(p, pc)      == h[p].pc = pc
Become(p, rec) == h' = [h EXCEPT ![p] = rec]
Goto(p, pc)    == h' = [h EXCEPT ![p].pc = pc]
Done(p)        == Become(p, Idle)

Ask(p) ==
    /\ At(p, "idle")
    /\ requests < MaxRequests /\ requests' = requests + 1
    /\ UNCHANGED <<stores, aborts>>

\* A handler's own step: no new request.
Step(p, pc) == At(p, pc) /\ UNCHANGED <<requests, stores, aborts>>

session == <<sub, marked>>
market  == <<pool, manual>>

\* A line as it was read, with its substitute.
WithSub(l, subs) == [Bom[l] EXCEPT !.sub = subs[l]]

-----------------------------------------------------------------------------
(* Results *)

\* A row with the review that upsertQuoteCache gives it when it is stored.
Reviewed(q) ==
    LET canon == IF q.mfr = None THEN None ELSE Alias[q.mfr]
    IN  [q EXCEPT !.canon = canon, !.review = IF canon # None THEN "accepted" ELSE "pending"]

\* The entry and its items for each result.
Results == UNION {Found[k] : k \in Key}
Entry ==
    [r \in Results \cup {"none", None} |->
        CASE r = None   -> None
          [] r = "none" -> [outcome |-> "no_mpn_match", quotes |-> <<>>]
          [] OTHER      -> [outcome |-> "ok",
                            quotes |-> [i \in DOMAIN Rows[r] |-> Reviewed(Rows[r][i])]]]
cache == [k \in Key |-> Entry[pool[k]]]

\* The entry of the key is replaced; lines judged before may come to nothing.
Put(k, r) ==
    /\ pool' = [pool EXCEPT ![k] = r]
    /\ h'    = [p \in Handler |-> [h[p] EXCEPT !.excuse =
                                     IF At(p, "ready") \/ At(p, "match") THEN Line ELSE @]]

\* FinalizeSearchTask for a task of the session (a late result revives a
\* cancelled one): the state and, unless the search failed, the entry.
Crawled(k) ==
    /\ stores < MaxStores /\ stores' = stores + 1
    /\ task[k] \in {"pending", "cancelled"}
    /\ \/ /\ task' = [task EXCEPT ![k] = "succeeded"]
          /\ \E r \in Found[k] : Put(k, r)
       \/ /\ task' = [task EXCEPT ![k] = "no_result"]
          /\ Put(k, "none")
       \/ /\ task' = [task EXCEPT ![k] = "failed_terminal"]
          /\ UNCHANGED <<pool, h>>
    /\ UNCHANGED <<session, manual, gap, run, requests, aborts>>

\* The same for a task of another session on the same day: the entry is shared.
CrawledForOthers(k) ==
    /\ stores < MaxStores /\ stores' = stores + 1
    /\ k \in Shared
    /\ \E r \in Found[k] \cup {"none"} : Put(k, r)
    /\ UNCHANGED <<session, task, manual, gap, run, requests, aborts>>

\* TryMarkSessionDataReady; nothing takes the mark away when tasks are asked again.
Marked ==
    /\ \A l \in Line, p \in Platform : task[<<Bom[l].mpn, p>>] \in Terminal
    /\ marked' = TRUE
    /\ UNCHANGED <<sub, task, market, gap, run, h, requests, stores, aborts>>

-----------------------------------------------------------------------------
(* Gaps *)

\* ListLineGaps, which is not counted as a request: syncLineGaps reads the tasks ...
ListGaps(p) ==
    /\ Step(p, "idle") /\ Len(gap) < MaxGaps
    /\ Become(p, [Idle EXCEPT !.pc = "sync",
           !.asked = {l \in Line : \E q \in Platform : task[<<Bom[l].mpn, q>>] # None}])
    /\ UNCHANGED <<session, task, market, gap, run>>

\* ... the cache entries, from which it computes the gaps ...
FindGaps(p) ==
    /\ Step(p, "sync")
    /\ Become(p, [Idle EXCEPT !.pc = "open",
           !.keys = UNION {{l} \X GapOf(Bom[l], l \in h[p].asked, cache) : l \in Line}])
    /\ UNCHANGED <<session, task, market, gap, run>>

OpenKeys == {<<gap[g].line, gap[g].type>> : g \in {g \in DOMAIN gap : gap[g].status = "open"}}

\* ... and UpsertOpenGaps: a gap open under the same active key is kept.
OpenGaps(p) ==
    /\ Step(p, "open")
    /\ gap' = gap \o SetToSeq({[line |-> k[1], type |-> k[2], status |-> "open", sub |-> None] :
                                   k \in h[p].keys \ OpenKeys})
    /\ Done(p)
    /\ UNCHANGED <<session, task, market, run>>

\* Mutants of Close: the update does not ask for an open gap; nor for another
\* closed one, and the gap leaves for a status of the design that nothing writes.
CloseAny(g, status, substitute) ==
    gap' = [gap EXCEPT ![g].status = status, ![g].sub = substitute]
CloseResolved(g, status, substitute) ==
    gap' = [gap EXCEPT ![g].status = "resolved"]

\* UpdateLineGapStatus, SelectLineGapSubstitute: only an open gap is updated.  Its
\* active key becomes empty, and the index on that column is unique: the update
\* fails when there is another gap with an empty key, of whatever session.
Close(g, status, substitute) ==
    gap' = IF gap[g].status = "open" /\ \A i \in DOMAIN gap : gap[i].status = "open"
           THEN [gap EXCEPT ![g].status = status, ![g].sub = substitute] ELSE gap

\* ResolveLineGapManualQuote: UpsertManualQuote writes the entry of the part for
\* the platform "manual", whose items hang on the line of the gap ...
Resolve(p, g) ==
    /\ Ask(p)
    /\ manual' = [manual EXCEPT ![Bom[gap[g].line].mpn] = {gap[g].line}]
    /\ Become(p, [Idle EXCEPT !.pc = "close", !.gap = g])
    /\ UNCHANGED <<session, task, pool, gap, run>>

\* ... and the gap is closed, whatever its status was when the request came.
CloseManual(p) ==
    /\ Step(p, "close")
    /\ Close(h[p].gap, "manual_quote_added", gap[h[p].gap].sub)
    /\ Done(p)
    /\ UNCHANGED <<session, task, market, run>>

\* SelectLineGapSubstitute looks for an open gap ...
Substitute(p, g, m) ==
    /\ Ask(p) /\ gap[g].status = "open"
    /\ Become(p, [Idle EXCEPT !.pc = "askSub", !.gap = g, !.mpn = m])
    /\ UNCHANGED <<session, task, market, gap, run>>

\* UpsertPendingTasks: rows of whatever state are pending again.
Asked(keys) == [k \in Key |-> IF k \in keys THEN "pending" ELSE task[k]]

\* Mutant of AskSubstitute: the tasks are left for later.
AskNothing(p) ==
    /\ Step(p, "askSub")
    /\ Goto(p, "closeSub")
    /\ UNCHANGED <<session, task, market, gap, run>>

\* ... asks for the tasks of the substitute on the session's platforms ...
AskSubstitute(p) ==
    /\ Step(p, "askSub")
    /\ task' = Asked({h[p].mpn} \X Platform)
    /\ Goto(p, "closeSub")
    /\ UNCHANGED <<session, market, gap, run>>

\* ... and closes the gap; the line itself does not get the substitute.
CloseSubstitute(p) ==
    /\ Step(p, "closeSub")
    /\ Close(h[p].gap, "substitute_selected", h[p].mpn)
    /\ Done(p)
    /\ UNCHANGED <<session, task, market, run>>

-----------------------------------------------------------------------------
(* The substitute of a line: PatchSessionLine *)

Patch(p, l, m) ==
    /\ Ask(p) /\ sub[l] # m
    /\ sub' = [sub EXCEPT ![l] = m]
    /\ Become(p, [Idle EXCEPT !.pc = "cancelSub", !.line = {l}, !.mpn = sub[l]])
    /\ UNCHANGED <<marked, task, market, gap, run>>

\* The tasks of the old substitute are cancelled, whoever else needs them ...
CancelOldSub(p) ==
    /\ Step(p, "cancelSub")
    /\ task' = [k \in Key |-> IF k[1] = h[p].mpn /\ task[k] # None THEN "cancelled" ELSE task[k]]
    /\ \E l \in h[p].line :
          Become(p, [h[p] EXCEPT !.pc = "askNew", !.keys = ({Bom[l].mpn, sub[l]} \ {None}) \X Platform])
    /\ UNCHANGED <<session, market, gap, run>>

\* ... and those of the part and of the new substitute are asked for.
AskNewSub(p) ==
    /\ Step(p, "askNew")
    /\ task' = Asked(h[p].keys)
    /\ Done(p)
    /\ UNCHANGED <<session, market, gap, run>>

-----------------------------------------------------------------------------
(* SaveMatchRun *)

\* The session and its lines are loaded ...
Save(p) ==
    /\ Ask(p)
    /\ Become(p, [Idle EXCEPT !.pc = "tasks", !.subs = sub, !.marked = marked])
    /\ UNCHANGED <<session, task, market, gap, run>>

\* ... computeLineAvailability reads the tasks ...
ReadTasks(p) ==
    /\ Step(p, "tasks")
    /\ Become(p, [h[p] EXCEPT !.pc = "judge", !.tasks = task])
    /\ UNCHANGED <<session, task, market, gap, run>>

Lines(p) == {WithSub(l, h[p].subs) : l \in Line}

\* Reading the items of a line that has a manual quote fails: the statement asks
\* t_bom_quote_cache for a column "stock" it does not have.
HasManual(l) == l \in manual[Bom[l].mpn]

AvailabilityFails(p) ==
    \E l \in Line, q \in Platform :
        HasManual(l) /\ PlatformFact(Bom[l], q, h[p].tasks[<<Bom[l].mpn, q>>], cache).raw

\* A row of the substitute among the rows found for the part makes the line ready,
\* but is not among those it is matched with.
Foreign(line) ==
    HasSubstitute(line) /\ \E p \in Platform :
        \E i \in DOMAIN Items(cache[<<line.mpn, p>>]) : Items(cache[<<line.mpn, p>>])[i].model = line.sub

Collecting(l, p) == Availability(WithSub(l, h[p].subs), h[p].tasks, cache) = "collecting"

\* ... the cache entries and their items, and gives the verdict on the lines ...
Judge(p) ==
    /\ Step(p, "judge")
    /\ IF AvailabilityFails(p) \/ ~NoStrictGap(Lines(p), h[p].tasks, cache) THEN Done(p)
       ELSE Become(p, [h[p] EXCEPT !.pc = "ready", !.tasks = <<>>,
                !.excuse = {l \in Line : \/ Collecting(l, p)
                                         \/ Foreign(WithSub(l, h[p].subs))}])
    /\ UNCHANGED <<session, task, market, gap, run>>

\* ... matchReadinessError reads the tasks again ...
CheckTasks(p) ==
    /\ Step(p, "ready")
    /\ IF MayMatch(Lines(p), task, h[p].marked) THEN Goto(p, "match") ELSE Done(p)
    /\ UNCHANGED <<session, task, market, gap, run>>

MatchFails(p) ==
    \E l \in Line, q \in Platform :
        LET line == WithSub(l, h[p].subs)
            mpns == {line.mpn} \cup (IF HasSubstitute(line) THEN {line.sub} ELSE {})
        IN  HasManual(l) /\ \E m \in mpns : Usable(cache[<<m, q>>])

\* ... computeMatchItems reads the cache again and matches each line ...
Match(p) ==
    /\ Step(p, "match")
    /\ IF MatchFails(p) THEN Done(p)
       ELSE Become(p, [Idle EXCEPT !.pc = "sources", !.excuse = h[p].excuse,
                !.matched = {l \in Line : MatchOneLine(WithSub(l, h[p].subs), cache) # {}}])
    /\ UNCHANGED <<session, task, market, gap, run>>

\* The substitute of the last gap listed for the line.
GapSubstitute(l) ==
    LET ids == {g \in DOMAIN gap : gap[g].line = l}
    IN  IF ids = {} THEN None ELSE gap[Max(ids)].sub

\* ... the gaps, which say where each result comes from ...
ReadGaps(p) ==
    /\ Step(p, "sources")
    /\ Become(p, [Idle EXCEPT !.pc = "create", !.excuse = h[p].excuse,
           !.source = [l \in Line |-> SourceOf(IF l \in h[p].matched THEN {l} ELSE {},
                                               GapSubstitute(l))]])
    /\ UNCHANGED <<session, task, market, gap, run>>

\* ... CreateMatchRun ...
CreateRun(p) ==
    /\ Step(p, "create")
    /\ run' = Append(run, [status |-> "saved", source |-> h[p].source, done |-> FALSE,
                           overlap |-> \E r \in DOMAIN run : ~run[r].done,
                           excuse  |-> h[p].excuse])
    /\ Become(p, [Idle EXCEPT !.pc = "supersede", !.run = Len(run) + 1])
    /\ UNCHANGED <<session, task, market, gap>>

\* Mutant of Superseded: the new run is not left out.
SupersededAll(r, keep) == r \in 1 .. keep

\* The runs SupersedePreviousRuns updates: all saved ones but the new one.
Superseded(r, keep) == r # keep

\* ... and the runs before it are superseded; an error of that is ignored.
Supersede(p) ==
    /\ Step(p, "supersede")
    /\ run' = [r \in DOMAIN run |->
                  [run[r] EXCEPT !.status = IF Superseded(r, h[p].run) THEN "superseded" ELSE @,
                                 !.done   = @ \/ r = h[p].run]]
    /\ Done(p)
    /\ UNCHANGED <<session, task, market, gap>>

\* A statement of a handler fails, or its process dies, after its first write; one
\* that dies before is a request that was not made.
Written == {"close", "closeSub", "cancelSub", "askNew", "supersede"}
Abort(p) ==
    /\ h[p].pc \in Written /\ aborts < MaxAborts
    /\ aborts' = aborts + 1
    /\ Done(p)
    /\ UNCHANGED <<session, task, market, gap, run, requests, stores>>

-----------------------------------------------------------------------------
NewRequest(p) ==
    \/ ListGaps(p) \/ Save(p)
    \/ \E g \in DOMAIN gap : Resolve(p, g) \/ \E m \in Mpn : Substitute(p, g, m)
    \/ \E l \in Line, m \in Subs : Patch(p, l, m)

GapStep(p) ==
    \/ FindGaps(p) \/ OpenGaps(p) \/ CloseManual(p)
    \/ AskSubstitute(p) \/ CloseSubstitute(p) \/ CancelOldSub(p) \/ AskNewSub(p)

SaveStep(p) ==
    \/ ReadTasks(p) \/ Judge(p) \/ CheckTasks(p) \/ Match(p)
    \/ ReadGaps(p) \/ CreateRun(p) \/ Supersede(p)

Next ==
    \/ \E p \in Handler : NewRequest(p) \/ GapStep(p) \/ SaveStep(p) \/ Abort(p)
    \/ \E k \in Key : Crawled(k) \/ CrawledForOthers(k)
    \/ Marked

Spec == Init /\ [][Next]_vars

-----------------------------------------------------------------------------
(* Properties *)

\* Columns hold values of their types.
TypeOK ==
    /\ sub    \in [Line -> Subs]
    /\ task   \in [Key -> TaskStates]
    /\ manual \in [Mpn -> SUBSET Line]
    /\ pool   \in [Key -> Results \cup {"none", None}]
    /\ marked \in BOOLEAN
    /\ gap    \in Seq(Gap)
    /\ run    \in Seq(Run)

\* The next two are about what is computed from the rows as they are.  Gaps and runs
\* are not among these rows: they are evaluated where there are none, and no request
\* is under way.
Quiet == gap = <<>> /\ run = <<>> /\ \A p \in Handler : At(p, "idle")

\* The verdict users see and the matching are computed by different code from
\* different rows: a line that is called ready does get a quote, unless it is a
\* row of its substitute, found under the part's own number, that made it ready.
ReadyIsMatched ==
    Quiet => \A l \in Line : LET line == WithSub(l, sub) IN
        (Availability(line, task, cache) = "ready" /\ ~Foreign(line)) =>
            MatchOneLine(line, cache) # {}

\* The quote a line gets is as cheap, in the base currency, as any that fits it on
\* any platform, though platforms are compared by their best rows only.
CheapestChosen ==
    Quiet => \A l \in Line :
        LET line   == WithSub(l, sub)
            own    == Candidates(line, line.mpn, cache)
            mpn    == IF own # {} THEN line.mpn ELSE line.sub
            chosen == MatchOneLine(line, cache)
        IN  chosen # {} =>
                \A p \in Platform :
                    LET items == Items(cache[<<mpn, p>>])
                        rows  == Merged(items, items)
                    IN  \A r \in Eligible(line, mpn, rows), c \in chosen :
                            c.key.price <= SortKey(line, p, r.quote).price

\* Once a gap is closed nothing changes it, whichever requests are under way for it.
ClosedIsFinal ==
    [][\A g \in DOMAIN gap : gap[g].status # "open" => gap'[g] = gap[g]]_vars

\* A gap is not closed before what closes it is there: the manual quote, or the
\* search tasks of the substitute, on every platform.
ClosedIsBacked ==
    \A g \in DOMAIN gap :
        /\ gap[g].status = "manual_quote_added" => manual[Bom[gap[g].line].mpn] # {}
        /\ gap[g].status = "substitute_selected" =>
               \A p \in Platform : task[<<gap[g].sub, p>>] # None

\* A run whose save has finished is the only saved one among those up to it; the
\* newest one is saved, unless another save was not finished when it was created
\* (two that overlap supersede each other and leave none).
CurrentRun ==
    /\ \A r, s \in DOMAIN run : (r < s /\ run[s].done) => run[r].status = "superseded"
    /\ \A r \in DOMAIN run : (r = Len(run) /\ ~run[r].overlap) => run[r].status = "saved"

\* A saved run has no unresolved line, although it is judged on one read of the
\* rows and computed from another: unless an entry changed in between, the line
\* was being collected in a session marked ready before, or Foreign holds of it.
SavedComplete ==
    \A r \in DOMAIN run : \A l \in Line :
        run[r].source[l] = "unresolved" => l \in run[r].excuse
=============================================================================
