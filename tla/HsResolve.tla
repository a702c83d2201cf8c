------------------------------ MODULE HsResolve ------------------------------
(***************************************************************************)
(* Finding the customs code (HS) of one model of one maker: the requests   *)
(* that resolve it (service/hs_resolve_service.go,                         *)
(* biz/hs_model_resolver.go), the manual datasheets they may use           *)
(* (biz/hs_model_resolver_manual_datasheet.go) and the confirmation of a   *)
(* candidate by a person (biz/hs_model_confirm.go), over the tables        *)
(* t_hs_model_task, t_hs_model_recommendation, t_hs_model_mapping and      *)
(* t_hs_manual_datasheet_upload.                                           *)
(*                                                                         *)
(* A handler's step is one read or one write of a table.  Downloading,     *)
(* extracting and recommending bring a result or an error and touch no     *)
(* table that is modelled: each is one step with the row it saves first.   *)
(* The stage, attempt and error columns are written and never read, so     *)
(* the rows do not have them.                                              *)
(***************************************************************************)
EXTENDS Naturals, Sequences, FiniteSets

CONSTANTS
    None,           \* absent value
    Code,           \* customs codes
    Trace,          \* request_trace_id
    Batch,          \* traces of lines of a batch request
    Upload,         \* manual_upload_id
    Asks,           \* resolve requests that clients make
    Request,        \* confirm_request_id
    Found,          \* candidate lists a recommendation may bring, best first
    Handler,        \* requests in progress
    MaxStageRetries,\* r.maxStageRetries
    MaxRequests,    \* bound: requests
    MaxFaults       \* bound: failing statements, cancelled calls, restarts, purges

Candidate == [code : Code, high : BOOLEAN]   \* high: score >= autoConfirmThreshold

Uploads == Upload \cup {None}

ASSUME HsAssumption ==
    /\ MaxStageRetries \in Nat /\ MaxRequests \in Nat /\ MaxFaults \in Nat
    /\ Batch \subseteq Trace
    /\ None \notin Upload
    /\ Asks \subseteq [trace : Trace, upload : Uploads, forced : BOOLEAN]
    /\ \A a \in Asks : a.trace \in Batch => a.upload = None /\ ~a.forced
    /\ Found \subseteq Seq(Candidate) /\ <<>> \notin Found

VARIABLES
    task,       \* [RunId -> row of t_hs_model_task, None if there is none]
    latest,     \* the row with the latest updated_at, None if there is none
    ofTrace,    \* [Trace -> the one of its rows with the latest updated_at, None]
    reco,       \* [RunId -> rows of t_hs_model_recommendation, by rank]
    mapping,    \* the row of t_hs_model_mapping, None if there is none
    upload,     \* [Upload -> state of its row]
    assets,     \* uploads that are rows of t_hs_datasheet_asset
    seen,       \* taskMap of the service: [RunId -> copy of a task, None]
    kept,       \* confirmations in memory: [Request -> run confirmed, None]
    h,          \* [Handler -> record of what it does and has read]
    lost,       \* history: runs whose last save failed or whose handler died
    requests, faults

tables == <<task, latest, ofTrace, reco, mapping, upload, assets>>
memory == <<seen, kept>>
vars == <<task, latest, ofTrace, reco, mapping, upload, assets, seen, kept, h, lost, requests, faults>>

\* makeRunID: the trace, what manual datasheet comes with it, and the instant of
\* a forced refresh.
MakeRunID(a, n) == [trace |-> a.trace, upload |-> a.upload, refresh |-> IF a.forced THEN n ELSE 0]
RunId == {MakeRunID(a, n) : a \in Asks, n \in 1 .. MaxRequests}

Codes    == Code \cup {None}
TaskRow  == [status : {"running", "success", "failed"},
             result : {"pending_review", "confirmed", "rejected"}, code : Codes]
Mapping  == [code : Code, status : {"pending_review", "confirmed"}, source : {"llm_auto", "manual"}]
Pending  == [status |-> "running", result |-> "pending_review", code |-> None]
Rejected(code) == [status |-> "failed", result |-> "rejected", code |-> code]
Success(result, code) == [status |-> "success", result |-> result, code |-> code]

\* Next step; run, request id and row in memory; attempts; candidates found;
\* history: its upload was consumed by another since it was read.
Idle == [pc |-> "idle", run |-> None, ask |-> None, row |-> None, attempt |-> 0, cands |-> <<>>,
         late |-> FALSE]

Init ==
    /\ task    = [r \in RunId |-> None]
    /\ latest  = None
    /\ ofTrace = [t \in Trace |-> None]
    /\ reco    = [r \in RunId |-> <<>>]
    /\ mapping = None
    /\ upload  = [u \in Upload |-> "staged"]
    /\ assets  = {}
    /\ seen    = [r \in RunId |-> None]
    /\ kept    = [i \in Request |-> None]
    /\ h       = [p \in Handler |-> Idle]
    /\ lost    = {}
    /\ requests = 0 /\ faults = 0

At(p, pc)      == h[p].pc = pc
Become(p, rec) == h' = [h EXCEPT ![p] = rec]
Goto(p, pc)    == Become(p, [h[p] EXCEPT !.pc = pc])
Done(p)        == Become(p, Idle)

Ask(p) ==
    /\ At(p, "idle")
    /\ requests < MaxRequests /\ requests' = requests + 1
    /\ UNCHANGED <<tables, memory, lost, faults>>

\* A step without a fault, and one whose statement fails.
Step(p, pc)  == At(p, pc) /\ UNCHANGED <<lost, requests, faults>>
Fault(p, pc) == At(p, pc) /\ faults < MaxFaults /\ faults' = faults + 1 /\ UNCHANGED <<tables, requests>>

\* Pcs of a resolver after GetConfirmedByModelManufacturer, and those at which
\* its row is saved.
Working == {"datasheet", "upload", "asset", "mark", "extract", "recommend", "audit", "map",
            "finish", "fail"}

\* taskRepo.Save: the whole row, which becomes the latest one.  The handler goes
\* on as rec.
SaveTask(p, r, row, rec) ==
    /\ task'    = [task EXCEPT ![r] = row]
    /\ latest'  = r
    /\ ofTrace' = [ofTrace EXCEPT ![r.trace] = r]
    /\ Become(p, rec)

\* mappingRepo.Save: the row of the model and maker is replaced whatever it says.
SaveMapping(p, m, rec) == mapping' = m /\ Become(p, rec)

\* setTask: the service remembers the task it was given, under the id of the
\* request and under that of the task; a batch request remembers nothing.  It
\* follows the last save of a run at once.
Tell(run, row) ==
    /\ seen' = IF run.trace \in Batch THEN seen
               ELSE [seen EXCEPT ![run] = row, ![row.run] = row]
    /\ UNCHANGED kept

\* The copy of another request's run comes later than it was read.
TellOther(p) ==
    /\ Step(p, "answer")
    /\ Tell(h[p].run, h[p].row)
    /\ Done(p)
    /\ UNCHANGED tables

-----------------------------------------------------------------------------
(* Resolving *)

\* ResolveByModel and a line of BatchResolveByModels: the run id is fixed.  An
\* earlier run of the trace answers the request in whatever state it is, unless
\* a refresh is forced.
ResolveByModel(p, a) ==
    LET run == MakeRunID(a, requests + 1)
        r   == ofTrace[a.trace]
    IN  /\ Ask(p)
        /\ IF a.forced \/ r = None
           THEN Become(p, [Idle EXCEPT !.pc = "mapped", !.run = run])
           ELSE Become(p, [Idle EXCEPT !.pc = "answer", !.run = run,
                             !.row = [run |-> r, task |-> task[r]]])

IsConfirmed == mapping # None /\ mapping.status = "confirmed"

\* GetConfirmedByModelManufacturer.
Mapped(p) ==
    /\ Step(p, "mapped")
    /\ IF IsConfirmed
       THEN Become(p, [h[p] EXCEPT !.pc = "fast",
                         !.row = [run |-> h[p].run, task |-> Success("confirmed", mapping.code)]])
       ELSE Goto(p, "open")
    /\ UNCHANGED <<tables, memory>>

\* A confirmed mapping makes a run that is done, or the run begins; an error of
\* the save ends the request and leaves no row.
FastPath(p) ==
    /\ Step(p, "fast")
    /\ SaveTask(p, h[p].run, h[p].row.task, Idle)
    /\ Tell(h[p].run, h[p].row)
    /\ UNCHANGED <<reco, mapping, upload, assets>>

OpenRun(p) ==
    /\ Step(p, "open")
    /\ SaveTask(p, h[p].run, Pending, [h[p] EXCEPT !.pc = "datasheet", !.attempt = 1])
    /\ UNCHANGED <<reco, mapping, upload, assets, memory>>

BeginFails(p) ==
    /\ \E pc \in {"fast", "open"} : Fault(p, pc)
    /\ Done(p)
    /\ UNCHANGED <<memory, lost>>

\* The run has failed: the row that says so has the best code once the
\* candidates are kept.
Failing(p, code) ==
    [h[p] EXCEPT !.pc = "fail", !.cands = <<>>, !.row = [run |-> h[p].run, task |-> Rejected(code)]]

\* The next attempt of a stage, or the end of its retries.
Retry(p, pc) ==
    IF h[p].attempt <= MaxStageRetries
    THEN [h[p] EXCEPT !.pc = pc, !.attempt = @ + 1]
    ELSE Failing(p, None)

\* retryStage: each attempt saves the row first.  The datasheet is downloaded or,
\* if that fails, the manual one is tried.
Datasheet(p) ==
    /\ Step(p, "datasheet")
    /\ \E rec \in {[h[p] EXCEPT !.pc = "extract", !.attempt = 1],
                   IF h[p].run.upload # None THEN [h[p] EXCEPT !.pc = "upload"]
                   ELSE Retry(p, "datasheet")} :
         SaveTask(p, h[p].run, Pending, rec)
    /\ UNCHANGED <<reco, mapping, upload, assets, memory>>

\* No technical category, or features that are not saved, end the run at once.
Extract(p) ==
    /\ Step(p, "extract")
    /\ \E rec \in {[h[p] EXCEPT !.pc = "recommend", !.attempt = 1], Retry(p, "extract"),
                   Failing(p, None)} :
         SaveTask(p, h[p].run, Pending, rec)
    /\ UNCHANGED <<reco, mapping, upload, assets, memory>>

Recommend(p) ==
    /\ Step(p, "recommend")
    /\ \E rec \in {[h[p] EXCEPT !.pc = "audit", !.cands = c] : c \in Found} \cup {Retry(p, "recommend")} :
         SaveTask(p, h[p].run, Pending, rec)
    /\ UNCHANGED <<reco, mapping, upload, assets, memory>>

\* An attempt whose row cannot be saved ends the run as it stands.
AttemptFails(p) ==
    /\ \E pc \in {"datasheet", "extract", "recommend"} : Fault(p, pc)
    /\ Done(p)
    /\ Tell(h[p].run, [run |-> h[p].run, task |-> Pending])
    /\ lost' = lost \cup {h[p].run}

-----------------------------------------------------------------------------
(* The manual datasheet *)

\* Mutant of ReadUpload: a consumed upload is taken again.
ReadUploadAgain(p) ==
    /\ Step(p, "upload")
    /\ Become(p, IF upload[h[p].run.upload] # "gone"
                 THEN [h[p] EXCEPT !.pc = "asset", !.late = FALSE] ELSE Retry(p, "datasheet"))
    /\ UNCHANGED <<tables, memory>>

\* consumeManualUpload: the row must be there, not consumed and not expired.
ReadUpload(p) ==
    /\ Step(p, "upload")
    /\ Become(p, IF upload[h[p].run.upload] = "staged"
                 THEN [h[p] EXCEPT !.pc = "asset", !.late = FALSE] ELSE Retry(p, "datasheet"))
    /\ UNCHANGED <<tables, memory>>

\* The staged file is read and copied, and the asset saved; the file may have
\* been purged with its row.
SaveAsset(p) ==
    /\ Step(p, "asset")
    /\ IF upload[h[p].run.upload] = "gone"
       THEN Become(p, Retry(p, "datasheet")) /\ UNCHANGED assets
       ELSE Goto(p, "mark") /\ assets' = assets \cup {h[p].run.upload}
    /\ UNCHANGED <<task, latest, ofTrace, reco, mapping, upload, memory>>

\* MarkConsumed: by upload_id alone; no row is an error.
MarkConsumed(p) ==
    LET u == h[p].run.upload
    IN  /\ Step(p, "mark")
        /\ IF upload[u] = "gone"
           THEN Become(p, Retry(p, "datasheet")) /\ UNCHANGED upload
           ELSE /\ upload' = [upload EXCEPT ![u] = "consumed"]
                /\ h' = [q \in Handler |->
                           IF q = p THEN [h[p] EXCEPT !.pc = "extract", !.attempt = 1,
                                                      !.late = FALSE]
                           ELSE [h[q] EXCEPT !.late =
                                   @ \/ (h[q].pc \in {"asset", "mark"} /\ h[q].run.upload = u)]]
        /\ UNCHANGED <<task, latest, ofTrace, reco, mapping, assets, memory>>

UploadFails(p) ==
    /\ \E pc \in {"upload", "asset", "mark"} : Fault(p, pc)
    /\ Become(p, Retry(p, "datasheet"))
    /\ UNCHANGED <<memory, lost>>

\* DeleteExpiredBefore, by the janitor: consumed or not, with its staged file.
Purge(u) ==
    /\ upload[u] # "gone"
    /\ faults < MaxFaults /\ faults' = faults + 1
    /\ upload' = [upload EXCEPT ![u] = "gone"]
    /\ UNCHANGED <<task, latest, ofTrace, reco, mapping, assets, memory, h, lost, requests>>

-----------------------------------------------------------------------------
(* The result *)

\* Rank by rank: a row that is there must be equal.
Agrees(old, new) == \A i \in DOMAIN old \cap DOMAIN new : old[i] = new[i]
Merged(old, new) == old \o SubSeq(new, Len(old) + 1, Len(new))

\* Mutant of SaveTopN: a rank that is taken is passed over.
SaveTopNAnyway(p) ==
    /\ Step(p, "audit")
    /\ reco' = [reco EXCEPT ![h[p].run] = Merged(@, h[p].cands)]
    /\ Goto(p, "map")
    /\ UNCHANGED <<task, latest, ofTrace, mapping, upload, assets, memory>>

\* The candidates are kept for the run, in one transaction; another list that a
\* twin of the run has saved is a conflict.
SaveTopN(p) ==
    /\ Step(p, "audit")
    /\ IF Agrees(reco[h[p].run], h[p].cands)
       THEN /\ reco' = [reco EXCEPT ![h[p].run] = Merged(@, h[p].cands)]
            /\ Goto(p, "map")
       ELSE Become(p, Failing(p, None)) /\ UNCHANGED reco
    /\ UNCHANGED <<task, latest, ofTrace, mapping, upload, assets, memory>>

\* The best candidate decides: confirmed at once, or to be reviewed.
Verdict(c) == IF c.high THEN "confirmed" ELSE "pending_review"

MapBest(p) ==
    LET best == h[p].cands[1]
    IN  /\ Step(p, "map")
        /\ SaveMapping(p, [code |-> best.code, status |-> Verdict(best), source |-> "llm_auto"],
                       [h[p] EXCEPT !.pc = "finish", !.cands = <<>>,
                          !.row = [run |-> h[p].run, task |-> Success(Verdict(best), best.code)]])
        /\ UNCHANGED <<task, latest, ofTrace, reco, upload, assets, memory>>

AuditFails(p) ==
    /\ Fault(p, "audit")
    /\ Become(p, Failing(p, None))
    /\ UNCHANGED <<memory, lost>>

\* The row keeps the code that could not be mapped.
MapFails(p) ==
    /\ Fault(p, "map")
    /\ Become(p, Failing(p, h[p].cands[1].code))
    /\ UNCHANGED <<memory, lost>>

Finish(p) ==
    /\ Step(p, "finish")
    /\ SaveTask(p, h[p].run, h[p].row.task, Idle)
    /\ Tell(h[p].run, h[p].row)
    /\ UNCHANGED <<reco, mapping, upload, assets>>

\* No task is returned, so nothing is told.
FinishFails(p) ==
    /\ Fault(p, "finish")
    /\ Done(p)
    /\ lost' = lost \cup {h[p].run}
    /\ UNCHANGED memory

\* Mutant of FailRun: the run ends without saving so.
FailSilently(p) ==
    /\ Step(p, "fail")
    /\ Done(p)
    /\ Tell(h[p].run, h[p].row)
    /\ UNCHANGED tables

\* The run has failed; an error of this save is ignored.
FailRun(p) ==
    /\ Step(p, "fail")
    /\ SaveTask(p, h[p].run, h[p].row.task, Idle)
    /\ Tell(h[p].run, h[p].row)
    /\ UNCHANGED <<reco, mapping, upload, assets>>

FailRunFails(p) ==
    /\ Fault(p, "fail")
    /\ Done(p)
    /\ Tell(h[p].run, h[p].row)
    /\ lost' = lost \cup {h[p].run}

-----------------------------------------------------------------------------
(* Confirmation by a person, of a candidate the person was shown *)

\* A request id that is known is answered from memory; GetByRunID otherwise.
Confirm(p, id, r, i) ==
    /\ Ask(p)
    /\ task[r] # None /\ i \in DOMAIN reco[r]
    /\ kept[id] = None
    /\ Become(p, [Idle EXCEPT !.pc = "latest", !.run = r, !.ask = id,
                    !.row = [run |-> r, task |-> Success("confirmed", task[r].code)],
                    !.cands = <<reco[r][i]>>])

\* GetLatestByModelManufacturer; the candidates of a run do not change.
CheckLatest(p) ==
    /\ Step(p, "latest")
    /\ IF latest = h[p].run THEN Goto(p, "confirm") ELSE Done(p)
    /\ UNCHANGED <<tables, memory>>

MapPicked(p) ==
    /\ Step(p, "confirm")
    /\ SaveMapping(p, [code |-> h[p].cands[1].code, status |-> "confirmed", source |-> "manual"],
                   [h[p] EXCEPT !.pc = "confirmRun"])
    /\ UNCHANGED <<task, latest, ofTrace, reco, upload, assets, memory>>

\* The row as it was read, with its result.
ConfirmRun(p) ==
    /\ Step(p, "confirmRun")
    /\ SaveTask(p, h[p].run, h[p].row.task, [h[p] EXCEPT !.pc = "keep"])
    /\ UNCHANGED <<reco, mapping, upload, assets, memory>>

Keep(p) ==
    /\ Step(p, "keep")
    /\ kept' = [kept EXCEPT ![h[p].ask] = h[p].run]
    /\ Done(p)
    /\ UNCHANGED <<tables, seen>>

ConfirmFails(p) ==
    /\ \E pc \in {"latest", "confirm", "confirmRun"} : Fault(p, pc)
    /\ Done(p)
    /\ UNCHANGED <<memory, lost>>

-----------------------------------------------------------------------------
\* The client of a batch request goes away: every further statement fails.  A
\* single request goes on without its client.
CancelBatch(p) ==
    /\ h[p].pc \in Working /\ h[p].run.trace \in Batch
    /\ Fault(p, h[p].pc)
    /\ Done(p)
    /\ lost' = lost \cup {h[p].run}
    /\ UNCHANGED memory

\* The server restarts: handlers and memory are gone.
Restart ==
    /\ faults < MaxFaults /\ faults' = faults + 1
    /\ h'    = [p \in Handler |-> Idle]
    /\ seen' = [r \in RunId |-> None]
    /\ kept' = [i \in Request |-> None]
    /\ lost' = lost \cup {h[p].run : p \in {q \in Handler : h[q].pc \in Working}}
    /\ UNCHANGED <<tables, requests>>

Resolver(p) ==
    \/ \E a \in Asks : ResolveByModel(p, a)
    \/ Mapped(p) \/ FastPath(p) \/ OpenRun(p) \/ BeginFails(p)
    \/ Datasheet(p) \/ Extract(p) \/ Recommend(p) \/ AttemptFails(p)
    \/ ReadUpload(p) \/ SaveAsset(p) \/ MarkConsumed(p) \/ UploadFails(p)
    \/ SaveTopN(p) \/ MapBest(p) \/ AuditFails(p) \/ MapFails(p) \/ Finish(p) \/ FinishFails(p)
    \/ FailRun(p) \/ FailRunFails(p) \/ TellOther(p) \/ CancelBatch(p)

Confirmer(p) ==
    \/ \E id \in Request, r \in RunId : \E i \in DOMAIN reco[r] : Confirm(p, id, r, i)
    \/ CheckLatest(p) \/ MapPicked(p) \/ ConfirmRun(p) \/ Keep(p) \/ ConfirmFails(p)

Next ==
    \/ \E p \in Handler : Resolver(p) \/ Confirmer(p)
    \/ \E u \in Upload : Purge(u)
    \/ Restart

Spec == Init /\ [][Next]_vars

-----------------------------------------------------------------------------
(* Properties *)

\* Every table and every handler holds values of its kind.
TypeOK ==
    /\ task \in [RunId -> TaskRow \cup {None}]
    /\ latest \in RunId \cup {None} /\ ofTrace \in [Trace -> RunId \cup {None}]
    /\ reco \in [RunId -> Seq(Candidate)]
    /\ mapping \in Mapping \cup {None}
    /\ upload \in [Upload -> {"staged", "consumed", "gone"}]
    /\ assets \subseteq Upload
    /\ seen \in [RunId -> [run : RunId, task : TaskRow] \cup {None}]
    /\ kept \in [Request -> RunId \cup {None}]
    /\ \A p \in Handler : ~At(p, "idle") =>
         /\ h[p].run \in RunId
         /\ h[p].attempt \in 0 .. MaxStageRetries + 1
         /\ h[p].cands \in Seq(Candidate)
    /\ lost \subseteq RunId
    /\ requests \in 0 .. MaxRequests /\ faults \in 0 .. MaxFaults

\* Every code the program gives out, as the mapping of the model, in the row of a
\* run, done or failed, or in an answer to a poll, is one that a recorded
\* recommendation proposes, though two requests of one trace may run at once under
\* one run id, persons confirm meanwhile and saves fail (hs_model_resolver.go:572,
\* :610 and :629, hs_model_confirm.go:126, hs_model_recommendation_repo.go:60).
Recommended(code) == \E r \in RunId : \E i \in DOMAIN reco[r] : reco[r][i].code = code
GivenOut(row)     == row.code = None \/ Recommended(row.code)

CodesAreAudited ==
    /\ mapping # None => Recommended(mapping.code)
    /\ \A r \in RunId :
         /\ task[r] # None => GivenOut(task[r])
         /\ seen[r] # None => GivenOut(seen[r].task)

\* A row says running only while a handler works on it, unless its last save
\* failed or its handler was lost (hs_model_resolver.go:713).
RunningIsWorked ==
    \A r \in RunId : task[r] # None /\ task[r].status = "running" =>
        r \in lost \/ \E p \in Handler : h[p].pc \in Working /\ h[p].run = r

\* A manual datasheet that is consumed is kept as an asset, and it is used twice
\* only by runs that both read it before either marked it
\* (hs_model_resolver_manual_datasheet.go:63 and :103).
UploadKept ==
    /\ \A u \in Upload : upload[u] = "consumed" => u \in assets
    /\ \A p \in Handler :
         h[p].pc \in {"asset", "mark"} /\ upload[h[p].run.upload] = "consumed" => h[p].late

\* What a person has confirmed stays the mapping until a person confirms again:
\* "a manual confirmation has lasting precedence over automatic results"
\* (docs/superpowers/specs/2026-04-15-hs-model-to-code-ts-design.md:363).  The
\* mapping is replaced without being read again (hs_model_resolver.go:610).
ManualPrevails ==
    [][mapping # None /\ mapping.source = "manual" => mapping'.source = "manual"]_vars

=============================================================================
