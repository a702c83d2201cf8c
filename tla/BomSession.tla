----------------------------- MODULE BomSession -----------------------------
(***************************************************************************)
(* One BOM session: its row in t_bom_session (status, import status,       *)
(* selection revision, platforms), its lines, the state of its search      *)
(* tasks, and the handlers that change them: imports, edits of lines and   *)
(* platforms, retries, results and the readiness evaluation that follows   *)
(* each result (service/bom_import_async.go, service/bom_service.go,       *)
(* data/bom_session_repo.go, data/bom_search_task_repo.go,                 *)
(* biz/bom_session_ready.go, biz/bom_readiness.go).                        *)
(*                                                                         *)
(* Handlers run concurrently in any number of processes.  A step is one    *)
(* database statement, or one transaction; a transaction that reads the    *)
(* session without a lock and writes what it computed from it takes two    *)
(* steps.  How a task gets from pending to its outcome is MergeDispatch:   *)
(* here "pending" stands for the pending and the running rows.             *)
(***************************************************************************)
EXTENDS Naturals

CONSTANTS
    Mpn,            \* normalised part numbers
    Platform,       \* platform ids
    InitPlatforms,  \* platforms the session was created with
    Strict,         \* readiness_mode is strict
    Handler,        \* handlers in progress
    Proxied,        \* platforms that are crawled through a proxy
    MaxRequests,    \* bound: requests of users
    MaxAborts       \* bound: handlers that die half-way

ASSUME SessionAssumption ==
    /\ InitPlatforms \subseteq Platform /\ Strict \in BOOLEAN
    /\ Proxied \subseteq Platform
    /\ MaxRequests \in Nat /\ MaxAborts \in Nat

\* Line ids are never used twice: <<n, m>> is the line that the n-th request
\* inserted for the part number m.
Line == (1 .. MaxRequests) \X Mpn
Key  == Mpn \X Platform

VARIABLES
    status,         \* t_bom_session.status
    importStatus,   \* t_bom_session.import_status
    rev,            \* t_bom_session.selection_revision
    platforms,      \* t_bom_session.platform_ids
    line,           \* [Line -> {} when there is no such line, else its {mpn}]
    task,           \* [Key -> state of the search task]
    h,              \* [Handler -> record of what it does and has read]
    requests, aborts,
    edited,         \* history: users asked for something else than imports and retries
    unjudged        \* history: a task was given up, and no result came since

vars == <<status, importStatus, rev, platforms, line, task, h, requests, aborts, edited,
          unjudged>>

TaskStates == {"absent", "pending", "succeeded", "no_result", "failed_terminal", "cancelled"}
Outcomes   == {"succeeded", "no_result", "failed_terminal"}
Ended      == Outcomes \cup {"cancelled"}
ReadyStates == {"data_ready", "blocked"}
Steps == {"idle", "parse", "replace", "replaceTx", "cancelAll", "load", "upsert",
          "patch", "patchTx", "patched", "cancelOld", "delete", "deleteRead",
          "deleteTx", "platforms", "retry", "view", "lines", "tasks", "mark"}

\* Next step; whether it is an import job; the line edited; part numbers old and
\* new; platforms, keys, revision and state read.
HandlerRecord == [pc : Steps, job : BOOLEAN, line : SUBSET Line, old : SUBSET Mpn,
                  mpns : SUBSET Mpn, plats : SUBSET Platform, keys : SUBSET Key,
                  rev : Nat, read : TaskStates \cup ReadyStates]
Idle == [pc |-> "idle", job |-> FALSE, line |-> {}, old |-> {}, mpns |-> {},
         plats |-> {}, keys |-> {}, rev |-> 0, read |-> "absent"]

\* CreateSession.
Init ==
    /\ status       = "draft"
    /\ importStatus = "idle"
    /\ rev          = 1
    /\ platforms    = InitPlatforms
    /\ line         = [l \in Line |-> {}]
    /\ task         = [k \in Key |-> "absent"]
    /\ h            = [p \in Handler |-> Idle]
    /\ requests     = 0
    /\ aborts       = 0
    /\ edited       = FALSE
    /\ unjudged     = FALSE

At(p, pc)      == h[p].pc = pc
Become(p, rec) == h' = [h EXCEPT ![p] = rec]
Goto(p, pc)    == h' = [h EXCEPT ![p].pc = pc]
Done(p)        == Become(p, Idle)
Mpns           == UNION {line[l] : l \in Line}

Ask(p, kind) ==
    /\ At(p, "idle")
    /\ requests < MaxRequests /\ requests' = requests + 1
    /\ edited' = (edited \/ kind \notin {"upload", "retry"})
    /\ UNCHANGED <<aborts, unjudged>>

\* A handler's own step: no new request, and no task ends.
Step(p, pc) == At(p, pc) /\ UNCHANGED <<requests, aborts, edited, unjudged>>

session == <<status, importStatus, rev, platforms>>

-----------------------------------------------------------------------------
(* Import: UploadBOM, runLLMImportJob, finishImportedLines *)

\* Lines a request inserts for the given part numbers.
NewLines(mpns) == {requests + 1} \X mpns

StartJob(p) ==
    /\ Ask(p, "upload")
    /\ importStatus' = "parsing"
    /\ \E content \in (SUBSET Mpn) \ {{}} :
          Become(p, [Idle EXCEPT !.pc = "parse", !.job = TRUE, !.mpns = content,
                                 !.line = NewLines(content)])
    /\ UNCHANGED <<status, rev, platforms, line, task>>

\* Mutant of Upload: import_status is not looked at.
UploadUnchecked(p) == StartJob(p)

\* TryStartImport, under the lock of the session row; an upload during another
\* import is answered with 409.
Upload(p) == importStatus # "parsing" /\ StartJob(p)

\* The file is parsed, in the request or in chunks by the language model; each
\* stage writes the import status again.
Parse(p) ==
    /\ Step(p, "parse")
    /\ importStatus' = "parsing"
    /\ Goto(p, "replace")
    /\ UNCHANGED <<status, rev, platforms, line, task>>

\* ReplaceSessionLines reads the session without a lock ...
ReplaceRead(p) ==
    /\ Step(p, "replace")
    /\ Become(p, [h[p] EXCEPT !.pc = "replaceTx", !.rev = rev])
    /\ UNCHANGED <<session, line, task>>

\* A transaction changing the line has it locked.
Locked(l) == \E q \in Handler : At(q, "patchTx") /\ l \in h[q].line

\* ... and commits the new lines, the status and the revision it computed.
ReplaceTx(p) ==
    /\ Step(p, "replaceTx")
    /\ \A l \in Line : line[l] # {} => ~Locked(l)
    /\ line'   = [l \in Line |-> IF l \in h[p].line THEN {l[2]} ELSE {}]
    /\ status' = "searching"
    /\ rev'    = h[p].rev + 1
    /\ Goto(p, "cancelAll")
    /\ UNCHANGED <<importStatus, platforms, task>>

\* The tasks of the given keys that exist are cancelled, whatever their state.
Cancelled(keys) ==
    [k \in Key |-> IF k \in keys /\ task[k] # "absent" THEN "cancelled" ELSE task[k]]

\* CancelAllTasksBySession.
CancelAll(p) ==
    /\ Step(p, "cancelAll")
    /\ task' = Cancelled(Key)
    /\ Goto(p, "load")
    /\ UNCHANGED <<session, line>>

\* GetSession after the lines are written: tasks are asked for on the platforms
\* of that moment.
Load(p) ==
    /\ Step(p, "load")
    /\ Become(p, [h[p] EXCEPT !.pc = "upsert", !.keys = h[p].mpns \X platforms])
    /\ UNCHANGED <<session, line, task>>

\* Mutant of Upsert: an existing row is left as it is.
UpsertDoNothing(p) ==
    /\ Step(p, "upsert")
    /\ \E k \in h[p].keys :
          /\ task' = [task EXCEPT ![k] = IF @ = "absent" THEN "pending" ELSE @]
          /\ Become(p, [h[p] EXCEPT !.keys = @ \ {k}])
    /\ UNCHANGED <<session, line>>

\* One turn of the loop of UpsertPendingTasks: inserted, or pending again.
Upsert(p) ==
    /\ Step(p, "upsert")
    /\ \E k \in h[p].keys :
          /\ task' = [task EXCEPT ![k] = "pending"]
          /\ Become(p, [h[p] EXCEPT !.keys = @ \ {k}])
    /\ UNCHANGED <<session, line>>

\* All tasks are asked for: an import is ready, another request is answered.
Asked(p) ==
    /\ Step(p, "upsert")
    /\ h[p].keys = {}
    /\ importStatus' = IF h[p].job THEN "ready" ELSE importStatus
    /\ Done(p)
    /\ UNCHANGED <<status, rev, platforms, line, task>>

\* Parsing or a statement of the job fails: markImportFailed.
JobFails(p) ==
    /\ h[p].job
    /\ importStatus' = "failed"
    /\ Done(p)
    /\ UNCHANGED <<status, rev, platforms, line, task, requests, aborts, edited, unjudged>>

\* The process of a handler dies, or its context is cancelled: a synchronous
\* import then cannot even record that it failed.
Abort(p) ==
    /\ ~At(p, "idle") /\ aborts < MaxAborts
    /\ aborts' = aborts + 1
    /\ Done(p)
    /\ UNCHANGED <<session, line, task, requests, edited, unjudged>>

-----------------------------------------------------------------------------
(* Edits of lines and platforms, retries *)

\* CreateSessionLine: the line and the revision in one transaction, which locks
\* the session row.
Create(p, m) ==
    /\ Ask(p, "create")
    /\ line' = [line EXCEPT ![<<requests + 1, m>>] = {m}]
    /\ rev'  = rev + 1
    /\ Become(p, [Idle EXCEPT !.pc = "load", !.mpns = {m}])
    /\ UNCHANGED <<status, importStatus, platforms, task>>

\* PatchSessionLine reads the lines for the old part number ...
Patch(p, l, m) ==
    /\ Ask(p, "patch") /\ line[l] # {}
    /\ Become(p, [Idle EXCEPT !.pc = "patch", !.line = {l}, !.old = line[l], !.mpns = {m}])
    /\ UNCHANGED <<session, line, task>>

\* ... UpdateSessionLine locks the line and reads the revision without a lock ...
PatchRead(p) ==
    /\ Step(p, "patch")
    /\ \A l \in h[p].line : ~Locked(l)
    /\ IF \A l \in h[p].line : line[l] = {} THEN Done(p)
       ELSE Become(p, [h[p] EXCEPT !.pc = "patchTx", !.rev = rev])
    /\ UNCHANGED <<session, line, task>>

\* ... and commits both.
PatchTx(p) ==
    /\ Step(p, "patchTx")
    /\ line' = [l \in Line |-> IF l \in h[p].line THEN h[p].mpns ELSE line[l]]
    /\ rev'  = h[p].rev + 1
    /\ IF h[p].old = h[p].mpns THEN Done(p) ELSE Goto(p, "patched")
    /\ UNCHANGED <<status, importStatus, platforms, task>>

\* GetSession, after which the tasks of the old part number are cancelled ...
Patched(p) ==
    /\ Step(p, "patched")
    /\ Become(p, [h[p] EXCEPT !.pc = "cancelOld", !.keys = h[p].mpns \X platforms])
    /\ UNCHANGED <<session, line, task>>

\* ... and those of the new one asked for.
CancelOld(p) ==
    /\ Step(p, "cancelOld")
    /\ task' = Cancelled(h[p].old \X Platform)
    /\ Goto(p, "upsert")
    /\ UNCHANGED <<session, line>>

\* DeleteSessionLine reads the lines ...
Delete(p, l) ==
    /\ Ask(p, "delete") /\ line[l] # {}
    /\ Become(p, [Idle EXCEPT !.pc = "delete", !.line = {l}, !.old = line[l]])
    /\ UNCHANGED <<session, line, task>>

\* ... cancels the tasks of the part number ...
DeleteCancel(p) ==
    /\ Step(p, "delete")
    /\ task' = Cancelled(h[p].old \X Platform)
    /\ Goto(p, "deleteRead")
    /\ UNCHANGED <<session, line>>

\* ... looks for the line and reads the revision of its snapshot ...
DeleteRead(p) ==
    /\ Step(p, "deleteRead")
    /\ IF \A l \in h[p].line : line[l] = {} THEN Done(p)
       ELSE Become(p, [h[p] EXCEPT !.pc = "deleteTx", !.rev = rev])
    /\ UNCHANGED <<session, line, task>>

\* ... and commits the deletion and the revision.
DeleteTx(p) ==
    /\ Step(p, "deleteTx")
    /\ \A l \in h[p].line : ~Locked(l)
    /\ line' = [l \in Line |-> IF l \in h[p].line THEN {} ELSE line[l]]
    /\ rev'  = h[p].rev + 1
    /\ Done(p)
    /\ UNCHANGED <<status, importStatus, platforms, task>>

\* A client loads the session and chooses platforms ...
ReadSession(p) ==
    /\ Ask(p, "platforms")
    /\ \E chosen \in SUBSET Platform :
          Become(p, [Idle EXCEPT !.pc = "platforms", !.rev = rev, !.plats = chosen])
    /\ UNCHANGED <<session, line, task>>

\* ... PutPlatforms, under the lock of the row: refused when the revision is
\* another one.  No task is asked for or cancelled.
PutPlatforms(p) ==
    /\ Step(p, "platforms")
    /\ IF rev = h[p].rev
       THEN platforms' = h[p].plats /\ rev' = rev + 1
       ELSE UNCHANGED <<platforms, rev>>
    /\ Done(p)
    /\ UNCHANGED <<status, importStatus, line, task>>

\* RetrySearchTasks reads the state of one task ...
Retry(p, k) ==
    /\ Ask(p, "retry")
    /\ Become(p, [Idle EXCEPT !.pc = "retry", !.keys = {k}, !.read = task[k]])
    /\ UNCHANGED <<session, line, task>>

\* ... and acts on what it read: a missing or failed one becomes pending.
RetryDecide(p) ==
    /\ Step(p, "retry")
    /\ task' = IF h[p].read \in {"absent", "failed_terminal"}
               THEN [k \in Key |-> IF k \in h[p].keys THEN "pending" ELSE task[k]]
               ELSE task
    /\ Done(p)
    /\ UNCHANGED <<session, line>>

-----------------------------------------------------------------------------
(* Results and readiness: FinalizeSearchTask, TryMarkSessionDataReady *)

\* A crawl, the cache or a user ends a task, and the handler goes on to judge the
\* session; the task may have been cancelled meanwhile.
TaskEnds(p, k) ==
    /\ At(p, "idle")
    /\ task[k] \in {"pending", "cancelled"}
    /\ \E outcome \in Outcomes : task' = [task EXCEPT ![k] = outcome]
    /\ Goto(p, "view")
    /\ unjudged' = FALSE
    /\ UNCHANGED <<session, line, requests, aborts, edited>>

\* The loop that waits for proxies gives a pending task up: FailPendingTasksForMergeKey.
\* Nobody judges the session then.
TaskGivenUp(k) ==
    /\ task[k] = "pending" /\ k[2] \in Proxied
    /\ task' = [task EXCEPT ![k] = "failed_terminal"]
    /\ unjudged' = TRUE
    /\ UNCHANGED <<session, line, h, requests, aborts, edited>>

\* GetSession.
ViewSession(p) ==
    /\ Step(p, "view")
    /\ Become(p, [h[p] EXCEPT !.pc = "lines", !.plats = platforms])
    /\ UNCHANGED <<session, line, task>>

\* ListSessionLines.
ListLines(p) ==
    /\ Step(p, "lines")
    /\ Become(p, [h[p] EXCEPT !.pc = "tasks", !.mpns = Mpns])
    /\ UNCHANGED <<session, line, task>>

\* Mutants of LenientReady: a missing task counts as tried; a failed one does not.
LenientReadyMissing(mpns, plats) == \A k \in mpns \X plats : task[k] # "pending"
LenientReadyNoFailure(mpns, plats) ==
    \A k \in mpns \X plats : task[k] \in Ended \ {"failed_terminal"}

\* ReadinessFromTasks: every line has an ended task on every platform ...
LenientReady(mpns, plats) == \A k \in mpns \X plats : task[k] \in Ended

\* ... and, in strict mode, each line has succeeded on some platform.
StrictReady(mpns, plats) ==
    plats = {} \/ \A m \in mpns : \E q \in plats : task[<<m, q>>] = "succeeded"

\* Mutant of Verdict: the other name the design suggests for a blocked session.
VerdictPartial(mpns, plats) ==
    IF Strict /\ ~StrictReady(mpns, plats) THEN "partial" ELSE "data_ready"

\* The status that TryMarkSessionDataReady writes once the session is leniently ready.
Verdict(mpns, plats) ==
    IF Strict /\ ~StrictReady(mpns, plats) THEN "blocked" ELSE "data_ready"

\* ListTasksForSession and the verdict on it.
Judge(p) ==
    /\ Step(p, "tasks")
    /\ IF ~LenientReady(h[p].mpns, h[p].plats) THEN Done(p)
       ELSE Become(p, [Idle EXCEPT !.pc = "mark",
                                   !.read = Verdict(h[p].mpns, h[p].plats)])
    /\ UNCHANGED <<session, line, task>>

\* SetSessionStatus.
Mark(p) ==
    /\ Step(p, "mark")
    /\ status' = h[p].read
    /\ Done(p)
    /\ UNCHANGED <<importStatus, rev, platforms, line, task>>

-----------------------------------------------------------------------------
ImportStep(p) ==
    \/ Parse(p) \/ ReplaceRead(p) \/ ReplaceTx(p) \/ CancelAll(p)
    \/ Load(p) \/ Upsert(p) \/ Asked(p)

EditStep(p) ==
    \/ PatchRead(p) \/ PatchTx(p) \/ Patched(p) \/ CancelOld(p)
    \/ DeleteCancel(p) \/ DeleteRead(p) \/ DeleteTx(p)
    \/ PutPlatforms(p) \/ RetryDecide(p)

ReadyStep(p) == ViewSession(p) \/ ListLines(p) \/ Judge(p) \/ Mark(p)

NewRequest(p) ==
    \/ Upload(p) \/ ReadSession(p)
    \/ \E m \in Mpn : Create(p, m)
    \/ \E l \in Line : Delete(p, l) \/ \E m \in Mpn : Patch(p, l, m)
    \/ \E k \in Key : Retry(p, k)

HandlerStep(p) == ImportStep(p) \/ EditStep(p) \/ ReadyStep(p)

Next ==
    \/ \E p \in Handler :
          \/ NewRequest(p) \/ HandlerStep(p) \/ JobFails(p) \/ Abort(p)
          \/ \E k \in Key : TaskEnds(p, k)
    \/ \E k \in Key : TaskGivenUp(k)

Spec == Init /\ [][Next]_vars

-----------------------------------------------------------------------------
(* Properties *)

\* Columns and handlers hold values of their types.
TypeOK ==
    /\ status       \in {"draft", "searching"} \cup ReadyStates
    /\ importStatus \in {"idle", "parsing", "ready", "failed"}
    /\ rev          \in Nat
    /\ platforms    \in SUBSET Platform
    /\ line         \in [Line -> SUBSET Mpn]
    /\ task         \in [Key -> TaskStates]
    /\ h            \in [Handler -> HandlerRecord]
    /\ requests     \in 0 .. MaxRequests
    /\ aborts       \in 0 .. MaxAborts
    /\ edited       \in BOOLEAN
    /\ unjudged     \in BOOLEAN

\* Uploads for one session exclude each other: at most one import job runs, and
\* as long as it runs the session says so, whoever else writes the session row.
OneImport ==
    \A p, q \in Handler :
        h[p].job => importStatus = "parsing" /\ (h[q].job => p = q)

\* As long as one import is all that was asked of the session, it is called ready
\* only when every line has been tried on every platform, although readiness is
\* judged on four separate reads while the tasks are being inserted.
ReadyMeansTried ==
    (requests = 1 /\ status \in ReadyStates) => LenientReady(Mpns, platforms)

Quiet == \A p \in Handler : At(p, "idle")

\* What the design asks of every change of the bill of materials (2026-03-27
\* bom-sourcing design, section 4), for imports over running results and retries: once
\* all handlers are done, each line has a task that is not cancelled on each platform
\* of the session.
LinesCovered ==
    (Quiet /\ ~edited /\ aborts = 0 /\ importStatus # "failed") =>
        \A k \in Mpns \X platforms : task[k] \notin {"absent", "cancelled"}

\* An import does not leave the session in searching for ever: when its tasks have all
\* ended and all handlers are done, whichever result was the last has found them ended
\* and has moved the session on.  Only a task that was given up, which nobody judges,
\* holds it back until another result comes.
SearchEnds ==
    /\ Quiet /\ ~edited /\ aborts = 0 /\ importStatus = "ready" /\ platforms # {}
    /\ (\A k \in Mpns \X platforms : task[k] \in Ended) /\ ~unjudged
    => status # "searching"
=============================================================================
