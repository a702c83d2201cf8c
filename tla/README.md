# Verification of the quotation system

TLA+ models of the parts of the quotation system that several processes work on at once, the TLC
instances that check them and TLAPS proofs about them. Paths are relative to the repository;
`biz/`, `data/`, `service/`, `server/` and `agentapp/` stand for `internal/biz/` and so on.

    tlc -workers 2 -config MCBomSession.cfg MCBomSession.tla         a check
    tlapm BomSessionProofs.tla                                       a proof

`PROJECT.json` maps every definition to the lines it models and lists the runs, the mutants that
show that each property can fail, the findings, the hazards and the theorems.

## 1. The system

A user uploads a bill of materials (BOM) to a *session*. Each line of it needs quotes from each
platform the session chose. A *search task* (session, part number, platform) asks for one quote;
the tasks of all sessions that want the same part on the same platform on the same day share one
*crawl*, a task of the *dispatch queue*, which a Python script on an *agent* runs. When all tasks
of a session have ended, the session is ready for matching and pricing. The server has a MySQL
database and may run in several processes; agents poll over HTTP.

| Component | State | Operations | Talks to |
|---|---|---|---|
| Dispatch queue and scheduler: `biz/db_task_scheduler.go`, `data/dispatch_task_repo.go`, `data/dispatch_task_retry.go`, `biz/dispatch_*.go` | `t_caichip_dispatch_task` (state, attempt, lease, deadline, holder, next claim), `t_caichip_agent` | enqueue; long poll: reclaim stale leases, then lease; finish; requeue or give up | agents; in-flight rows |
| Task handlers of the server: `service/agent.go` | what a request has read | heartbeat, result, fan-out of a success | queue, search tasks |
| Agents: `agentapp/app.go`, `runner.go` | map of running tasks, slots | poll, run, report | server |
| Merge dispatch: `data/bom_merge_dispatch.go`, `bom_merge_proxy_wait_repo.go`, `merge_proxy_retry_worker.go` | `t_bom_merge_inflight`, proxy back-off row | cache look-up, proxy, dispatch transaction, retry worker | queue, search tasks, proxy vendor |
| Search tasks: `data/bom_search_task_repo.go`, `biz/bom_agent_stdout.go`, `service/bom_search_task_reconcile.go`, parts of `service/bom_service.go` | `t_bom_search_task`, quote cache | ask, attach, finalize, cancel, retry, reconcile | merge dispatch, sessions |
| Sessions: `data/bom_session_repo.go`, `service/bom_import_async.go`, `biz/bom_session_ready.go`, `biz/bom_readiness.go` | `t_bom_session`, `t_bom_session_line` | import (synchronous or by a background job), edits of lines and platforms, readiness | search tasks |
| Line gaps: `service/bom_gap_service.go`, `data/bom_line_gap_repo.go` | `t_bom_line_gap` | list (which opens them), resolve by a manual quote, select a substitute | availability, search tasks |
| Match runs: `service/bom_match_run_service.go`, `data/bom_match_run_repo.go` | `t_bom_match_run` and items | save, supersede | availability, matching, gaps |
| Availability, matching, prices, exchange rates: `biz/bom_line_availability.go`, `bom_line_match.go`, `bom_compare_price.go`, `bom_price_tier_parse.go`, `bom_fx.go`, `service/bom_match_parallel.go` | none | functions of rows | |
| Manufacturer names: `service/bom_manufacturer_alias_api.go`, `bom_mfr_two_phase.go`, `data/bom_manufacturer_cleaning_repo.go` | `t_bom_manufacturer_alias`, canonical maker of lines, review of quote items | add or approve an alias, apply the known ones, review a quote | matching, quote cache |
| HS codes: `biz/hs_model_resolver.go`, `hs_model_confirm.go`, `hs_model_resolver_manual_datasheet.go`, `service/hs_resolve_service.go` | `t_hs_model_task`, `_recommendation`, `_mapping`, uploads, tasks in memory | resolve (one, or a batch), poll, confirm, upload | language model, files |
| Table caches: `data/table_cache_refresher.go`, `inproc_kv.go`, `*_repo_cache.go` | in-process map | fill, drop, refresh periodically, expire | four tables |
| Agent hub: `biz/agent_hub.go` | maps under one mutex | the scheduler used without a database | agents |
| Script packages and their installation: `service/script_package_admin.go`, `script_package_sync.go`, `data/agent_script_package_repo.go`, `agentapp/sync.go`, `manifest.go` | `t_agent_script_package`, package files, the agent's directories with their markers | upload, publish, report and install, run | agents, queue |
| HS catalogue, registry, authorisation, parsers, clients | their own tables | mostly single statements and I/O | |

What is hard in it, and what is correct:

* **Queue.** Several polls list the same stale lease and apply what they listed later; a result
  arrives after its lease was taken away; agents and servers die; messages are lost, repeated and
  reordered. A task must be executed at most `1 + retry_max` times and not be given up before; a
  result must be of the current lease; an outcome is final; every task ends.
* **Merge dispatch.** Requests of many sessions, result callbacks and the retry worker work on
  one key in separate transactions. At most one crawl of a key may be open; a crawl's result ends
  its rows only; no row may be forgotten, since nothing sweeps pending rows.
* **Sessions.** An import runs in the background in several transactions while lines are edited,
  tasks are retried and results come in; each result judges readiness on three unrelated reads.
  Imports must exclude each other; a session is called ready only when every line was tried
  everywhere; every line has its tasks; a session does not stay in `searching`.
* **Gaps and match runs.** Two users close one gap; the server dies between closing it and doing what
  closes it; a run is judged on one read of the rows and computed from another while results replace
  them; saves overlap. A closed gap must stay and be backed, one run must be the current one, and the
  two pieces of code that judge a line and that match it must agree.
* **Makers.** Lines are listed, looked up and written one by one while they are edited; rows are
  loaded at first and their reviews later. No line may get the canonical maker of another maker, no
  rejected quote may be chosen, and more acceptances must not undo the review of a line.
* **HS codes.** Requests of one trace run one pipeline at the same time; any of its many statements may
  fail; a person confirms while an automatic result is on its way. Every code that is given out must have been
  recommended on record, a row must not say `running` for ever, an uploaded file must not be used up without being
  kept, and a confirmation must prevail, which it does not (section 6).
* **Caches.** Fill, write and drop are separate: a copy read before a write may be stored after the drop.
* **Scripts.** A directory is removed and filled file by file while another goroutine scans it without the lock and
  tasks wait for it; uploads overwrite files before their row is refused; downloads, dependencies and removals fail; the
  agent dies in between. A task must run with the whole package of its version, and no marker may stay that keeps a version
  from being installed.

## 2. Plan

Done: `DispatchQueue` with `DispatchAbstract`, `MergeDispatch`, `BomSession`, then `LineMatching` with
`LineDecisions`, `HsResolve`, `MfrCleaning` (which shares `LineMatching`), `TableCache` and `ScriptSync`, each but
the stateless one with a module of proofs; every safety invariant and action property that a passing run checks has a
theorem. What is left, in this order:

1. Lemmas that `LineDecisionsProofs` and `MfrCleaningProofs` both have, in one place.
2. A module that composes `MergeDispatch` for two keys with `BomSession`, if its state space allows.
3. The HS catalogue's synchronisation, and the agent hub as an implementation of `DispatchAbstract`.

## 3. The modules

### DispatchQueue

One row per task, one long poll per agent, any number of result handlers. The columns are
variables (`state`, `attempt`, `lease`, `holder`, `waiting`, `overdue`); what a handler read and
has not applied is a *snapshot* in `stale[a]` (leases listed by a poll) or `failing` (lease loaded
by the handler of a failed result).

| Actions | Code |
|---|---|
| `Enqueue` | `EnqueuePending`, `EnqueuePendingTx` |
| `Heartbeat`, `ListStale`, `Reclaim`, `QueryFails`, `Pull`, `PollAborts` | one task heartbeat, `TaskHeartbeat`: the poll begins; `reclaimStaleLeases` reads `ListStaleLeasedTasks`, then re-queues or fails each row it read; an error of either is dropped and the poll goes on; `PullTasksForAgent` leases through `PullLocking`; the request dies anywhere |
| `PullLocking` with `Heads`, `Picked` | `PullAndLeaseForAgent`: the oldest due row of each script with `FOR UPDATE SKIP LOCKED`, then the conditional update of each |
| `ReportSuccess` | `SubmitTaskResult` with a success: `FinishLeased` |
| `ReportFailure`, `FailureHandled`, `FailureLost` | `SubmitTaskResult` with a failure: `LoadLeasedTask`, then `RequeueLeased` or `FailLeasedTerminal`, or the server dies between the two |
| `StartTask`, `FinishTask`, `AgentCrash` | `runOneTask` of the agent; its process ends |
| `DeadlinePasses`, `BackoffElapses`, `AgentGoesSilent` | time, as the facts the code tests |

Abstractions: a success is applied in one step (one conditional `UPDATE`; the in-flight row is
`MergeDispatch`'s). `SKIP LOCKED` is any subset `locked` of the heads. What `MatchTaskForAgent`
accepts is the constant `CanRun`. The claim's limit of 60 heads is left out: with more than 60
heads that an agent cannot run, the others would wait for them. `sent` only grows, and a result in
it may be delivered never, once or again: loss, repetition and reordering in one. Agents echo the
lease id. An agent crashes between two polls. A server that dies in a poll or a failure handler
is the abandoning of what it read.

### MergeDispatch

One merge key: the rows of several sessions, the crawls dispatched for it, in-flight row, cache,
proxy back-off row. A handler is a record of where it is and what it has read; a step is one
statement or transaction. Requests are `Ask`, `Retry`/`RetryDecide`, `Cancel`, `SubmitResult`,
`Reconcile`; dispatching is `ListKeys`, `LookUp`, `AcquireProxy`, `ReadWait`, `RecordFailure`,
`GiveUp`, `DispatchTx`, `Cleanup`; a crawl's result is `ResultAccepted`, `ListLinked`,
`FinalizeOne`, `FinalizeEnd`, and a crawl given up is `CrawlFails`.

Abstractions: the dispatch transaction is one step; the code repeats it up to six times after a
duplicate key, which is the serial order of the steps. `failed_retryable` and `skipped` rows have
no writer in production and are left out. An error while a task is built is `Abort`. Rows of other
keys are independent: no statement reads two keys to write one. `Listed` are the sessions whose task list shows
the row: `Reconcile` considers the rows of the lines' own part numbers on the session's platforms only, not those of
a substitute or of a platform that was removed.

### BomSession

One session row, its lines, the state of its tasks and the handlers that change them.

| Actions | Code |
|---|---|
| `Upload`, `Parse`, `ReplaceRead`, `ReplaceTx`, `CancelAll`, `Load`, `Upsert`, `Asked`, `JobFails` | `TryStartImport` under the row lock; parsing; `ReplaceSessionLines` (revision read without a lock, then the commit); `CancelAllTasksBySession`; `GetSession`; one turn of `UpsertPendingTasks` per step; `UpdateImportState`; `markImportFailed` |
| `Create`, `Patch`..., `Delete`... | the line handlers, their transactions split at the unlocked read of the revision |
| `ReadSession`, `PutPlatforms` | a client's view and the compare-and-set of the platforms |
| `Retry`, `RetryDecide` | `RetrySearchTasks`: read, then write |
| `TaskEnds`, `ViewSession`, `ListLines`, `Judge`, `Mark` | a stored result and the four statements of `TryMarkSessionDataReady` |
| `TaskGivenUp` | the loop that waits for proxies gives up: the task fails and no readiness is judged |
| `Abort` | a process dies or its context is cancelled |

Abstractions: "pending" stands for pending and running rows; how a row ends is `MergeDispatch`.
Several lines may share a part number only through creating and patching lines. A line's substitute
part is left out (readiness ignores it; it only adds tasks), and with it the patch of a line that
changes nothing but the substitute and asks for the line's tasks again. `readiness_mode` is the
constant `Strict`: no request sets it. A request that is refused (409, 404) changes nothing and is
no step. A transaction aborted by a database deadlock is `JobFails` or `Abort`.

### LineMatching

No state: operators on the rows that were read, shared by the next two modules. `ComparePrice` is the price
of a quote for a quantity behind its gates (minimum order, stock, tiers that must agree), `ToBaseCCY` the
exchange, `PickBest` and `MatchOneLine` the best quote of a platform and of a line, `Merged` puts rows and
reviews together by likeness and order, `Availability` is the verdict users see, `NoStrictGap` and
`MayMatch` the gates of saving, `GapOf` the gap a line leaves, `RuleB` the review of the cheapest quotes.

Abstractions: part numbers, makers and packages stand for their normal forms, since every comparison
normalises both sides. A price column is the sequence of its parsed segments. Prices are integers, rounded
where the code quantises them. `unit_price` has no column and both callers pass 0.

### LineDecisions

One session whose import has ended, its tasks, the cache entries of the day, gaps and runs.

| Actions | Code |
|---|---|
| `Crawled`, `CrawledForOthers`, `Marked` | a result for a task of this session, or of another one on the same day, replaces the entry; the mark `data_ready` |
| `ListGaps`, `FindGaps`, `OpenGaps` | `ListLineGaps`: tasks, entries, `UpsertOpenGaps` |
| `Resolve`, `CloseManual` | `ResolveLineGapManualQuote`: the quote, then the gap |
| `Substitute`, `AskSubstitute`, `CloseSubstitute` | `SelectLineGapSubstitute`: check, tasks, gap |
| `Patch`, `CancelOldSub`, `AskNewSub` | the substitute part of `PatchSessionLine` |
| `Save`, `ReadTasks`, `Judge`, `CheckTasks`, `Match`, `ReadGaps`, `CreateRun`, `Supersede` | `SaveMatchRun`, read by read |
| `Abort` | a statement after the first write fails, or the process dies |

Abstractions: an entry and its items are read together; the loop of `UpsertPendingTasks` is one step
(`BomSession` has its interleavings); quantities, makers and packages of lines do not change here
(`MfrCleaning` has the makers). `done`, `overlap` and `excuse` of a run are history: they say which saves
overlapped, and which lines a run may leave unresolved.

### HsResolve

One model of one maker. A run is named by what `MakeRunID` hashes; a handler's step is one read or write.

| Actions | Code |
|---|---|
| `ResolveByModel`, `Mapped`, `FastPath` | look-ups by trace and confirmed mapping before a run is opened |
| `OpenRun`, `Datasheet`, `Extract`, `Recommend`, `AttemptFails` | the row, then the stages with their retries |
| `ReadUpload`, `SaveAsset`, `MarkConsumed`, `UploadFails`, `Purge` | the manual datasheet |
| `SaveTopN`, `MapBest`, `Finish`, `AuditFails`, `MapFails`, `FinishFails`, `FailRun`... | audit rows, mapping, end of the run, and each way to fail |
| `TellOther`, `Restart`, `CancelBatch` | the map of tasks the service remembers; process and client die |
| `Confirm`, `CheckLatest`, `MapPicked`, `ConfirmRun`, `Keep` | `Confirm` of the confirm service |

Abstractions: a stage that calls an external service brings any result of `Found` or an error. Columns that
are written and never read are left out. The repository in memory, used without a database, is left out, and
so is an empty maker, for which neither traces nor the latest run are ever found.

### MfrCleaning

The aliases, the lines with their canonical makers, the quotes of the cache with their reviews.

| Actions | Code |
|---|---|
| `CreateAlias`, `Approve`, `List`, `Fill` | `CreateManufacturerAlias`; `ApproveSessionLineMfrCleaning`, then the backfill of all lines listed under the maker |
| `ListOpen`, `Apply` | `ApplyKnownAliasesToSession` |
| `PatchMfr`, `UpdateLine` | `PatchSessionLine` with a maker: look-up, then the line |
| `Crawl`, `ManualQuote` | `upsertQuoteCache`: items with new ids and a review from the alias table |
| `Review`, `Reject`, `Accept`, `AcceptDefault`, `LineDefault`, `AcceptLoaded` | the reviews of both interfaces |
| `LoadCache`, `MatchLine` | matching: all rows, then the reviews of each line |

Abstractions: a look-up of an alias may miss a row that is there, since servers cache misses (`TableCache`);
the look-ups made while a line is matched neither miss nor fail. Candidates and review lists are reads. The cache is a function from keys to items; matching reads the rows of the
keys of all lines at first (`LoadCache`, `Snapshots`), and the items of a line with their reviews only when its turn
comes (`MatchLine`). `RuleBStands` is about steps that leave `stores` as it is: a new result
brings new quotes, which may be cheaper.

### TableCache

The map, four tables behind it, requests and the refresher's goroutine. A copy is the function from the rows
a key shows to the number of the request that wrote them, so it equals the table's content exactly when it is
not stale. `Get`, `Query` and `Fill` are a read that misses; `Upsert`, `Delete`, `CreateRow`, `Heartbeat`
with `Beat` a write, `Drop` the keys dropped after it, one by one; `Scan`, `Refill`, `ScanFails` the
refresher, table by table; `Expire` the time to live of names; `Fail` and `Restart` faults. `missed` is
history: the keys whose copy was read before a write and stored after it. Keys are distinct: no platform is called
`all` (the name of the list's key) and no colon in an id makes two pairs share a key (`data/table_cache_keys.go:12`,
`:33`). Stored passwords can be decrypted; the cached layer drops a copy of one that cannot
(`data/agent_script_auth_repo_cache.go:61`).

### ScriptSync

One script and one agent: rows and files of its versions, the agent's directories, the goroutine that installs, the
one that reports, and a task.

| Actions | Code |
|---|---|
| `Upload`, `Insert`, `Publish`, `ServerDies` | `UploadPackage`: the file, then the row, or the refusal that removes the file; `SetPublished` |
| `Ask`, `Lock`, `Remove`, `Mark`, `Get`, `Unzip`, `Unzipped`, `WriteText`, `WriteSha`, `Pip`, `InstallFails`, `PipFails`, `Unmark`, `Cleaned` | the heartbeat of scripts with `needsScriptSync`, then `applySyncActions`, one file operation per step |
| `RemoveFails`, `UnmarkFails` | a removal of the directory or of a marker that fails, which the code ignores: it goes on over what is left, or ends |
| `Look`, `Read`, `Report` | `ScanInstalledScripts`, version by version, and the server's row of the installed script |
| `Lease`, `Run`, `RunEnds`, `AgentDies` | `MatchTaskForAgent`, `RunTask` under the lock of the script, the agent's process |

Abstractions: a checksum stands for the content it is of, a file for its name; all uploads of a version have the same
file name, as those without one do (`package.zip`) and those that are built alike. `torn` is history: the versions in
whose directory there is something that a dead agent left or that could not be removed, until they are installed anew.
Scripts share nothing. The server never sends `delete`. The task is
one that was built when its version was published. A process that a task started may outlive a dead agent, and
is not followed.

### How they fit together

`MergeDispatch` uses of the queue that a crawl is open until it finishes or is given up, that its
outcome is final, and (for liveness) that it ends: `TerminalIsFinal`, `EventuallyEnds` and
`ImplementsAbstract` of `DispatchQueue`. `BomSession` takes from `MergeDispatch` how a task may end (`TaskEnds`,
`TaskGivenUp`) and assumes nothing of whether it does: its properties are all about what holds when tasks have
ended or not. `FreshRowEnds` and `FinishedEnds` say which rows end; `RunningEnds` shows rows that do not, those of a
crawl that was given up. `LineDecisions` and
`MfrCleaning` use of `MergeDispatch` that a result replaces an entry in one transaction, and both call
`LineMatching`. `TableCache` is why a look-up in `MfrCleaning` may miss. `ScriptSync` says when an agent's reported
version lets it lease a task, which is `CanRun` in `DispatchQueue`.

## 4. The runs

| Run | Instance | Shows | States |
|---|---|---|---|
| `queue_agents` | 1 task, 1 retry, 2 agents | row consistency, bounds on executions, fencing, finality, justified reclaim, implementation of the abstract queue | 46,049 |
| `queue_live` | 2 tasks of one script, no retry, 1 agent | every task ends | 32,194 |
| `merge_safe` | 2 sessions, 2 handlers, no proxies, 3 crawls, 4 requests, 1 abort | one open crawl; no row is forgotten; rows end by their own crawl | 3,203,945 |
| `merge_fresh` | 2 sessions (one listed), 1 handler, proxies, 2 attempts, 3 crawls, 2 requests, 1 abort | back-off, worker and giving up end fresh rows; interrupted fan-outs are repaired where the row is listed | 24,461 |
| `merge_running` | 1 session, 1 handler | finding, below | |
| `session` | 2 parts, 2 platforms (one chosen at first, which needs proxies), 2 handlers, every request, 2 of them, 1 abort, strict | imports exclude each other; ready means tried; lines keep their tasks; an import whose tasks have ended has left `searching` | 321,074 |
| `decisions` | 2 lines, 2 parts, 2 platforms, 2 handlers, 2 requests, 2 results, 1 abort; gaps are listed while there are fewer than 3 | closed gaps stay and are backed; one run is current; saved runs are complete; ready lines are matched, and by the cheapest quote | 841,609 |
| `hs` | 2 codes, 2 traces (one of a batch), 1 upload, 2 handlers, 3 requests, 1 fault, 1 retry of a stage | codes given out are audited, runs end, uploads are kept | 1,268,957 |
| `hs_manual` | the same without faults | finding, below | |
| `cleaning` | 2 lines of one part and two makers, 2 handlers, 2 requests, 1 replaced entry, 1 abort | canonical makers fit, chosen quotes are accepted, rule B stands | 243,120 |
| `caches` | 1 platform, 1 agent, 2 scripts, 1 name, 2 requests on one of the tables, 1 fault, 1 restart | a stale copy has its reason, and heals | 371,422 |
| `scripts` | 2 versions, 2 contents (one needs dependencies), 2 uploads, 3 publications, 1 fault (of a download, of dependencies or of a removal), 1 death | tasks run whole packages, no marker stays behind, the published version settles | 1,113,056 |

Why the bounds suffice. The queue's rows interact only through the head of a script's queue and an
agent's slots; two agents are needed to take a lease from one another, one retry to requeue and
then to give up. With two retried tasks `queue_live` was also run (302,596 states). In
`MergeDispatch` two handlers and two sessions give every pair of interleaved handlers and a row that
another one's dispatch attaches; three crawls and four requests give an old and a new crawl, retries and a cancelled
row between them. In `BomSession` two requests
give an import that meets one more request of any kind while a result is judged. In `LineDecisions` two handlers give two
closings of one gap, two saves that overlap, and a save that meets a closing; two results give an
entry that is replaced while a run is saved; listing is no request, so gaps cost none. The rows a crawl
brings differ in maker, currency, tiers, lead time and part. In `HsResolve` three requests
give two runs of one trace at once and a confirmation. In `MfrCleaning` the rows of a crawl contain two
that are alike but for their price, so that pairing rows with reviews matters. In
`TableCache` the tables share nothing but the map, so the requests of a behaviour are about one of them. In
`ScriptSync` two uploads overwrite each other's file or give two versions, and three publications publish, replace and
roll back.
Deadlock is checked in the queue; in the others the requests are bounded, so they may stop, and it is not
checked. Agents, sessions, handlers and parts are symmetric where no liveness is checked.

### Fairness

* Queue: the clock goes on; every agent keeps polling (its loop never ends), and its poll gets
  to each of its statements (strong fairness, as a silent phase or a failing query may interrupt it); an agent that
  starts a task reports it. Nothing is assumed of delivery: a lost report is made good by the
  deadline.
* Merge dispatch: a handler that does not die goes on; the worker ticks for ever and meets a
  free handler; the queue ends every crawl; for `FinishedEnds` a user's page lists the tasks of the sessions in
  `Listed` again and again (reconciliation runs in that request only, and for those rows only).
* Caches: the refresher's goroutine goes on and its ticker ticks; the time to live of a name passes.
  Nothing is assumed of requests.
* Scripts: installing, scanning and a running task go on (a task has a time-out); who waits for the lock of
  the script gets it although tasks come again and again (strong fairness: Go's mutex hands the lock over to a
  waiter that is starved). Nothing is assumed of uploads, publications, faults and deaths.

## 5. Proofs

All theorems are proved for every value of the constants, from the assumptions named in the
modules (bounds are natural numbers, `RetryMax` maps tasks to numbers).

**DispatchQueueProofs.** `TypeCorrectness`, `Bound`, `Budget`, `Consistency`, `Fencing` and `Finality`
follow from one inductive invariant, `IInv`. Its core, `RowsCount`, ties the attempt and lease
columns to the number of leases handed out. It is not inductive alone: a snapshot read long ago is
applied later, so `SnapshotsOK` says that lease and attempt of a snapshot agree, and the conditional
update (lease still the same) makes the attempt current. `Justification` adds `Causes`: a lease that is overdue or
in silent hands has been noted, and a snapshot names a lease that has been noted or whose failure was sent, so
whoever applies it late does no wrong. `Refinement` is a step simulation under `IInv`: the status, the number of
leases and who is live of the abstract queue are read off the row (`Status`, `Live`), each step that writes a row is
one abstract step (`StepRefines`), and a poll that leases several tasks is one abstract step of that set.

**MergeDispatchProofs.** `SingleCrawl`: open crawl and in-flight row change together in one
transaction, and a late result deletes the in-flight row of its own crawl only. `OwnCrawlOnly` needs
`OutcomeOK` and `RunningLinked`: a handler's listed rows are checked again, under the row's lock,
against the crawl it serves. `NoneForgotten` has two hypotheses of which one must hold. Without proxies, for any
number of handlers, it needs `Direct`: no handler comes to a proxy step, and whoever read the cache finalizes all rows
it listed. With proxies and one handler it needs `SoloOK`: when the handler deletes the back-off row there is no fresh
row left, since all of them are among those it ended, linked or gave up. With proxies and two handlers the
conclusion is false: one deletes the back-off row the other has written for a row asked for later (section 6).

**BomSessionProofs.** `TypeCorrectness` needs `MarkOK` (a verdict is written only after it was
reached). `ImportsExclude` is inductive by itself: only `Upload` makes a job, and whoever writes the
import status either writes `parsing` or is the job that ends. `ReadyIsTried`: the conclusion is about
the first request of a session, and `First` describes the session until there is a second. Before
the handler comes to its upserts nothing has been asked for, nobody judges and all other handlers are
idle (`Untouched`); while it upserts, the keys left are absent, so a session that lacks one of them
cannot be judged ready; and who judges has read the lines and platforms there are, since nothing else
edits them. Neither readiness nor exclusion assumes anything of the number of handlers, or that
handlers survive. `Coverage` and `SearchIsOver` say something of a session as long as its users import and retry
(`edited` is false): with edits of lines or platforms beside an import both conclusions are false (section 6). The
invariant of `Coverage`, `CoverInv`, says that lines
are covered whenever `import_status` is `idle` or `ready`, and what is still to be asked for by the one job that may
run: after it has cancelled all tasks it will ask for every part (`JobOK`), and while it upserts each key is left to
it or alive. `OneImport` is needed for that, and that retries and results never cancel or remove a task.
`SearchIsOver` adds `SearchInv`: in a session that is `searching` and whose import has asked for all its tasks,
something is still to come (`Awaited`): a task that has not ended, a handler that will judge what the session has now
(`Sees`), or a task was given up since the last result. A result that ends the last task starts such a handler, and a
handler that has read part of the tasks before another one ended has a successor. So nothing is assumed of tasks
ending: the property says that when they have, the last result was not lost on readiness.

**LineDecisionsProofs.** The results about gaps and runs are for any `LineMatching` verdicts: their proofs never look
into what is computed from the rows. `Closed` needs only that every step that writes gaps either appends or updates an
open one (`GapsMove`). `Backed` (`GapInv`) adds what a handler has done: one that is about to close a gap
has written what backs it (`Backs`), and quotes and tasks, once there, stay (`Grown`). `Current` (`RunInv`): a
handler at the end of a save is in charge of its own run (`InCharge`), which is nobody else's (`Alone`), and
unless the newest run overlapped with another it is that one.
The other three look into what is computed, from the assumption that rows have all columns with numbers in them, that
rates are natural numbers and platforms finitely many. `ReadyMeansMatched`: a row that makes a line available is a
candidate of matching, so some platform has an offer and `PickBest` of offers is one. `Complete` (`SaveInv`): a
handler that has judged a session has a match, on what is stored now, for every line it has no excuse for (`Judged`).
An excuse is history that the model keeps: the task of the line was still going on, its row of the substitute came
under the part's own number (`Foreign`), or an entry was replaced between the judgement and the match, which excuses
all lines. Everything else that happens between the reads of a save leaves no line unresolved. `Cheapness`: the choice is least
in the order of the code (`FiniteLeast`: a finite set of keys that are numbers has a least one, by
the well-foundedness of strict inclusion), once per platform and then over the platforms, and that order compares
prices in the base currency first.

**HsResolveProofs.** The invariant says of the tables that the latest row of a trace exists (`TablesOK`), of the
memory that it has the right types (`MemoryOK`), and of each handler what its record means: types by step (`Typed`),
the candidate to be mapped or confirmed is an audit row (`Recorded`), the code of a row it will save or tell has been
recommended (`RowOK`), and the asset exists before the upload is marked (`Kept`). `CodesAreAudited` needs the same of
rows and remembered copies (`RowsOK`, `SeenOK`), from which a request answered by a copy takes its code; that
audit rows only grow makes it stable. `RunningIsWorked` and `UploadKept` follow too, for any number of handlers,
faults and restarts.

**MfrCleaningProofs.** `CanonKnown` is inductive with what handlers hold: the id a patch or a backfill will write
is that of its maker (`PatchKnown`, `FillKnown`), an alias once there does not change, and a listed line still has
the maker it was listed under, or is in `crossed` (`TodoKnown`). `Accepted` needs to know what became of the rows
that matching read before the reviews (`SeenOK`): of each key either they are still there, alike but for their
reviews and in the same order, or their ids are gone for ever, since ids are never given again (`EntriesOK`).
Rows and items are paired by likeness and place, so in the first case a row gets the review of its own item
(`SameNth`, `MergedReview`), and a chosen row is a candidate, which is accepted or of a line without a maker
(`ChosenIsRow`). `RuleBKept`: a step that stores no result changes entries only by one review (`OnlyReviews`). The
order of the rows is strict and total, as ids differ (`BeforeOrders`). After an acceptance the rows before
any row of those reviewed are the same or fewer by the accepted one, so nothing unaccepted comes
among the three cheapest (`AcceptStands`); rejecting a row that is none of them leaves them as they are (`RejectStands`).

**TableCacheProofs.** `StaleIsMissedHolds` rests on two facts about `Drops`: a writer drops every key that shows the
row it writes, and a heartbeat's list key covers all the rows it writes.

**ScriptSyncProofs.** `RunsAreWhole` and `MarkersGo` follow from one invariant: what is being installed has the
checksum of its row, which rows keep, and so has what was downloaded and unpacked (`Installing`); a task runs only
while nobody holds the lock to install (`Exclude`), and is of a version with a row (`RunsHaveRows`); a directory nobody
works on is empty or holds the whole package, unless the agent died over it or something in it could not be removed
(`WholeUnlessTorn`). `Run` itself
compares no checksum, so that what it runs is whole rests on all of these.

`LineDecisionsProofs` and `MfrCleaningProofs` share some lemmas about `LineMatching` word for word: the aliases
are a constant in one module and a variable in the other.

**Only checked by TLC**: everything temporal with fairness (`EventuallyEnds`, `FreshRowEnds`, `FinishedEnds`,
`Heals`, `Settles`, and `RunningEnds`, which fails), which the prover cannot do, and `ManualPrevails`, which fails.
Every other property of a run has a theorem. `merge_safe` has no proxies, since `NoForgottenRow` fails with them and
two handlers; `OneLiveCrawl` and `OwnResult` are proved with and without them.

## 6. What the models showed

Two runs are expected to fail, each against a sentence of the repository (quoted in `PROJECT.json`):

* `merge_running`: the rows of a crawl that is given up stay `running`, and cannot be retried either.
* `hs_manual`: an automatic result overwrites a confirmation. The run looks for a confirmed mapping when it begins
  (`biz/hs_model_resolver.go:297`) and saves its own at the end without looking again (`:610`); the design (2026-04-15,
  line 363) gives a person's confirmation precedence for good.

The rest was seen while modelling, has no run, and is in the models as the code has it. Document and code
differ where a document is named.

Queue, merge dispatch and sessions:

* A late success of a reclaimed lease is accepted when the task was finished by a newer lease
  (`data/dispatch_task_repo.go:253`; `docs/分布式采集Agent-API协议.md:348`), and its output is fanned out again.
* `RetrySearchTasks` leaves a row linked to its old crawl, and `attachPendingBOMTasks` links only rows without a
  link (`data/bom_merge_dispatch.go:90`, `service/bom_service.go:1219`; design 2026-03-27-bom-sourcing, line 132).
* A cancelled row is ended by its crawl's result (`data/bom_search_task_repo.go:319`; same design, line 146).
* A line created between an import's replacement of the lines and its cancelling of all tasks loses its task
  (`service/bom_import_async.go:197`).
* The agent notes a task as running when its goroutine gets a slot, which may be after the next poll has
  reported what runs (`agentapp/app.go:223`). `recordProxyAcquireFailure` reads the attempt and writes it plus one
  without a lock, so two concurrent failures count once (`data/bom_merge_dispatch.go:176`).
* With proxies a request that dispatches deletes the back-off row that another request has just written
  (`data/bom_merge_dispatch.go:384`); that request's row is then pending with nothing to come back to
  it. `NoForgottenRow` is therefore claimed for platforms without proxies and for handlers one at a time.
* The cache is read outside the dispatch transaction: a key that is cached meanwhile is crawled again.
* `RetrySearchTasks` ignores rows with `no_result` and `cancelled`, which the status page offers to retry.
* There is no periodic readiness scan (design 2026-03-27, 3.4, asks for one): deleting the line, or
  removing the platform, of the last pending task, a server crash, or a session without platforms
  leaves `searching` for ever. `SearchEnds` is stated without these: of sessions whose users import and retry, and
  whose handlers live.
* `PutPlatforms` asks for and cancels no task (section 4 of that design).
* Replacing, deleting and patching lines read the revision without a lock: increments are lost, the
  number may go back, and the revision check of `PutPlatforms` can pass with an outdated view.
* A session stays `data_ready` after a line is created or patched or a task retried, and a verdict
  reached before a new import may be written after it. `ReadyMeansTried` is stated for the first request.
* Deleting or patching one of two lines with the same part number cancels the tasks of the other.
* A crash during an import, or a cancelled request, leaves `import_status` at `parsing`, and every later
  upload is refused.
* A key whose proxy attempts are spent fails its rows without judging readiness (`data/bom_merge_dispatch.go:195`): a
  session whose last task ends so stays in `searching` until another result comes. `SearchEnds` names this
  (`unjudged`); without that conjunct it fails.
* Reconciliation considers rows of the lines' own part numbers and the session's platforms
  (`service/bom_service.go:882`): the rows of a substitute, or of a platform that was removed, stay `running` when
  the callback of their crawl died. `FinishedEnds` is of listed rows.

Gaps, match runs and matching:

* A closed gap gets the active key `''`, under a unique index: only one gap in the whole table can be closed, and
  each later attempt fails after its quote or tasks were written (`data/bom_line_gap_repo.go:80`). That is why two
  requests cannot both close one gap, too.
* Manual quotes never count: no session has the platform `manual`, so the gap opens again at the next listing
  (design 2026-04-25-bom-line-data-availability, line 144). Reading the items of a line with a manual quote fails,
  since the statement asks `t_bom_quote_cache` for a column `stock`: availability and saving fail from then on.
  A manual quote for the same part by another line or session replaces the items.
* `SelectLineGapSubstitute` never sets the line's `substitute_mpn`; the run's source says `substitute_match` only
  from the gap, and the substitute's own entries are ignored by availability.
* A row of the substitute found under the part's own number makes a line ready and does not match (`Foreign`).
* Editing the substitute of a line cancels tasks that other lines need (`PatchSessionLine`).
* Availability leaves out an entry that is there when this session's task failed; gaps are computed by other code
  than the availability users see; matching a session that is not `data_ready` needs lenient mode and all tasks ended.
* Two saves that overlap supersede each other and leave no saved run.

Makers:

* A maker that is edited while an approval or clean-up has the line listed leaves the line with the other maker's id
  (`data/bom_manufacturer_cleaning_repo.go:70`).
* The list of quotes to review passes a line number where an id is asked for, so it is empty unless the two are equal.
* Rule B counts quotes accepted for another maker, ignores whether the line asks for one, and is blocked by rows
  whose stock cannot be parsed, which the list never shows; its price is the first tier with a minimum above the
  quantity. Accepting with the default maker finds only manual items; approving a maker accepts none of its quotes.

HS codes:

* The look-up by trace ignores the upload: a request with a new datasheet is answered by the earlier, failed run
  (design 2026-04-19-hs-resolve-manual-datasheet, line 79). Failed and running runs answer their trace for ever
  (design 2026-04-15-hs-model-to-code-ts, line 363).
* Polls of a run may say `running` for ever after another request of its trace was answered by a copy, or after the
  last save of the run failed (same design, lines 294 and 373: polls end); after a confirmation they show the state
  before.
* A run may be confirmed though a newer one was saved after the check (lines 316, 382). A run that is still running can
  be confirmed; confirming copies a row read before and leaves the row's best code as it was, also when another rank
  was picked; its idempotence is in memory only.
* Runs of one trace that bring different candidates collide in `SaveTopN`, which may mark a finished run as failed.
* An upload whose later stage fails is used up; two runs that read it at once both use it.

Caches:

* A login or a single platform filled from a read that overlapped a write stays stale until the server restarts or the
  next write; with the refresher off, which is the default, so do all lists (design
  2026-03-30-four-tables-inproc-cache, line 101). The refresher never visits an agent whose last row is deleted, so
  its list stays; a heartbeat that fails half-way leaves the old list. `Heals` is stated without these.

Scripts:

* A version that is uploaded again overwrites the file that its published row serves and, being refused, removes it:
  agents can no longer install it (`service/script_package_admin.go:181`; docs/Agent脚本包分发-PRD与接口.md, line 58,
  wants file and checksum to agree).
* Of the versions an agent reports the server keeps the one whose directory is listed last. After a rollback, or when
  a new version's name sorts first (1.10 before 1.9), the published version is downloaded again at every heartbeat, and
  its tasks match no agent (same document, line 14).
* Errors of removals are ignored (`agentapp/sync.go:123`, `:131`, `:167`, `:193`, `:196`). A directory that cannot be
  emptied is installed over, or left with some of its files and perhaps a `version.txt`, which makes it look ready; a
  marker `preparing` that cannot be removed bars the version for good. `RunsWhole`, `PreparingIsWorked` and `Settles`
  except these (`torn`), like a crash. A marker of failed dependencies that cannot be written (`:192`) leaves a
  directory that looks ready without them; that breaks none of the three, as the package itself is whole.
* A crash while installing leaves the marker `preparing`, and `needsScriptSync` never asks for that version again; a crash
  while a directory is removed may leave its `version.txt` without all files, and the version is reported as ready.
* Dependencies that failed to install are not tried again, and `RunTask` looks at no marker
  (docs/分布式采集Agent需求与架构.md, lines 185 and 188, want a ready environment). The server keeps an installed version
  when none is reported any more. The scan of the directories takes no lock.

## 7. Not modelled

* The agent hub: the scheduler of a server without a database. It accepts a result without comparing leases; no
  sessions, in-flight rows or tasks exist in that mode. One mutex guards it, so its steps do not interleave.
* The HS catalogue and its queries, parsers and clients of external services: text processing and I/O; their results
  and errors are inputs of the models.
* Registry and authorisation: single statements. The installation of Python itself.
* The fetching of exchange rates: a rate is there or not.
* The web pages, generated code (most of the repository's lines of Go outside `internal/`) and configuration.

Hazards without a property are listed in `PROJECT.json` with the reason: a property would be false in the code and
promised by no document, or it is among the differences above.
