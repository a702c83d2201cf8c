--------------------------- MODULE MergeDispatch ---------------------------
(***************************************************************************)
(* One merge key (mpn_norm, platform_id, biz_date): the search rows of the *)
(* sessions that want it (t_bom_search_task), the crawls dispatched for it *)
(* (t_caichip_dispatch_task, t_bom_merge_inflight), its quote cache and    *)
(* its proxy back-off row: data/bom_merge_dispatch.go,                     *)
(* data/bom_search_task_repo.go, data/bom_merge_proxy_wait_repo.go,        *)
(* data/merge_proxy_retry_worker.go, biz/bom_agent_stdout.go,              *)
(* service/bom_service.go and service/bom_search_task_reconcile.go.        *)
(*                                                                         *)
(* Requests, result callbacks and the retry worker run concurrently in any *)
(* number of processes.  Each is a handler; a step of a handler is one     *)
(* database statement or transaction, and what it read stays in its record *)
(* until it acts on it.  A crawl is a dispatch task seen from here: open   *)
(* (pending or leased), finished or failed_terminal.  The rows of other    *)
(* keys are independent of these: no statement touches two keys except to  *)
(* cancel or delete rows one by one.                                       *)
(***************************************************************************)
EXTENDS Naturals, FiniteSets

CONSTANTS
    Session,            \* sessions with a line for this key
    Listed,             \* of these, the ones whose page shows its row
    Handler,            \* requests, callbacks and workers in progress
    NeedProxy,          \* platformRequiresProxy
    MaxProxyAttempts,   \* max_attempts of the proxy back-off
    MaxCrawl,           \* bound: crawls dispatched for the key
    MaxRequests,        \* bound: requests of users and direct results
    MaxAborts           \* bound: handlers that die half-way

ASSUME BoundsAssumption ==
    /\ Listed \subseteq Session
    /\ NeedProxy \in BOOLEAN
    /\ MaxProxyAttempts \in Nat \ {0}
    /\ MaxCrawl \in Nat /\ MaxRequests \in Nat /\ MaxAborts \in Nat

VARIABLES
    row,        \* [Session -> state of its search row]
    link,       \* [Session -> caichip_task_id of the row, NULL is 0]
    status,     \* [Crawl -> state of the dispatch task]
    inflight,   \* task_id of the in-flight row of the key, 0 for no row
    cache,      \* outcome of the cached quotes, "none" for no row
    wait,       \* attempt of the proxy back-off row, 0 for no row
    due,        \* next_retry_at of that row has passed
    h,          \* [Handler -> record of what it does and has read]
    requests, aborts

vars == <<row, link, status, inflight, cache, wait, due, h, requests, aborts>>

Crawl     == 1 .. MaxCrawl
RowStates == {"absent", "pending", "running", "succeeded", "no_result",
              "failed_terminal", "cancelled"}
Steps     == {"idle", "keys", "look", "hit", "finalizeCached", "proxy", "refused",
              "record", "giveUp", "tx", "cleanup", "list", "listOr", "finalize",
              "recon", "retry"}
\* Next step; rows still to finalize or dispatch; crawl and outcome to write, or
\* the state read; attempt read.
HandlerRecord == [pc : Steps, todo : SUBSET Session, crawl : 0 .. MaxCrawl,
                  outcome : RowStates, prev : 0 .. MaxProxyAttempts]
Idle      == [pc |-> "idle", todo |-> {}, crawl |-> 0, outcome |-> "absent", prev |-> 0]

Init ==
    /\ row      = [s \in Session |-> "absent"]
    /\ link     = [s \in Session |-> 0]
    /\ status   = [d \in Crawl |-> "absent"]
    /\ inflight = 0
    /\ cache    = "none"
    /\ wait     = 0
    /\ due      = FALSE
    /\ h        = [p \in Handler |-> Idle]
    /\ requests = 0
    /\ aborts   = 0

At(p, pc)      == h[p].pc = pc
Goto(p, pc)    == h' = [h EXCEPT ![p].pc = pc]
Become(p, rec) == h' = [h EXCEPT ![p] = rec]
Done(p)        == Become(p, Idle)
NewRequest     == requests < MaxRequests /\ requests' = requests + 1
Dispatched     == Cardinality({d \in Crawl : status[d] # "absent"})

-----------------------------------------------------------------------------
(* Requests *)

\* UpsertPendingTasks for the key in one session (import, new or changed line,
\* gap search): pending again, link cleared.  Then the session is dispatched.
Ask(p, s) ==
    /\ At(p, "idle") /\ NewRequest
    /\ row'  = [row EXCEPT ![s] = "pending"]
    /\ link' = [link EXCEPT ![s] = 0]
    /\ Become(p, [Idle EXCEPT !.pc = "keys", !.todo = {s}])
    /\ UNCHANGED <<status, inflight, cache, wait, due, aborts>>

\* CancelTasksBySessionMpnNorm, CancelAllTasksBySession: whatever its state.
Cancel(s) ==
    /\ row[s] # "absent" /\ NewRequest
    /\ row' = [row EXCEPT ![s] = "cancelled"]
    /\ UNCHANGED <<link, status, inflight, cache, wait, due, h, aborts>>

\* RetrySearchTasks reads the state of the row ...
Retry(p, s) ==
    /\ At(p, "idle") /\ NewRequest
    /\ Become(p, [Idle EXCEPT !.pc = "retry", !.todo = {s}, !.outcome = row[s]])
    /\ UNCHANGED <<row, link, status, inflight, cache, wait, due, aborts>>

\* ... and acts on what it read: a missing row is inserted, a failed one set to
\* pending (its caichip_task_id is kept), any other is left alone.
RetryDecide(p) ==
    /\ At(p, "retry")
    /\ LET retried == IF h[p].outcome \in {"absent", "failed_terminal"} THEN h[p].todo ELSE {}
       IN  /\ row'  = [s \in Session |-> IF s \in retried THEN "pending" ELSE row[s]]
           /\ link' = [s \in Session |->
                          IF s \in retried /\ h[p].outcome = "absent" THEN 0 ELSE link[s]]
           /\ IF retried = {} THEN Done(p)
              ELSE Become(p, [Idle EXCEPT !.pc = "keys", !.todo = retried])
    /\ UNCHANGED <<status, inflight, cache, wait, due, requests, aborts>>

\* SubmitBomSearchResult, with or without the id of a crawl.
SubmitResult(p, s) ==
    /\ At(p, "idle") /\ NewRequest
    /\ \E outcome \in {"succeeded", "no_result", "failed_terminal"},
          d \in {0} \cup {c \in Crawl : status[c] # "absent"} :
          Become(p, [Idle EXCEPT !.pc = IF d = 0 THEN "finalize" ELSE "listOr",
                                 !.todo = {s}, !.crawl = d, !.outcome = outcome])
    /\ UNCHANGED <<row, link, status, inflight, cache, wait, due, aborts>>

-----------------------------------------------------------------------------
(* Dispatch: TryDispatchPendingKeysForSession, TryDispatchMergeKey *)

ListKeys(p) ==
    /\ At(p, "keys")
    /\ IF \E s \in h[p].todo : row[s] = "pending"
       THEN Become(p, [Idle EXCEPT !.pc = "look"])
       ELSE Done(p)
    /\ UNCHANGED <<row, link, status, inflight, cache, wait, due, requests, aborts>>

\* What a cached outcome makes of a row.
FromCache == IF cache = "no_mpn_match" THEN "no_result" ELSE "succeeded"

\* LoadQuoteCacheByMergeKey.
LookUp(p) ==
    /\ At(p, "look")
    /\ IF cache # "none"
       THEN Become(p, [Idle EXCEPT !.pc = "hit", !.outcome = FromCache])
       ELSE Goto(p, IF NeedProxy THEN "proxy" ELSE "tx")
    /\ UNCHANGED <<row, link, status, inflight, cache, wait, due, requests, aborts>>

\* ListPendingLookupsByMergeKey: of all sessions, linked or not.
ListPending(p) ==
    /\ At(p, "hit")
    /\ Become(p, [h[p] EXCEPT !.pc = "finalizeCached",
                              !.todo = {s \in Session : row[s] = "pending"}])
    /\ UNCHANGED <<row, link, status, inflight, cache, wait, due, requests, aborts>>

\* GetFirstProxy, outside the transaction.
AcquireProxy(p) ==
    /\ At(p, "proxy")
    /\ \E next \in {"tx", "refused"} : Goto(p, next)
    /\ UNCHANGED <<row, link, status, inflight, cache, wait, due, requests, aborts>>

\* recordProxyAcquireFailure reads the back-off row ...
ReadWait(p) ==
    /\ At(p, "refused")
    /\ Become(p, [h[p] EXCEPT !.pc = "record", !.prev = wait])
    /\ UNCHANGED <<row, link, status, inflight, cache, wait, due, requests, aborts>>

\* Mutant of RecordFailure: the attempts are compared with one too many.
RecordFailureOneMore(p) ==
    /\ At(p, "record")
    /\ IF h[p].prev > MaxProxyAttempts
       THEN Goto(p, "giveUp") /\ UNCHANGED <<wait, due>>
       ELSE wait' = h[p].prev + 1 /\ due' = FALSE /\ Done(p)
    /\ UNCHANGED <<row, link, status, inflight, cache, requests, aborts>>

\* ... and writes it again, unless the attempts or the wall clock are exhausted.
RecordFailure(p) ==
    /\ At(p, "record")
    /\ \E tooLate \in BOOLEAN :
          /\ tooLate => h[p].prev > 0
          /\ IF h[p].prev + 1 > MaxProxyAttempts \/ tooLate
             THEN Goto(p, "giveUp") /\ UNCHANGED <<wait, due>>
             ELSE wait' = h[p].prev + 1 /\ due' = FALSE /\ Done(p)
    /\ UNCHANGED <<row, link, status, inflight, cache, requests, aborts>>

\* Rows that no crawl has been linked to and that still wait for one.
Unlinked == {s \in Session : row[s] = "pending" /\ link[s] = 0}

\* Mutant of GiveUp: the rows are left pending when the back-off row goes.
GiveUpSilently(p) ==
    /\ At(p, "giveUp")
    /\ Goto(p, "cleanup")
    /\ UNCHANGED <<row, link, status, inflight, cache, wait, due, requests, aborts>>

\* FailPendingTasksForMergeKey.
GiveUp(p) ==
    /\ At(p, "giveUp")
    /\ row' = [s \in Session |-> IF s \in Unlinked THEN "failed_terminal" ELSE row[s]]
    /\ Goto(p, "cleanup")
    /\ UNCHANGED <<link, status, inflight, cache, wait, due, requests, aborts>>

\* attachPendingBOMTasks.
Attach(S, d) ==
    /\ row'  = [s \in Session |-> IF s \in S THEN "running" ELSE row[s]]
    /\ link' = [s \in Session |-> IF s \in S THEN d ELSE link[s]]

\* The dispatch task of the in-flight row is pending or leased.
Reusable == inflight # 0 /\ status[inflight] = "open"

\* Mutant of DispatchTx: a request that finds an open crawl does not join it.
DispatchTxNoJoin(p) ==
    /\ At(p, "tx")
    /\ IF Reusable THEN UNCHANGED <<row, link, status, inflight>>
       ELSE LET d == Dispatched + 1
            IN  /\ d <= MaxCrawl
                /\ status'  = [status EXCEPT ![d] = "open"]
                /\ inflight' = d
                /\ Attach(Unlinked, d)
    /\ Goto(p, "cleanup")
    /\ UNCHANGED <<cache, wait, due, requests, aborts>>

\* tryDispatchMergeKeyTx: join the open crawl of the key or dispatch a new one.
\* The in-flight row is locked; a competing insert loses on the primary key and
\* tries again, so the transactions of a key take effect one after the other.
DispatchTx(p) ==
    /\ At(p, "tx")
    /\ IF Reusable
       THEN Attach(Unlinked, inflight) /\ UNCHANGED <<status, inflight>>
       ELSE LET d == Dispatched + 1
            IN  /\ d <= MaxCrawl
                /\ status'  = [status EXCEPT ![d] = "open"]
                /\ inflight' = d
                /\ Attach(Unlinked, d)
    /\ Goto(p, "cleanup")
    /\ UNCHANGED <<cache, wait, due, requests, aborts>>

\* The back-off row is deleted after a dispatch, a cache hit or giving up.
Cleanup(p) ==
    /\ At(p, "cleanup")
    /\ wait' = 0 /\ due' = FALSE
    /\ Done(p)
    /\ UNCHANGED <<row, link, status, inflight, cache, requests, aborts>>

-----------------------------------------------------------------------------
(* The retry worker *)

WaitElapses ==
    /\ wait # 0 /\ ~due
    /\ due' = TRUE
    /\ UNCHANGED <<row, link, status, inflight, cache, wait, h, requests, aborts>>

\* tickOnce: ListDue, then TryDispatchMergeKey of the key.
WorkerWakes(p) ==
    /\ At(p, "idle") /\ due
    /\ Become(p, [Idle EXCEPT !.pc = "look"])
    /\ UNCHANGED <<row, link, status, inflight, cache, wait, due, requests, aborts>>

-----------------------------------------------------------------------------
(* Results *)

\* Mutant of ResultAccepted: FinishLeased clears the in-flight row of the key
\* instead of the one of its task.
ResultAcceptedClearsKey(p, d) ==
    /\ At(p, "idle") /\ status[d] \in {"open", "finished"}
    /\ status'   = [status EXCEPT ![d] = "finished"]
    /\ inflight' = 0
    /\ \E outcome \in {"succeeded", "failed_terminal"} :
          Become(p, [Idle EXCEPT !.pc = "list", !.crawl = d, !.outcome = outcome])
    /\ UNCHANGED <<row, link, cache, wait, due, requests, aborts>>

\* TaskResult of a success that the queue accepts, the first time or again:
\* FinishLeased deletes the in-flight row of the task, an error of that delete is
\* ignored.  Output that is empty or cannot be parsed fails the rows.
ResultAccepted(p, d) ==
    /\ At(p, "idle") /\ status[d] \in {"open", "finished"}
    /\ status' = [status EXCEPT ![d] = "finished"]
    /\ \E deleted \in BOOLEAN :
          inflight' = IF deleted /\ inflight = d THEN 0 ELSE inflight
    /\ \E outcome \in {"succeeded", "failed_terminal"} :
          Become(p, [Idle EXCEPT !.pc = "list", !.crawl = d, !.outcome = outcome])
    /\ UNCHANGED <<row, link, cache, wait, due, requests, aborts>>

\* The queue gives the dispatch task up (FailLeasedTerminal): nothing else is
\* told.  A result that is not a success never reaches the search rows.
CrawlFails(d) ==
    /\ status[d] = "open"
    /\ status' = [status EXCEPT ![d] = "failed_terminal"]
    /\ UNCHANGED <<row, link, inflight, cache, wait, due, h, requests, aborts>>

\* ListSearchTaskLookupsByCaichipTaskID: rows of any state linked to the crawl.
\* A direct result whose crawl has no row is for the row it names.
ListLinked(p) ==
    /\ h[p].pc \in {"list", "listOr"}
    /\ LET linked == {s \in Session : row[s] # "absent" /\ link[s] = h[p].crawl}
       IN  IF linked # {} THEN Become(p, [h[p] EXCEPT !.pc = "finalize", !.todo = linked])
           ELSE IF At(p, "listOr") THEN Goto(p, "finalize") ELSE Done(p)
    /\ UNCHANGED <<row, link, status, inflight, cache, wait, due, requests, aborts>>

\* Mutant of Refused: no comparison of the crawl's id with the row's.
RefusedIfAbsent(s, d) == row[s] = "absent"

\* FinalizeSearchTask finds no row, or a row of another crawl.
Refused(s, d) ==
    row[s] = "absent" \/ (d # 0 /\ link[s] # 0 /\ link[s] # d)

\* FinalizeSearchTask, one transaction per row: the row and the quote cache.
\* A refused row ends the handler; the rows after it are not written.
FinalizeOne(p) ==
    /\ h[p].pc \in {"finalize", "finalizeCached"}
    /\ \E s \in h[p].todo :
          IF Refused(s, h[p].crawl)
          THEN Done(p) /\ UNCHANGED <<row, cache>>
          ELSE /\ row'   = [row EXCEPT ![s] = h[p].outcome]
               /\ cache' = CASE h[p].outcome = "succeeded" -> "ok"
                             [] h[p].outcome = "no_result" -> "no_mpn_match"
                             [] OTHER -> cache
               /\ h' = [h EXCEPT ![p].todo = @ \ {s}]
    /\ UNCHANGED <<link, status, inflight, wait, due, requests, aborts>>

FinalizeEnd(p) ==
    /\ h[p].pc \in {"finalize", "finalizeCached"} /\ h[p].todo = {}
    /\ IF At(p, "finalizeCached") THEN Goto(p, "cleanup") ELSE Done(p)
    /\ UNCHANGED <<row, link, status, inflight, cache, wait, due, requests, aborts>>

\* ListSessionSearchTasks finds a running row whose crawl has finished; it shows
\* the rows of a line's own part number on the platforms of the session, not
\* those of substitutes or of platforms the session no longer has ...
Reconcile(p, s) ==
    /\ At(p, "idle") /\ s \in Listed /\ row[s] = "running"
    /\ link[s] # 0 /\ status[link[s]] = "finished"
    /\ Become(p, [Idle EXCEPT !.pc = "recon", !.todo = {s}, !.crawl = link[s]])
    /\ UNCHANGED <<row, link, status, inflight, cache, wait, due, requests, aborts>>

\* Mutant of ReconcileLook: rows without cached quotes are left as they are.
ReconcileLookHitOnly(p) ==
    /\ At(p, "recon")
    /\ IF cache = "none" THEN Done(p)
       ELSE Become(p, [h[p] EXCEPT !.pc = "finalize", !.outcome = FromCache])
    /\ UNCHANGED <<row, link, status, inflight, cache, wait, due, requests, aborts>>

\* ... and ends it with the cached outcome, or as failed.
ReconcileLook(p) ==
    /\ At(p, "recon")
    /\ Become(p, [h[p] EXCEPT !.pc = "finalize",
                     !.outcome = IF cache = "none" THEN "failed_terminal" ELSE FromCache])
    /\ UNCHANGED <<row, link, status, inflight, cache, wait, due, requests, aborts>>

\* The process dies, or a statement of the handler fails: later ones never run.
Abort(p) ==
    /\ ~At(p, "idle") /\ aborts < MaxAborts
    /\ aborts' = aborts + 1
    /\ Done(p)
    /\ UNCHANGED <<row, link, status, inflight, cache, wait, due, requests>>

-----------------------------------------------------------------------------
Arrival(p) ==
    \/ \E s \in Session : Ask(p, s) \/ Retry(p, s) \/ SubmitResult(p, s) \/ Reconcile(p, s)
    \/ \E d \in Crawl : ResultAccepted(p, d)
    \/ WorkerWakes(p)

Progress(p) ==
    \/ RetryDecide(p) \/ ListKeys(p) \/ LookUp(p) \/ ListPending(p)
    \/ AcquireProxy(p) \/ ReadWait(p) \/ RecordFailure(p) \/ GiveUp(p)
    \/ DispatchTx(p) \/ Cleanup(p)
    \/ ListLinked(p) \/ FinalizeOne(p) \/ FinalizeEnd(p) \/ ReconcileLook(p)

Next ==
    \/ \E p \in Handler : Arrival(p) \/ Progress(p) \/ Abort(p)
    \/ \E s \in Session : Cancel(s)
    \/ \E d \in Crawl : CrawlFails(d)
    \/ WaitElapses

Spec == Init /\ [][Next]_vars

\* A handler that does not die goes on; time passes; the worker ticks for ever;
\* the queue ends every crawl (DispatchQueue) and a user's page asks for the
\* session's tasks again and again.
Fairness ==
    /\ \A p \in Handler : WF_vars(Progress(p))
    /\ WF_vars(WaitElapses)
    /\ SF_vars(\E p \in Handler : WorkerWakes(p))
    /\ \A d \in Crawl : SF_vars(CrawlFails(d) \/
                                (status[d] = "open" /\ \E p \in Handler : ResultAccepted(p, d)))
    /\ \A s \in Listed : SF_vars(\E p \in Handler : Reconcile(p, s))

FairSpec == Spec /\ Fairness

-----------------------------------------------------------------------------
(* Properties *)

\* Variables hold values of their types.
TypeOK ==
    /\ row      \in [Session -> RowStates]
    /\ link     \in [Session -> 0 .. MaxCrawl]
    /\ status   \in [Crawl -> {"absent", "open", "finished", "failed_terminal"}]
    /\ inflight \in 0 .. MaxCrawl
    /\ cache    \in {"none", "ok", "no_mpn_match"}
    /\ wait     \in 0 .. MaxProxyAttempts
    /\ due      \in BOOLEAN
    /\ h        \in [Handler -> HandlerRecord]
    /\ requests \in 0 .. MaxRequests
    /\ aborts   \in 0 .. MaxAborts

\* At most one crawl of a key is in the queue at a time, and the in-flight row
\* names it, whatever late or repeated results of older crawls arrive while
\* requests of several sessions dispatch it.
OneLiveCrawl == \A d \in Crawl : status[d] = "open" => inflight = d

\* A row in progress is ended only by a result of its own crawl (or one that
\* names none): a result listed for an older crawl never ends a row that was
\* asked for again and attached to a newer one.
OwnResult ==
    [][\A s \in Session :
          (row[s] = "running" /\ row'[s] \in {"succeeded", "no_result", "failed_terminal"}) =>
             \E p \in Handler : s \in h[p].todo /\ h[p].crawl \in {0, link[s]}]_vars

\* Some handler is on its way to dispatch, finalize or give up the fresh row, or
\* the back-off row will bring the worker to it.
Attended(s) ==
    \/ wait # 0
    \/ \E p \in Handler :
          \/ h[p].pc \in {"look", "hit", "proxy", "refused", "record", "giveUp", "tx"}
          \/ h[p].pc \in {"keys", "finalizeCached"} /\ s \in h[p].todo

\* As long as no handler died, no fresh row is forgotten: nothing sweeps pending
\* rows, so one that no handler and no back-off row attends to waits until its user
\* does something else.  On platforms that need proxies this holds of handlers one
\* at a time only: one may delete the back-off row another has just written.
NoForgottenRow == aborts = 0 => \A s \in Unlinked : Attended(s)

\* A fresh row whose key is being dispatched leaves pending, unless a handler dies.
FreshRowEnds ==
    \A s \in Session :
        (s \in Unlinked /\ \E p \in Handler : At(p, "look"))
            ~> (row[s] # "pending" \/ aborts > 0)

\* A listed row whose crawl finished does not stay running, even if the callback
\* died or stopped half-way through its rows: reading the task list reconciles it
\* (bom_service.go:896).
FinishedEnds ==
    \A s \in Listed :
        (row[s] = "running" /\ link[s] # 0 /\ status[link[s]] = "finished")
            ~> (row[s] # "running")

(* What the design says and the code does not do *)

\* The outcome of a crawl ends its running rows (bom-sourcing design, 3.5.6).
RunningEnds == \A s \in Session : (row[s] = "running") ~> (row[s] # "running")
=============================================================================
