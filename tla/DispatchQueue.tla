--------------------------- MODULE DispatchQueue ---------------------------
(***************************************************************************)
(* The database dispatch queue (table t_caichip_dispatch_task), the        *)
(* handlers of the server that work on it and the agents that run its      *)
(* tasks: biz/db_task_scheduler.go, data/dispatch_task_repo.go,            *)
(* data/dispatch_task_retry.go, service/agent.go and agentapp/app.go.      *)
(*                                                                         *)
(* Any number of server processes may run.  Each handler is a sequence of  *)
(* database statements and other handlers run between any two of them: a   *)
(* long poll lists the stale leases, then returns each of them to the      *)
(* queue, then leases tasks to its agent; the handler of a failed result   *)
(* loads the lease, then updates it.  What a handler read and has not yet  *)
(* applied is a snapshot.  Time is abstracted to the facts the code tests: *)
(* a lease is past its deadline (overdue), an agent's last heartbeat is    *)
(* older than the offline threshold (silent), a pending task may not be    *)
(* claimed yet (waiting).                                                  *)
(***************************************************************************)
EXTENDS Naturals, FiniteSets

CONSTANTS
    Task,       \* task_id values
    Agent,      \* agent_id values
    ScriptOf,   \* [Task -> script_id]
    CanRun,     \* pairs <<agent, task>> that MatchTaskForAgent accepts
    RetryMax,   \* [Task -> Nat], the retry_max column
    MaxPull     \* most tasks handed out by one pull (4 in the code)

ASSUME TaskAssumption == IsFiniteSet(Task)
ASSUME RetryMaxAssumption == RetryMax \in [Task -> Nat]
ASSUME CanRunAssumption == CanRun \subseteq Agent \X Task
ASSUME MaxPullAssumption == MaxPull \in Nat \ {0}

VARIABLES
    \* columns of t_caichip_dispatch_task
    state,      \* "absent" before the insert, else the state column
    id,         \* the auto-increment id, 0 before the insert
    attempt,    \* the attempt column, 0 before the insert
    lease,      \* lease_id: the n-th lease of the task is n, NULL is 0
    holder,     \* leased_to_agent_id: {} for NULL, else a singleton
    waiting,    \* next_claim_at is in the future
    overdue,    \* lease_deadline_at has passed
    \* t_caichip_agent
    silent,     \* agents with no heartbeat inside the offline threshold
    \* handlers in progress
    phase,      \* [Agent -> where the long poll of the agent is]
    busy,       \* [Agent -> tasks the polling agent reported as running]
    stale,      \* [Agent -> snapshots its long poll listed, not yet applied]
    failing,    \* snapshots loaded by handlers of failed results
    \* agents
    holds,      \* [Agent -> executions it received and has not finished]
    running,    \* [Agent -> keys of its map of running tasks]
    sent,       \* results sent: each may be delivered never, once, or again
    \* history, read by no action's guard
    issued,     \* [Task -> number of leases handed out]
    lapsed      \* <<task, lease>> that were overdue or held by a silent agent

row       == <<state, id, attempt, lease, holder, waiting, overdue>>
server    == <<phase, busy, stale, failing>>
agentSide == <<holds, running, sent>>
history   == <<issued, lapsed>>
vars      == <<row, silent, server, agentSide, history>>

RowStates == {"absent", "pending", "leased", "finished", "failed_terminal"}
Terminal  == {"finished", "failed_terminal"}
Snapshot  == [task : Task, lease : Nat \ {0}, attempt : Nat \ {0}]
Execution == [task : Task, lease : Nat \ {0}, at : {"queued", "started"}]
Result    == [task : Task, lease : Nat \ {0}, status : {"success", "failed"}]

Init ==
    /\ state    = [t \in Task |-> "absent"]
    /\ id       = [t \in Task |-> 0]
    /\ attempt  = [t \in Task |-> 0]
    /\ lease    = [t \in Task |-> 0]
    /\ holder   = [t \in Task |-> {}]
    /\ waiting  = [t \in Task |-> FALSE]
    /\ overdue  = [t \in Task |-> FALSE]
    /\ silent   = Agent
    /\ phase    = [a \in Agent |-> "idle"]
    /\ busy     = [a \in Agent |-> {}]
    /\ stale    = [a \in Agent |-> {}]
    /\ failing  = {}
    /\ holds    = [a \in Agent |-> {}]
    /\ running  = [a \in Agent |-> {}]
    /\ sent     = {}
    /\ issued   = [t \in Task |-> 0]
    /\ lapsed   = {}

-----------------------------------------------------------------------------
(* Rows *)

\* Mutants of Matches: the UPDATE without its lease_id, without its state condition.
MatchesAnyLease(t, l) == state[t] = "leased"
MatchesAnyState(t, l) == lease[t] = l /\ l # 0

\* The lease-guarded UPDATE of updateLeasedTask and FinishLeased matches the row.
Matches(t, l) == state[t] = "leased" /\ lease[t] = l

RowSnapshot(t) == [task |-> t, lease |-> lease[t], attempt |-> attempt[t]]

HeldBySilent(t, quiet) == holder[t] \cap quiet # {}

\* Mutants of StaleTasks: a join that forgets agent_id; no deadline condition.
StaleAnyAgent == {t \in Task : state[t] = "leased" /\ (overdue[t] \/ silent # {})}
StaleOnlySilent == {t \in Task : state[t] = "leased" /\ HeldBySilent(t, silent)}

StaleTasks ==
    {t \in Task : state[t] = "leased" /\ (overdue[t] \/ HeldBySilent(t, silent))}

\* Mutants of MayRetry: the bound off by one, either way.
MayRetryOneMore(s) == 1 <= s.attempt /\ s.attempt <= RetryMax[s.task] + 1
MayRetryOneLess(s) == 1 <= s.attempt /\ s.attempt < RetryMax[s.task]

\* DelayForFailedAttempt grants another attempt.  The stored back-off is never
\* empty: the row is created with the task's or the default sequence.
MayRetry(s) == 1 <= s.attempt /\ s.attempt <= RetryMax[s.task]

\* RequeueLeased or FailLeasedTerminal for a snapshot.  An UPDATE that matches
\* no row changes nothing; its error is dropped or answered with 409.
ApplyFailure(s) ==
    LET t == s.task IN
    IF Matches(t, s.lease)
    THEN /\ state'   = [state EXCEPT ![t] = IF MayRetry(s) THEN "pending"
                                                           ELSE "failed_terminal"]
         /\ attempt' = [attempt EXCEPT ![t] = IF MayRetry(s) THEN s.attempt + 1 ELSE @]
         /\ waiting' = [waiting EXCEPT ![t] = MayRetry(s)]
         /\ lease'   = [lease EXCEPT ![t] = 0]
         /\ holder'  = [holder EXCEPT ![t] = {}]
         /\ overdue' = [overdue EXCEPT ![t] = FALSE]
         /\ UNCHANGED id
    ELSE UNCHANGED row

\* Number of tasks ever inserted: the next auto-increment id is one more.
Inserted == Cardinality({t \in Task : state[t] # "absent"})

\* Mutant of Enqueue: the attempt of a new task is left at its zero value.
EnqueueZeroAttempt(t) ==
    /\ state[t] = "absent"
    /\ state' = [state EXCEPT ![t] = "pending"]
    /\ id'    = [id EXCEPT ![t] = Inserted + 1]
    /\ UNCHANGED <<attempt, lease, holder, waiting, overdue, silent, server,
                   agentSide, history>>

\* EnqueuePending: inserts the row; with a known task_id it only touches updated_at.
Enqueue(t) ==
    /\ IF state[t] = "absent"
       THEN /\ state'   = [state EXCEPT ![t] = "pending"]
            /\ id'      = [id EXCEPT ![t] = Inserted + 1]
            /\ attempt' = [attempt EXCEPT ![t] = 1]
       ELSE UNCHANGED <<state, id, attempt>>
    /\ UNCHANGED <<lease, holder, waiting, overdue, silent, server, agentSide, history>>

-----------------------------------------------------------------------------
(* Time *)

DeadlinePasses(t) ==
    /\ state[t] = "leased" /\ ~overdue[t]
    /\ overdue' = [overdue EXCEPT ![t] = TRUE]
    /\ lapsed'  = lapsed \cup {<<t, lease[t]>>}
    /\ UNCHANGED <<state, id, attempt, lease, holder, waiting, silent, server,
                   agentSide, issued>>

BackoffElapses(t) ==
    /\ waiting[t]
    /\ waiting' = [waiting EXCEPT ![t] = FALSE]
    /\ UNCHANGED <<state, id, attempt, lease, holder, overdue, silent, server,
                   agentSide, history>>

AgentGoesSilent(a) ==
    /\ a \notin silent
    /\ silent' = silent \cup {a}
    /\ lapsed' = lapsed \cup {<<t, lease[t]>> : t \in
                                 {u \in Task : state[u] = "leased" /\ a \in holder[u]}}
    /\ UNCHANGED <<row, server, agentSide, issued>>

-----------------------------------------------------------------------------
(* The long poll: TaskHeartbeat, WaitForLongPoll, PullTasksForAgent *)

\* TaskHeartbeat: the heartbeat is stored once, before the wait; an error of that
\* write is ignored.  The agent reports what its map of running tasks holds now.
Heartbeat(a) ==
    /\ phase[a] = "idle"
    /\ \E stored \in BOOLEAN : silent' = IF stored THEN silent \ {a} ELSE silent
    /\ busy'  = [busy EXCEPT ![a] = running[a]]
    /\ phase' = [phase EXCEPT ![a] = "list"]
    /\ UNCHANGED <<row, stale, failing, agentSide, history>>

\* ListStaleLeasedTasks: one autocommit SELECT.
ListStale(a) ==
    /\ phase[a] = "list"
    /\ stale' = [stale EXCEPT ![a] = {RowSnapshot(t) : t \in StaleTasks}]
    /\ phase' = [phase EXCEPT ![a] = "reclaim"]
    /\ UNCHANGED <<row, silent, busy, failing, agentSide, history>>

\* One turn of the loop of reclaimStaleLeases.
Reclaim(a) ==
    /\ phase[a] = "reclaim"
    /\ \E s \in stale[a] :
          /\ ApplyFailure(s)
          /\ stale' = [stale EXCEPT ![a] = @ \ {s}]
    /\ UNCHANGED <<silent, phase, busy, failing, agentSide, history>>

\* The SELECT or one of the UPDATEs fails: the error is dropped and the poll goes on.
QueryFails(a) ==
    /\ \/ phase[a] = "list" /\ phase' = [phase EXCEPT ![a] = "reclaim"] /\ UNCHANGED stale
       \/ /\ phase[a] = "reclaim"
          /\ \E s \in stale[a] : stale' = [stale EXCEPT ![a] = @ \ {s}]
          /\ UNCHANGED phase
    /\ UNCHANGED <<row, silent, busy, failing, agentSide, history>>

\* The MIN(id) query: the oldest claimable task of each script.
Heads ==
    LET due == {t \in Task : state[t] = "pending" /\ ~waiting[t]}
    IN  {t \in due : \A u \in due : ScriptOf[u] = ScriptOf[t] => id[t] <= id[u]}

\* The loop of PullAndLeaseForAgent over the heads it locked, in id order.
Picked(a, locked) ==
    LET eligible == {t \in locked : /\ <<a, t>> \in CanRun
                                    /\ \A u \in busy[a] : ScriptOf[u] # ScriptOf[t]}
    IN  {t \in eligible : Cardinality({u \in eligible : id[u] < id[t]}) < MaxPull}

\* PullAndLeaseForAgent, one transaction; SKIP LOCKED passes over heads that
\* another pull has locked.  With tasks the handler answers, and the answer may
\* be lost; without, the long poll goes round again or ends.
PullLocking(a, locked) ==
    LET got == Picked(a, locked)
    IN
    /\ phase[a] = "reclaim" /\ stale[a] = {}
    /\ state'   = [t \in Task |-> IF t \in got THEN "leased" ELSE state[t]]
    /\ lease'   = [t \in Task |-> IF t \in got THEN issued[t] + 1 ELSE lease[t]]
    /\ holder'  = [t \in Task |-> IF t \in got THEN {a} ELSE holder[t]]
    /\ overdue' = [t \in Task |-> IF t \in got THEN FALSE ELSE overdue[t]]
    /\ issued'  = [t \in Task |-> IF t \in got THEN issued[t] + 1 ELSE issued[t]]
    /\ lapsed'  = IF a \in silent THEN lapsed \cup {<<t, issued[t] + 1>> : t \in got}
                                  ELSE lapsed
    /\ \E delivered \in BOOLEAN :
          holds' = IF delivered
                   THEN [holds EXCEPT ![a] = @ \cup
                           {[task |-> t, lease |-> issued[t] + 1, at |-> "queued"]
                              : t \in got}]
                   ELSE holds
    /\ \E next \in {"idle", "list"} :
          /\ got # {} => next = "idle"
          /\ phase' = [phase EXCEPT ![a] = next]
    /\ UNCHANGED <<id, attempt, waiting, silent, busy, stale, failing, running,
                   sent>>

Pull(a) ==
    \E locked \in SUBSET Heads :
        /\ locked # Heads => \E b \in Agent \ {a} : phase[b] = "reclaim" /\ stale[b] = {}
        /\ PullLocking(a, locked)

\* The server process running the handler dies, or the poll is given up: what it
\* listed is forgotten.
PollAborts(a) ==
    /\ phase[a] # "idle"
    /\ phase' = [phase EXCEPT ![a] = "idle"]
    /\ stale' = [stale EXCEPT ![a] = {}]
    /\ UNCHANGED <<row, silent, busy, failing, agentSide, history>>

-----------------------------------------------------------------------------
(* Results: TaskResult, SubmitTaskResult *)

\* Mutant of ReportSuccess: the UPDATE without its lease_id condition.
ReportSuccessAnyLease(r) ==
    /\ r.status = "success"
    /\ state[r.task] \in {"leased", "finished"}
    /\ state' = [state EXCEPT ![r.task] = "finished"]
    /\ UNCHANGED <<id, attempt, lease, holder, waiting, overdue, silent, server,
                   agentSide, history>>

\* FinishLeased.  A task already finished answers "accepted" whatever lease the
\* report carries; anything else is 409 and changes nothing.
ReportSuccess(r) ==
    /\ r.status = "success"
    /\ Matches(r.task, r.lease) \/ state[r.task] = "finished"
    /\ state' = [state EXCEPT ![r.task] = "finished"]
    /\ UNCHANGED <<id, attempt, lease, holder, waiting, overdue, silent, server,
                   agentSide, history>>

\* LoadLeasedTask for a failed, timed-out or skipped execution; a terminal task
\* is accepted without effect, a lease mismatch is 409.
ReportFailure(r) ==
    /\ r.status = "failed"
    /\ Matches(r.task, r.lease)
    /\ failing' = failing \cup {RowSnapshot(r.task)}
    /\ UNCHANGED <<row, silent, phase, busy, stale, agentSide, history>>

\* The second half of that handler.
FailureHandled(s) ==
    /\ ApplyFailure(s)
    /\ failing' = failing \ {s}
    /\ UNCHANGED <<silent, phase, busy, stale, agentSide, history>>

\* The server process dies between the two halves.
FailureLost(s) ==
    /\ failing' = failing \ {s}
    /\ UNCHANGED <<row, silent, phase, busy, stale, agentSide, history>>

-----------------------------------------------------------------------------
(* Agents *)

\* A goroutine got a slot of the semaphore and enters the map of running tasks,
\* which is keyed by task_id.
StartTask(a, e) ==
    /\ e.at = "queued"
    /\ holds'   = [holds EXCEPT ![a] = (@ \ {e}) \cup {[e EXCEPT !.at = "started"]}]
    /\ running' = [running EXCEPT ![a] = @ \cup {e.task}]
    /\ UNCHANGED <<row, silent, server, sent, history>>

\* RunTask returned: the result is sent once, a failure to send is only logged.
FinishTask(a, e) ==
    /\ e.at = "started"
    /\ \E status \in {"success", "failed"} :
          sent' = sent \cup {[task |-> e.task, lease |-> e.lease, status |-> status]}
    /\ holds'   = [holds EXCEPT ![a] = @ \ {e}]
    /\ running' = [running EXCEPT ![a] = @ \ {e.task}]
    /\ UNCHANGED <<row, silent, server, history>>

\* The agent process dies and starts again.  (A crash during a long poll is a
\* poll whose answer is lost, then this.)
AgentCrash(a) ==
    /\ phase[a] = "idle" /\ holds[a] # {}
    /\ holds'   = [holds EXCEPT ![a] = {}]
    /\ running' = [running EXCEPT ![a] = {}]
    /\ UNCHANGED <<row, silent, server, sent, history>>

-----------------------------------------------------------------------------
TaskStep(t) == Enqueue(t) \/ DeadlinePasses(t) \/ BackoffElapses(t)

AgentStep(a) ==
    \/ AgentGoesSilent(a) \/ Heartbeat(a) \/ ListStale(a) \/ Reclaim(a)
    \/ QueryFails(a) \/ Pull(a) \/ PollAborts(a) \/ AgentCrash(a)
    \/ \E e \in holds[a] : StartTask(a, e) \/ FinishTask(a, e)

ResultStep ==
    \/ \E r \in sent : ReportSuccess(r) \/ ReportFailure(r)
    \/ \E s \in failing : FailureHandled(s) \/ FailureLost(s)

Next ==
    \/ \E t \in Task : TaskStep(t)
    \/ \E a \in Agent : AgentStep(a)
    \/ ResultStep

Spec == Init /\ [][Next]_vars

\* Time passes, agents poll and run what they got, a long poll ends after its
\* longest wait, and no crash, failing query or contention repeats so exactly that
\* a step of a long poll never completes.
Fairness ==
    /\ \A t \in Task : WF_vars(DeadlinePasses(t)) /\ WF_vars(BackoffElapses(t))
    /\ \A a \in Agent :
          /\ WF_vars(Heartbeat(a))
          /\ SF_vars(ListStale(a))
          /\ SF_vars(Reclaim(a))
          /\ SF_vars(PullLocking(a, Heads) /\ phase'[a] = "idle")
          /\ WF_vars(\E e \in holds[a] : StartTask(a, e))
          /\ WF_vars(\E e \in holds[a] : FinishTask(a, e))

FairSpec == Spec /\ Fairness

-----------------------------------------------------------------------------
(* Properties *)

\* Columns and handlers hold values of their types.
TypeOK ==
    /\ state    \in [Task -> RowStates]
    /\ id       \in [Task -> Nat]
    /\ attempt  \in [Task -> Nat]
    /\ lease    \in [Task -> Nat]
    /\ holder   \in [Task -> SUBSET Agent]
    /\ waiting  \in [Task -> BOOLEAN]
    /\ overdue  \in [Task -> BOOLEAN]
    /\ silent   \in SUBSET Agent
    /\ phase    \in [Agent -> {"idle", "list", "reclaim"}]
    /\ busy     \in [Agent -> SUBSET Task]
    /\ stale    \in [Agent -> SUBSET Snapshot]
    /\ failing  \in SUBSET Snapshot
    /\ holds    \in [Agent -> SUBSET Execution]
    /\ running  \in [Agent -> SUBSET Task]
    /\ sent     \in SUBSET Result
    /\ issued   \in [Task -> Nat]
    /\ lapsed   \in SUBSET (Task \X Nat)

\* A row is consistent with the leases handed out (the attempt column counts the
\* execution rounds, 1 for the first; only a leased row names a holder; a lease
\* that was returned is gone from the row), whatever handlers read it meanwhile.
RowConsistent ==
    \A t \in Task :
        /\ state[t] = "pending" =>
              attempt[t] = issued[t] + 1 /\ lease[t] = 0 /\ holder[t] = {}
        /\ state[t] = "leased" =>
              attempt[t] = issued[t] /\ lease[t] = issued[t] /\ holder[t] # {}
        /\ state[t] = "failed_terminal" =>
              attempt[t] = issued[t] /\ lease[t] = 0 /\ holder[t] = {}

\* However lease expiry, offline reclaim by several pollers and failure reports
\* interleave, a task is handed out at most 1 + retry_max times.
ExecutionBound == \A t \in Task : issued[t] <= 1 + RetryMax[t]

\* The same handlers do not burn the budget either: a task is given up only when
\* every one of its 1 + retry_max rounds was handed out.
BudgetSpent ==
    \A t \in Task : state[t] = "failed_terminal" => issued[t] = 1 + RetryMax[t]

\* The lease fences results: a task is finished only by a success sent for the
\* latest lease, never by an agent whose lease was reclaimed.
FinishFenced ==
    \A t \in Task : state[t] = "finished" =>
        /\ lease[t] = issued[t]
        /\ [task |-> t, lease |-> lease[t], status |-> "success"] \in sent

\* A finished or given-up task is never claimed, requeued or enqueued again: no
\* late snapshot, late result or second enqueue brings it back.
TerminalIsFinal ==
    [][\A t \in Task : state[t] \in Terminal => state'[t] = state[t]]_vars

\* A holder loses its lease only if that very lease was at some time overdue or
\* in the hands of a silent agent, or a failure was reported for it.
ReclaimJustified ==
    [][\A t \in Task :
          (state[t] = "leased" /\ state'[t] \in {"pending", "failed_terminal"}) =>
             \/ <<t, lease[t]>> \in lapsed
             \/ [task |-> t, lease |-> lease[t], status |-> "failed"] \in sent]_vars

\* The queue keeps the promises of DispatchAbstract: a lease is a try, and it is
\* live as long as the row is leased.
Abstract == INSTANCE DispatchAbstract WITH
    status <- [t \in Task |->
                 CASE state[t] = "absent"   -> "unknown"
                   [] state[t] = "finished" -> "done"
                   [] state[t] = "failed_terminal" -> "given_up"
                   [] OTHER -> "open"],
    tries  <- issued,
    live   <- [t \in Task |-> state[t] = "leased"]

ImplementsAbstract == Abstract!Spec

\* A task that some polling agent can run ends: finished, or given up.
EventuallyEnds ==
    \A t \in Task : (state[t] = "pending") ~> (state[t] \in Terminal)
=============================================================================
