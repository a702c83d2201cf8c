------------------------ MODULE DispatchQueueProofs ------------------------
(***************************************************************************)
(* Proofs about DispatchQueue: types, the invariants that bound how often  *)
(* a task is handed out, the fencing of results by the lease, the finality *)
(* of a task's outcome and the refinement of DispatchAbstract.             *)
(***************************************************************************)
EXTENDS DispatchQueue, FiniteSetTheorems, TLAPS

\* Rounds are counted: a row's attempt and lease follow the leases handed out.
RowsCount ==
    \A t \in Task :
        /\ attempt[t] <= 1 + RetryMax[t]
        /\ state[t] = "absent" => attempt[t] = 0 /\ lease[t] = 0 /\ issued[t] = 0
        /\ state[t] = "pending" => attempt[t] = issued[t] + 1 /\ lease[t] = 0
        /\ state[t] \in {"leased", "finished"} =>
              attempt[t] = issued[t] /\ lease[t] = issued[t] /\ issued[t] # 0
        /\ state[t] = "failed_terminal" =>
              attempt[t] = issued[t] /\ lease[t] = 0 /\ issued[t] = 1 + RetryMax[t]

\* Only a leased or finished row names a holder.
HolderOK ==
    \A t \in Task :
        /\ state[t] = "leased" => holder[t] # {}
        /\ state[t] \in {"absent", "pending", "failed_terminal"} => holder[t] = {}

\* Whatever a handler read earlier, the lease and the attempt in it agree.
SnapshotsOK ==
    /\ \A a \in Agent : \A s \in stale[a] : s.attempt = s.lease
    /\ \A s \in failing : s.attempt = s.lease

IInv == TypeOK /\ RowsCount /\ HolderOK /\ SnapshotsOK /\ FinishFenced

-----------------------------------------------------------------------------
(* The parts of a step that rows undergo *)

\* What a failure that is applied, or finds no row to match, does to the rows.
LEMMA ApplyFailureLemma ==
    ASSUME IInv, NEW s \in Snapshot, s.attempt = s.lease, ApplyFailure(s),
           UNCHANGED <<issued, sent>>
    PROVE  /\ state'   \in [Task -> RowStates]
           /\ id'      \in [Task -> Nat]
           /\ attempt' \in [Task -> Nat]
           /\ lease'   \in [Task -> Nat]
           /\ holder'  \in [Task -> SUBSET Agent]
           /\ waiting' \in [Task -> BOOLEAN]
           /\ overdue' \in [Task -> BOOLEAN]
           /\ RowsCount' /\ HolderOK' /\ FinishFenced'
<1> USE RetryMaxAssumption
<1> DEFINE t == s.task
<1>0. t \in Task /\ s.attempt \in Nat \ {0} /\ s.lease \in Nat
  BY DEF Snapshot
<1>1. CASE Matches(t, s.lease)
  <2>1. /\ state'   = [state EXCEPT ![t] = IF MayRetry(s) THEN "pending"
                                                          ELSE "failed_terminal"]
        /\ attempt' = [attempt EXCEPT ![t] = IF MayRetry(s) THEN s.attempt + 1 ELSE @]
        /\ waiting' = [waiting EXCEPT ![t] = MayRetry(s)]
        /\ lease'   = [lease EXCEPT ![t] = 0]
        /\ holder'  = [holder EXCEPT ![t] = {}]
        /\ overdue' = [overdue EXCEPT ![t] = FALSE]
        /\ id' = id
    BY <1>1 DEF ApplyFailure
  <2>2. /\ state[t] = "leased" /\ lease[t] = s.lease
        /\ attempt[t] = issued[t] /\ lease[t] = issued[t]
        /\ attempt[t] <= 1 + RetryMax[t]
    BY <1>0, <1>1 DEF IInv, RowsCount, Matches
  <2>3. MayRetry(s) \in BOOLEAN
    BY DEF MayRetry
  <2>4. /\ state'   \in [Task -> RowStates]
        /\ id'      \in [Task -> Nat]
        /\ attempt' \in [Task -> Nat]
        /\ lease'   \in [Task -> Nat]
        /\ holder'  \in [Task -> SUBSET Agent]
        /\ overdue' \in [Task -> BOOLEAN]
    BY <1>0, <2>1 DEF IInv, TypeOK, RowStates
  <2>5. waiting' \in [Task -> BOOLEAN]
    BY <2>1, <2>3, Zenon DEF IInv, TypeOK
  <2>6. RowsCount'
    <3> SUFFICES ASSUME NEW u \in Task
                 PROVE  /\ attempt'[u] <= 1 + RetryMax[u]
                        /\ state'[u] = "absent" =>
                              attempt'[u] = 0 /\ lease'[u] = 0 /\ issued'[u] = 0
                        /\ state'[u] = "pending" =>
                              attempt'[u] = issued'[u] + 1 /\ lease'[u] = 0
                        /\ state'[u] \in {"leased", "finished"} =>
                              /\ attempt'[u] = issued'[u] /\ lease'[u] = issued'[u]
                              /\ issued'[u] # 0
                        /\ state'[u] = "failed_terminal" =>
                              /\ attempt'[u] = issued'[u] /\ lease'[u] = 0
                              /\ issued'[u] = 1 + RetryMax[u]
      BY DEF RowsCount
    <3>1. CASE u = t /\ MayRetry(s)
      BY <1>0, <2>1, <2>2, <3>1 DEF MayRetry, IInv, TypeOK
    <3>2. CASE u = t /\ ~MayRetry(s)
      BY <1>0, <2>1, <2>2, <3>2 DEF MayRetry, IInv, TypeOK
    <3>3. CASE u # t
      BY <1>0, <2>1, <3>3 DEF IInv, TypeOK, RowsCount
    <3> QED
      BY <3>1, <3>2, <3>3
  <2>7. HolderOK'
    BY <1>0, <2>1 DEF IInv, TypeOK, HolderOK
  <2>8. FinishFenced'
    BY <1>0, <2>1 DEF IInv, TypeOK, FinishFenced
  <2> QED
    BY <2>4, <2>5, <2>6, <2>7, <2>8
<1>2. CASE ~Matches(t, s.lease)
  <2>1. UNCHANGED row
    BY <1>2 DEF ApplyFailure
  <2> QED
    BY <2>1 DEF row, IInv, TypeOK, RowsCount, HolderOK, FinishFenced
<1> QED
  BY <1>1, <1>2

-----------------------------------------------------------------------------
(* The inductive invariant *)

\* The lease of a leased row is a round already counted, so it is not NULL.
LEMMA LeasedPositive ==
    ASSUME IInv, NEW t \in Task, state[t] = "leased"
    PROVE  lease[t] \in Nat \ {0} /\ attempt[t] = lease[t]
BY DEF IInv, TypeOK, RowsCount

\* The empty queue satisfies the inductive invariant.
LEMMA InitInvariant == Init => IInv
BY RetryMaxAssumption DEF Init, IInv, TypeOK, RowStates, RowsCount, HolderOK,
   SnapshotsOK, FinishFenced

\* A pull: the tasks it leases were pending, so they begin their next round.
LEMMA PullLemma ==
    ASSUME IInv, NEW a \in Agent, NEW locked \in SUBSET Heads, PullLocking(a, locked)
    PROVE  IInv'
<1> DEFINE got == Picked(a, locked)
<1>1. got \subseteq {t \in Task : state[t] = "pending"}
  BY DEF Picked, Heads
<1>2. /\ phase[a] = "reclaim" /\ stale[a] = {}
      /\ state'   = [t \in Task |-> IF t \in got THEN "leased" ELSE state[t]]
      /\ lease'   = [t \in Task |-> IF t \in got THEN issued[t] + 1 ELSE lease[t]]
      /\ holder'  = [t \in Task |-> IF t \in got THEN {a} ELSE holder[t]]
      /\ overdue' = [t \in Task |-> IF t \in got THEN FALSE ELSE overdue[t]]
      /\ issued'  = [t \in Task |-> IF t \in got THEN issued[t] + 1 ELSE issued[t]]
      /\ lapsed'  = IF a \in silent THEN lapsed \cup {<<t, issued[t] + 1>> : t \in got}
                                    ELSE lapsed
      /\ UNCHANGED <<id, attempt, waiting, silent, busy, stale, failing, running,
                     sent>>
  BY DEF PullLocking
<1>3. PICK delivered \in BOOLEAN :
         holds' = IF delivered
                  THEN [holds EXCEPT ![a] = @ \cup
                          {[task |-> t, lease |-> issued[t] + 1, at |-> "queued"]
                             : t \in got}]
                  ELSE holds
  BY DEF PullLocking
<1>4. PICK next \in {"idle", "list"} : phase' = [phase EXCEPT ![a] = next]
  BY DEF PullLocking
<1> HIDE DEF got
<1>5. TypeOK'
  <2>a. state' \in [Task -> RowStates]
    BY <1>2 DEF IInv, TypeOK, RowStates
  <2>b. lease' \in [Task -> Nat] /\ issued' \in [Task -> Nat]
    BY <1>2 DEF IInv, TypeOK
  <2>1. overdue' \in [Task -> BOOLEAN]
    <3>1. overdue' = [t \in Task |-> IF t \in got THEN FALSE ELSE overdue[t]]
      BY <1>2
    <3>2. overdue \in [Task -> BOOLEAN]
      BY DEF IInv, TypeOK
    <3> QED
      BY <3>1, <3>2, Zenon
  <2>2. holder' \in [Task -> SUBSET Agent]
    BY <1>2 DEF IInv, TypeOK
  <2>3. phase' \in [Agent -> {"idle", "list", "reclaim"}]
    BY <1>4 DEF IInv, TypeOK
  <2>4. lapsed' \in SUBSET (Task \X Nat)
    BY <1>1, <1>2 DEF IInv, TypeOK
  <2>5. {[task |-> t, lease |-> issued[t] + 1, at |-> "queued"] : t \in got}
           \subseteq Execution
    BY <1>1 DEF IInv, TypeOK, Execution
  <2>6. holds' \in [Agent -> SUBSET Execution]
    BY <1>3, <2>5 DEF IInv, TypeOK
  <2> QED
    BY <1>2, <2>a, <2>b, <2>1, <2>2, <2>3, <2>4, <2>6 DEF IInv, TypeOK
<1>6. RowsCount'
  BY <1>1, <1>2, RetryMaxAssumption DEF IInv, TypeOK, RowsCount
<1>7. HolderOK'
  BY <1>1, <1>2 DEF IInv, TypeOK, HolderOK
<1>8. SnapshotsOK'
  BY <1>2 DEF IInv, SnapshotsOK
<1>9. FinishFenced'
  BY <1>1, <1>2 DEF IInv, TypeOK, FinishFenced
<1> QED
  BY <1>5, <1>6, <1>7, <1>8, <1>9 DEF IInv

\* Every step keeps the inductive invariant.
LEMMA NextInvariant == IInv /\ [Next]_vars => IInv'
<1> SUFFICES ASSUME IInv, [Next]_vars
             PROVE  IInv'
  OBVIOUS
<1> USE RetryMaxAssumption DEF IInv
<1>1. ASSUME NEW t \in Task, Enqueue(t)
      PROVE  IInv'
  <2>1. Inserted \in Nat
    <3>1. {u \in Task : state[u] # "absent"} \subseteq Task
      OBVIOUS
    <3> QED
      BY <3>1, TaskAssumption, FS_Subset, FS_CardinalityType DEF Inserted
  <2>2. TypeOK'
    BY <1>1, <2>1 DEF Enqueue, TypeOK, RowStates, server, agentSide, history
  <2>3. RowsCount'
    BY <1>1 DEF Enqueue, TypeOK, RowsCount, history
  <2>4. HolderOK' /\ SnapshotsOK'
    BY <1>1 DEF Enqueue, TypeOK, HolderOK, SnapshotsOK, server
  <2>5. FinishFenced'
    BY <1>1 DEF Enqueue, TypeOK, FinishFenced, agentSide, history
  <2> QED
    BY <2>2, <2>3, <2>4, <2>5
<1>2. ASSUME NEW t \in Task, DeadlinePasses(t)
      PROVE  IInv'
  <2>1. overdue' \in [Task -> BOOLEAN]
    BY <1>2, Zenon DEF DeadlinePasses, TypeOK
  <2>2. TypeOK'
    BY <1>2, <2>1 DEF DeadlinePasses, TypeOK, server, agentSide
  <2> QED
    BY <1>2, <2>2 DEF DeadlinePasses, RowsCount, HolderOK, SnapshotsOK,
       FinishFenced, server, agentSide
<1>3. ASSUME NEW t \in Task, BackoffElapses(t)
      PROVE  IInv'
  <2>1. waiting' \in [Task -> BOOLEAN]
    BY <1>3, Zenon DEF BackoffElapses, TypeOK
  <2>2. TypeOK'
    BY <1>3, <2>1 DEF BackoffElapses, TypeOK, server, agentSide, history
  <2> QED
    BY <1>3, <2>2 DEF BackoffElapses, RowsCount, HolderOK, SnapshotsOK,
       FinishFenced, server, agentSide, history
<1>4. ASSUME NEW a \in Agent, AgentGoesSilent(a)
      PROVE  IInv'
  <2>1. TypeOK'
    BY <1>4 DEF AgentGoesSilent, TypeOK, row, server, agentSide
  <2> QED
    BY <1>4, <2>1 DEF AgentGoesSilent, RowsCount, HolderOK, SnapshotsOK,
       FinishFenced, row, server, agentSide
<1>5. ASSUME NEW a \in Agent, Heartbeat(a)
      PROVE  IInv'
  <2>1. TypeOK'
    BY <1>5 DEF Heartbeat, TypeOK, row, agentSide, history
  <2> QED
    BY <1>5, <2>1 DEF Heartbeat, RowsCount, HolderOK, SnapshotsOK,
       FinishFenced, row, agentSide, history
<1>6. ASSUME NEW a \in Agent, ListStale(a)
      PROVE  IInv'
  <2> DEFINE listed == {RowSnapshot(t) : t \in StaleTasks}
  <2>1. ASSUME NEW s \in listed
        PROVE  s \in Snapshot /\ s.attempt = s.lease
    <3>1. PICK t \in StaleTasks : s = RowSnapshot(t)
      BY <2>1
    <3>2. t \in Task /\ state[t] = "leased" /\ holder[t] # {}
      BY <3>1 DEF StaleTasks, HolderOK
    <3>3. lease[t] \in Nat \ {0} /\ attempt[t] = lease[t]
      BY <3>2, LeasedPositive
    <3> QED
      BY <3>1, <3>2, <3>3 DEF RowSnapshot, Snapshot
  <2>2. stale' = [stale EXCEPT ![a] = listed] /\ phase' = [phase EXCEPT ![a] = "reclaim"]
    BY <1>6 DEF ListStale
  <2> HIDE DEF listed
  <2>3. listed \in SUBSET Snapshot
    BY <2>1
  <2>4. TypeOK'
    BY <1>6, <2>2, <2>3 DEF ListStale, TypeOK, row, agentSide, history
  <2>5. SnapshotsOK'
    BY <1>6, <2>1, <2>2 DEF ListStale, SnapshotsOK, TypeOK
  <2> QED
    BY <1>6, <2>4, <2>5 DEF ListStale, RowsCount, HolderOK, FinishFenced, row,
       agentSide, history
<1>7. ASSUME NEW a \in Agent, Reclaim(a)
      PROVE  IInv'
  <2>1. PICK s \in stale[a] : ApplyFailure(s) /\ stale' = [stale EXCEPT ![a] = @ \ {s}]
    BY <1>7 DEF Reclaim
  <2>2. UNCHANGED <<silent, phase, busy, failing, holds, running, sent, issued,
                    lapsed>>
    BY <1>7 DEF Reclaim, agentSide, history
  <2>3. s \in Snapshot /\ s.attempt = s.lease
    BY <2>1 DEF TypeOK, SnapshotsOK
  <2>4. stale' \in [Agent -> SUBSET Snapshot] /\ SnapshotsOK'
    BY <2>1, <2>2 DEF TypeOK, SnapshotsOK
  <2> QED
    BY <2>1, <2>2, <2>3, <2>4, ApplyFailureLemma DEF TypeOK
<1>8. ASSUME NEW a \in Agent, Pull(a)
      PROVE  IInv'
  BY <1>8, PullLemma DEF Pull
<1>9. ASSUME NEW a \in Agent, PollAborts(a)
      PROVE  IInv'
  <2>1. TypeOK'
    BY <1>9 DEF PollAborts, TypeOK, row, agentSide, history
  <2>2. SnapshotsOK'
    BY <1>9 DEF PollAborts, TypeOK, SnapshotsOK
  <2> QED
    BY <1>9, <2>1, <2>2 DEF PollAborts, RowsCount, HolderOK, FinishFenced, row,
       agentSide, history
<1>10. ASSUME NEW a \in Agent, AgentCrash(a)
       PROVE  IInv'
  <2>1. TypeOK'
    BY <1>10 DEF AgentCrash, TypeOK, row, server, history
  <2> QED
    BY <1>10, <2>1 DEF AgentCrash, RowsCount, HolderOK, SnapshotsOK, FinishFenced,
       row, server, history
<1>11. ASSUME NEW a \in Agent, NEW e \in holds[a], StartTask(a, e)
       PROVE  IInv'
  <2>1. e \in Execution
    BY DEF TypeOK
  <2>2. [e EXCEPT !.at = "started"] \in Execution
    BY <2>1 DEF Execution
  <2>3. e.task \in Task
    BY <2>1 DEF Execution
  <2>4. TypeOK'
    BY <1>11, <2>2, <2>3 DEF StartTask, TypeOK, row, server, history
  <2> QED
    BY <1>11, <2>4 DEF StartTask, RowsCount, HolderOK, SnapshotsOK, FinishFenced,
       row, server, history
<1>12. ASSUME NEW a \in Agent, NEW e \in holds[a], FinishTask(a, e)
       PROVE  IInv'
  <2>1. e.task \in Task /\ e.lease \in Nat \ {0}
    BY DEF TypeOK, Execution
  <2>2. PICK status \in {"success", "failed"} :
           sent' = sent \cup {[task |-> e.task, lease |-> e.lease, status |-> status]}
    BY <1>12 DEF FinishTask
  <2>3. sent' \in SUBSET Result /\ sent \subseteq sent'
    BY <2>1, <2>2 DEF TypeOK, Result
  <2>4. TypeOK'
    BY <1>12, <2>3 DEF FinishTask, TypeOK, row, server, history
  <2> QED
    BY <1>12, <2>3, <2>4 DEF FinishTask, RowsCount, HolderOK, SnapshotsOK,
       FinishFenced, row, server, history
<1>13. ASSUME NEW r \in sent, ReportSuccess(r)
       PROVE  IInv'
  <2>1. /\ r.task \in Task /\ r.lease \in Nat
        /\ r = [task |-> r.task, lease |-> r.lease, status |-> "success"]
    BY <1>13 DEF TypeOK, Result, ReportSuccess
  <2>2. TypeOK'
    BY <1>13, <2>1 DEF ReportSuccess, TypeOK, RowStates, server, agentSide, history
  <2>3. RowsCount' /\ HolderOK' /\ SnapshotsOK'
    BY <1>13, <2>1 DEF ReportSuccess, TypeOK, Matches, RowsCount, HolderOK,
       SnapshotsOK, server, history
  <2>4. FinishFenced'
    BY <1>13, <2>1 DEF ReportSuccess, TypeOK, Matches, RowsCount, FinishFenced,
       agentSide, history
  <2> QED
    BY <2>2, <2>3, <2>4
<1>14. ASSUME NEW r \in sent, ReportFailure(r)
       PROVE  IInv'
  <2>1. r.task \in Task /\ state[r.task] = "leased"
    BY <1>14 DEF ReportFailure, Matches, TypeOK, Result
  <2>2. lease[r.task] \in Nat \ {0} /\ attempt[r.task] = lease[r.task]
    BY <2>1, LeasedPositive
  <2>3. /\ RowSnapshot(r.task) \in Snapshot
        /\ RowSnapshot(r.task).attempt = RowSnapshot(r.task).lease
    BY <2>1, <2>2 DEF RowSnapshot, Snapshot
  <2>4. TypeOK' /\ SnapshotsOK'
    BY <1>14, <2>3 DEF ReportFailure, TypeOK, SnapshotsOK, row, agentSide, history
  <2> QED
    BY <1>14, <2>4 DEF ReportFailure, RowsCount, HolderOK, FinishFenced, row,
       agentSide, history
<1>15. ASSUME NEW s \in failing, FailureHandled(s)
       PROVE  IInv'
  <2>1. s \in Snapshot /\ s.attempt = s.lease
    BY DEF TypeOK, SnapshotsOK
  <2>2. UNCHANGED <<silent, phase, busy, stale, holds, running, sent, issued,
                    lapsed>>
    BY <1>15 DEF FailureHandled, agentSide, history
  <2>3. failing' \in SUBSET Snapshot /\ SnapshotsOK'
    BY <1>15, <2>2 DEF FailureHandled, TypeOK, SnapshotsOK
  <2> QED
    BY <1>15, <2>1, <2>2, <2>3, ApplyFailureLemma DEF FailureHandled, TypeOK
<1>16. ASSUME NEW s \in failing, FailureLost(s)
       PROVE  IInv'
  <2>1. TypeOK' /\ SnapshotsOK'
    BY <1>16 DEF FailureLost, TypeOK, SnapshotsOK, row, agentSide, history
  <2> QED
    BY <1>16, <2>1 DEF FailureLost, RowsCount, HolderOK, FinishFenced, row,
       agentSide, history
<1>17. CASE UNCHANGED vars
  BY <1>17 DEF vars, row, server, agentSide, history, TypeOK, RowsCount, HolderOK,
     SnapshotsOK, FinishFenced
<1>18. ASSUME NEW a \in Agent, QueryFails(a)
       PROVE  IInv'
  <2>1. PICK left \in SUBSET stale[a] : stale' = [stale EXCEPT ![a] = left]
    BY <1>18 DEF QueryFails, TypeOK
  <2>2. phase' = phase \/ phase' = [phase EXCEPT ![a] = "reclaim"]
    BY <1>18 DEF QueryFails
  <2>3. UNCHANGED <<row, silent, busy, failing, agentSide, history>>
    BY <1>18 DEF QueryFails
  <2>4. stale' \in [Agent -> SUBSET Snapshot] /\ SnapshotsOK'
    BY <2>1, <2>3 DEF TypeOK, SnapshotsOK
  <2>5. TypeOK'
    BY <2>2, <2>3, <2>4 DEF TypeOK, row, agentSide, history
  <2> QED
    BY <2>3, <2>4, <2>5 DEF RowsCount, HolderOK, FinishFenced, row, agentSide, history
<1> QED
  BY <1>1, <1>2, <1>3, <1>4, <1>5, <1>6, <1>7, <1>8, <1>9, <1>10, <1>11, <1>12,
     <1>13, <1>14, <1>15, <1>16, <1>17, <1>18
     DEF Next, TaskStep, AgentStep, ResultStep

\* What every reachable state satisfies.
THEOREM Invariance == Spec => []IInv
BY InitInvariant, NextInvariant, PTL DEF Spec

-----------------------------------------------------------------------------
(* The properties *)

\* The columns and what the handlers hold keep their types.
THEOREM TypeCorrectness == Spec => []TypeOK
BY Invariance, PTL DEF IInv

\* A task is handed out at most 1 + retry_max times.
THEOREM Bound == Spec => []ExecutionBound
<1>1. IInv => ExecutionBound
  BY RetryMaxAssumption DEF IInv, TypeOK, RowStates, RowsCount, ExecutionBound
<1> QED
  BY <1>1, Invariance, PTL

\* A task is given up only after all its rounds were handed out.
THEOREM Budget == Spec => []BudgetSpent
<1>1. IInv => BudgetSpent
  BY DEF IInv, RowsCount, BudgetSpent
<1> QED
  BY <1>1, Invariance, PTL

\* Rows agree with the leases handed out.
THEOREM Consistency == Spec => []RowConsistent
<1>1. IInv => RowConsistent
  BY DEF IInv, RowsCount, HolderOK, RowConsistent
<1> QED
  BY <1>1, Invariance, PTL

\* Only a success of the latest lease finishes a task.
THEOREM Fencing == Spec => []FinishFenced
BY Invariance, PTL DEF IInv

-----------------------------------------------------------------------------
(* What a step may do to the state of a task *)

\* A failure that is applied changes only a leased row, and ends its lease.
LEMMA ApplyFailureStep ==
    ASSUME TypeOK, NEW s \in Snapshot, ApplyFailure(s)
    PROVE  \/ UNCHANGED <<state, lease>>
           \/ /\ Matches(s.task, s.lease)
              /\ state' = [state EXCEPT ![s.task] =
                             IF MayRetry(s) THEN "pending" ELSE "failed_terminal"]
<1>1. CASE Matches(s.task, s.lease)
  BY <1>1 DEF ApplyFailure
<1>2. CASE ~Matches(s.task, s.lease)
  BY <1>2 DEF ApplyFailure, row
<1> QED
  BY <1>1, <1>2

\* The outcome of a task never changes: each action that writes state either
\* inserts the row, leases a pending one, or ends a lease.
THEOREM Finality == Spec => TerminalIsFinal
<1>1. ASSUME TypeOK, Next
      PROVE  \A t \in Task : state[t] \in Terminal => state'[t] = state[t]
  <2> SUFFICES ASSUME NEW t \in Task, state[t] \in Terminal
               PROVE  state'[t] = state[t]
    OBVIOUS
  <2> USE <1>1 DEF Terminal
  <2>1. ASSUME NEW u \in Task, Enqueue(u)
        PROVE  state'[t] = state[t]
    BY <2>1 DEF Enqueue, TypeOK
  <2>2. ASSUME NEW s \in Snapshot, ApplyFailure(s)
        PROVE  state'[t] = state[t]
    <3>1. s.task \in Task
      BY DEF Snapshot
    <3> QED
      BY <2>2, <3>1, ApplyFailureStep DEF TypeOK, Matches
  <2>3. ASSUME NEW a \in Agent, Reclaim(a)
        PROVE  state'[t] = state[t]
    BY <2>2, <2>3 DEF Reclaim, TypeOK
  <2>4. ASSUME NEW a \in Agent, NEW locked \in SUBSET Heads, PullLocking(a, locked)
        PROVE  state'[t] = state[t]
    <3>1. t \notin Picked(a, locked)
      BY DEF Picked, Heads
    <3>2. state' = [u \in Task |-> IF u \in Picked(a, locked) THEN "leased" ELSE state[u]]
      BY <2>4 DEF PullLocking
    <3> QED
      BY <3>1, <3>2
  <2>5. ASSUME NEW r \in sent, ReportSuccess(r)
        PROVE  state'[t] = state[t]
    BY <2>5 DEF ReportSuccess, Matches, TypeOK, Result
  <2>6. ASSUME NEW s \in failing, FailureHandled(s)
        PROVE  state'[t] = state[t]
    BY <2>2, <2>6 DEF FailureHandled, TypeOK
  <2>7. ASSUME NEW u \in Task, DeadlinePasses(u) \/ BackoffElapses(u)
        PROVE  state'[t] = state[t]
    BY <2>7 DEF DeadlinePasses, BackoffElapses
  <2>8. ASSUME NEW a \in Agent,
               \/ AgentGoesSilent(a) \/ Heartbeat(a) \/ ListStale(a)
               \/ QueryFails(a) \/ PollAborts(a) \/ AgentCrash(a)
               \/ \E e \in holds[a] : StartTask(a, e) \/ FinishTask(a, e)
        PROVE  state'[t] = state[t]
    BY <2>8 DEF AgentGoesSilent, Heartbeat, ListStale, QueryFails, PollAborts, AgentCrash,
       StartTask, FinishTask, row
  <2>9. CASE \/ \E r \in sent : ReportFailure(r)
             \/ \E s \in failing : FailureLost(s)
    BY <2>9 DEF ReportFailure, FailureLost, row
  <2> QED
    BY <2>1, <2>3, <2>4, <2>5, <2>6, <2>7, <2>8, <2>9
       DEF Next, TaskStep, AgentStep, ResultStep, Pull
<1>2. ASSUME TypeOK, [Next]_vars
      PROVE  [\A t \in Task : state[t] \in Terminal => state'[t] = state[t]]_vars
  BY <1>1, <1>2
<1> QED
  BY <1>2, TypeCorrectness, PTL DEF Spec, TerminalIsFinal

-----------------------------------------------------------------------------
(* Why a holder loses its lease *)

\* A lease that has passed its deadline, or whose holder is silent, is on record.
LapsesNoted ==
    \A t \in Task :
        (state[t] = "leased" /\ (overdue[t] \/ HeldBySilent(t, silent)))
            => <<t, lease[t]>> \in lapsed

\* Whatever a handler listed had lapsed when it was read; whatever the handler of
\* a failed result loaded was reported as failed.
SnapshotsJustified ==
    /\ \A a \in Agent : \A s \in stale[a] : <<s.task, s.lease>> \in lapsed
    /\ \A s \in failing :
          [task |-> s.task, lease |-> s.lease, status |-> "failed"] \in sent

Causes == LapsesNoted /\ SnapshotsJustified

\* A failure that is applied leaves every other row as it was.
LEMMA ApplyFailureCauses ==
    ASSUME IInv, LapsesNoted, NEW s \in Snapshot, ApplyFailure(s),
           UNCHANGED <<silent, lapsed>>
    PROVE  LapsesNoted'
<1>1. CASE Matches(s.task, s.lease)
  <2>1. /\ state'   = [state EXCEPT ![s.task] = IF MayRetry(s) THEN "pending"
                                                          ELSE "failed_terminal"]
        /\ lease'   = [lease EXCEPT ![s.task] = 0]
        /\ holder'  = [holder EXCEPT ![s.task] = {}]
        /\ overdue' = [overdue EXCEPT ![s.task] = FALSE]
    BY <1>1 DEF ApplyFailure
  <2>2. SUFFICES ASSUME NEW t \in Task, state'[t] = "leased",
                        overdue'[t] \/ HeldBySilent(t, silent)'
                 PROVE  <<t, lease'[t]>> \in lapsed'
    BY DEF LapsesNoted
  <2>3. t # s.task
    BY <2>1, <2>2 DEF IInv, TypeOK
  <2>4. /\ state'[t] = state[t] /\ lease'[t] = lease[t]
        /\ holder'[t] = holder[t] /\ overdue'[t] = overdue[t]
    BY <2>1, <2>3 DEF IInv, TypeOK
  <2> QED
    BY <2>2, <2>4 DEF LapsesNoted, HeldBySilent
<1>2. CASE ~Matches(s.task, s.lease)
  BY <1>2 DEF ApplyFailure, row, LapsesNoted, HeldBySilent
<1> QED
  BY <1>1, <1>2

\* Every step keeps the causes on record.
LEMMA NextCauses == IInv /\ Causes /\ [Next]_vars => Causes'
<1> SUFFICES ASSUME IInv, Causes, [Next]_vars
             PROVE  Causes'
  OBVIOUS
<1> USE DEF Causes
<1>1. ASSUME NEW t \in Task, Enqueue(t)
      PROVE  Causes'
  <2>1. LapsesNoted'
    BY <1>1 DEF Enqueue, LapsesNoted, HeldBySilent, history, IInv, TypeOK
  <2> QED
    BY <1>1, <2>1 DEF Enqueue, SnapshotsJustified, server, agentSide, history
<1>2. ASSUME NEW t \in Task, DeadlinePasses(t)
      PROVE  Causes'
  <2>1. LapsesNoted'
    BY <1>2 DEF DeadlinePasses, LapsesNoted, HeldBySilent, IInv, TypeOK
  <2> QED
    BY <1>2, <2>1 DEF DeadlinePasses, SnapshotsJustified, server, agentSide
<1>3. ASSUME NEW t \in Task, BackoffElapses(t)
      PROVE  Causes'
  BY <1>3 DEF BackoffElapses, LapsesNoted, HeldBySilent, SnapshotsJustified,
     server, agentSide, history
<1>4. ASSUME NEW a \in Agent, AgentGoesSilent(a)
      PROVE  Causes'
  <2>1. LapsesNoted'
    BY <1>4 DEF AgentGoesSilent, LapsesNoted, HeldBySilent, row
  <2> QED
    BY <1>4, <2>1 DEF AgentGoesSilent, SnapshotsJustified, server, agentSide
<1>5. ASSUME NEW a \in Agent, Heartbeat(a)
      PROVE  Causes'
  <2>1. silent' \subseteq silent
    BY <1>5 DEF Heartbeat
  <2>2. LapsesNoted'
    BY <1>5, <2>1 DEF Heartbeat, LapsesNoted, HeldBySilent, row, history
  <2> QED
    BY <1>5, <2>2 DEF Heartbeat, SnapshotsJustified, agentSide, history
<1>6. ASSUME NEW a \in Agent, ListStale(a)
      PROVE  Causes'
  <2> DEFINE listed == {RowSnapshot(t) : t \in StaleTasks}
  <2>1. ASSUME NEW s \in listed
        PROVE  <<s.task, s.lease>> \in lapsed
    <3>1. PICK t \in StaleTasks : s = RowSnapshot(t)
      BY <2>1
    <3>2. s.task = t /\ s.lease = lease[t]
      BY <3>1 DEF RowSnapshot
    <3> QED
      BY <3>1, <3>2 DEF StaleTasks, LapsesNoted
  <2>2. stale' = [stale EXCEPT ![a] = listed]
    BY <1>6 DEF ListStale
  <2> HIDE DEF listed
  <2>3. SnapshotsJustified'
    BY <1>6, <2>1, <2>2 DEF ListStale, SnapshotsJustified, IInv, TypeOK, agentSide, history
  <2> QED
    BY <1>6, <2>3 DEF ListStale, LapsesNoted, HeldBySilent, row, history
<1>7. ASSUME NEW a \in Agent, Reclaim(a)
      PROVE  Causes'
  <2>1. PICK s \in stale[a] : ApplyFailure(s) /\ stale' = [stale EXCEPT ![a] = @ \ {s}]
    BY <1>7 DEF Reclaim
  <2>2. s \in Snapshot
    BY <2>1 DEF IInv, TypeOK
  <2>3. UNCHANGED <<silent, failing, sent, lapsed>>
    BY <1>7 DEF Reclaim, agentSide, history
  <2>4. SnapshotsJustified'
    BY <2>1, <2>3 DEF SnapshotsJustified, IInv, TypeOK
  <2> QED
    BY <2>1, <2>2, <2>3, <2>4, ApplyFailureCauses
<1>8. ASSUME NEW a \in Agent, NEW locked \in SUBSET Heads, PullLocking(a, locked)
      PROVE  Causes'
  <2> DEFINE got == Picked(a, locked)
  <2>1. /\ state'   = [t \in Task |-> IF t \in got THEN "leased" ELSE state[t]]
        /\ lease'   = [t \in Task |-> IF t \in got THEN issued[t] + 1 ELSE lease[t]]
        /\ holder'  = [t \in Task |-> IF t \in got THEN {a} ELSE holder[t]]
        /\ overdue' = [t \in Task |-> IF t \in got THEN FALSE ELSE overdue[t]]
        /\ lapsed'  = IF a \in silent THEN lapsed \cup {<<t, issued[t] + 1>> : t \in got}
                                      ELSE lapsed
        /\ UNCHANGED <<silent, stale, failing, sent>>
    BY <1>8 DEF PullLocking
  <2> HIDE DEF got
  <2>2. lapsed \subseteq lapsed'
    BY <2>1
  <2>3. SUFFICES ASSUME NEW t \in Task, state'[t] = "leased",
                        overdue'[t] \/ HeldBySilent(t, silent)'
                 PROVE  <<t, lease'[t]>> \in lapsed'
    BY <2>1, <2>2 DEF LapsesNoted, SnapshotsJustified
  <2>4. CASE t \in got
    BY <2>1, <2>3, <2>4 DEF HeldBySilent
  <2>5. CASE t \notin got
    BY <2>1, <2>2, <2>3, <2>5 DEF LapsesNoted, HeldBySilent
  <2> QED
    BY <2>4, <2>5
<1>9. ASSUME NEW a \in Agent, PollAborts(a)
      PROVE  Causes'
  <2>1. SnapshotsJustified'
    BY <1>9 DEF PollAborts, SnapshotsJustified, IInv, TypeOK, agentSide, history
  <2> QED
    BY <1>9, <2>1 DEF PollAborts, LapsesNoted, HeldBySilent, row, history
<1>10. ASSUME NEW a \in Agent,
              \/ AgentCrash(a)
              \/ \E e \in holds[a] : StartTask(a, e) \/ FinishTask(a, e)
       PROVE  Causes'
  <2>1. sent \subseteq sent'
    BY <1>10 DEF AgentCrash, StartTask, FinishTask
  <2>2. UNCHANGED <<row, silent, stale, failing, lapsed>>
    BY <1>10 DEF AgentCrash, StartTask, FinishTask, server, history
  <2> QED
    BY <2>1, <2>2 DEF LapsesNoted, HeldBySilent, SnapshotsJustified, row
<1>11. ASSUME NEW r \in sent, ReportSuccess(r)
       PROVE  Causes'
  <2>1. LapsesNoted'
    BY <1>11 DEF ReportSuccess, LapsesNoted, HeldBySilent, history, IInv, TypeOK, Result
  <2> QED
    BY <1>11, <2>1 DEF ReportSuccess, SnapshotsJustified, server, agentSide, history
<1>12. ASSUME NEW r \in sent, ReportFailure(r)
       PROVE  Causes'
  <2>1. [task |-> r.task, lease |-> lease[r.task], status |-> "failed"] \in sent
    BY <1>12 DEF ReportFailure, Matches, IInv, TypeOK, Result
  <2>2. SnapshotsJustified'
    BY <1>12, <2>1 DEF ReportFailure, RowSnapshot, SnapshotsJustified, agentSide, history
  <2> QED
    BY <1>12, <2>2 DEF ReportFailure, LapsesNoted, HeldBySilent, row, history
<1>13. ASSUME NEW s \in failing, FailureHandled(s)
       PROVE  Causes'
  <2>1. s \in Snapshot
    BY DEF IInv, TypeOK
  <2>2. SnapshotsJustified'
    BY <1>13 DEF FailureHandled, SnapshotsJustified, agentSide, history
  <2> QED
    BY <1>13, <2>1, <2>2, ApplyFailureCauses DEF FailureHandled, history
<1>14. ASSUME NEW s \in failing, FailureLost(s)
       PROVE  Causes'
  BY <1>14 DEF FailureLost, LapsesNoted, HeldBySilent, SnapshotsJustified, row,
     agentSide, history
<1>15. CASE UNCHANGED vars
  BY <1>15 DEF vars, row, server, agentSide, history, LapsesNoted, HeldBySilent,
     SnapshotsJustified
<1>16. ASSUME NEW a \in Agent, QueryFails(a)
       PROVE  Causes'
  <2>1. PICK left \in SUBSET stale[a] : stale' = [stale EXCEPT ![a] = left]
    BY <1>16 DEF QueryFails, IInv, TypeOK
  <2>2. SnapshotsJustified'
    BY <1>16, <2>1 DEF QueryFails, SnapshotsJustified, IInv, TypeOK, agentSide, history
  <2> QED
    BY <1>16, <2>2 DEF QueryFails, LapsesNoted, HeldBySilent, row, history
<1> QED
  BY <1>1, <1>2, <1>3, <1>4, <1>5, <1>6, <1>7, <1>8, <1>9, <1>10, <1>11, <1>12,
     <1>13, <1>14, <1>15, <1>16
     DEF Next, TaskStep, AgentStep, ResultStep, Pull

\* The cause of a lost lease is on record: ApplyFailure, which alone takes a row
\* from its holder, works on a snapshot that was listed as lapsed or loaded for a
\* failed result, and its lease_id condition ties it to the lease it read.
THEOREM Justification == Spec => ReclaimJustified
<1>1. Init => Causes
  BY DEF Init, Causes, LapsesNoted, SnapshotsJustified
<1>2. Spec => []Causes
  BY <1>1, NextCauses, Invariance, PTL DEF Spec
<1> DEFINE Lost(t) == state[t] = "leased" /\ state'[t] \in {"pending", "failed_terminal"}
           Cause(t) == \/ <<t, lease[t]>> \in lapsed
                       \/ [task |-> t, lease |-> lease[t], status |-> "failed"] \in sent
<1>3. ASSUME IInv, Causes, Next, NEW t \in Task, Lost(t)
      PROVE  Cause(t)
  <2> USE <1>3 DEF IInv
  <2>1. ASSUME NEW s \in Snapshot, ApplyFailure(s)
        PROVE  s.task = t /\ s.lease = lease[t]
    <3>1. s.task \in Task
      BY DEF Snapshot
    <3> QED
      BY <2>1, <3>1, ApplyFailureStep DEF TypeOK, Matches
  <2>2. ASSUME NEW a \in Agent, Reclaim(a)
        PROVE  Cause(t)
    BY <2>1, <2>2 DEF Reclaim, TypeOK, Causes, SnapshotsJustified
  <2>3. ASSUME NEW s \in failing, FailureHandled(s)
        PROVE  Cause(t)
    BY <2>1, <2>3 DEF FailureHandled, TypeOK, Causes, SnapshotsJustified
  <2>4. ASSUME NEW u \in Task, TaskStep(u)
        PROVE  FALSE
    BY <2>4 DEF TaskStep, Enqueue, DeadlinePasses, BackoffElapses, TypeOK
  <2>5. ASSUME NEW a \in Agent, NEW locked \in SUBSET Heads, PullLocking(a, locked)
        PROVE  FALSE
    <3>1. state' = [u \in Task |-> IF u \in Picked(a, locked) THEN "leased" ELSE state[u]]
      BY <2>5 DEF PullLocking
    <3> QED
      BY <3>1
  <2>6. ASSUME NEW r \in sent, ReportSuccess(r)
        PROVE  FALSE
    BY <2>6 DEF ReportSuccess, TypeOK, Result
  <2>7. ASSUME NEW a \in Agent,
               \/ AgentGoesSilent(a) \/ Heartbeat(a) \/ ListStale(a)
               \/ QueryFails(a) \/ PollAborts(a) \/ AgentCrash(a)
               \/ \E e \in holds[a] : StartTask(a, e) \/ FinishTask(a, e)
        PROVE  FALSE
    BY <2>7 DEF AgentGoesSilent, Heartbeat, ListStale, QueryFails, PollAborts, AgentCrash,
       StartTask, FinishTask, row
  <2>8. CASE \/ \E r \in sent : ReportFailure(r)
             \/ \E s \in failing : FailureLost(s)
    BY <2>8 DEF ReportFailure, FailureLost, row
  <2> QED
    BY <2>2, <2>3, <2>4, <2>5, <2>6, <2>7, <2>8
       DEF Next, AgentStep, ResultStep, Pull
<1>4. ASSUME IInv, Causes, [Next]_vars
      PROVE  [\A t \in Task : Lost(t) => Cause(t)]_vars
  BY <1>3, <1>4
<1> QED
  BY <1>2, <1>4, Invariance, PTL DEF Spec, ReclaimJustified

-----------------------------------------------------------------------------
(* The queue implements DispatchAbstract *)

\* What a row's state means to DispatchAbstract.
Status ==
    [t \in Task |->
       CASE state[t] = "absent"   -> "unknown"
         [] state[t] = "finished" -> "done"
         [] state[t] = "failed_terminal" -> "given_up"
         [] OTHER -> "open"]

Live == [t \in Task |-> state[t] = "leased"]

AbstractStep == Abstract!Next \/ UNCHANGED <<Status, issued, Live>>

\* The meaning of each state, and of a row that a step leaves alone.
LEMMA Meaning ==
    ASSUME NEW t \in Task
    PROVE  /\ state[t] = "absent" => Status[t] = "unknown"
           /\ state[t] = "finished" => Status[t] = "done"
           /\ state[t] = "failed_terminal" => Status[t] = "given_up"
           /\ state[t] \in {"pending", "leased"} => Status[t] = "open"
           /\ Live[t] <=> state[t] = "leased"
           /\ state'[t] = "absent" => Status'[t] = "unknown"
           /\ state'[t] = "finished" => Status'[t] = "done"
           /\ state'[t] = "failed_terminal" => Status'[t] = "given_up"
           /\ state'[t] \in {"pending", "leased"} => Status'[t] = "open"
           /\ Live'[t] <=> state'[t] = "leased"
           /\ state'[t] = state[t] => Status'[t] = Status[t] /\ Live'[t] = Live[t]
BY DEF Status, Live

LEMMA Unmoved == UNCHANGED <<state, issued>> => AbstractStep
BY DEF AbstractStep, Status, Live

\* Inserting a row is the submission of its task; a second enqueue is nothing.
LEMMA EnqueueRefines ==
    ASSUME IInv, NEW t \in Task, Enqueue(t)
    PROVE  AbstractStep
<1>1. CASE state[t] = "absent"
  <2>1. state' = [state EXCEPT ![t] = "pending"] /\ issued' = issued
    BY <1>1 DEF Enqueue, history
  <2>2. Status[t] = "unknown"
    BY <1>1, Meaning
  <2>3. Status' = [Status EXCEPT ![t] = "open"]
    BY <2>1 DEF Status, IInv, TypeOK
  <2>4. Live' = Live
    BY <1>1, <2>1 DEF Live, IInv, TypeOK
  <2>5. Abstract!Submit(t)
    BY <2>1, <2>2, <2>3, <2>4 DEF Abstract!Submit, Status, Live
  <2> QED
    BY <2>5 DEF AbstractStep, Abstract!Next
<1>2. CASE state[t] # "absent"
  BY <1>2, Unmoved DEF Enqueue, history
<1> QED
  BY <1>1, <1>2

\* A failure that matches its row is the failure of the live try: it ends the task
\* exactly when all tries were begun.
LEMMA ApplyFailureRefines ==
    ASSUME IInv, NEW s \in Snapshot, s.attempt = s.lease, ApplyFailure(s),
           issued' = issued
    PROVE  AbstractStep
<1> DEFINE t == s.task
<1>0. t \in Task
  BY DEF Snapshot
<1>1. CASE UNCHANGED state
  BY <1>1, Unmoved
<1>2. CASE /\ Matches(t, s.lease)
           /\ state' = [state EXCEPT ![t] =
                          IF MayRetry(s) THEN "pending" ELSE "failed_terminal"]
  <2>1. /\ state[t] = "leased" /\ s.attempt = issued[t]
        /\ issued[t] \in Nat \ {0}
    BY <1>0, <1>2 DEF Matches, IInv, TypeOK, RowsCount
  <2>2. MayRetry(s) <=> issued[t] <= RetryMax[t]
    BY <1>0, <2>1, RetryMaxAssumption DEF MayRetry
  <2>3. Status[t] = "open" /\ Live[t]
    BY <1>0, <2>1, Meaning
  <2>4. Live' = [Live EXCEPT ![t] = FALSE]
    BY <1>0, <1>2 DEF Live, IInv, TypeOK
  <2>5. Status' = [Status EXCEPT ![t] = IF issued[t] <= RetryMax[t] THEN "open" ELSE "given_up"]
    BY <1>0, <1>2, <2>2 DEF Status, IInv, TypeOK
  <2>6. Abstract!Fail(t)
    BY <2>3, <2>4, <2>5 DEF Abstract!Fail, Status, Live
  <2> QED
    BY <1>0, <2>6 DEF AbstractStep, Abstract!Next
<1> QED
  BY <1>1, <1>2, ApplyFailureStep DEF IInv

\* A pull that leases tasks begins one try of each; a pull without is nothing.
LEMMA PullRefines ==
    ASSUME IInv, NEW a \in Agent, NEW locked \in SUBSET Heads, PullLocking(a, locked)
    PROVE  AbstractStep
<1>0. PICK got \in SUBSET Task : got = Picked(a, locked)
  BY DEF Picked, Heads
<1>1. got \subseteq {t \in Task : state[t] = "pending"}
  BY <1>0 DEF Picked, Heads
<1>2. /\ state'   = [t \in Task |-> IF t \in got THEN "leased" ELSE state[t]]
      /\ issued'  = [t \in Task |-> IF t \in got THEN issued[t] + 1 ELSE issued[t]]
  BY <1>0 DEF PullLocking
<1>3. CASE got = {}
  BY <1>2, <1>3, Unmoved DEF IInv, TypeOK
<1>4. CASE got # {}
  <2>1. ASSUME NEW t \in got
        PROVE  Status[t] = "open" /\ ~Live[t] /\ issued[t] <= RetryMax[t]
    BY <1>1, Meaning, RetryMaxAssumption DEF IInv, TypeOK, RowsCount
  <2>2. Status' = Status
    BY <1>1, <1>2 DEF Status
  <2>3. Live' = [t \in Task |-> t \in got \/ Live[t]]
    BY <1>2 DEF Live
  <2>4. Abstract!Try(got)
    BY <1>2, <1>4, <2>1, <2>2, <2>3 DEF Abstract!Try, Status, Live
  <2> QED
    BY <2>4 DEF AbstractStep, Abstract!Next
<1> QED
  BY <1>3, <1>4

\* A success that finds its lease ends the task; one that finds it ended is nothing.
LEMMA SuccessRefines ==
    ASSUME IInv, NEW r \in sent, ReportSuccess(r)
    PROVE  AbstractStep
<1> DEFINE t == r.task
<1>1. t \in Task
  BY DEF IInv, TypeOK, Result
<1>2. state' = [state EXCEPT ![t] = "finished"] /\ issued' = issued
  BY DEF ReportSuccess, history
<1>3. CASE state[t] = "finished"
  BY <1>1, <1>2, <1>3, Unmoved DEF IInv, TypeOK
<1>4. CASE state[t] = "leased"
  <2>1. Status[t] = "open" /\ Live[t]
    BY <1>1, <1>4, Meaning
  <2>2. Status' = [Status EXCEPT ![t] = "done"]
    BY <1>1, <1>2 DEF Status, IInv, TypeOK
  <2>3. Live' = [Live EXCEPT ![t] = FALSE]
    BY <1>1, <1>2 DEF Live, IInv, TypeOK
  <2>4. Abstract!Succeed(t)
    BY <1>2, <2>1, <2>2, <2>3 DEF Abstract!Succeed, Status, Live
  <2> QED
    BY <1>1, <2>4 DEF AbstractStep, Abstract!Next
<1> QED
  BY <1>3, <1>4 DEF ReportSuccess, Matches

\* Every step of the queue is one of DispatchAbstract or leaves it as it is.
LEMMA StepRefines == IInv /\ [Next]_vars => AbstractStep
<1> SUFFICES ASSUME IInv, [Next]_vars
             PROVE  AbstractStep
  OBVIOUS
<1>1. ASSUME NEW a \in Agent, Reclaim(a)
      PROVE  AbstractStep
  <2>1. PICK s \in stale[a] : ApplyFailure(s)
    BY <1>1 DEF Reclaim
  <2>2. s \in Snapshot /\ s.attempt = s.lease /\ issued' = issued
    BY <1>1, <2>1 DEF IInv, TypeOK, SnapshotsOK, Reclaim, history
  <2> QED
    BY <2>1, <2>2, ApplyFailureRefines
<1>2. ASSUME NEW s \in failing, FailureHandled(s)
      PROVE  AbstractStep
  <2>1. s \in Snapshot /\ s.attempt = s.lease /\ issued' = issued
    BY <1>2 DEF IInv, TypeOK, SnapshotsOK, FailureHandled, history
  <2> QED
    BY <1>2, <2>1, ApplyFailureRefines DEF FailureHandled
<1>3. ASSUME NEW t \in Task, DeadlinePasses(t) \/ BackoffElapses(t)
      PROVE  AbstractStep
  BY <1>3, Unmoved DEF DeadlinePasses, BackoffElapses, history
<1>4. ASSUME NEW a \in Agent,
             \/ AgentGoesSilent(a) \/ Heartbeat(a) \/ ListStale(a)
             \/ QueryFails(a) \/ PollAborts(a) \/ AgentCrash(a)
             \/ \E e \in holds[a] : StartTask(a, e) \/ FinishTask(a, e)
      PROVE  AbstractStep
  BY <1>4, Unmoved DEF AgentGoesSilent, Heartbeat, ListStale, QueryFails, PollAborts,
     AgentCrash, StartTask, FinishTask, row, history
<1>5. CASE \/ \E r \in sent : ReportFailure(r)
           \/ \E s \in failing : FailureLost(s)
  BY <1>5, Unmoved DEF ReportFailure, FailureLost, row, history
<1>6. CASE UNCHANGED vars
  BY <1>6, Unmoved DEF vars, row, history
<1> QED
  BY <1>1, <1>2, <1>3, <1>4, <1>5, <1>6, EnqueueRefines, PullRefines, SuccessRefines
     DEF Next, TaskStep, AgentStep, ResultStep, Pull

\* Whatever handlers, agents and time do to the queue, a task is tried one try at a
\* time until a try succeeds or 1 + retry_max tries have failed.
THEOREM Refinement == Spec => ImplementsAbstract
<1>1. Init => Abstract!Init
  BY DEF Init, Abstract!Init
<1>2. AbstractStep => [Abstract!Next]_(Abstract!vars)
  BY DEF AbstractStep, Abstract!vars, Status, Live
<1>3. IInv /\ [Next]_vars => [Abstract!Next]_(Abstract!vars)
  BY <1>2, StepRefines
<1> QED
  BY <1>1, <1>3, Invariance, PTL DEF Spec, ImplementsAbstract, Abstract!Spec
=============================================================================
