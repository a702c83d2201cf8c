------------------------ MODULE MergeDispatchProofs ------------------------
(***************************************************************************)
(* Theorems about MergeDispatch for any sets of sessions and handlers.     *)
(***************************************************************************)
EXTENDS MergeDispatch, FiniteSetTheorems, TLAPS

\* The number of crawls dispatched is a number: crawls are numbered 1 .. MaxCrawl.
LEMMA DispatchedNat == ASSUME TypeOK PROVE Dispatched \in Nat
<1>1. IsFiniteSet(Crawl)
  BY FS_Interval, BoundsAssumption DEF Crawl
<1>2. IsFiniteSet({d \in Crawl : status[d] # "absent"})
  BY <1>1, FS_Subset
<1> QED BY <1>2, FS_CardinalityType DEF Dispatched

\* The record of an idle handler is a handler record ...
LEMMA IdleRecord == Idle \in HandlerRecord
BY BoundsAssumption DEF Idle, HandlerRecord, Steps, RowStates

\* ... and so is the one a handler begins a list, a dispatch or a fan-out with.
LEMMA MakeRecord ==
  ASSUME NEW pc \in Steps, NEW todo \in SUBSET Session,
         NEW crawl \in 0 .. MaxCrawl, NEW outcome \in RowStates
  PROVE  [Idle EXCEPT !.pc = pc, !.todo = todo, !.crawl = crawl, !.outcome = outcome]
            \in HandlerRecord
<1>1. 0 \in 0 .. MaxProxyAttempts /\ Idle.prev = 0
  BY BoundsAssumption DEF Idle
<1>2. Idle \in [pc : {"idle"}, todo : {{}}, crawl : {0}, outcome : {"absent"}, prev : {0}]
  BY DEF Idle
<1> QED BY <1>1, <1>2 DEF HandlerRecord

\* What the transaction of a dispatch leaves, whichever branch it takes.
LEMMA DispatchTxType ==
  ASSUME TypeOK, NEW p \in Handler, DispatchTx(p)
  PROVE  /\ row' \in [Session -> RowStates] /\ link' \in [Session -> 0 .. MaxCrawl]
         /\ status' \in [Crawl -> {"absent", "open", "finished", "failed_terminal"}]
         /\ inflight' \in 0 .. MaxCrawl
<1> USE BoundsAssumption DEF TypeOK
<1>1. CASE Reusable
  BY <1>1 DEF DispatchTx, Attach, Unlinked, RowStates
<1>2. CASE ~Reusable
  <2> DEFINE d == Dispatched + 1
  <2>1. d \in Crawl
    BY <1>2, DispatchedNat DEF DispatchTx, Crawl
  <2>2. /\ status' = [status EXCEPT ![d] = "open"] /\ inflight' = d
        /\ row'  = [s \in Session |-> IF s \in Unlinked THEN "running" ELSE row[s]]
        /\ link' = [s \in Session |-> IF s \in Unlinked THEN d ELSE link[s]]
    BY <1>2 DEF DispatchTx, Attach
  <2> HIDE DEF d
  <2> QED BY <2>1, <2>2 DEF Crawl, RowStates
<1> QED BY <1>1, <1>2

\* Every step keeps the types.
LEMMA TypeStep == TypeOK /\ [Next]_vars => TypeOK'
<1> SUFFICES ASSUME TypeOK, [Next]_vars PROVE TypeOK'
  OBVIOUS
<1> USE BoundsAssumption, IdleRecord DEF TypeOK
<1>1. ASSUME NEW p \in Handler, NEW s \in Session, Ask(p, s) PROVE TypeOK'
  <2>1. h' \in [Handler -> HandlerRecord]
    BY <1>1 DEF Ask, Become, Idle, HandlerRecord, Steps, RowStates
  <2> QED BY <1>1, <2>1 DEF Ask, NewRequest, RowStates
<1>2. ASSUME NEW s \in Session, Cancel(s) PROVE TypeOK'
  BY <1>2 DEF Cancel, NewRequest, RowStates
<1>3. ASSUME NEW p \in Handler, NEW s \in Session, Retry(p, s) PROVE TypeOK'
  <2>1. h' \in [Handler -> HandlerRecord]
    BY <1>3 DEF Retry, Become, Idle, HandlerRecord, Steps, RowStates
  <2> QED BY <1>3, <2>1 DEF Retry, NewRequest
<1>4. ASSUME NEW p \in Handler, RetryDecide(p) PROVE TypeOK'
  <2> DEFINE retried == IF h[p].outcome \in {"absent", "failed_terminal"} THEN h[p].todo ELSE {}
  <2>1. retried \in SUBSET Session
    BY DEF HandlerRecord
  <2>2. row' \in [Session -> RowStates] /\ link' \in [Session -> 0 .. MaxCrawl]
    BY <1>4 DEF RetryDecide, RowStates
  <2>3. h' \in [Handler -> HandlerRecord]
    <3>1. CASE retried = {}
      BY <1>4, <3>1 DEF RetryDecide, Done, Become
    <3>2. CASE retried # {}
      <4>1. h' = [h EXCEPT ![p] = [Idle EXCEPT !.pc = "keys", !.todo = retried]]
        BY <1>4, <3>2 DEF RetryDecide, Become
      <4>2. [Idle EXCEPT !.pc = "keys", !.todo = retried] \in HandlerRecord
        BY <2>1 DEF Idle, HandlerRecord, Steps, RowStates
      <4> QED BY <4>1, <4>2
    <3> QED BY <3>1, <3>2
  <2> QED BY <1>4, <2>2, <2>3 DEF RetryDecide
<1>5. ASSUME NEW p \in Handler, NEW s \in Session, SubmitResult(p, s) PROVE TypeOK'
  <2>1. PICK outcome \in {"succeeded", "no_result", "failed_terminal"},
             d \in {0} \cup {c \in Crawl : status[c] # "absent"} :
          h' = [h EXCEPT ![p] = [Idle EXCEPT !.pc = IF d = 0 THEN "finalize" ELSE "listOr",
                                   !.todo = {s}, !.crawl = d, !.outcome = outcome]]
    BY <1>5 DEF SubmitResult, Become
  <2>2. d \in 0 .. MaxCrawl
    BY DEF Crawl
  <2>3. h' \in [Handler -> HandlerRecord]
    <3>1. (IF d = 0 THEN "finalize" ELSE "listOr") \in Steps
      BY DEF Steps
    <3>2. outcome \in RowStates
      BY DEF RowStates
    <3> QED BY <2>1, <2>2, <3>1, <3>2, MakeRecord
  <2> QED BY <1>5, <2>3 DEF SubmitResult, NewRequest
<1>6. ASSUME NEW p \in Handler, ListKeys(p) PROVE TypeOK'
  <2>1. h' \in [Handler -> HandlerRecord]
    BY <1>6 DEF ListKeys, Done, Become, Idle, HandlerRecord, Steps, RowStates
  <2> QED BY <1>6, <2>1 DEF ListKeys
<1>7. ASSUME NEW p \in Handler, LookUp(p) PROVE TypeOK'
  <2>1. h' \in [Handler -> HandlerRecord]
    <3>1. CASE cache # "none"
      <4>1. FromCache \in RowStates
        BY DEF FromCache, RowStates
      <4> DEFINE rec == [Idle EXCEPT !.pc = "hit", !.outcome = FromCache]
      <4>2. h' = [h EXCEPT ![p] = rec]
        BY <1>7, <3>1 DEF LookUp, Become
      <4>3. rec \in HandlerRecord
        BY <4>1 DEF Idle, HandlerRecord, Steps
      <4> HIDE DEF rec
      <4> QED BY <4>2, <4>3
    <3>2. CASE cache = "none"
      BY <1>7, <3>2 DEF LookUp, Goto, HandlerRecord, Steps
    <3> QED BY <3>1, <3>2
  <2> QED BY <1>7, <2>1 DEF LookUp
<1>8. ASSUME NEW p \in Handler, ListPending(p) PROVE TypeOK'
  BY <1>8 DEF ListPending, Become, HandlerRecord, Steps
<1>9. ASSUME NEW p \in Handler, AcquireProxy(p) PROVE TypeOK'
  <2>1. h' \in [Handler -> HandlerRecord]
    BY <1>9 DEF AcquireProxy, Goto, HandlerRecord, Steps
  <2> QED BY <1>9, <2>1 DEF AcquireProxy
<1>10. ASSUME NEW p \in Handler, ReadWait(p) PROVE TypeOK'
  BY <1>10 DEF ReadWait, Become, HandlerRecord, Steps
<1>11. ASSUME NEW p \in Handler, RecordFailure(p) PROVE TypeOK'
  <2>1. h' \in [Handler -> HandlerRecord]
    BY <1>11 DEF RecordFailure, Done, Goto, Become, HandlerRecord, Steps
  <2>2. wait' \in 0 .. MaxProxyAttempts /\ due' \in BOOLEAN
    <3>1. h[p].prev \in 0 .. MaxProxyAttempts
      BY DEF HandlerRecord
    <3>2. \/ wait' = h[p].prev + 1 /\ due' = FALSE /\ ~(h[p].prev + 1 > MaxProxyAttempts)
          \/ wait' = wait /\ due' = due
      BY <1>11 DEF RecordFailure
    <3>3. wait' \in 0 .. MaxProxyAttempts
      BY <3>1, <3>2
    <3>4. due' \in BOOLEAN
      BY <3>2, Zenon
    <3> QED BY <3>3, <3>4
  <2> QED BY <1>11, <2>1, <2>2 DEF RecordFailure
<1>12. ASSUME NEW p \in Handler, GiveUp(p) PROVE TypeOK'
  <2>1. h' \in [Handler -> HandlerRecord]
    BY <1>12 DEF GiveUp, Goto, HandlerRecord, Steps
  <2> QED BY <1>12, <2>1 DEF GiveUp, RowStates
<1>13. ASSUME NEW p \in Handler, DispatchTx(p) PROVE TypeOK'
  <2>1. h' \in [Handler -> HandlerRecord]
    BY <1>13 DEF DispatchTx, Goto, HandlerRecord, Steps
  <2> QED BY <1>13, <2>1, DispatchTxType DEF DispatchTx
<1>14. ASSUME NEW p \in Handler, Cleanup(p) PROVE TypeOK'
  <2>1. h' \in [Handler -> HandlerRecord]
    BY <1>14 DEF Cleanup, Done, Become
  <2>2. due' \in BOOLEAN
    BY <1>14, Zenon DEF Cleanup
  <2> QED BY <1>14, <2>1, <2>2 DEF Cleanup
<1>15. CASE WaitElapses
  BY <1>15 DEF WaitElapses
<1>16. ASSUME NEW p \in Handler, WorkerWakes(p) PROVE TypeOK'
  <2>1. h' \in [Handler -> HandlerRecord]
    BY <1>16 DEF WorkerWakes, Become, Idle, HandlerRecord, Steps, RowStates
  <2> QED BY <1>16, <2>1 DEF WorkerWakes
<1>17. ASSUME NEW p \in Handler, NEW d \in Crawl, ResultAccepted(p, d) PROVE TypeOK'
  <2>1. PICK outcome \in {"succeeded", "failed_terminal"} :
          h' = [h EXCEPT ![p] = [Idle EXCEPT !.pc = "list", !.crawl = d, !.outcome = outcome]]
    BY <1>17 DEF ResultAccepted, Become
  <2>2. d \in 0 .. MaxCrawl
    BY DEF Crawl
  <2>3. h' \in [Handler -> HandlerRecord]
    BY <2>1, <2>2 DEF Idle, HandlerRecord, Steps, RowStates
  <2> QED BY <1>17, <2>3 DEF ResultAccepted, Crawl
<1>18. ASSUME NEW d \in Crawl, CrawlFails(d) PROVE TypeOK'
  BY <1>18 DEF CrawlFails
<1>19. ASSUME NEW p \in Handler, ListLinked(p) PROVE TypeOK'
  <2> DEFINE linked == {s \in Session : row[s] # "absent" /\ link[s] = h[p].crawl}
  <2>1. h' \in [Handler -> HandlerRecord]
    <3>1. CASE linked # {}
      <4>1. h' = [h EXCEPT ![p] = [h[p] EXCEPT !.pc = "finalize", !.todo = linked]]
        BY <1>19, <3>1 DEF ListLinked, Become
      <4>2. linked \in SUBSET Session
        OBVIOUS
      <4> HIDE DEF linked
      <4> QED BY <4>1, <4>2 DEF HandlerRecord, Steps
    <3>2. CASE linked = {}
      BY <1>19, <3>2 DEF ListLinked, Done, Goto, Become, HandlerRecord, Steps
    <3> QED BY <3>1, <3>2
  <2> QED BY <1>19, <2>1 DEF ListLinked
<1>20. ASSUME NEW p \in Handler, FinalizeOne(p) PROVE TypeOK'
  <2> PICK s \in h[p].todo :
          IF Refused(s, h[p].crawl)
          THEN Done(p) /\ UNCHANGED <<row, cache>>
          ELSE /\ row'   = [row EXCEPT ![s] = h[p].outcome]
               /\ cache' = CASE h[p].outcome = "succeeded" -> "ok"
                             [] h[p].outcome = "no_result" -> "no_mpn_match"
                             [] OTHER -> cache
               /\ h' = [h EXCEPT ![p].todo = @ \ {s}]
    BY <1>20 DEF FinalizeOne
  <2>1. CASE Refused(s, h[p].crawl)
    BY <1>20, <2>1 DEF FinalizeOne, Done, Become
  <2>2. CASE ~Refused(s, h[p].crawl)
    <3>1. h' \in [Handler -> HandlerRecord]
      BY <2>2 DEF HandlerRecord
    <3>2. s \in Session
      BY DEF HandlerRecord
    <3>3. h[p].outcome \in RowStates
      BY <1>20 DEF HandlerRecord
    <3> QED BY <1>20, <2>2, <3>1, <3>2, <3>3 DEF FinalizeOne
  <2> QED BY <2>1, <2>2
<1>21. ASSUME NEW p \in Handler, FinalizeEnd(p) PROVE TypeOK'
  BY <1>21 DEF FinalizeEnd, Done, Goto, Become, HandlerRecord, Steps
<1>22. ASSUME NEW p \in Handler, NEW s \in Session, Reconcile(p, s) PROVE TypeOK'
  <2>1. h' \in [Handler -> HandlerRecord]
    BY <1>22 DEF Reconcile, Become, Idle, HandlerRecord, Steps, RowStates
  <2> QED BY <1>22, <2>1 DEF Reconcile
<1>23. ASSUME NEW p \in Handler, ReconcileLook(p) PROVE TypeOK'
  <2>1. h' \in [Handler -> HandlerRecord]
    BY <1>23 DEF ReconcileLook, FromCache, Become, Idle, HandlerRecord, Steps, RowStates
  <2> QED BY <1>23, <2>1 DEF ReconcileLook
<1>24. ASSUME NEW p \in Handler, Abort(p) PROVE TypeOK'
  BY <1>24 DEF Abort, Done, Become
<1>25. CASE UNCHANGED vars
  BY <1>25 DEF vars
<1> QED
  BY <1>1, <1>2, <1>3, <1>4, <1>5, <1>6, <1>7, <1>8, <1>9, <1>10, <1>11, <1>12, <1>13,
     <1>14, <1>15, <1>16, <1>17, <1>18, <1>19, <1>20, <1>21, <1>22, <1>23, <1>24, <1>25
  DEF Next, Arrival, Progress

\* The types hold at the start.
LEMMA TypeInit == Init => TypeOK
<1> SUFFICES ASSUME Init PROVE TypeOK
  OBVIOUS
<1>1. due \in BOOLEAN
  BY Zenon DEF Init
<1> QED BY <1>1, BoundsAssumption, IdleRecord DEF Init, TypeOK, RowStates

\* Types hold for any sets of sessions and handlers.
THEOREM TypeCorrectness == Spec => []TypeOK
BY TypeInit, TypeStep, PTL DEF Spec

-----------------------------------------------------------------------------
(* The in-flight row names the only open crawl. *)

\* A crawl is opened only when the in-flight row names no open one.
LEMMA OneLiveStep ==
  TypeOK /\ OneLiveCrawl /\ [Next]_vars => OneLiveCrawl'
<1> SUFFICES ASSUME TypeOK, OneLiveCrawl, [Next]_vars PROVE OneLiveCrawl'
  OBVIOUS
<1> USE DEF OneLiveCrawl
<1>1. ASSUME NEW p \in Handler, DispatchTx(p) PROVE OneLiveCrawl'
  <2>1. CASE Reusable
    BY <1>1, <2>1 DEF DispatchTx
  <2>2. CASE ~Reusable
    <3> DEFINE d == Dispatched + 1
    <3>1. status' = [status EXCEPT ![d] = "open"] /\ inflight' = d
      BY <1>1, <2>2 DEF DispatchTx
    <3>2. \A e \in Crawl : status[e] # "open"
      BY <2>2 DEF Reusable, Crawl
    <3> HIDE DEF d
    <3> QED BY <3>1, <3>2 DEF TypeOK
  <2> QED BY <2>1, <2>2
<1>2. ASSUME NEW p \in Handler, NEW d \in Crawl, ResultAccepted(p, d) PROVE OneLiveCrawl'
  BY <1>2 DEF ResultAccepted, TypeOK
<1>3. ASSUME NEW d \in Crawl, CrawlFails(d) PROVE OneLiveCrawl'
  BY <1>3 DEF CrawlFails, TypeOK
<1>4. ASSUME UNCHANGED <<status, inflight>> PROVE OneLiveCrawl'
  BY <1>4
<1>5. ASSUME NEW p \in Handler, Progress(p), ~DispatchTx(p) PROVE UNCHANGED <<status, inflight>>
  BY <1>5 DEF Progress, RetryDecide, ListKeys, LookUp, ListPending, AcquireProxy, ReadWait,
              RecordFailure, GiveUp, Cleanup, ListLinked, FinalizeOne, FinalizeEnd,
              ReconcileLook
<1>6. ASSUME NEW p \in Handler, Arrival(p), \A d \in Crawl : ~ResultAccepted(p, d)
      PROVE UNCHANGED <<status, inflight>>
  BY <1>6 DEF Arrival, Ask, Retry, SubmitResult, Reconcile, WorkerWakes
<1>7. ASSUME \/ \E p \in Handler : Abort(p)
             \/ \E s \in Session : Cancel(s)
             \/ WaitElapses \/ UNCHANGED vars
      PROVE UNCHANGED <<status, inflight>>
  BY <1>7 DEF Abort, Cancel, WaitElapses, vars
<1> QED BY <1>1, <1>2, <1>3, <1>4, <1>5, <1>6, <1>7 DEF Next

\* At most one crawl of a key is open, however many sessions, requests and late
\* results there are: the in-flight row names it.
THEOREM SingleCrawl == Spec => []OneLiveCrawl
<1>1. Init => OneLiveCrawl
  BY DEF Init, OneLiveCrawl
<1> QED BY <1>1, TypeInit, TypeStep, OneLiveStep, PTL DEF Spec

-----------------------------------------------------------------------------
(* Rows are ended by their own crawl. *)

Ended == {"succeeded", "no_result", "failed_terminal"}

\* A handler about to write rows has an outcome for them.
OutcomeOK ==
    \A p \in Handler :
        h[p].pc \in {"hit", "list", "listOr", "finalize", "finalizeCached"} =>
            h[p].outcome \in Ended

\* A row in progress has a crawl.
RunningLinked == \A s \in Session : row[s] = "running" => link[s] # 0

\* Handlers that finalize rows carry an outcome, never another state.
LEMMA OutcomeStep == TypeOK /\ OutcomeOK /\ [Next]_vars => OutcomeOK'
<1> SUFFICES ASSUME TypeOK, OutcomeOK, [Next]_vars, NEW q \in Handler,
                    h'[q].pc \in {"hit", "list", "listOr", "finalize", "finalizeCached"}
             PROVE  h'[q].outcome \in Ended
  BY DEF OutcomeOK
<1> USE DEF OutcomeOK, Ended
<1>1. h \in [Handler -> HandlerRecord]
  BY DEF TypeOK
<1>2. ASSUME h'[q] = h[q] PROVE h'[q].outcome \in Ended
  BY <1>2
<1>3. ASSUME NEW p \in Handler, Progress(p) PROVE h'[q].outcome \in Ended
  <2>1. CASE RetryDecide(p)
    <3>1. h' = [h EXCEPT ![p] = Idle] \/
          \E todo : h' = [h EXCEPT ![p] = [Idle EXCEPT !.pc = "keys", !.todo = todo]]
      BY <2>1 DEF RetryDecide, Done, Become
    <3>2. CASE h' = [h EXCEPT ![p] = Idle]
      BY <1>1, <3>2 DEF Idle
    <3>3. ASSUME NEW todo, h' = [h EXCEPT ![p] = [Idle EXCEPT !.pc = "keys", !.todo = todo]]
          PROVE  h'[q].outcome \in Ended
      BY <1>1, <3>3 DEF Idle
    <3> QED BY <3>1, <3>2, <3>3
  <2>2. CASE ListKeys(p)
    BY <1>1, <2>2 DEF ListKeys, Done, Become, Idle, HandlerRecord
  <2>3. CASE LookUp(p)
    <3>1. FromCache \in Ended
      BY DEF FromCache
    <3>2. \/ h' = [h EXCEPT ![p] = [Idle EXCEPT !.pc = "hit", !.outcome = FromCache]]
          \/ h' = [h EXCEPT ![p].pc = "proxy"]
          \/ h' = [h EXCEPT ![p].pc = "tx"]
      BY <2>3 DEF LookUp, Goto, Become
    <3> QED BY <1>1, <3>1, <3>2 DEF Idle, HandlerRecord
  <2>4. CASE ListPending(p)
    BY <1>1, <2>4 DEF ListPending, At, Become, HandlerRecord
  <2>5. CASE AcquireProxy(p) \/ ReadWait(p)
    BY <1>1, <2>5 DEF AcquireProxy, ReadWait, Goto, Become, HandlerRecord
  <2>6. CASE RecordFailure(p) \/ GiveUp(p)
    BY <1>1, <2>6 DEF RecordFailure, GiveUp, Done, Goto, Become, Idle, HandlerRecord
  <2>7. CASE DispatchTx(p) \/ Cleanup(p)
    BY <1>1, <2>7 DEF DispatchTx, Cleanup, Done, Goto, Become, Idle, HandlerRecord
  <2>8. CASE ListLinked(p)
    <3>1. \/ h' = [h EXCEPT ![p] = Idle]
          \/ h' = [h EXCEPT ![p].pc = "finalize"]
          \/ \E todo : h' = [h EXCEPT ![p] = [h[p] EXCEPT !.pc = "finalize", !.todo = todo]]
      BY <2>8 DEF ListLinked, Done, Goto, Become
    <3>2. h[p].outcome \in Ended
      BY <2>8 DEF ListLinked
    <3>3. CASE h' = [h EXCEPT ![p] = Idle]
      BY <1>1, <3>3 DEF Idle
    <3>4. CASE h' = [h EXCEPT ![p].pc = "finalize"]
      BY <1>1, <3>2, <3>4 DEF HandlerRecord
    <3>5. ASSUME NEW todo, h' = [h EXCEPT ![p] = [h[p] EXCEPT !.pc = "finalize", !.todo = todo]]
          PROVE  h'[q].outcome \in Ended
      BY <1>1, <3>2, <3>5 DEF HandlerRecord
    <3> QED BY <3>1, <3>3, <3>4, <3>5
  <2>9. CASE FinalizeOne(p)
    BY <1>1, <2>9 DEF FinalizeOne, Done, Become, Idle, HandlerRecord
  <2>10. CASE FinalizeEnd(p)
    BY <1>1, <2>10 DEF FinalizeEnd, Done, Goto, Become, Idle, HandlerRecord
  <2>11. CASE ReconcileLook(p)
    BY <1>1, <2>11 DEF ReconcileLook, FromCache, Become, Idle, HandlerRecord
  <2> QED BY <1>3, <2>1, <2>2, <2>3, <2>4, <2>5, <2>6, <2>7, <2>8, <2>9, <2>10, <2>11
          DEF Progress
<1>4. ASSUME NEW p \in Handler, Arrival(p) PROVE h'[q].outcome \in Ended
  <2>1. ASSUME NEW s \in Session, SubmitResult(p, s) PROVE h'[q].outcome \in Ended
    BY <1>1, <2>1 DEF SubmitResult, Become, Idle, HandlerRecord
  <2>2. ASSUME NEW d \in Crawl, ResultAccepted(p, d) PROVE h'[q].outcome \in Ended
    BY <1>1, <2>2 DEF ResultAccepted, Become, Idle, HandlerRecord
  <2>3. ASSUME NEW s \in Session, Ask(p, s) \/ Retry(p, s) \/ Reconcile(p, s)
        PROVE  h'[q].outcome \in Ended
    <3>1. CASE Ask(p, s)
      BY <1>1, <3>1 DEF Ask, Become, Idle, HandlerRecord
    <3>2. CASE Retry(p, s)
      BY <1>1, <3>2 DEF Retry, Become, Idle, HandlerRecord
    <3>3. CASE Reconcile(p, s)
      BY <1>1, <3>3 DEF Reconcile, Become, Idle, HandlerRecord
    <3> QED BY <2>3, <3>1, <3>2, <3>3
  <2>4. CASE WorkerWakes(p)
    BY <1>1, <2>4 DEF WorkerWakes, Become, Idle, HandlerRecord
  <2> QED BY <1>4, <2>1, <2>2, <2>3, <2>4 DEF Arrival
<1>5. ASSUME NEW p \in Handler, Abort(p) PROVE h'[q].outcome \in Ended
  BY <1>1, <1>5 DEF Abort, Done, Become, Idle, HandlerRecord
<1>6. ASSUME \/ \E s \in Session : Cancel(s)
             \/ \E d \in Crawl : CrawlFails(d)
             \/ WaitElapses \/ UNCHANGED vars
      PROVE  h'[q] = h[q]
  BY <1>6 DEF Cancel, CrawlFails, WaitElapses, vars
<1> QED BY <1>2, <1>3, <1>4, <1>5, <1>6 DEF Next

\* Only these steps write the rows or their links.
LEMMA RowWriters ==
  ASSUME Next
  PROVE  \/ UNCHANGED <<row, link>>
         \/ \E p \in Handler : \/ \E s \in Session : Ask(p, s)
                               \/ RetryDecide(p) \/ GiveUp(p) \/ DispatchTx(p) \/ FinalizeOne(p)
         \/ \E s \in Session : Cancel(s)
<1>1. ASSUME NEW p \in Handler, Progress(p)
      PROVE  \/ UNCHANGED <<row, link>>
             \/ RetryDecide(p) \/ GiveUp(p) \/ DispatchTx(p) \/ FinalizeOne(p)
  BY <1>1 DEF Progress, ListKeys, LookUp, ListPending, AcquireProxy, ReadWait, RecordFailure,
              Cleanup, ListLinked, FinalizeEnd, ReconcileLook
<1>2. ASSUME NEW p \in Handler, Arrival(p)
      PROVE  UNCHANGED <<row, link>> \/ \E s \in Session : Ask(p, s)
  BY <1>2 DEF Arrival, Retry, SubmitResult, Reconcile, ResultAccepted, WorkerWakes
<1>3. ASSUME \/ \E p \in Handler : Abort(p)
             \/ \E d \in Crawl : CrawlFails(d)
             \/ WaitElapses
      PROVE  UNCHANGED <<row, link>>
  BY <1>3 DEF Abort, CrawlFails, WaitElapses
<1> QED BY <1>1, <1>2, <1>3 DEF Next

\* A dispatch links the rows it sets running to a crawl, and writes no other.
LEMMA DispatchTxRows ==
  ASSUME TypeOK, NEW p \in Handler, DispatchTx(p)
  PROVE  \E d \in Crawl : Attach(Unlinked, d)
<1>1. CASE Reusable
  BY <1>1 DEF DispatchTx, Reusable, TypeOK, Crawl
<1>2. CASE ~Reusable
  BY <1>2, DispatchedNat, BoundsAssumption DEF DispatchTx, Crawl
<1> QED BY <1>1, <1>2

\* FinalizeOne writes at most the row of one session of its list.
LEMMA FinalizeOneRow ==
  ASSUME TypeOK, NEW p \in Handler, FinalizeOne(p)
  PROVE  \E s \in h[p].todo :
            \/ Refused(s, h[p].crawl) /\ row' = row /\ Done(p)
            \/ /\ ~Refused(s, h[p].crawl)
               /\ row' = [row EXCEPT ![s] = h[p].outcome]
               /\ h' = [h EXCEPT ![p].todo = @ \ {s}]
BY DEF FinalizeOne

\* A row is set running only together with its link.
LEMMA LinkedStep ==
  TypeOK /\ OutcomeOK /\ RunningLinked /\ [Next]_vars => RunningLinked'
<1> SUFFICES ASSUME TypeOK, OutcomeOK, RunningLinked, [Next]_vars PROVE RunningLinked'
  OBVIOUS
<1> USE DEF RunningLinked
<1>1. ASSUME NEW p \in Handler, NEW s \in Session, Ask(p, s) PROVE RunningLinked'
  BY <1>1 DEF Ask, TypeOK
<1>2. ASSUME NEW s \in Session, Cancel(s) PROVE RunningLinked'
  BY <1>2 DEF Cancel, TypeOK
<1>3. ASSUME NEW p \in Handler, RetryDecide(p) PROVE RunningLinked'
  BY <1>3 DEF RetryDecide
<1>4. ASSUME NEW p \in Handler, GiveUp(p) PROVE RunningLinked'
  BY <1>4 DEF GiveUp
<1>5. ASSUME NEW p \in Handler, DispatchTx(p) PROVE RunningLinked'
  <2>1. PICK d \in Crawl : Attach(Unlinked, d)
    BY <1>5, DispatchTxRows
  <2>2. d # 0
    BY BoundsAssumption DEF Crawl
  <2> QED BY <2>1, <2>2 DEF Attach
<1>6. ASSUME NEW p \in Handler, FinalizeOne(p) PROVE RunningLinked'
  <2>1. PICK s \in h[p].todo :
            \/ row' = row
            \/ row' = [row EXCEPT ![s] = h[p].outcome]
    BY <1>6, FinalizeOneRow
  <2>2. h[p].outcome \in Ended
    BY <1>6 DEF FinalizeOne, OutcomeOK
  <2>3. link' = link
    BY <1>6 DEF FinalizeOne
  <2>4. \A r \in Session : row'[r] = row[r] \/ row'[r] \in Ended
    BY <2>1, <2>2 DEF TypeOK
  <2> QED BY <2>3, <2>4 DEF Ended
<1>7. ASSUME UNCHANGED <<row, link>> PROVE RunningLinked'
  BY <1>7
<1> QED BY <1>1, <1>2, <1>3, <1>4, <1>5, <1>6, <1>7, RowWriters DEF vars

\* A step that ends a running row is taken by a handler of its own crawl.
LEMMA OwnResultStep ==
  ASSUME TypeOK, OutcomeOK, RunningLinked, [Next]_vars, NEW s \in Session,
         row[s] = "running", row'[s] \in {"succeeded", "no_result", "failed_terminal"}
  PROVE  \E p \in Handler : s \in h[p].todo /\ h[p].crawl \in {0, link[s]}
<1>1. ~UNCHANGED <<row, link>>
  OBVIOUS
<1>2. ASSUME NEW p \in Handler, NEW r \in Session, Ask(p, r) PROVE FALSE
  BY <1>2 DEF Ask, TypeOK
<1>3. ASSUME NEW r \in Session, Cancel(r) PROVE FALSE
  BY <1>3 DEF Cancel, TypeOK
<1>4. ASSUME NEW p \in Handler, RetryDecide(p) PROVE FALSE
  BY <1>4 DEF RetryDecide
<1>5. ASSUME NEW p \in Handler, GiveUp(p) PROVE FALSE
  BY <1>5 DEF GiveUp, Unlinked
<1>6. ASSUME NEW p \in Handler, DispatchTx(p) PROVE FALSE
  BY <1>6, DispatchTxRows DEF Attach
<1>7. ASSUME NEW p \in Handler, FinalizeOne(p)
      PROVE  s \in h[p].todo /\ h[p].crawl \in {0, link[s]}
  <2>1. PICK r \in h[p].todo :
            \/ row' = row
            \/ ~Refused(r, h[p].crawl) /\ row' = [row EXCEPT ![r] = h[p].outcome]
    BY <1>7, FinalizeOneRow
  <2>2. r = s /\ ~Refused(s, h[p].crawl)
    BY <2>1 DEF TypeOK
  <2> QED BY <2>2 DEF Refused, RunningLinked
<1> QED BY <1>1, <1>2, <1>3, <1>4, <1>5, <1>6, <1>7, RowWriters DEF vars

\* The results of an older crawl never end a row attached to a newer one.
THEOREM OwnCrawlOnly == Spec => OwnResult
<1> DEFINE I == TypeOK /\ OutcomeOK /\ RunningLinked
<1>1. Init => I
  <2>1. Init => OutcomeOK /\ RunningLinked
    BY DEF Init, OutcomeOK, RunningLinked, Idle
  <2> QED BY <2>1, TypeInit
<1>2. I /\ [Next]_vars => I'
  BY TypeStep, OutcomeStep, LinkedStep
<1>3. I /\ [Next]_vars =>
        [\A s \in Session :
          (row[s] = "running" /\ row'[s] \in {"succeeded", "no_result", "failed_terminal"}) =>
             \E p \in Handler : s \in h[p].todo /\ h[p].crawl \in {0, link[s]}]_vars
  BY OwnResultStep
<1> QED BY <1>1, <1>2, <1>3, PTL DEF Spec, OwnResult

-----------------------------------------------------------------------------
(* No fresh row is forgotten: without proxies, or with proxies and one handler. *)

\* Handlers that serve a platform without proxy: what they have read is enough to
\* finalize every row they listed.
Direct ==
    /\ wait = 0
    /\ \A p \in Handler :
          /\ h[p].pc \notin {"proxy", "refused", "record", "giveUp"}
          /\ h[p].pc \in {"hit", "finalizeCached"} => h[p].crawl = 0
          /\ h[p].pc = "finalizeCached" => \A s \in h[p].todo : row[s] # "absent"

\* A row once inserted is never removed.
LEMMA RowsStay ==
  ASSUME TypeOK, OutcomeOK, Next, NEW s \in Session, row[s] # "absent"
  PROVE  row'[s] # "absent"
<1>1. ASSUME NEW p \in Handler, NEW r \in Session, Ask(p, r) PROVE row'[s] # "absent"
  BY <1>1 DEF Ask, TypeOK
<1>2. ASSUME NEW r \in Session, Cancel(r) PROVE row'[s] # "absent"
  BY <1>2 DEF Cancel, TypeOK
<1>3. ASSUME NEW p \in Handler, RetryDecide(p) \/ GiveUp(p) PROVE row'[s] # "absent"
  BY <1>3 DEF RetryDecide, GiveUp
<1>4. ASSUME NEW p \in Handler, DispatchTx(p) PROVE row'[s] # "absent"
  BY <1>4, DispatchTxRows DEF Attach
<1>5. ASSUME NEW p \in Handler, FinalizeOne(p) PROVE row'[s] # "absent"
  <2>1. h[p].outcome \in Ended
    BY <1>5 DEF FinalizeOne, OutcomeOK
  <2>2. PICK r \in h[p].todo : row' = row \/ row' = [row EXCEPT ![r] = h[p].outcome]
    BY <1>5, FinalizeOneRow
  <2> QED BY <2>1, <2>2 DEF Ended, TypeOK
<1> QED BY <1>1, <1>2, <1>3, <1>4, <1>5, RowWriters

\* Without proxies Direct is kept: no handler comes to a proxy step.
LEMMA DirectStep ==
  ASSUME NeedProxy = FALSE, TypeOK, OutcomeOK, Direct, Next
  PROVE  Direct'
<1>1. h \in [Handler -> HandlerRecord]
  BY DEF TypeOK
<1>2. wait' = 0
  <2>1. ASSUME NEW p \in Handler, Progress(p) PROVE wait' = 0
    BY <2>1 DEF Progress, RetryDecide, ListKeys, LookUp, ListPending, AcquireProxy, ReadWait,
       RecordFailure, GiveUp, DispatchTx, Cleanup, ListLinked, FinalizeOne, FinalizeEnd,
       ReconcileLook, Direct, At
  <2>2. ASSUME NEW p \in Handler, Arrival(p) PROVE wait' = 0
    BY <2>2 DEF Arrival, Ask, Retry, SubmitResult, Reconcile, ResultAccepted, WorkerWakes, Direct
  <2>3. ASSUME \/ \E p \in Handler : Abort(p)
               \/ \E s \in Session : Cancel(s)
               \/ \E d \in Crawl : CrawlFails(d)
               \/ WaitElapses
        PROVE wait' = 0
    BY <2>3 DEF Abort, Cancel, CrawlFails, WaitElapses, Direct
  <2> QED BY <2>1, <2>2, <2>3 DEF Next
\* What a step may make of the record of a handler.
<1> DEFINE Shape(q) ==
             \/ h'[q] = h[q]
             \/ h'[q].pc \in {"idle", "retry", "keys", "look", "tx", "cleanup", "list",
                              "listOr", "finalize", "recon"}
             \/ h'[q].pc = "hit" /\ h'[q].crawl = 0
             \/ h'[q].pc = "finalizeCached" /\ h[q].pc = "finalizeCached"
                  /\ h'[q].crawl = h[q].crawl /\ h'[q].todo \subseteq h[q].todo
             \/ h'[q].pc = "finalizeCached" /\ h'[q].crawl = 0
                  /\ \A s \in h'[q].todo : row[s] # "absent"
<1>3. ASSUME NEW q \in Handler, Shape(q)
      PROVE  /\ h'[q].pc \notin {"proxy", "refused", "record", "giveUp"}
             /\ h'[q].pc \in {"hit", "finalizeCached"} => h'[q].crawl = 0
             /\ h'[q].pc = "finalizeCached" => \A s \in h'[q].todo : row'[s] # "absent"
  <2>1. \A s \in Session : row[s] # "absent" => row'[s] # "absent"
    BY RowsStay
  <2>2. h[q].todo \subseteq Session
    BY <1>1 DEF HandlerRecord
  <2>3. /\ h[q].pc \notin {"proxy", "refused", "record", "giveUp"}
        /\ h[q].pc \in {"hit", "finalizeCached"} => h[q].crawl = 0
        /\ h[q].pc = "finalizeCached" => \A s \in h[q].todo : row[s] # "absent"
    BY DEF Direct
  <2>4. TypeOK'
    BY TypeStep
  <2>5. h'[q].todo \subseteq Session
    BY <2>4 DEF TypeOK, HandlerRecord
  <2> QED BY <1>3, <2>1, <2>2, <2>3, <2>5
<1>4. ASSUME NEW q \in Handler PROVE Shape(q)
  <2>1. ASSUME NEW p \in Handler, Arrival(p) PROVE Shape(q)
    <3>1. ASSUME NEW s \in Session, Ask(p, s) PROVE Shape(q)
      BY <1>1, <3>1 DEF Ask, Become, Idle
    <3>2. ASSUME NEW s \in Session, Retry(p, s) PROVE Shape(q)
      BY <1>1, <3>2 DEF Retry, Become, Idle
    <3>3. ASSUME NEW s \in Session, SubmitResult(p, s) PROVE Shape(q)
      BY <1>1, <3>3 DEF SubmitResult, Become, Idle
    <3>4. ASSUME NEW s \in Session, Reconcile(p, s) PROVE Shape(q)
      BY <1>1, <3>4 DEF Reconcile, Become, Idle
    <3>5. ASSUME NEW d \in Crawl, ResultAccepted(p, d) PROVE Shape(q)
      BY <1>1, <3>5 DEF ResultAccepted, Become, Idle
    <3>6. CASE WorkerWakes(p)
      BY <1>1, <3>6 DEF WorkerWakes, Become, Idle
    <3> QED BY <2>1, <3>1, <3>2, <3>3, <3>4, <3>5, <3>6 DEF Arrival
  <2>2. ASSUME NEW p \in Handler, Progress(p) PROVE Shape(q)
    <3>1. CASE RetryDecide(p)
      <4>1. h' = [h EXCEPT ![p] = Idle] \/
            \E todo : h' = [h EXCEPT ![p] = [Idle EXCEPT !.pc = "keys", !.todo = todo]]
        BY <3>1 DEF RetryDecide, Done, Become
      <4>2. CASE h' = [h EXCEPT ![p] = Idle]
        BY <1>1, <4>2 DEF Idle
      <4>3. ASSUME NEW todo, h' = [h EXCEPT ![p] = [Idle EXCEPT !.pc = "keys", !.todo = todo]]
            PROVE  Shape(q)
        BY <1>1, <4>3 DEF Idle
      <4> QED BY <4>1, <4>2, <4>3
    <3>2. CASE ListKeys(p)
      BY <1>1, <3>2 DEF ListKeys, Done, Become, Idle
    <3>3. CASE LookUp(p)
      <4>1. \/ h' = [h EXCEPT ![p] = [Idle EXCEPT !.pc = "hit", !.outcome = FromCache]]
            \/ h' = [h EXCEPT ![p].pc = "tx"]
        BY <3>3 DEF LookUp, Goto, Become
      <4> QED BY <1>1, <4>1 DEF Idle, HandlerRecord
    <3>4. CASE ListPending(p)
      <4>1. h' = [h EXCEPT ![p] = [h[p] EXCEPT !.pc = "finalizeCached",
                                     !.todo = {s \in Session : row[s] = "pending"}]]
        BY <3>4 DEF ListPending, Become
      <4>2. h[p].crawl = 0
        BY <3>4 DEF ListPending, At, Direct
      <4> QED BY <1>1, <4>1, <4>2 DEF HandlerRecord
    <3>5. CASE AcquireProxy(p) \/ ReadWait(p) \/ RecordFailure(p) \/ GiveUp(p)
      BY <3>5 DEF AcquireProxy, ReadWait, RecordFailure, GiveUp, At, Direct
    <3>6. CASE DispatchTx(p) \/ Cleanup(p)
      BY <1>1, <3>6 DEF DispatchTx, Cleanup, Done, Goto, Become, Idle, HandlerRecord
    <3>7. CASE ListLinked(p)
      <4>1. \/ h' = [h EXCEPT ![p] = Idle]
            \/ h' = [h EXCEPT ![p].pc = "finalize"]
            \/ \E todo : h' = [h EXCEPT ![p] = [h[p] EXCEPT !.pc = "finalize", !.todo = todo]]
        BY <3>7 DEF ListLinked, Done, Goto, Become
      <4>2. CASE h' = [h EXCEPT ![p] = Idle]
        BY <1>1, <4>2 DEF Idle
      <4>3. CASE h' = [h EXCEPT ![p].pc = "finalize"]
        BY <1>1, <4>3 DEF HandlerRecord
      <4>4. ASSUME NEW todo, h' = [h EXCEPT ![p] = [h[p] EXCEPT !.pc = "finalize", !.todo = todo]]
            PROVE  Shape(q)
        BY <1>1, <4>4 DEF HandlerRecord
      <4> QED BY <4>1, <4>2, <4>3, <4>4
    <3>8. CASE FinalizeOne(p)
      <4>1. PICK s \in h[p].todo : Done(p) \/ h' = [h EXCEPT ![p].todo = @ \ {s}]
        BY <3>8, FinalizeOneRow
      <4>2. h[p].pc \in {"finalize", "finalizeCached"}
        BY <3>8 DEF FinalizeOne
      <4>3. CASE Done(p)
        BY <1>1, <4>3 DEF Done, Become, Idle
      <4>4. CASE h' = [h EXCEPT ![p].todo = @ \ {s}]
        BY <1>1, <4>2, <4>4 DEF HandlerRecord
      <4> QED BY <4>1, <4>3, <4>4
    <3>9. CASE FinalizeEnd(p)
      BY <1>1, <3>9 DEF FinalizeEnd, Done, Goto, Become, Idle, HandlerRecord
    <3>10. CASE ReconcileLook(p)
      BY <1>1, <3>10 DEF ReconcileLook, Become, HandlerRecord
    <3> QED BY <2>2, <3>1, <3>2, <3>3, <3>4, <3>5, <3>6, <3>7, <3>8, <3>9, <3>10 DEF Progress
  <2>3. ASSUME NEW p \in Handler, Abort(p) PROVE Shape(q)
    BY <1>1, <2>3 DEF Abort, Done, Become, Idle
  <2>4. ASSUME \/ \E s \in Session : Cancel(s)
               \/ \E d \in Crawl : CrawlFails(d)
               \/ WaitElapses
        PROVE Shape(q)
    BY <2>4 DEF Cancel, CrawlFails, WaitElapses
  <2> QED BY <2>1, <2>2, <2>3, <2>4 DEF Next
<1> QED BY <1>2, <1>3, <1>4 DEF Direct

\* A handler leaves a fresh row only after ending it or linking it.
LEMMA ForgottenStep ==
  ASSUME NeedProxy = FALSE, TypeOK, OutcomeOK, Direct, NoForgottenRow, Next
  PROVE  NoForgottenRow'
<1> DEFINE Attending(q, s) ==
             \/ h[q].pc \in {"look", "hit", "proxy", "refused", "record", "giveUp", "tx"}
             \/ h[q].pc \in {"keys", "finalizeCached"} /\ s \in h[q].todo
<1> SUFFICES ASSUME NEW s \in Session, row'[s] = "pending", link'[s] = 0, aborts' = 0
             PROVE  \E q \in Handler : Attending(q, s)'
  BY DEF NoForgottenRow, Attended, Unlinked
<1>6. ASSUME NEW p \in Handler, Abort(p) PROVE FALSE
  BY <1>6 DEF Abort, TypeOK
<1>0. aborts = 0
  BY <1>6 DEF Next, Arrival, Progress, Ask, Cancel, Retry, RetryDecide, SubmitResult, ListKeys,
     LookUp, ListPending, AcquireProxy, ReadWait, RecordFailure, GiveUp, DispatchTx, Cleanup,
     WaitElapses, WorkerWakes, ResultAccepted, CrawlFails, ListLinked, FinalizeOne, FinalizeEnd,
     Reconcile, ReconcileLook
<1>1. h \in [Handler -> HandlerRecord]
  BY DEF TypeOK
\* The row was already unlinked: whoever attended to it still does, unless it
\* took the step itself.
<1>2. ASSUME s \in Unlinked, NEW p \in Handler,
             ~(h[p].pc \in {"idle", "retry", "cleanup", "list", "listOr", "finalize", "recon"}),
             Next,
             \A q \in Handler : q # p => h'[q] = h[q],
             Attending(p, s) => Attending(p, s)'
      PROVE  \E q \in Handler : Attending(q, s)'
  <2>1. PICK q \in Handler : Attending(q, s)
    BY <1>0, <1>2 DEF NoForgottenRow, Attended, Direct
  <2>2. CASE q = p
    BY <1>2, <2>1, <2>2
  <2>3. CASE q # p
    <3>1. h'[q] = h[q]
      BY <1>2, <2>3
    <3> QED BY <2>1, <3>1
  <2> QED BY <2>2, <2>3
<1>3. ASSUME s \in Unlinked, NEW p \in Handler,
             h[p].pc \in {"idle", "retry", "cleanup", "list", "listOr", "finalize", "recon"},
             \A q \in Handler : q # p => h'[q] = h[q]
      PROVE  \E q \in Handler : Attending(q, s)'
  <2>1. PICK q \in Handler : Attending(q, s)
    BY <1>0, <1>3 DEF NoForgottenRow, Attended, Direct
  <2>2. q # p
    BY <1>3, <2>1
  <2>3. h'[q] = h[q]
    BY <1>3, <2>2
  <2> QED BY <2>1, <2>3
<1>4. ASSUME NEW p \in Handler, Progress(p) PROVE \E q \in Handler : Attending(q, s)'
  <2>1. \A q \in Handler : q # p => h'[q] = h[q]
    BY <1>1, <1>4 DEF Progress, RetryDecide, ListKeys, LookUp, ListPending, AcquireProxy, ReadWait,
       RecordFailure, GiveUp, DispatchTx, Cleanup, ListLinked, FinalizeOne, FinalizeEnd,
       ReconcileLook, Done, Goto, Become
  <2>2. CASE RetryDecide(p)
    <3>1. CASE s \in Unlinked
      BY <1>3, <2>1, <2>2, <3>1 DEF RetryDecide, At
    <3>2. CASE s \notin Unlinked
      <4> DEFINE retried == IF h[p].outcome \in {"absent", "failed_terminal"}
                            THEN h[p].todo ELSE {}
      <4>1. s \in retried
        BY <2>2, <3>2 DEF RetryDecide, Unlinked, TypeOK
      <4>2. h' = [h EXCEPT ![p] = [Idle EXCEPT !.pc = "keys", !.todo = retried]]
        BY <2>2, <4>1 DEF RetryDecide, Become
      <4> HIDE DEF retried
      <4>3. h'[p].pc = "keys" /\ h'[p].todo = retried
        BY <1>1, <4>2 DEF Idle
      <4> QED BY <4>1, <4>3
    <3> QED BY <3>1, <3>2
  <2>3. CASE ListKeys(p)
    <3>1. s \in Unlinked
      BY <2>3 DEF ListKeys, Unlinked
    <3>2. Attending(p, s) => Attending(p, s)'
      BY <1>1, <2>3, <3>1 DEF ListKeys, At, Unlinked, Become, Idle
    <3> QED BY <1>2, <2>1, <2>3, <3>1, <3>2 DEF ListKeys, At
  <2>4. CASE LookUp(p)
    <3>1. s \in Unlinked
      BY <2>4 DEF LookUp, Unlinked
    <3>2. \/ h' = [h EXCEPT ![p] = [Idle EXCEPT !.pc = "hit", !.outcome = FromCache]]
          \/ h' = [h EXCEPT ![p].pc = "tx"]
      BY <2>4 DEF LookUp, Goto, Become
    <3>3. CASE h' = [h EXCEPT ![p] = [Idle EXCEPT !.pc = "hit", !.outcome = FromCache]]
      <4>1. h'[p].pc = "hit"
        BY <1>1, <3>3 DEF Idle
      <4> QED BY <4>1
    <3>4. CASE h' = [h EXCEPT ![p].pc = "tx"]
      <4>1. h'[p].pc = "tx"
        BY <1>1, <3>4 DEF HandlerRecord
      <4> QED BY <4>1
    <3> QED BY <3>2, <3>3, <3>4
  <2>5. CASE ListPending(p)
    <3>1. h' = [h EXCEPT ![p] = [h[p] EXCEPT !.pc = "finalizeCached",
                                   !.todo = {r \in Session : row[r] = "pending"}]]
      BY <2>5 DEF ListPending, Become
    <3>2. row[s] = "pending"
      BY <2>5 DEF ListPending
    <3>3. h'[p].pc = "finalizeCached" /\ s \in h'[p].todo
      BY <1>1, <3>1, <3>2 DEF HandlerRecord
    <3> QED BY <3>3
  <2>6. CASE AcquireProxy(p) \/ ReadWait(p) \/ RecordFailure(p) \/ GiveUp(p)
    BY <2>6 DEF AcquireProxy, ReadWait, RecordFailure, GiveUp, At, Direct
  <2>7. CASE DispatchTx(p)
    <3>1. PICK d \in Crawl : Attach(Unlinked, d)
      BY <2>7, DispatchTxRows
    <3> QED BY <3>1 DEF Attach, Unlinked, Crawl
  <2>8. CASE Cleanup(p) \/ ListLinked(p) \/ ReconcileLook(p)
    <3>1. s \in Unlinked
      BY <2>8 DEF Cleanup, ListLinked, ReconcileLook, Unlinked
    <3> QED BY <1>3, <2>1, <2>8, <3>1 DEF Cleanup, ListLinked, ReconcileLook, At
  <2>9. CASE FinalizeOne(p)
    <3>1. h[p].outcome \in Ended /\ link' = link
      BY <2>9 DEF FinalizeOne, OutcomeOK
    <3>2. PICK r \in h[p].todo :
            \/ Refused(r, h[p].crawl) /\ row' = row /\ Done(p)
            \/ /\ row' = [row EXCEPT ![r] = h[p].outcome]
               /\ h' = [h EXCEPT ![p].todo = @ \ {r}]
      BY <2>9, FinalizeOneRow
    <3>3. s \in Unlinked /\ (row' # row => r # s)
      BY <3>1, <3>2 DEF Unlinked, Ended, TypeOK
    <3>4. CASE h[p].pc = "finalize"
      BY <1>3, <2>1, <3>3, <3>4
    <3>5. CASE h[p].pc = "finalizeCached"
      <4>1. ~Refused(r, h[p].crawl)
        BY <3>5 DEF Refused, Direct
      <4>2. row' = [row EXCEPT ![r] = h[p].outcome] /\ h' = [h EXCEPT ![p].todo = @ \ {r}]
        BY <3>2, <4>1
      <4>3. r # s
        BY <3>1, <4>2, <1>1 DEF Ended, TypeOK, HandlerRecord
      <4>4. Attending(p, s) => Attending(p, s)'
        BY <1>1, <3>5, <4>2, <4>3 DEF HandlerRecord
      <4> QED BY <1>2, <2>1, <3>3, <3>5, <4>4
    <3> QED BY <2>9, <3>4, <3>5 DEF FinalizeOne
  <2>10. CASE FinalizeEnd(p)
    <3>1. s \in Unlinked
      BY <2>10 DEF FinalizeEnd, Unlinked
    <3>2. ~Attending(p, s)
      BY <2>10 DEF FinalizeEnd
    <3> QED
      <4>1. PICK q \in Handler : Attending(q, s)
        BY <1>0, <3>1 DEF NoForgottenRow, Attended, Direct
      <4>2. h'[q] = h[q]
        BY <2>1, <3>2, <4>1
      <4> QED BY <4>1, <4>2
  <2> QED BY <1>4, <2>2, <2>3, <2>4, <2>5, <2>6, <2>7, <2>8, <2>9, <2>10 DEF Progress
<1>5. ASSUME NEW p \in Handler, Arrival(p) PROVE \E q \in Handler : Attending(q, s)'
  <2>1. \A q \in Handler : q # p => h'[q] = h[q]
    BY <1>1, <1>5 DEF Arrival, Ask, Retry, SubmitResult, Reconcile, ResultAccepted, WorkerWakes,
       Become
  <2>2. h[p].pc = "idle"
    BY <1>5 DEF Arrival, Ask, Retry, SubmitResult, Reconcile, ResultAccepted, WorkerWakes, At
  <2>3. CASE s \in Unlinked
    BY <1>3, <2>1, <2>2, <2>3
  <2>4. CASE s \notin Unlinked
    <3>1. Ask(p, s)
      BY <1>5, <2>4 DEF Arrival, Ask, Retry, SubmitResult, Reconcile, ResultAccepted,
         WorkerWakes, Unlinked, TypeOK
    <3>2. h'[p].pc = "keys" /\ s \in h'[p].todo
      BY <1>1, <3>1 DEF Ask, Become, Idle
    <3> QED BY <3>2
  <2> QED BY <2>3, <2>4
<1>7. ASSUME \/ \E r \in Session : Cancel(r)
             \/ \E d \in Crawl : CrawlFails(d)
             \/ WaitElapses
      PROVE  \E q \in Handler : Attending(q, s)'
  <2>1. h' = h /\ s \in Unlinked
    BY <1>7 DEF Cancel, CrawlFails, WaitElapses, Unlinked, TypeOK
  <2>2. PICK q \in Handler : Attending(q, s)
    BY <1>0, <2>1 DEF NoForgottenRow, Attended, Direct
  <2> QED BY <2>1, <2>2
<1> QED BY <1>4, <1>5, <1>6, <1>7 DEF Next

\* With one handler p: once it lists the pending rows nobody adds to them, so all fresh
\* rows are among those it ends, and none is left when it deletes the back-off row;
\* otherwise the back-off row is there or p is on its way to the rows.
SoloOK(p) ==
    /\ h[p].pc \in {"hit", "finalizeCached"} => h[p].crawl = 0
    /\ h[p].pc = "finalizeCached" =>
          Unlinked \subseteq h[p].todo /\ \A s \in h[p].todo : row[s] # "absent"
    /\ h[p].pc = "cleanup" => Unlinked = {}
    /\ aborts = 0 => \A s \in Unlinked :
          \/ wait # 0
          \/ h[p].pc \in {"look", "hit", "proxy", "refused", "record", "giveUp", "tx",
                          "finalizeCached"}
          \/ h[p].pc = "keys" /\ s \in h[p].todo

\* The steps of p keep that ...
LEMMA SoloProgress ==
  ASSUME TypeOK, OutcomeOK, NEW p \in Handler, SoloOK(p), Progress(p)
  PROVE  SoloOK(p)'
<1>1. h \in [Handler -> HandlerRecord] /\ h[p] \in HandlerRecord
  BY DEF TypeOK
<1>2. CASE RetryDecide(p)
  <2> DEFINE retried == IF h[p].outcome \in {"absent", "failed_terminal"} THEN h[p].todo ELSE {}
  <2>1. Unlinked' \subseteq Unlinked \cup retried
    BY <1>2 DEF RetryDecide, Unlinked, TypeOK
  <2>2. \/ retried = {} /\ h'[p].pc = "idle"
        \/ h'[p].pc = "keys" /\ h'[p].todo = retried
    <3>1. IF retried = {} THEN h' = [h EXCEPT ![p] = Idle]
          ELSE h' = [h EXCEPT ![p] = [Idle EXCEPT !.pc = "keys", !.todo = retried]]
      BY <1>2 DEF RetryDecide, Done, Become
    <3> HIDE DEF retried
    <3> DEFINE rec == [Idle EXCEPT !.pc = "keys", !.todo = retried]
    <3>2. rec.pc = "keys" /\ rec.todo = retried
      BY DEF Idle
    <3>3. h' = [h EXCEPT ![p] = Idle] => h'[p].pc = "idle"
      BY <1>1 DEF Idle
    <3>4. h' = [h EXCEPT ![p] = rec] => h'[p] = rec
      <4> HIDE DEF rec
      <4> QED BY <1>1
    <3> QED BY <3>1, <3>2, <3>3, <3>4
  <2>3. h[p].pc = "retry" /\ wait' = wait /\ aborts' = aborts
    BY <1>2 DEF RetryDecide, At
  <2> HIDE DEF retried
  <2> QED BY <2>1, <2>2, <2>3 DEF SoloOK
<1>3. CASE ListKeys(p)
  <2>1. Unlinked' = Unlinked /\ wait' = wait /\ aborts' = aborts /\ h[p].pc = "keys"
    BY <1>3 DEF ListKeys, Unlinked, At
  <2>2. \/ h'[p].pc = "look"
        \/ h'[p].pc = "idle" /\ \A s \in h[p].todo : row[s] # "pending"
    BY <1>1, <1>3 DEF ListKeys, Done, Become, Idle
  <2> QED BY <2>1, <2>2 DEF SoloOK, Unlinked
<1>4. CASE LookUp(p)
  <2>1. Unlinked' = Unlinked /\ wait' = wait /\ aborts' = aborts
    BY <1>4 DEF LookUp, Unlinked
  <2>2. \/ h'[p].pc \in {"proxy", "tx"}
        \/ h'[p].pc = "hit" /\ h'[p].crawl = 0
    <3>1. CASE cache # "none"
      <4> DEFINE rec == [Idle EXCEPT !.pc = "hit", !.outcome = FromCache]
      <4>1. h' = [h EXCEPT ![p] = rec]
        BY <1>4, <3>1 DEF LookUp, Become
      <4>2. rec.pc = "hit" /\ rec.crawl = 0
        BY DEF Idle
      <4> HIDE DEF rec
      <4> QED BY <1>1, <4>1, <4>2
    <3>2. CASE cache = "none"
      BY <1>1, <1>4, <3>2 DEF LookUp, Goto, HandlerRecord
    <3> QED BY <3>1, <3>2
  <2> QED BY <2>1, <2>2 DEF SoloOK
<1>5. CASE ListPending(p)
  <2>1. Unlinked' = Unlinked /\ row' = row /\ wait' = wait /\ aborts' = aborts /\ h[p].crawl = 0
    BY <1>5 DEF ListPending, Unlinked, At, SoloOK
  <2>2. h'[p] = [h[p] EXCEPT !.pc = "finalizeCached", !.todo = {s \in Session : row[s] = "pending"}]
    BY <1>1, <1>5 DEF ListPending, Become
  <2>3. /\ h'[p].pc = "finalizeCached" /\ h'[p].crawl = h[p].crawl
        /\ h'[p].todo = {s \in Session : row[s] = "pending"}
    BY <1>1, <2>2 DEF HandlerRecord
  <2> QED BY <2>1, <2>3 DEF SoloOK, Unlinked
<1>6. CASE AcquireProxy(p) \/ ReadWait(p)
  <2>1. Unlinked' = Unlinked /\ wait' = wait /\ aborts' = aborts
    BY <1>6 DEF AcquireProxy, ReadWait, Unlinked
  <2>2. h'[p].pc \in {"tx", "refused", "record"}
    BY <1>1, <1>6 DEF AcquireProxy, ReadWait, Goto, Become, HandlerRecord
  <2> QED BY <2>1, <2>2 DEF SoloOK
<1>7. CASE RecordFailure(p)
  <2>1. Unlinked' = Unlinked /\ aborts' = aborts
    BY <1>7 DEF RecordFailure, Unlinked
  <2>2. \/ h'[p].pc = "giveUp" /\ wait' = wait
        \/ h'[p].pc = "idle" /\ wait' = h[p].prev + 1
    BY <1>1, <1>7 DEF RecordFailure, Goto, Done, Become, Idle, HandlerRecord
  <2>3. h[p].prev + 1 # 0
    BY <1>1, BoundsAssumption DEF HandlerRecord
  <2> QED BY <2>1, <2>2, <2>3 DEF SoloOK
<1>8. CASE GiveUp(p)
  <2>1. Unlinked' = {}
    BY <1>8 DEF GiveUp, Unlinked, TypeOK
  <2>2. h'[p].pc = "cleanup"
    BY <1>1, <1>8 DEF GiveUp, Goto, HandlerRecord
  <2> QED BY <2>1, <2>2 DEF SoloOK
<1>9. CASE DispatchTx(p)
  <2>1. PICK d \in Crawl : Attach(Unlinked, d)
    BY <1>9, DispatchTxRows
  <2>2. Unlinked' = {}
    BY <2>1 DEF Attach, Unlinked
  <2>3. h'[p].pc = "cleanup"
    BY <1>1, <1>9 DEF DispatchTx, Goto, HandlerRecord
  <2> QED BY <2>2, <2>3 DEF SoloOK
<1>10. CASE Cleanup(p)
  <2>1. Unlinked' = {} /\ h'[p].pc = "idle"
    BY <1>1, <1>10 DEF Cleanup, At, SoloOK, Unlinked, Done, Become, Idle
  <2> QED BY <2>1 DEF SoloOK
<1>11. CASE ListLinked(p) \/ ReconcileLook(p)
  <2>1. /\ Unlinked' = Unlinked /\ wait' = wait /\ aborts' = aborts
        /\ h[p].pc \in {"list", "listOr", "recon"}
    BY <1>11 DEF ListLinked, ReconcileLook, Unlinked, At
  <2>2. h'[p].pc \in {"idle", "finalize"}
    <3>1. CASE ReconcileLook(p)
      BY <1>1, <3>1 DEF ReconcileLook, Become, HandlerRecord
    <3>2. CASE ListLinked(p)
      <4>1. \/ h' = [h EXCEPT ![p] = Idle]
            \/ h' = [h EXCEPT ![p].pc = "finalize"]
            \/ \E todo : h' = [h EXCEPT ![p] = [h[p] EXCEPT !.pc = "finalize", !.todo = todo]]
        BY <3>2 DEF ListLinked, Done, Goto, Become
      <4>2. ASSUME NEW todo, h' = [h EXCEPT ![p] = [h[p] EXCEPT !.pc = "finalize", !.todo = todo]]
            PROVE  h'[p].pc = "finalize"
        BY <1>1, <4>2 DEF HandlerRecord
      <4>3. h' = [h EXCEPT ![p] = Idle] => h'[p].pc = "idle"
        BY <1>1 DEF Idle
      <4>4. h' = [h EXCEPT ![p].pc = "finalize"] => h'[p].pc = "finalize"
        BY <1>1 DEF HandlerRecord
      <4> QED BY <4>1, <4>2, <4>3, <4>4
    <3> QED BY <1>11, <3>1, <3>2
  <2> QED BY <2>1, <2>2 DEF SoloOK
<1>12. CASE FinalizeOne(p)
  <2>1. /\ h[p].outcome \in Ended /\ link' = link /\ wait' = wait /\ aborts' = aborts
        /\ h[p].pc \in {"finalize", "finalizeCached"}
    BY <1>12 DEF FinalizeOne, OutcomeOK
  <2>2. PICK r \in h[p].todo :
          \/ Refused(r, h[p].crawl) /\ row' = row /\ Done(p)
          \/ /\ row' = [row EXCEPT ![r] = h[p].outcome]
             /\ h' = [h EXCEPT ![p].todo = @ \ {r}]
    BY <1>12, FinalizeOneRow
  <2>3. Unlinked' \subseteq Unlinked
    BY <2>1, <2>2 DEF Unlinked, Ended, TypeOK
  <2>4. CASE h[p].pc = "finalize"
    <3>1. h'[p].pc \in {"idle", "finalize"}
      BY <1>1, <2>2, <2>4 DEF Done, Become, Idle, HandlerRecord
    <3> QED BY <2>1, <2>3, <2>4, <3>1 DEF SoloOK
  <2>5. CASE h[p].pc = "finalizeCached"
    <3>1. ~Refused(r, h[p].crawl)
      BY <2>5 DEF Refused, SoloOK
    <3>2. row' = [row EXCEPT ![r] = h[p].outcome] /\ h' = [h EXCEPT ![p].todo = @ \ {r}]
      BY <2>2, <3>1
    <3>3. r \in Session
      BY <1>1 DEF HandlerRecord
    <3>4. r \notin Unlinked'
      BY <2>1, <3>2, <3>3 DEF Unlinked, Ended, TypeOK
    <3>5. /\ h'[p].pc = "finalizeCached" /\ h'[p].crawl = h[p].crawl
          /\ h'[p].todo = h[p].todo \ {r}
      BY <1>1, <2>5, <3>2 DEF HandlerRecord
    <3>6. \A s \in h[p].todo \ {r} : row'[s] = row[s]
      BY <1>1, <3>2 DEF HandlerRecord, TypeOK
    <3> QED BY <2>3, <2>5, <3>4, <3>5, <3>6 DEF SoloOK
  <2> QED BY <2>1, <2>4, <2>5
<1>13. CASE FinalizeEnd(p)
  <2>1. /\ Unlinked' = Unlinked /\ wait' = wait /\ aborts' = aborts /\ h[p].todo = {}
        /\ h[p].pc \in {"finalize", "finalizeCached"}
    BY <1>13 DEF FinalizeEnd, Unlinked
  <2>2. IF h[p].pc = "finalizeCached" THEN h'[p].pc = "cleanup" ELSE h'[p].pc = "idle"
    BY <1>1, <1>13 DEF FinalizeEnd, At, Goto, Done, Become, Idle, HandlerRecord
  <2> QED BY <2>1, <2>2 DEF SoloOK
<1> QED BY <1>2, <1>3, <1>4, <1>5, <1>6, <1>7, <1>8, <1>9, <1>10, <1>11, <1>12, <1>13 DEF Progress

\* ... and so do its arrivals, its end and what others do.
LEMMA SoloStep ==
  ASSUME TypeOK, OutcomeOK, NEW p, Handler = {p}, SoloOK(p), Next
  PROVE  SoloOK(p)'
<1>1. p \in Handler /\ h \in [Handler -> HandlerRecord] /\ h[p] \in HandlerRecord
  BY DEF TypeOK
<1>2. CASE Arrival(p)
  <2>1. h[p].pc = "idle" /\ wait' = wait /\ aborts' = aborts
    BY <1>2 DEF Arrival, Ask, Retry, SubmitResult, Reconcile, ResultAccepted, WorkerWakes, At
  <2>2. ASSUME NEW s \in Session, Ask(p, s) PROVE SoloOK(p)'
    <3>1. Unlinked' \subseteq Unlinked \cup {s}
      BY <2>2 DEF Ask, Unlinked, TypeOK
    <3>2. h'[p].pc = "keys" /\ h'[p].todo = {s}
      BY <1>1, <2>2 DEF Ask, Become, Idle
    <3> QED BY <2>1, <3>1, <3>2 DEF SoloOK
  <2>3. ASSUME Unlinked' = Unlinked,
               h'[p].pc \in {"idle", "retry", "finalize", "listOr", "recon", "list", "look"}
        PROVE  SoloOK(p)'
    BY <2>1, <2>3 DEF SoloOK
  <2>4. ASSUME NEW s \in Session, Retry(p, s) \/ SubmitResult(p, s) \/ Reconcile(p, s)
        PROVE  SoloOK(p)'
    <3>1. Unlinked' = Unlinked
      BY <2>4 DEF Retry, SubmitResult, Reconcile, Unlinked
    <3>2. h'[p].pc \in {"retry", "finalize", "listOr", "recon"}
      BY <1>1, <2>4 DEF Retry, SubmitResult, Reconcile, Become, Idle
    <3> QED BY <2>3, <3>1, <3>2
  <2>5. ASSUME NEW d \in Crawl, ResultAccepted(p, d) PROVE SoloOK(p)'
    <3>1. Unlinked' = Unlinked /\ h'[p].pc = "list"
      BY <1>1, <2>5 DEF ResultAccepted, Unlinked, Become, Idle
    <3> QED BY <2>3, <3>1
  <2>6. CASE WorkerWakes(p)
    <3>1. Unlinked' = Unlinked /\ h'[p].pc = "look"
      BY <1>1, <2>6 DEF WorkerWakes, Unlinked, Become, Idle
    <3> QED BY <2>3, <3>1
  <2> QED BY <1>2, <2>2, <2>4, <2>5, <2>6 DEF Arrival
<1>3. CASE Progress(p)
  BY <1>1, <1>3, SoloProgress
<1>4. CASE Abort(p)
  <2>1. h'[p].pc = "idle" /\ aborts' # 0
    BY <1>1, <1>4 DEF Abort, Done, Become, Idle, TypeOK
  <2> QED BY <2>1 DEF SoloOK
<1>5. ASSUME \/ \E s \in Session : Cancel(s)
             \/ \E d \in Crawl : CrawlFails(d)
             \/ WaitElapses
      PROVE  SoloOK(p)'
  <2>1. h' = h /\ wait' = wait /\ aborts' = aborts /\ Unlinked' \subseteq Unlinked
    BY <1>5 DEF Cancel, CrawlFails, WaitElapses, Unlinked, TypeOK
  <2>2. \A s \in Session : row[s] # "absent" => row'[s] # "absent"
    BY RowsStay
  <2>3. h[p].todo \subseteq Session
    BY <1>1 DEF HandlerRecord
  <2> QED BY <2>1, <2>2, <2>3 DEF SoloOK
<1> QED BY <1>2, <1>3, <1>4, <1>5 DEF Next

\* On a platform without proxies, or with one handler at a time, and as long as no
\* handler has died half-way, every fresh row has a handler or the back-off row that
\* will come to it.
THEOREM NoneForgotten ==
  ASSUME NeedProxy = FALSE \/ \E p : Handler = {p}
  PROVE  Spec => []NoForgottenRow
<1>1. CASE NeedProxy = FALSE
  <2> DEFINE I == TypeOK /\ OutcomeOK /\ Direct /\ NoForgottenRow
  <2>1. Init => I
    <3>1. Init => OutcomeOK /\ Direct /\ NoForgottenRow
      BY DEF Init, OutcomeOK, Direct, NoForgottenRow, Unlinked, Idle
    <3> QED BY <3>1, TypeInit
  <2>2. I /\ [Next]_vars => I'
    <3>1. I /\ Next => I'
      BY <1>1, TypeStep, OutcomeStep, DirectStep, ForgottenStep
    <3>2. I /\ UNCHANGED vars => I'
      BY DEF vars, TypeOK, OutcomeOK, Direct, NoForgottenRow, Attended, Unlinked
    <3> QED BY <3>1, <3>2
  <2> QED BY <2>1, <2>2, PTL DEF Spec
<1>2. CASE \E p : Handler = {p}
  <2>1. PICK p : Handler = {p}
    BY <1>2
  <2> DEFINE I == TypeOK /\ OutcomeOK /\ SoloOK(p)
  <2>2. Init => I
    <3>1. Init => OutcomeOK /\ SoloOK(p)
      BY <2>1 DEF Init, OutcomeOK, SoloOK, Unlinked, Idle
    <3> QED BY <3>1, TypeInit
  <2>3. I /\ [Next]_vars => I'
    <3>1. I /\ Next => I'
      BY <2>1, TypeStep, OutcomeStep, SoloStep
    <3>2. I /\ UNCHANGED vars => I'
      BY DEF vars, TypeOK, OutcomeOK, SoloOK, Unlinked
    <3> QED BY <3>1, <3>2
  <2>4. I => NoForgottenRow
    BY <2>1 DEF SoloOK, NoForgottenRow, Attended
  <2> QED BY <2>2, <2>3, <2>4, PTL DEF Spec
<1> QED BY <1>1, <1>2
=============================================================================
