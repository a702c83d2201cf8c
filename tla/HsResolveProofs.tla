-------------------------- MODULE HsResolveProofs ---------------------------
(***************************************************************************)
(* Theorems about HsResolve for any codes, traces, uploads and requests,   *)
(* any number of handlers, faults and restarts, and any lists of           *)
(* candidates that recommendations may bring.                              *)
(***************************************************************************)
EXTENDS HsResolve, SequenceTheorems, TLAPS

Pcs == Working \cup {"idle", "mapped", "answer", "fast", "open", "latest", "confirm", "confirmRun", "keep"}

Told == [run : RunId, task : TaskRow]

HandlerRecord ==
    [pc : Pcs, run : RunId \cup {None}, ask : Request \cup {None}, row : Told \cup {None},
     attempt : 0 .. MaxStageRetries + 1, cands : Seq(Candidate),
     late : BOOLEAN]

\* Types of what is not in a handler; the latest run of a trace has a row.
TablesOK ==
    /\ task \in [RunId -> TaskRow \cup {None}]
    /\ latest \in RunId \cup {None} /\ ofTrace \in [Trace -> RunId \cup {None}]
    /\ \A t \in Trace : ofTrace[t] # None => task[ofTrace[t]] \in TaskRow
    /\ reco \in [RunId -> Seq(Candidate)]
    /\ mapping \in Mapping \cup {None}
    /\ upload \in [Upload -> {"staged", "consumed", "gone"}]
    /\ assets \subseteq Upload

MemoryOK ==
    /\ seen \in [RunId -> Told \cup {None}]
    /\ kept \in [Request -> RunId \cup {None}]
    /\ lost \subseteq RunId
    /\ requests \in 0 .. MaxRequests /\ faults \in 0 .. MaxFaults

\* Steps at which the handler has a row in memory that it will save or tell.
RowPcs == {"answer", "fast", "finish", "fail", "latest", "confirm", "confirmRun"}

\* What a handler has read: its type by step; ...
Typed(r) ==
    /\ r \in HandlerRecord
    /\ r.pc # "idle" => r.run \in RunId
    /\ r.pc \in RowPcs => r.row \in Told
    /\ r.pc \in {"fast", "finish", "latest", "confirm", "confirmRun"} => r.row.task.status = "success"
    /\ r.pc = "fail" => r.row.task.status = "failed"
    /\ r.pc \in {"upload", "asset", "mark"} => r.run.upload \in Upload
    /\ r.pc \in {"audit", "latest", "confirm", "map"} => r.cands # <<>>

\* ... the candidate it is about to map is recorded; ...
Recorded(r) ==
    r.pc \in {"map", "latest", "confirm"} => \E i \in DOMAIN reco[r.run] : reco[r.run][i] = r.cands[1]

\* ... its asset is kept before its upload is marked; ...
Kept(r) ==
    /\ r.pc = "mark" => r.run.upload \in assets
    /\ r.pc \in {"asset", "mark"} /\ upload[r.run.upload] = "consumed" => r.late

\* ... and the code of its row is recorded.
RowOK(r) == r.pc \in RowPcs => GivenOut(r.row.task)

HandlerOK(r) == Typed(r) /\ Recorded(r) /\ Kept(r) /\ RowOK(r)

\* What the service remembers, and what the tables say, has recorded codes.
SeenOK == \A r \in RunId : seen[r] # None => GivenOut(seen[r].task)

MapOK == mapping # None => Recommended(mapping.code)

RowsOK ==
    /\ \A r \in RunId : task[r] # None => GivenOut(task[r])
    /\ \A t \in Trace : ofTrace[t] # None => GivenOut(task[ofTrace[t]])

AssetKept == \A u \in Upload : upload[u] = "consumed" => u \in assets

IInv ==
    /\ TablesOK /\ MemoryOK /\ h = [p \in Handler |-> h[p]] /\ \A p \in Handler : HandlerOK(h[p])
    /\ MapOK /\ RowsOK /\ RunningIsWorked /\ AssetKept /\ SeenOK

-----------------------------------------------------------------------------
(* Records *)

LEMMA IdleOK ==
  /\ Idle \in HandlerRecord /\ HandlerOK(Idle)
  /\ Idle.pc = "idle" /\ Idle.run = None /\ Idle.late = FALSE
<1>1. Idle \in HandlerRecord /\ Idle.pc = "idle" /\ Idle.run = None /\ Idle.late = FALSE
  <2>1. MaxStageRetries \in Nat
    BY HsAssumption
  <2> QED BY <2>1 DEF Idle, HandlerRecord, Pcs, Working, Told
<1>2. HandlerOK(Idle)
  BY <1>1 DEF HandlerOK, Typed, Recorded, Kept, RowOK, RowPcs, GivenOut, Recommended, Working
<1> QED BY <1>1, <1>2

\* Runs are named by traces and uploads.
LEMMA RunIdType ==
  ASSUME NEW r \in RunId
  PROVE  r.trace \in Trace /\ r.upload \in Uploads
BY HsAssumption DEF RunId, MakeRunID

LEMMA MakeRunIDType ==
  ASSUME NEW a \in Asks, requests \in 0 .. MaxRequests, requests < MaxRequests
  PROVE  MakeRunID(a, requests + 1) \in RunId
<1>1. requests + 1 \in 1 .. MaxRequests
  BY HsAssumption
<1> QED BY <1>1 DEF RunId

\* The rows that are saved.
LEMMA RowTypes ==
  /\ Pending \in TaskRow /\ Pending.status = "running" /\ Pending.code = None
  /\ \A c \in Codes :
        Rejected(c) \in TaskRow /\ Rejected(c).status = "failed" /\ Rejected(c).code = c
  /\ \A result \in {"pending_review", "confirmed"}, c \in Codes :
        /\ Success(result, c) \in TaskRow /\ Success(result, c).status = "success"
        /\ Success(result, c).code = c
BY DEF Pending, Rejected, Success, TaskRow, Codes

-----------------------------------------------------------------------------
(* The kinds of steps *)

\* A handler goes on with another record and no table changes.
LEMMA MoveKeeps ==
  ASSUME IInv, NEW p \in Handler, NEW rec, Become(p, rec), HandlerOK(rec)', MemoryOK', SeenOK',
         UNCHANGED tables, lost \subseteq lost',
         h[p].pc \in Working => (rec.pc \in Working /\ rec.run = h[p].run) \/ h[p].run \in lost'
  PROVE  IInv'
<1>1. h' = [q \in Handler |-> h'[q]] /\ h'[p] = rec /\ \A q \in Handler : q # p => h'[q] = h[q]
  BY DEF IInv, Become
<1>2. ASSUME NEW q \in Handler PROVE HandlerOK(h[q])'
  <2>1. CASE q = p
    BY <1>1, <2>1 DEF HandlerOK, Typed, Recorded, Kept, RowOK, RowPcs, GivenOut, Recommended
  <2>2. CASE q # p
    <3>1. HandlerOK(h[q]) /\ h'[q] = h[q]
      BY <1>1, <2>2 DEF IInv
    <3> QED BY <3>1 DEF HandlerOK, Typed, Recorded, Kept, RowOK, RowPcs, GivenOut, Recommended, tables
  <2> QED BY <2>1, <2>2
<1>3. RunningIsWorked'
  <2> SUFFICES ASSUME NEW r \in RunId, task[r] # None, task[r].status = "running", r \notin lost'
               PROVE  \E q \in Handler : h'[q].pc \in Working /\ h'[q].run = r
    BY DEF RunningIsWorked, tables
  <2>1. PICK q \in Handler : h[q].pc \in Working /\ h[q].run = r
    BY DEF IInv, RunningIsWorked
  <2> QED BY <1>1, <2>1
<1>4. MapOK' /\ RowsOK' /\ AssetKept'
  BY DEF IInv, MapOK, RowsOK, GivenOut, Recommended, AssetKept, tables
<1>5. TablesOK'
  BY DEF IInv, TablesOK, tables
<1> QED BY <1>1, <1>2, <1>3, <1>4, <1>5 DEF IInv

\* A row is saved.
LEMMA SaveKeeps ==
  ASSUME IInv, NEW p \in Handler, NEW r \in RunId, NEW row \in TaskRow, NEW rec,
         SaveTask(p, r, row, rec), HandlerOK(rec)', MemoryOK', SeenOK',
         UNCHANGED <<reco, mapping, upload, assets>>, lost \subseteq lost',
         h[p].pc \in Working => h[p].run = r, GivenOut(row),
         row.status = "running" => rec.pc \in Working /\ rec.run = r
  PROVE  IInv'
<1>1. h' = [q \in Handler |-> h'[q]] /\ h'[p] = rec /\ \A q \in Handler : q # p => h'[q] = h[q]
  BY DEF IInv, SaveTask, Become
<1>2. /\ task' = [task EXCEPT ![r] = row] /\ latest' = r
      /\ ofTrace' = [ofTrace EXCEPT ![r.trace] = r]
  BY DEF SaveTask
<1>3. ASSUME NEW q \in Handler, q # p
      PROVE  /\ HandlerOK(h[q])'
             /\ h'[q].pc = h[q].pc /\ h'[q].run = h[q].run
  <2>1. HandlerOK(h[q]) /\ h'[q] = h[q]
    BY <1>1, <1>3 DEF IInv
  <2> QED BY <2>1 DEF HandlerOK, Typed, Recorded, Kept, RowOK, RowPcs, GivenOut, Recommended
<1>4. HandlerOK(h[p])'
  BY <1>1 DEF HandlerOK, Typed, Recorded, Kept, RowOK, RowPcs, GivenOut, Recommended
<1>5. TablesOK'
  BY <1>2, RunIdType DEF IInv, TablesOK
<1>6. RunningIsWorked'
  <2> SUFFICES ASSUME NEW s \in RunId, task'[s] # None, task'[s].status = "running", s \notin lost'
               PROVE  \E q \in Handler : h'[q].pc \in Working /\ h'[q].run = s
    BY DEF RunningIsWorked
  <2>1. CASE s = r
    BY <1>1, <1>2, <2>1 DEF IInv, TablesOK
  <2>2. CASE s # r
    <3>1. PICK q \in Handler : h[q].pc \in Working /\ h[q].run = s
      BY <1>2, <2>2 DEF IInv, TablesOK, RunningIsWorked
    <3> QED BY <1>3, <2>2, <3>1
  <2> QED BY <2>1, <2>2
<1>7. MapOK' /\ AssetKept'
  BY DEF IInv, MapOK, Recommended, AssetKept
<1>8. RowsOK'
  BY <1>2, RunIdType DEF IInv, TablesOK, RowsOK, GivenOut, Recommended
<1> QED BY <1>1, <1>3, <1>4, <1>5, <1>6, <1>7, <1>8 DEF IInv

\* The mapping is replaced by a recorded code; 
LEMMA MapKeeps ==
  ASSUME IInv, NEW p \in Handler, NEW m \in Mapping, NEW rec,
         SaveMapping(p, m, rec), HandlerOK(rec)',
         UNCHANGED <<task, latest, ofTrace, reco, upload, assets, memory, lost, requests, faults>>,
         Recommended(m.code),
         h[p].pc \in Working => rec.pc \in Working /\ rec.run = h[p].run
  PROVE  IInv'
<1>1. /\ h' = [q \in Handler |-> h'[q]] /\ h'[p] = rec /\ mapping' = m
      /\ \A q \in Handler : q # p => h'[q] = h[q]
  BY DEF IInv, SaveMapping, Become
<1>2. ASSUME NEW q \in Handler, q # p
      PROVE  /\ HandlerOK(h[q])'
             /\ h'[q].pc = h[q].pc /\ h'[q].run = h[q].run
  <2>1. HandlerOK(h[q]) /\ h'[q] = h[q]
    BY <1>1, <1>2 DEF IInv
  <2> QED BY <2>1 DEF HandlerOK, Typed, Recorded, Kept, RowOK, RowPcs, GivenOut, Recommended
<1>3. HandlerOK(h[p])'
  BY <1>1 DEF HandlerOK, Typed, Recorded, Kept, RowOK, RowPcs, GivenOut, Recommended
<1>4. TablesOK' /\ MemoryOK' /\ SeenOK' /\ AssetKept'
  BY <1>1 DEF IInv, TablesOK, MemoryOK, SeenOK, GivenOut, Recommended, AssetKept, memory
<1>5. RunningIsWorked'
  <2> SUFFICES ASSUME NEW s \in RunId, task[s] # None, task[s].status = "running", s \notin lost
               PROVE  \E q \in Handler : h'[q].pc \in Working /\ h'[q].run = s
    BY DEF RunningIsWorked
  <2>1. PICK q \in Handler : h[q].pc \in Working /\ h[q].run = s
    BY DEF IInv, RunningIsWorked
  <2> QED BY <1>1, <1>2, <2>1
<1>6. MapOK' /\ RowsOK'
  BY <1>1 DEF IInv, MapOK, RowsOK, GivenOut, Recommended
<1> QED BY <1>1, <1>2, <1>3, <1>4, <1>5, <1>6 DEF IInv

-----------------------------------------------------------------------------
(* Memory *)

LEMMA AskMemory ==
  ASSUME IInv, NEW p \in Handler, Ask(p)
  PROVE  /\ MemoryOK' /\ SeenOK' /\ UNCHANGED <<tables, lost>>
         /\ h[p].pc = "idle" /\ requests \in 0 .. MaxRequests /\ requests < MaxRequests
<1>1. requests \in 0 .. MaxRequests /\ requests < MaxRequests /\ requests' = requests + 1
  BY DEF IInv, MemoryOK, Ask
<1>2. requests' \in 0 .. MaxRequests
  BY <1>1, HsAssumption
<1> QED BY <1>1, <1>2 DEF IInv, MemoryOK, SeenOK, GivenOut, Recommended, tables, Ask, At, memory

LEMMA StepMemory ==
  ASSUME IInv, NEW p, NEW pc, Step(p, pc), UNCHANGED memory
  PROVE  /\ MemoryOK' /\ UNCHANGED <<lost, requests, faults>> /\ h[p].pc = pc
         /\ reco' = reco => SeenOK'
BY DEF IInv, MemoryOK, SeenOK, GivenOut, Recommended, tables, Step, At, memory

LEMMA FaultMemory ==
  ASSUME IInv, NEW p, NEW pc, Fault(p, pc), UNCHANGED memory,
         lost \subseteq lost', lost' \subseteq RunId
  PROVE  MemoryOK' /\ SeenOK' /\ UNCHANGED tables /\ h[p].pc = pc
<1>1. faults \in 0 .. MaxFaults /\ faults < MaxFaults /\ faults' = faults + 1
  BY DEF IInv, MemoryOK, Fault
<1>2. faults' \in 0 .. MaxFaults
  BY <1>1, HsAssumption
<1> QED BY <1>1, <1>2 DEF IInv, MemoryOK, SeenOK, GivenOut, Recommended, tables, Fault, At, memory

\* A task is told: its code is recorded.
LEMMA TellMemory ==
  ASSUME IInv, NEW run \in RunId, NEW row \in Told, Tell(run, row),
         lost \subseteq lost', lost' \subseteq RunId, requests' = requests,
         faults' \in 0 .. MaxFaults,
         UNCHANGED reco, GivenOut(row.task)
  PROVE  MemoryOK' /\ SeenOK'
<1>1. row.run \in RunId
  BY DEF Told
<1>2. \A r \in RunId : seen'[r] = seen[r] \/ seen'[r] = row
  BY <1>1 DEF Tell, IInv, MemoryOK
<1>3. seen' \in [RunId -> Told \cup {None}]
  BY <1>1 DEF Tell, IInv, MemoryOK
<1> QED BY <1>2, <1>3 DEF IInv, MemoryOK, SeenOK, Tell, GivenOut, Recommended

-----------------------------------------------------------------------------
(* Resolving *)

LEMMA ResolveStep ==
  ASSUME IInv, NEW p \in Handler, NEW a \in Asks, ResolveByModel(p, a)
  PROVE  IInv'
<1> DEFINE run == MakeRunID(a, requests + 1)
           r == ofTrace[a.trace]
<1>1. Ask(p)
  BY DEF ResolveByModel
<1>2. /\ MemoryOK' /\ SeenOK' /\ UNCHANGED <<tables, lost>> /\ h[p].pc = "idle"
      /\ run \in RunId
  BY <1>1, AskMemory, MakeRunIDType
<1>3. CASE a.forced \/ r = None
  <2>1. PICK rec : rec = [Idle EXCEPT !.pc = "mapped", !.run = run] /\ Become(p, rec)
    BY <1>3 DEF ResolveByModel
  <2>2. rec \in HandlerRecord /\ rec.pc = "mapped" /\ rec.run = run
    BY <1>2, <2>1, IdleOK DEF HandlerRecord, Pcs
  <2>3. HandlerOK(rec)'
    BY <1>2, <2>2 DEF HandlerOK, Typed, Recorded, Kept, RowOK, RowPcs, GivenOut, Recommended, Working
  <2> QED BY <1>1, <1>2, <2>1, <2>3, MoveKeeps DEF Working
<1>4. CASE ~(a.forced \/ r = None)
  <2> DEFINE told == [run |-> r, task |-> task[r]]
  <2>1. PICK rec : /\ rec = [Idle EXCEPT !.pc = "answer", !.run = run, !.row = told]
                   /\ Become(p, rec)
    BY <1>4 DEF ResolveByModel
  <2>2. r \in RunId /\ told \in Told
    BY <1>4, HsAssumption DEF IInv, TablesOK, Told
  <2>3. rec \in HandlerRecord /\ rec.pc = "answer" /\ rec.run = run /\ rec.row = told
    BY <1>2, <2>1, <2>2, IdleOK DEF HandlerRecord, Pcs
  <2>4. GivenOut(told.task) /\ reco' = reco
    BY <1>2, <1>4, <2>2, HsAssumption DEF IInv, RowsOK, Told, tables
  <2>5. HandlerOK(rec)'
    BY <1>2, <2>2, <2>3, <2>4 DEF HandlerOK, Typed, Recorded, Kept, RowOK, RowPcs, GivenOut, Recommended, Working
  <2> QED BY <1>1, <1>2, <2>1, <2>5, MoveKeeps DEF Working
<1> QED BY <1>3, <1>4

LEMMA MappedStep ==
  ASSUME IInv, NEW p \in Handler, Mapped(p)
  PROVE  IInv'
<1>1. /\ MemoryOK' /\ SeenOK' /\ UNCHANGED <<tables, lost>> /\ h[p].pc = "mapped"
  BY StepMemory DEF Mapped, tables
<1>2. HandlerOK(h[p]) /\ h[p] \in HandlerRecord /\ h[p].run \in RunId
  BY <1>1 DEF IInv, HandlerOK, Typed, RowPcs
<1>3. CASE IsConfirmed
  <2> DEFINE told == [run |-> h[p].run, task |-> Success("confirmed", mapping.code)]
  <2>1. PICK rec : rec = [h[p] EXCEPT !.pc = "fast", !.row = told] /\ Become(p, rec)
    BY <1>3 DEF Mapped
  <2>2. told \in Told /\ told.task.status = "success" /\ GivenOut(told.task) /\ reco' = reco
    <3>1. mapping.code \in Codes /\ Recommended(mapping.code)
      BY <1>3 DEF IInv, TablesOK, MapOK, IsConfirmed, Mapping, Codes
    <3> QED BY <1>1, <1>2, <3>1, RowTypes DEF Told, GivenOut, tables
  <2>3. rec \in HandlerRecord /\ rec.pc = "fast" /\ rec.run = h[p].run /\ rec.row = told
    BY <1>2, <2>1, <2>2 DEF HandlerRecord, Pcs
  <2>4. HandlerOK(rec)'
    BY <1>2, <2>2, <2>3 DEF HandlerOK, Typed, Recorded, Kept, RowOK, RowPcs, GivenOut, Recommended, Working
  <2> QED BY <1>1, <2>1, <2>4, MoveKeeps DEF Working
<1>4. CASE ~IsConfirmed
  <2>1. PICK rec : rec = [h[p] EXCEPT !.pc = "open"] /\ Become(p, rec)
    BY <1>4 DEF Mapped, Goto
  <2>2. rec \in HandlerRecord /\ rec.pc = "open" /\ rec.run = h[p].run
    BY <1>2, <2>1 DEF HandlerRecord, Pcs
  <2>3. HandlerOK(rec)'
    BY <1>2, <2>2 DEF HandlerOK, Typed, Recorded, Kept, RowOK, RowPcs, GivenOut, Recommended, Working
  <2> QED BY <1>1, <2>1, <2>3, MoveKeeps DEF Working
<1> QED BY <1>3, <1>4

\* The first attempt of a stage.
LEMMA FirstAttempt == 1 \in 0 .. MaxStageRetries + 1
BY HsAssumption

\* A handler at work goes on to a stage, or to its end.
LEMMA OnwardOK ==
  ASSUME IInv, NEW p \in Handler, h[p].pc \in Working \cup {"open"},
         NEW rec \in HandlerRecord, rec.run = h[p].run,
         \/ rec.pc \in {"datasheet", "extract", "recommend"}
         \/ rec.pc = "fail" /\ rec.row = [run |-> h[p].run, task |-> Rejected(None)]
  PROVE  HandlerOK(rec)'
<1>1. HandlerOK(h[p]) /\ h[p].run \in RunId
  BY DEF IInv, HandlerOK, Typed, Working
<1>2. CASE rec.pc \in {"datasheet", "extract", "recommend"}
  BY <1>1, <1>2 DEF HandlerOK, Typed, Recorded, Kept, RowOK, RowPcs
<1>3. CASE rec.pc = "fail" /\ rec.row = [run |-> h[p].run, task |-> Rejected(None)]
  <2>1. rec.row \in Told /\ rec.row.task.status = "failed" /\ rec.row.task.code = None
    BY <1>1, <1>3, RowTypes DEF Told, Codes
  <2> QED BY <1>1, <1>3, <2>1 DEF HandlerOK, Typed, Recorded, Kept, RowOK, RowPcs, GivenOut
<1> QED BY <1>2, <1>3

LEMMA FailingType ==
  ASSUME NEW p \in Handler, h[p] \in HandlerRecord, h[p].run \in RunId, NEW code \in Codes
  PROVE  /\ Failing(p, code) \in HandlerRecord /\ Failing(p, code).pc = "fail"
         /\ Failing(p, code).run = h[p].run
         /\ Failing(p, code).row = [run |-> h[p].run, task |-> Rejected(code)]
<1> DEFINE told == [run |-> h[p].run, task |-> Rejected(code)]
<1>1. told \in Told
  BY RowTypes DEF Told
<1> HIDE DEF told
<1>2. Failing(p, code) = [h[p] EXCEPT !.pc = "fail", !.cands = <<>>, !.row = told]
  BY DEF Failing, told
<1>3. <<>> \in Seq(Candidate)
  BY EmptySeq
<1>4. /\ Failing(p, code) \in HandlerRecord /\ Failing(p, code).pc = "fail"
      /\ Failing(p, code).run = h[p].run /\ Failing(p, code).row = told
  BY <1>1, <1>2, <1>3 DEF HandlerRecord, Pcs, Working
<1> QED BY <1>4 DEF told

LEMMA RetryType ==
  ASSUME IInv, NEW p \in Handler, h[p].run \in RunId,
         NEW pc \in {"datasheet", "extract", "recommend"}
  PROVE  /\ Retry(p, pc) \in HandlerRecord /\ Retry(p, pc).run = h[p].run
         /\ \/ Retry(p, pc).pc = pc
            \/ /\ Retry(p, pc).pc = "fail"
               /\ Retry(p, pc).row = [run |-> h[p].run, task |-> Rejected(None)]
<1>1. h[p] \in HandlerRecord
  BY DEF IInv, HandlerOK, Typed
<1>2. CASE h[p].attempt <= MaxStageRetries
  <2>1. h[p].attempt + 1 \in 0 .. MaxStageRetries + 1
    BY <1>1, <1>2, HsAssumption DEF HandlerRecord
  <2>2. Retry(p, pc) = [h[p] EXCEPT !.pc = pc, !.attempt = h[p].attempt + 1]
    BY <1>1, <1>2 DEF Retry, HandlerRecord
  <2> QED BY <1>1, <2>1, <2>2 DEF HandlerRecord, Pcs, Working
<1>3. CASE ~(h[p].attempt <= MaxStageRetries)
  <2>1. Retry(p, pc) = Failing(p, None)
    BY <1>3 DEF Retry
  <2> QED BY <1>1, <2>1, FailingType DEF Codes
<1> QED BY <1>2, <1>3

LEMMA FastPathStep ==
  ASSUME IInv, NEW p \in Handler, FastPath(p)
  PROVE  IInv'
<1>1. /\ h[p].pc = "fast" /\ UNCHANGED <<lost, requests, faults, reco, mapping, upload, assets>>
      /\ SaveTask(p, h[p].run, h[p].row.task, Idle) /\ Tell(h[p].run, h[p].row)
  BY DEF FastPath, Step, At
<1>2. /\ h[p].run \in RunId /\ h[p].row \in Told /\ h[p].row.task.status = "success"
      /\ GivenOut(h[p].row.task)
  BY <1>1 DEF IInv, HandlerOK, Typed, RowOK, RowPcs
<1>3. MemoryOK' /\ SeenOK'
  BY <1>1, <1>2, TellMemory DEF IInv, MemoryOK
<1>4. HandlerOK(Idle)' /\ h[p].row.task \in TaskRow
  BY <1>2, IdleOK DEF HandlerOK, Typed, Recorded, Kept, RowOK, RowPcs, GivenOut, Recommended, Working, Told
<1> QED BY <1>1, <1>2, <1>3, <1>4, SaveKeeps DEF Working

LEMMA OpenRunStep ==
  ASSUME IInv, NEW p \in Handler, OpenRun(p)
  PROVE  IInv'
<1>1. /\ MemoryOK' /\ SeenOK' /\ UNCHANGED lost /\ h[p].pc = "open"
      /\ UNCHANGED <<reco, mapping, upload, assets>>
  BY StepMemory DEF OpenRun
<1>6. GivenOut(Pending)
  BY RowTypes DEF GivenOut
<1>2. HandlerOK(h[p]) /\ h[p] \in HandlerRecord /\ h[p].run \in RunId
  BY <1>1 DEF IInv, HandlerOK, Typed, RowPcs
<1>3. PICK rec : /\ rec = [h[p] EXCEPT !.pc = "datasheet", !.attempt = 1]
                 /\ SaveTask(p, h[p].run, Pending, rec)
  BY DEF OpenRun
<1>4. /\ rec \in HandlerRecord /\ rec.pc = "datasheet" /\ rec.run = h[p].run
     
  BY <1>2, <1>3, FirstAttempt DEF HandlerRecord, Pcs, Working
<1>5. HandlerOK(rec)'
  BY <1>1, <1>4, OnwardOK
<1> QED BY <1>1, <1>2, <1>3, <1>4, <1>5, <1>6, SaveKeeps, RowTypes DEF Working

\* A handler that gives up: its run is lost, if it worked on one.
LEMMA GiveUpStep ==
  ASSUME IInv, NEW p \in Handler, NEW pc, Fault(p, pc), Done(p), UNCHANGED memory,
         lost \subseteq lost', lost' \subseteq RunId, pc \in Working => h[p].run \in lost'
  PROVE  IInv'
<1>1. MemoryOK' /\ SeenOK' /\ UNCHANGED tables /\ h[p].pc = pc
  BY FaultMemory
<1>2. HandlerOK(Idle)'
  BY IdleOK DEF HandlerOK, Typed, Recorded, Kept, RowOK, RowPcs, GivenOut, Recommended, Working
<1> QED BY <1>1, <1>2, MoveKeeps DEF Done

LEMMA BeginFailsStep ==
  ASSUME IInv, NEW p \in Handler, BeginFails(p)
  PROVE  IInv'
<1>1. PICK pc \in {"fast", "open"} : Fault(p, pc)
  BY DEF BeginFails
<1> QED BY <1>1, GiveUpStep DEF BeginFails, Working, IInv, MemoryOK

LEMMA FinishFailsStep ==
  ASSUME IInv, NEW p \in Handler, FinishFails(p)
  PROVE  IInv'
<1>1. Fault(p, "finish") /\ Done(p) /\ lost' = lost \cup {h[p].run} /\ UNCHANGED memory
  BY DEF FinishFails
<1>2. h[p].run \in RunId /\ lost \subseteq RunId
  BY <1>1 DEF IInv, HandlerOK, Typed, RowPcs, Fault, At, MemoryOK
<1> QED BY <1>1, <1>2, GiveUpStep

LEMMA CancelBatchStep ==
  ASSUME IInv, NEW p \in Handler, CancelBatch(p)
  PROVE  IInv'
<1>1. /\ Fault(p, h[p].pc) /\ Done(p) /\ lost' = lost \cup {h[p].run} /\ UNCHANGED memory
      /\ h[p].pc \in Working
  BY DEF CancelBatch
<1>2. h[p].run \in RunId /\ lost \subseteq RunId
  BY <1>1 DEF IInv, HandlerOK, Typed, RowPcs, MemoryOK, Working
<1> QED BY <1>1, <1>2, GiveUpStep

\* The stages save their row first, and end in another stage, in a retry or in failure.
LEMMA StageKeeps ==
  ASSUME IInv, NEW p \in Handler, NEW pc \in {"datasheet", "extract", "recommend"}, Step(p, pc),
         NEW rec \in HandlerRecord, SaveTask(p, h[p].run, Pending, rec),
         rec.run = h[p].run, rec.pc \in Working, HandlerOK(rec)',
         UNCHANGED <<reco, mapping, upload, assets, memory>>
  PROVE  IInv'
<1>1. MemoryOK' /\ SeenOK' /\ UNCHANGED lost /\ h[p].pc = pc
  BY StepMemory
<1>2. h[p].run \in RunId
  BY <1>1 DEF IInv, HandlerOK, Typed, RowPcs
<1>3. GivenOut(Pending)
  BY RowTypes DEF GivenOut
<1> QED BY <1>1, <1>2, <1>3, SaveKeeps, RowTypes

LEMMA DatasheetStep ==
  ASSUME IInv, NEW p \in Handler, Datasheet(p)
  PROVE  IInv'
<1>1. Step(p, "datasheet") /\ UNCHANGED <<reco, mapping, upload, assets, memory>> /\ h[p].pc = "datasheet"
  BY DEF Datasheet, Step, At
<1>2. PICK rec : /\ SaveTask(p, h[p].run, Pending, rec)
                 /\ \/ rec = [h[p] EXCEPT !.pc = "extract", !.attempt = 1]
                    \/ rec = [h[p] EXCEPT !.pc = "upload"] /\ h[p].run.upload # None
                    \/ rec = Retry(p, "datasheet")
  BY DEF Datasheet
<1>3. HandlerOK(h[p]) /\ h[p] \in HandlerRecord /\ h[p].run \in RunId
  BY <1>1 DEF IInv, HandlerOK, Typed, RowPcs
<1>4. /\ rec \in HandlerRecord /\ rec.run = h[p].run
      /\ \/ rec.pc \in {"extract", "datasheet"}
         \/ rec.pc = "upload" /\ h[p].run.upload # None
         \/ rec.pc = "fail" /\ rec.row = [run |-> h[p].run, task |-> Rejected(None)]
  <2>1. CASE rec = [h[p] EXCEPT !.pc = "extract", !.attempt = 1]
    BY <1>3, <2>1, FirstAttempt DEF HandlerRecord, Pcs, Working
  <2>2. CASE rec = [h[p] EXCEPT !.pc = "upload"] /\ h[p].run.upload # None
    BY <1>3, <2>2 DEF HandlerRecord, Pcs, Working
  <2>3. CASE rec = Retry(p, "datasheet")
    BY <1>3, <2>3, RetryType
  <2> QED BY <1>2, <2>1, <2>2, <2>3
<1>5. HandlerOK(rec)'
  <2>1. CASE rec.pc = "upload"
    <3>1. h[p].run.upload \in Upload
      BY <1>3, <1>4, <2>1, RunIdType DEF Uploads
    <3> QED BY <1>1, <1>3, <1>4, <2>1, <3>1
            DEF HandlerOK, Typed, Recorded, Kept, RowOK, RowPcs, GivenOut, Recommended, Working
  <2>2. CASE rec.pc # "upload"
    BY <1>1, <1>4, <2>2, OnwardOK DEF Working
  <2> QED BY <2>1, <2>2
<1> QED BY <1>1, <1>2, <1>4, <1>5, StageKeeps DEF Working

LEMMA ExtractStep ==
  ASSUME IInv, NEW p \in Handler, Extract(p)
  PROVE  IInv'
<1>1. Step(p, "extract") /\ UNCHANGED <<reco, mapping, upload, assets, memory>> /\ h[p].pc = "extract"
  BY DEF Extract, Step, At
<1>2. PICK rec : /\ SaveTask(p, h[p].run, Pending, rec)
                 /\ \/ rec = [h[p] EXCEPT !.pc = "recommend", !.attempt = 1]
                    \/ rec = Retry(p, "extract")
                    \/ rec = Failing(p, None)
  BY DEF Extract
<1>3. h[p] \in HandlerRecord /\ h[p].run \in RunId
  BY <1>1 DEF IInv, HandlerOK, Typed
<1>4. /\ rec \in HandlerRecord /\ rec.run = h[p].run
      /\ \/ rec.pc \in {"recommend", "extract"}
         \/ rec.pc = "fail" /\ rec.row = [run |-> h[p].run, task |-> Rejected(None)]
  <2>1. CASE rec = [h[p] EXCEPT !.pc = "recommend", !.attempt = 1]
    BY <1>3, <2>1, FirstAttempt DEF HandlerRecord, Pcs, Working
  <2>2. CASE rec = Failing(p, None)
    BY <1>3, <2>2, FailingType DEF Codes
  <2>3. CASE rec = Retry(p, "extract")
    BY <1>3, <2>3, RetryType
  <2> QED BY <1>2, <2>1, <2>2, <2>3
<1>5. HandlerOK(rec)'
  BY <1>1, <1>4, OnwardOK DEF Working
<1> QED BY <1>1, <1>2, <1>4, <1>5, StageKeeps DEF Working

LEMMA RecommendStep ==
  ASSUME IInv, NEW p \in Handler, Recommend(p)
  PROVE  IInv'
<1>1. Step(p, "recommend") /\ UNCHANGED <<reco, mapping, upload, assets, memory>> /\ h[p].pc = "recommend"
  BY DEF Recommend, Step, At
<1>2. PICK rec : /\ SaveTask(p, h[p].run, Pending, rec)
                 /\ \/ \E c \in Found : rec = [h[p] EXCEPT !.pc = "audit", !.cands = c]
                    \/ rec = Retry(p, "recommend")
  BY DEF Recommend
<1>3. HandlerOK(h[p]) /\ h[p] \in HandlerRecord /\ h[p].run \in RunId
  BY <1>1 DEF IInv, HandlerOK, Typed
<1>4. CASE rec = Retry(p, "recommend")
  <2>1. /\ rec \in HandlerRecord /\ rec.run = h[p].run
        /\ \/ rec.pc = "recommend"
           \/ rec.pc = "fail" /\ rec.row = [run |-> h[p].run, task |-> Rejected(None)]
    BY <1>3, <1>4, RetryType
  <2>2. HandlerOK(rec)'
    BY <1>1, <2>1, OnwardOK DEF Working
  <2> QED BY <1>1, <1>2, <2>1, <2>2, StageKeeps DEF Working
<1>5. ASSUME NEW c \in Found, rec = [h[p] EXCEPT !.pc = "audit", !.cands = c]
      PROVE  IInv'
  <2>1. c \in Seq(Candidate) /\ c # <<>>
    BY HsAssumption
  <2>2. /\ rec \in HandlerRecord /\ rec.run = h[p].run
        /\ rec.pc = "audit" /\ rec.cands = c
    BY <1>3, <1>5, <2>1 DEF HandlerRecord, Pcs, Working
  <2>3. HandlerOK(rec)'
    BY <1>1, <1>3, <2>1, <2>2
       DEF HandlerOK, Typed, Recorded, Kept, RowOK, RowPcs, GivenOut, Recommended, Working
  <2> QED BY <1>1, <1>2, <2>2, <2>3, StageKeeps DEF Working
<1> QED BY <1>2, <1>4, <1>5

LEMMA AttemptFailsStep ==
  ASSUME IInv, NEW p \in Handler, AttemptFails(p)
  PROVE  IInv'
<1> DEFINE told == [run |-> h[p].run, task |-> Pending]
<1>1. PICK pc \in {"datasheet", "extract", "recommend"} : Fault(p, pc)
  BY DEF AttemptFails
<1>2. Done(p) /\ Tell(h[p].run, told) /\ lost' = lost \cup {h[p].run}
  BY DEF AttemptFails
<1>3. h[p].pc = pc /\ UNCHANGED <<tables, requests>> /\ h[p].run \in RunId
  BY <1>1 DEF Fault, At, IInv, HandlerOK, Typed, RowPcs
<1>4. faults' \in 0 .. MaxFaults
  BY <1>1, HsAssumption DEF Fault, IInv, MemoryOK
<1>5. told \in Told /\ told.run = h[p].run /\ GivenOut(told.task)
  BY <1>3, RowTypes DEF Told, GivenOut
<1>6. MemoryOK' /\ SeenOK'
  BY <1>2, <1>3, <1>4, <1>5, TellMemory DEF IInv, MemoryOK, tables
<1>7. HandlerOK(Idle)'
  BY IdleOK DEF HandlerOK, Typed, Recorded, Kept, RowOK, RowPcs, GivenOut, Recommended, Working
<1> QED BY <1>2, <1>3, <1>6, <1>7, MoveKeeps DEF Done

-----------------------------------------------------------------------------
(* The manual datasheet and the candidates *)

LEMMA RecommendedStays ==
  ASSUME \A r \in RunId : \A i \in DOMAIN reco[r] : i \in DOMAIN reco'[r] /\ reco'[r][i] = reco[r][i],
         NEW code, Recommended(code)
  PROVE  Recommended(code)'
BY DEF Recommended

\* Candidates, uploads or assets change: recorded candidates stay, and whoever
\* has read an upload that is consumed now knows it.
LEMMA DataKeeps ==
  ASSUME IInv, NEW p \in Handler, NEW rec, HandlerOK(rec)', MemoryOK', UNCHANGED seen,
         h' = [q \in Handler |-> h'[q]], h'[p] = rec,
         \A q \in Handler : q # p =>
            \E b \in BOOLEAN :
               /\ h'[q] = [h[q] EXCEPT !.late = b]
               /\ h[q].pc \in {"asset", "mark"} /\ upload'[h[q].run.upload] = "consumed" => b,
         UNCHANGED <<task, latest, ofTrace, mapping, lost>>,
         reco' \in [RunId -> Seq(Candidate)],
         \A r \in RunId : \A i \in DOMAIN reco[r] : i \in DOMAIN reco'[r] /\ reco'[r][i] = reco[r][i],
         upload' \in [Upload -> {"staged", "consumed", "gone"}],
         assets \subseteq assets', assets' \subseteq Upload, AssetKept',
         h[p].pc \in Working => rec.pc \in Working /\ rec.run = h[p].run
  PROVE  IInv'
<1>1. ASSUME NEW q \in Handler, q # p
      PROVE  HandlerOK(h[q])' /\ h'[q].pc = h[q].pc /\ h'[q].run = h[q].run
  <2>1. HandlerOK(h[q]) /\ h[q] \in HandlerRecord
    BY DEF IInv, HandlerOK, Typed, RowPcs
  <2>2. PICK b \in BOOLEAN :
               /\ h'[q] = [h[q] EXCEPT !.late = b]
               /\ h[q].pc \in {"asset", "mark"} /\ upload'[h[q].run.upload] = "consumed" => b
    BY <1>1
  <2>3. /\ h'[q] \in HandlerRecord
        /\ h'[q].pc = h[q].pc /\ h'[q].run = h[q].run /\ h'[q].row = h[q].row
        /\ h'[q].cands = h[q].cands /\ h'[q].late = b
    BY <2>1, <2>2 DEF HandlerRecord
  <2>4. Typed(h[q])' /\ RowOK(h[q])'
    BY <2>1, <2>3, RecommendedStays DEF HandlerOK, Typed, RowPcs, RowOK, GivenOut
  <2>5. Kept(h[q])'
    BY <2>1, <2>2, <2>3 DEF HandlerOK, Kept
  <2>6. Recorded(h[q])'
    <3> SUFFICES ASSUME h[q].pc \in {"map", "latest", "confirm"}
                 PROVE  \E i \in DOMAIN reco'[h[q].run] : reco'[h[q].run][i] = h[q].cands[1]
      BY <2>3 DEF Recorded
    <3>1. h[q].run \in RunId
      BY <2>1 DEF HandlerOK, Typed, RowPcs
    <3>2. PICK i \in DOMAIN reco[h[q].run] : reco[h[q].run][i] = h[q].cands[1]
      BY <2>1 DEF HandlerOK, Recorded
    <3> QED BY <3>1, <3>2
  <2> QED BY <2>3, <2>4, <2>5, <2>6 DEF HandlerOK
<1>2. HandlerOK(h[p])'
  BY DEF HandlerOK, Typed, Recorded, Kept, RowOK, RowPcs, GivenOut, Recommended
<1>3. TablesOK'
  BY DEF IInv, TablesOK
<1>4. RunningIsWorked'
  <2> SUFFICES ASSUME NEW s \in RunId, task[s] # None, task[s].status = "running", s \notin lost
               PROVE  \E q \in Handler : h'[q].pc \in Working /\ h'[q].run = s
    BY DEF RunningIsWorked
  <2>1. PICK q \in Handler : h[q].pc \in Working /\ h[q].run = s
    BY DEF IInv, RunningIsWorked
  <2> QED BY <1>1, <2>1
<1>5. MapOK' /\ RowsOK' /\ SeenOK'
  BY RecommendedStays DEF IInv, MapOK, RowsOK, SeenOK, GivenOut
<1> QED BY <1>1, <1>2, <1>3, <1>4, <1>5 DEF IInv

\* The other handlers stay as they are.
LEMMA OthersStay ==
  ASSUME IInv, NEW p \in Handler, NEW rec, Become(p, rec), UNCHANGED upload
  PROVE  /\ h' = [q \in Handler |-> h'[q]] /\ h'[p] = rec
         /\ \A q \in Handler : q # p =>
               \E b \in BOOLEAN :
                  /\ h'[q] = [h[q] EXCEPT !.late = b]
                  /\ h[q].pc \in {"asset", "mark"} /\ upload'[h[q].run.upload] = "consumed" => b
<1>1. h' = [q \in Handler |-> h'[q]] /\ h'[p] = rec /\ \A q \in Handler : q # p => h'[q] = h[q]
  BY DEF IInv, Become
<1>2. ASSUME NEW q \in Handler, q # p
      PROVE  /\ h[q].late \in BOOLEAN /\ h'[q] = [h[q] EXCEPT !.late = h[q].late]
             /\ h[q].pc \in {"asset", "mark"} /\ upload'[h[q].run.upload] = "consumed" => h[q].late
  <2>1. HandlerOK(h[q]) /\ h[q] \in HandlerRecord
    BY DEF IInv, HandlerOK, Typed, RowPcs
  <2>2. h[q].late \in BOOLEAN /\ h'[q] = [h[q] EXCEPT !.late = h[q].late]
    BY <1>1, <1>2, <2>1 DEF HandlerRecord
  <2> QED BY <2>1, <2>2 DEF HandlerOK, Kept
<1> QED BY <1>1, <1>2

\* A reader of the manual datasheet whose step failed tries the download again.
LEMMA RetryOK ==
  ASSUME IInv, NEW p \in Handler, h[p].pc \in {"upload", "asset", "mark"},
         NEW rec, rec = Retry(p, "datasheet")
  PROVE  /\ HandlerOK(rec)' /\ rec.pc \in Working /\ rec.run = h[p].run
<1>1. h[p].run \in RunId
  BY DEF IInv, HandlerOK, Typed
<1>2. /\ rec \in HandlerRecord /\ rec.run = h[p].run
      /\ \/ rec.pc = "datasheet"
         \/ rec.pc = "fail" /\ rec.row = [run |-> h[p].run, task |-> Rejected(None)]
  BY <1>1, RetryType
<1>3. HandlerOK(rec)'
  BY <1>2, OnwardOK DEF Working
<1> QED BY <1>2, <1>3 DEF Working

\* ... and no table changes.
LEMMA RetryKeeps ==
  ASSUME IInv, NEW p \in Handler, h[p].pc \in {"upload", "asset", "mark"},
         Become(p, Retry(p, "datasheet")), MemoryOK', SeenOK', UNCHANGED <<tables, lost>>
  PROVE  IInv'
<1>1. PICK rec : rec = Retry(p, "datasheet")
  OBVIOUS
<1>2. HandlerOK(rec)' /\ rec.pc \in Working /\ rec.run = h[p].run
  BY <1>1, RetryOK DEF tables
<1> QED BY <1>1, <1>2, MoveKeeps

LEMMA ReadUploadStep ==
  ASSUME IInv, NEW p \in Handler, ReadUpload(p)
  PROVE  IInv'
<1>1. /\ MemoryOK' /\ SeenOK' /\ UNCHANGED <<tables, lost>> /\ h[p].pc = "upload"
  BY StepMemory DEF ReadUpload, tables
<1>2. CASE upload[h[p].run.upload] = "staged"
  <2>1. PICK rec : rec = [h[p] EXCEPT !.pc = "asset", !.late = FALSE] /\ Become(p, rec)
    BY <1>2 DEF ReadUpload
  <2>2. HandlerOK(h[p]) /\ h[p] \in HandlerRecord
    BY DEF IInv, HandlerOK, Typed, RowPcs
  <2>3. /\ rec \in HandlerRecord /\ rec.pc = "asset" /\ rec.run = h[p].run
       
    BY <2>1, <2>2 DEF HandlerRecord, Pcs, Working
  <2>4. HandlerOK(rec)'
    BY <1>1, <1>2, <2>2, <2>3
       DEF HandlerOK, Typed, Recorded, Kept, RowOK, RowPcs, GivenOut, Recommended, Working, tables
  <2> QED BY <1>1, <2>1, <2>3, <2>4, MoveKeeps DEF Working
<1>3. CASE upload[h[p].run.upload] # "staged"
  BY <1>1, <1>3, RetryKeeps DEF ReadUpload
<1> QED BY <1>2, <1>3

LEMMA SaveAssetStep ==
  ASSUME IInv, NEW p \in Handler, SaveAsset(p)
  PROVE  IInv'
<1>1. /\ MemoryOK' /\ SeenOK' /\ UNCHANGED <<seen, lost>> /\ h[p].pc = "asset"
      /\ UNCHANGED <<task, latest, ofTrace, reco, mapping, upload>>
  BY StepMemory DEF SaveAsset, memory
<1>2. HandlerOK(h[p]) /\ h[p] \in HandlerRecord /\ h[p].run.upload \in Upload
  BY <1>1 DEF IInv, HandlerOK, Typed, RowPcs
<1>3. CASE upload[h[p].run.upload] = "gone"
  BY <1>1, <1>3, RetryKeeps DEF SaveAsset, tables
<1>4. CASE upload[h[p].run.upload] # "gone"
  <2>1. PICK rec : rec = [h[p] EXCEPT !.pc = "mark"] /\ Become(p, rec)
    BY <1>4 DEF SaveAsset, Goto
  <2>2. assets' = assets \cup {h[p].run.upload}
    BY <1>4 DEF SaveAsset
  <2>3. /\ rec \in HandlerRecord /\ rec.pc = "mark" /\ rec.run = h[p].run
        /\ rec.late = h[p].late
    BY <2>1, <1>2 DEF HandlerRecord, Pcs, Working
  <2>4. HandlerOK(rec)'
    BY <1>1, <1>2, <2>2, <2>3
       DEF HandlerOK, Typed, Recorded, Kept, RowOK, RowPcs, GivenOut, Recommended, Working
  <2>5. /\ reco' \in [RunId -> Seq(Candidate)] /\ upload' \in [Upload -> {"staged", "consumed", "gone"}]
        /\ assets' \subseteq Upload /\ AssetKept'
    BY <1>1, <1>2, <2>2 DEF IInv, TablesOK, AssetKept
  <2>6. rec.pc \in Working
    BY <2>3 DEF Working
  <2>7. /\ h' = [q \in Handler |-> h'[q]] /\ h'[p] = rec
        /\ \A q \in Handler : q # p =>
               \E b \in BOOLEAN :
                  /\ h'[q] = [h[q] EXCEPT !.late = b]
                  /\ h[q].pc \in {"asset", "mark"} /\ upload'[h[q].run.upload] = "consumed" => b
    BY <1>1, <2>1, OthersStay
  <2> QED BY <1>1, <2>2, <2>3, <2>4, <2>5, <2>6, <2>7, DataKeeps
<1> QED BY <1>3, <1>4

LEMMA MarkConsumedStep ==
  ASSUME IInv, NEW p \in Handler, MarkConsumed(p)
  PROVE  IInv'
<1> DEFINE u == h[p].run.upload
<1>1. /\ MemoryOK' /\ SeenOK' /\ UNCHANGED <<seen, lost>> /\ h[p].pc = "mark"
      /\ UNCHANGED <<task, latest, ofTrace, reco, mapping, assets>>
  BY StepMemory DEF MarkConsumed, memory
<1>2. HandlerOK(h[p]) /\ h[p] \in HandlerRecord /\ u \in Upload /\ u \in assets
  BY <1>1 DEF IInv, HandlerOK, Typed, RowPcs, Kept
<1>3. CASE upload[u] = "gone"
  BY <1>1, <1>3, RetryKeeps DEF MarkConsumed, tables
<1>4. CASE upload[u] # "gone"
  <2>1. PICK rec : /\ rec = [h[p] EXCEPT !.pc = "extract", !.attempt = 1, !.late = FALSE]
                   /\ h' = [q \in Handler |->
                           IF q = p THEN rec
                           ELSE [h[q] EXCEPT !.late =
                                   @ \/ (h[q].pc \in {"asset", "mark"} /\ h[q].run.upload = u)]]
    BY <1>4 DEF MarkConsumed
  <2>2. upload' = [upload EXCEPT ![u] = "consumed"]
    BY <1>4 DEF MarkConsumed
  <2>3. /\ rec \in HandlerRecord /\ rec.pc = "extract" /\ rec.run = h[p].run
       
    BY <2>1, <1>2, FirstAttempt DEF HandlerRecord, Pcs, Working
  <2>4. HandlerOK(rec)'
    BY <1>1, <2>3, OnwardOK DEF Working
  <2>5. ASSUME NEW q \in Handler, q # p
        PROVE  \E b \in BOOLEAN :
                  /\ h'[q] = [h[q] EXCEPT !.late = b]
                  /\ h[q].pc \in {"asset", "mark"} /\ upload'[h[q].run.upload] = "consumed" => b
    <3>1. HandlerOK(h[q]) /\ h[q] \in HandlerRecord
      BY DEF IInv, HandlerOK, Typed, RowPcs
    <3>2. PICK b \in BOOLEAN : b = (h[q].late \/ (h[q].pc \in {"asset", "mark"} /\ h[q].run.upload = u))
      BY <3>1 DEF HandlerRecord
    <3>3. h'[q] = [h[q] EXCEPT !.late = b]
      BY <2>1, <2>5, <3>1, <3>2 DEF HandlerRecord
    <3>4. h[q].pc \in {"asset", "mark"} /\ upload'[h[q].run.upload] = "consumed" => b
      BY <2>2, <3>1, <3>2 DEF HandlerOK, Typed, RowPcs, Kept, IInv, TablesOK
    <3> QED BY <3>3, <3>4
  <2>6. /\ reco' \in [RunId -> Seq(Candidate)] /\ upload' \in [Upload -> {"staged", "consumed", "gone"}]
        /\ assets' \subseteq Upload /\ AssetKept'
    BY <1>1, <1>2, <2>2 DEF IInv, TablesOK, AssetKept
  <2>7. rec.pc \in Working
    BY <2>3 DEF Working
  <2>8. h' = [q \in Handler |-> h'[q]] /\ h'[p] = rec
    BY <2>1
  <2> QED BY <1>1, <2>3, <2>4, <2>5, <2>6, <2>7, <2>8, DataKeeps
<1> QED BY <1>3, <1>4

LEMMA UploadFailsStep ==
  ASSUME IInv, NEW p \in Handler, UploadFails(p)
  PROVE  IInv'
<1>1. PICK pc \in {"upload", "asset", "mark"} : Fault(p, pc)
  BY DEF UploadFails
<1>2. Become(p, Retry(p, "datasheet")) /\ UNCHANGED <<memory, lost>>
  BY DEF UploadFails
<1>3. MemoryOK' /\ SeenOK' /\ UNCHANGED tables /\ h[p].pc = pc
  BY <1>1, <1>2, FaultMemory DEF IInv, MemoryOK
<1> QED BY <1>1, <1>2, <1>3, RetryKeeps

LEMMA PurgeStep ==
  ASSUME IInv, NEW u \in Upload, Purge(u)
  PROVE  IInv'
<1>1. /\ upload' = [upload EXCEPT ![u] = "gone"]
      /\ UNCHANGED <<task, latest, ofTrace, reco, mapping, assets, memory, h, lost, requests>>
      /\ faults < MaxFaults /\ faults' = faults + 1
  BY DEF Purge
<1>2. faults' \in 0 .. MaxFaults
  BY <1>1, HsAssumption DEF IInv, MemoryOK
<1>3. TablesOK' /\ MemoryOK' /\ SeenOK' /\ AssetKept'
  BY <1>1, <1>2 DEF IInv, TablesOK, MemoryOK, SeenOK, GivenOut, Recommended, AssetKept, memory
<1>4. MapOK' /\ RowsOK' /\ RunningIsWorked'
  BY <1>1 DEF IInv, MapOK, RowsOK, GivenOut, Recommended, RunningIsWorked
<1>5. ASSUME NEW q \in Handler PROVE HandlerOK(h[q])'
  <2>1. HandlerOK(h[q]) /\ h'[q] = h[q]
    BY <1>1 DEF IInv
  <2>2. Typed(h[q])' /\ Recorded(h[q])' /\ RowOK(h[q])'
    BY <1>1, <2>1 DEF HandlerOK, Typed, Recorded, RowOK, RowPcs, GivenOut, Recommended, IsConfirmed
  <2>3. Kept(h[q])'
    BY <1>1, <2>1 DEF HandlerOK, Kept, Typed, RowPcs, IInv, TablesOK
  <2> QED BY <2>2, <2>3 DEF HandlerOK
<1> QED BY <1>1, <1>3, <1>4, <1>5 DEF IInv

\* What is recorded stays, and the best of the candidates is recorded.
LEMMA MergedKeeps ==
  ASSUME NEW old \in Seq(Candidate), NEW new \in Seq(Candidate), new # <<>>, Agrees(old, new)
  PROVE  /\ Merged(old, new) \in Seq(Candidate)
         /\ \A i \in DOMAIN old : i \in DOMAIN Merged(old, new) /\ Merged(old, new)[i] = old[i]
         /\ \E i \in DOMAIN Merged(old, new) : Merged(old, new)[i] = new[1]
<1> DEFINE rest == SubSeq(new, Len(old) + 1, Len(new))
<1>1. /\ Len(old) \in Nat /\ DOMAIN old = 1 .. Len(old)
      /\ Len(new) \in Nat \ {0} /\ DOMAIN new = 1 .. Len(new)
  BY LenProperties, EmptySeq
<1>2. \A i \in Len(old) + 1 .. Len(new) : new[i] \in Candidate
  BY <1>1, ElementOfSeq
<1>3. /\ rest \in Seq(Candidate)
      /\ Len(rest) = IF Len(old) + 1 <= Len(new) THEN Len(new) - (Len(old) + 1) + 1 ELSE 0
      /\ \A i \in 1 .. Len(new) - (Len(old) + 1) + 1 : rest[i] = new[(Len(old) + 1) + i - 1]
  BY <1>1, <1>2, SubSeqProperties
<1> HIDE DEF rest
<1>4. /\ old \o rest \in Seq(Candidate) /\ Len(old \o rest) = Len(old) + Len(rest)
      /\ \A i \in 1 .. Len(old) + Len(rest) :
            (old \o rest)[i] = IF i <= Len(old) THEN old[i] ELSE rest[i - Len(old)]
  BY <1>3, ConcatProperties
<1>5. Merged(old, new) = old \o rest
  BY DEF Merged, rest
<1>6. DOMAIN (old \o rest) = 1 .. Len(old) + Len(rest)
  BY <1>4, LenProperties
<1>7. \A i \in DOMAIN old : i \in DOMAIN (old \o rest) /\ (old \o rest)[i] = old[i]
  <2>1. Len(rest) \in Nat
    BY <1>3, LenProperties
  <2> SUFFICES ASSUME NEW i \in DOMAIN old
               PROVE  i \in DOMAIN (old \o rest) /\ (old \o rest)[i] = old[i]
    OBVIOUS
  <2>2. i \in 1 .. Len(old)
    BY <1>1
  <2>3. i \in 1 .. Len(old) + Len(rest) /\ i <= Len(old)
    BY <1>1, <2>1, <2>2
  <2> QED BY <1>4, <1>6, <2>3
<1>8. \E i \in DOMAIN (old \o rest) : (old \o rest)[i] = new[1]
  <2>1. CASE Len(old) = 0
    <3>1. rest[1] = new[1] /\ Len(rest) \in Nat \ {0}
      BY <1>1, <1>3, <2>1
    <3>2. 1 \in DOMAIN (old \o rest) /\ (old \o rest)[1] = rest[1]
      BY <1>1, <1>4, <1>6, <2>1, <3>1
    <3> QED BY <3>1, <3>2
  <2>2. CASE Len(old) # 0
    <3>1. 1 \in DOMAIN old /\ 1 \in DOMAIN new
      BY <1>1, <2>2
    <3>2. old[1] = new[1]
      BY <3>1 DEF Agrees
    <3> QED BY <1>7, <3>1, <3>2
  <2> QED BY <2>1, <2>2
<1> QED BY <1>4, <1>5, <1>7, <1>8

LEMMA SaveTopNStep ==
  ASSUME IInv, NEW p \in Handler, SaveTopN(p)
  PROVE  IInv'
<1> DEFINE run == h[p].run
           merged == Merged(reco[run], h[p].cands)
<1>1. /\ MemoryOK' /\ UNCHANGED <<seen, lost>> /\ h[p].pc = "audit"
      /\ reco' = reco => SeenOK'
      /\ UNCHANGED <<task, latest, ofTrace, mapping, upload, assets>>
  BY StepMemory DEF SaveTopN, memory
<1>2. /\ HandlerOK(h[p]) /\ h[p] \in HandlerRecord /\ run \in RunId
      /\ h[p].cands \in Seq(Candidate) /\ h[p].cands # <<>>
  BY <1>1 DEF IInv, HandlerOK, Typed, RowPcs, HandlerRecord
<1>3. CASE Agrees(reco[run], h[p].cands)
  <2>1. PICK rec : rec = [h[p] EXCEPT !.pc = "map"] /\ Become(p, rec)
    BY <1>3 DEF SaveTopN, Goto
  <2>2. reco' = [reco EXCEPT ![run] = merged]
    BY <1>3 DEF SaveTopN
  <2>3. /\ rec \in HandlerRecord /\ rec.pc = "map" /\ rec.run = run
        /\ rec.cands = h[p].cands
    BY <2>1, <1>2 DEF HandlerRecord, Pcs, Working
  <2>4. reco \in [RunId -> Seq(Candidate)] /\ reco[run] \in Seq(Candidate)
    BY <1>2 DEF IInv, TablesOK
  <2>5. /\ merged \in Seq(Candidate)
        /\ \A i \in DOMAIN reco[run] : i \in DOMAIN merged /\ merged[i] = reco[run][i]
        /\ \E i \in DOMAIN merged : merged[i] = h[p].cands[1]
    BY <1>2, <1>3, <2>4, MergedKeeps
  <2> HIDE DEF merged
  <2>6. reco'[run] = merged /\ reco' \in [RunId -> Seq(Candidate)]
    BY <1>2, <2>2, <2>4, <2>5
  <2>7. \A r \in RunId : \A i \in DOMAIN reco[r] : i \in DOMAIN reco'[r] /\ reco'[r][i] = reco[r][i]
    BY <1>2, <2>2, <2>4, <2>5
  <2>8. HandlerOK(rec)'
    <3>1. Recorded(rec)'
      BY <2>3, <2>5, <2>6 DEF Recorded
    <3> QED BY <1>1, <1>2, <2>3, <3>1
            DEF HandlerOK, Typed, Kept, RowOK, RowPcs, GivenOut, Recommended, Working
  <2>9. /\ upload' \in [Upload -> {"staged", "consumed", "gone"}] /\ assets' \subseteq Upload
        /\ assets \subseteq assets' /\ AssetKept' /\ rec.pc \in Working
    BY <1>1, <2>3 DEF IInv, TablesOK, AssetKept, Working
  <2>10. /\ h' = [q \in Handler |-> h'[q]] /\ h'[p] = rec
         /\ \A q \in Handler : q # p =>
               \E b \in BOOLEAN :
                  /\ h'[q] = [h[q] EXCEPT !.late = b]
                  /\ h[q].pc \in {"asset", "mark"} /\ upload'[h[q].run.upload] = "consumed" => b
    BY <1>1, <2>1, OthersStay
  <2> QED BY <1>1, <2>3, <2>6, <2>7, <2>8, <2>9, <2>10, DataKeeps
<1>4. CASE ~Agrees(reco[run], h[p].cands)
  <2>1. PICK rec : rec = Failing(p, None) /\ Become(p, rec)
    BY <1>4 DEF SaveTopN
  <2>2. UNCHANGED reco
    BY <1>4 DEF SaveTopN
  <2>3. /\ rec \in HandlerRecord /\ rec.pc = "fail" /\ rec.run = run
        /\ rec.row = [run |-> h[p].run, task |-> Rejected(None)]
    BY <2>1, <1>2, FailingType DEF Codes
  <2>4. HandlerOK(rec)'
    BY <1>1, <2>3, OnwardOK DEF Working
  <2> QED BY <1>1, <2>1, <2>2, <2>3, <2>4, MoveKeeps DEF tables, Working
<1> QED BY <1>3, <1>4

LEMMA MapBestStep ==
  ASSUME IInv, NEW p \in Handler, MapBest(p)
  PROVE  IInv'
<1> DEFINE best == h[p].cands[1]
           told == [run |-> h[p].run, task |-> Success(Verdict(best), best.code)]
           m    == [code |-> best.code, status |-> Verdict(best), source |-> "llm_auto"]
<1>1. /\ h[p].pc = "map" /\ UNCHANGED <<lost, requests, faults>>
      /\ UNCHANGED <<task, latest, ofTrace, reco, upload, assets, memory>>
  BY DEF MapBest, Step, At
<1>2. PICK rec : /\ rec = [h[p] EXCEPT !.pc = "finish", !.cands = <<>>, !.row = told]
                 /\ SaveMapping(p, m, rec)
  BY DEF MapBest
<1>3. /\ HandlerOK(h[p]) /\ h[p] \in HandlerRecord /\ h[p].run \in RunId
      /\ h[p].cands \in Seq(Candidate) /\ h[p].cands # <<>>
  BY <1>1 DEF IInv, HandlerOK, Typed, RowPcs, HandlerRecord
<1>4. best \in Candidate
  BY <1>3, EmptySeq, ElementOfSeq
<1>5. best.code \in Code /\ Verdict(best) \in {"pending_review", "confirmed"}
  BY <1>4 DEF Candidate, Verdict
<1>6. m \in Mapping
  BY <1>5 DEF Mapping
<1>7. told \in Told /\ told.task.status = "success" /\ told.task.code = best.code
  BY <1>3, <1>5, RowTypes DEF Told, Codes
<1>8. Recommended(m.code) /\ GivenOut(told.task) /\ reco' = reco
  BY <1>1, <1>3, <1>7 DEF HandlerOK, Recorded, Recommended, GivenOut
<1> HIDE DEF best, told, m
<1>9. /\ rec \in HandlerRecord /\ rec.pc = "finish" /\ rec.run = h[p].run /\ rec.row = told
  BY <1>2, <1>3, <1>7, EmptySeq DEF HandlerRecord, Pcs, Working
<1>10. HandlerOK(rec)'
  BY <1>3, <1>7, <1>8, <1>9 DEF HandlerOK, Typed, Recorded, Kept, RowOK, RowPcs, GivenOut, Recommended, Working
<1> QED BY <1>1, <1>2, <1>6, <1>8, <1>9, <1>10, MapKeeps DEF Working

LEMMA AuditFailsStep ==
  ASSUME IInv, NEW p \in Handler, AuditFails(p)
  PROVE  IInv'
<1>1. Fault(p, "audit") /\ Become(p, Failing(p, None)) /\ UNCHANGED <<memory, lost>>
  BY DEF AuditFails
<1>2. MemoryOK' /\ SeenOK' /\ UNCHANGED tables /\ h[p].pc = "audit"
  BY <1>1, FaultMemory DEF IInv, MemoryOK
<1>3. h[p] \in HandlerRecord /\ h[p].run \in RunId
  BY <1>2 DEF IInv, HandlerOK, Typed
<1>4. PICK rec : rec = Failing(p, None) /\ Become(p, rec)
  BY <1>1
<1>5. /\ rec \in HandlerRecord /\ rec.pc = "fail" /\ rec.run = h[p].run
      /\ rec.row = [run |-> h[p].run, task |-> Rejected(None)]
  BY <1>3, <1>4, FailingType DEF Codes
<1>6. HandlerOK(rec)'
  BY <1>2, <1>5, OnwardOK DEF Working
<1> QED BY <1>1, <1>2, <1>4, <1>5, <1>6, MoveKeeps DEF Working

\* The code that could not be mapped is a recorded one.
LEMMA MapFailsStep ==
  ASSUME IInv, NEW p \in Handler, MapFails(p)
  PROVE  IInv'
<1> DEFINE code == h[p].cands[1].code
<1>1. Fault(p, "map") /\ Become(p, Failing(p, code)) /\ UNCHANGED <<memory, lost>>
  BY DEF MapFails
<1>2. MemoryOK' /\ SeenOK' /\ UNCHANGED tables /\ h[p].pc = "map"
  BY <1>1, FaultMemory DEF IInv, MemoryOK
<1>3. /\ HandlerOK(h[p]) /\ h[p] \in HandlerRecord /\ h[p].run \in RunId
      /\ h[p].cands \in Seq(Candidate) /\ h[p].cands # <<>>
  BY <1>2 DEF IInv, HandlerOK, Typed, HandlerRecord
<1>4. h[p].cands[1] \in Candidate
  BY <1>3, EmptySeq, ElementOfSeq
<1>5. code \in Codes /\ Recommended(code) /\ reco' = reco
  BY <1>2, <1>3, <1>4 DEF Candidate, Codes, HandlerOK, Recorded, Recommended, tables
<1> HIDE DEF code
<1>6. PICK rec : rec = Failing(p, code) /\ Become(p, rec)
  BY <1>1
<1>7. /\ rec \in HandlerRecord /\ rec.pc = "fail" /\ rec.run = h[p].run
      /\ rec.row = [run |-> h[p].run, task |-> Rejected(code)]
  BY <1>3, <1>5, <1>6, FailingType
<1>8. rec.row \in Told /\ rec.row.task.status = "failed" /\ GivenOut(rec.row.task)
  BY <1>3, <1>5, <1>7, RowTypes DEF Told, GivenOut
<1>9. HandlerOK(rec)'
  BY <1>3, <1>5, <1>7, <1>8
     DEF HandlerOK, Typed, Recorded, Kept, RowOK, RowPcs, GivenOut, Recommended
<1> QED BY <1>1, <1>2, <1>6, <1>7, <1>9, MoveKeeps DEF Working

LEMMA FinishStep ==
  ASSUME IInv, NEW p \in Handler, Finish(p)
  PROVE  IInv'
<1>1. /\ h[p].pc = "finish" /\ UNCHANGED <<lost, requests, faults, reco, mapping, upload, assets>>
      /\ SaveTask(p, h[p].run, h[p].row.task, Idle) /\ Tell(h[p].run, h[p].row)
  BY DEF Finish, Step, At
<1>2. /\ h[p].run \in RunId /\ h[p].row \in Told /\ h[p].row.task.status = "success"
      /\ GivenOut(h[p].row.task)
  BY <1>1 DEF IInv, HandlerOK, Typed, RowOK, RowPcs
<1>3. MemoryOK' /\ SeenOK'
  BY <1>1, <1>2, TellMemory DEF IInv, MemoryOK
<1>4. HandlerOK(Idle)' /\ h[p].row.task \in TaskRow
  BY <1>2, IdleOK DEF HandlerOK, Typed, Recorded, Kept, RowOK, RowPcs, GivenOut, Recommended, Working, Told
<1> QED BY <1>1, <1>2, <1>3, <1>4, SaveKeeps

LEMMA FailRunStep ==
  ASSUME IInv, NEW p \in Handler, FailRun(p)
  PROVE  IInv'
<1>1. /\ h[p].pc = "fail" /\ UNCHANGED <<lost, requests, faults, reco, mapping, upload, assets>>
      /\ SaveTask(p, h[p].run, h[p].row.task, Idle) /\ Tell(h[p].run, h[p].row)
  BY DEF FailRun, Step, At
<1>2. /\ h[p].run \in RunId /\ h[p].row \in Told /\ h[p].row.task.status = "failed"
      /\ GivenOut(h[p].row.task)
  BY <1>1 DEF IInv, HandlerOK, Typed, RowOK, RowPcs
<1>3. MemoryOK' /\ SeenOK'
  BY <1>1, <1>2, TellMemory DEF IInv, MemoryOK
<1>4. HandlerOK(Idle)' /\ h[p].row.task \in TaskRow
  BY <1>2, IdleOK DEF HandlerOK, Typed, Recorded, Kept, RowOK, RowPcs, Working, Told
<1> QED BY <1>1, <1>2, <1>3, <1>4, SaveKeeps

LEMMA FailRunFailsStep ==
  ASSUME IInv, NEW p \in Handler, FailRunFails(p)
  PROVE  IInv'
<1>1. Fault(p, "fail") /\ Done(p) /\ Tell(h[p].run, h[p].row) /\ lost' = lost \cup {h[p].run}
  BY DEF FailRunFails
<1>2. h[p].pc = "fail" /\ UNCHANGED <<tables, requests>>
  BY <1>1 DEF Fault, At
<1>3. h[p].run \in RunId /\ h[p].row \in Told /\ GivenOut(h[p].row.task) /\ reco' = reco
  BY <1>2 DEF IInv, HandlerOK, Typed, RowOK, RowPcs, tables
<1>4. faults' \in 0 .. MaxFaults
  BY <1>1, HsAssumption DEF Fault, IInv, MemoryOK
<1>5. MemoryOK' /\ SeenOK'
  BY <1>1, <1>2, <1>3, <1>4, TellMemory DEF IInv, MemoryOK
<1>6. HandlerOK(Idle)'
  BY IdleOK DEF HandlerOK, Typed, Recorded, Kept, RowOK, RowPcs, Working
<1> QED BY <1>1, <1>2, <1>3, <1>5, <1>6, MoveKeeps DEF Done

LEMMA TellOtherStep ==
  ASSUME IInv, NEW p \in Handler, TellOther(p)
  PROVE  IInv'
<1>1. /\ h[p].pc = "answer" /\ UNCHANGED <<tables, lost, requests, faults>>
      /\ Tell(h[p].run, h[p].row) /\ Done(p)
  BY DEF TellOther, Step, At
<1>2. /\ h[p].run \in RunId /\ h[p].row \in Told /\ GivenOut(h[p].row.task) /\ reco' = reco
  BY <1>1 DEF IInv, HandlerOK, Typed, RowOK, RowPcs, tables
<1>3. MemoryOK' /\ SeenOK'
  BY <1>1, <1>2, TellMemory DEF IInv, MemoryOK
<1>4. HandlerOK(Idle)'
  BY IdleOK DEF HandlerOK, Typed, Recorded, Kept, RowOK, RowPcs, GivenOut, Recommended, Working
<1> QED BY <1>1, <1>3, <1>4, MoveKeeps DEF Done, Working

-----------------------------------------------------------------------------
(* Confirmation *)

LEMMA ConfirmStep ==
  ASSUME IInv, NEW p \in Handler, NEW id \in Request, NEW r \in RunId, NEW i \in DOMAIN reco[r],
         Confirm(p, id, r, i)
  PROVE  IInv'
<1> DEFINE told == [run |-> r, task |-> Success("confirmed", task[r].code)]
           picked == <<reco[r][i]>>
<1>1. Ask(p) /\ task[r] # None
  BY DEF Confirm
<1>2. MemoryOK' /\ SeenOK' /\ UNCHANGED <<tables, lost>> /\ h[p].pc = "idle"
  BY <1>1, AskMemory
<1>3. PICK rec : /\ rec = [Idle EXCEPT !.pc = "latest", !.run = r, !.ask = id, !.row = told,
                             !.cands = picked]
                 /\ Become(p, rec)
  BY DEF Confirm
<1>4. told \in Told /\ told.task.status = "success" /\ told.run = r /\ GivenOut(told.task)
  <2>1. task[r] \in TaskRow /\ GivenOut(task[r])
    BY <1>1 DEF IInv, TablesOK, RowsOK
  <2>2. task[r].code \in Codes
    BY <2>1 DEF TaskRow
  <2> QED BY <2>1, <2>2, RowTypes DEF Told, GivenOut
<1>5. reco[r][i] \in Candidate
  BY LenProperties, ElementOfSeq DEF IInv, TablesOK
<1>6. picked \in Seq(Candidate) /\ picked # <<>> /\ picked[1] = reco[r][i]
  BY <1>5
<1> HIDE DEF told, picked
<1>7. /\ rec \in HandlerRecord /\ rec.pc = "latest" /\ rec.run = r /\ rec.row = told
      /\ rec.cands = picked
  BY <1>3, <1>4, <1>6, IdleOK DEF HandlerRecord, Pcs
<1>8. reco' = reco
  BY <1>2 DEF tables
<1>9. HandlerOK(rec)'
  BY <1>4, <1>6, <1>7, <1>8 DEF HandlerOK, Typed, Recorded, Kept, RowOK, RowPcs, GivenOut, Recommended, Working
<1> QED BY <1>1, <1>2, <1>3, <1>9, MoveKeeps DEF Working

LEMMA CheckLatestStep ==
  ASSUME IInv, NEW p \in Handler, CheckLatest(p)
  PROVE  IInv'
<1>1. /\ MemoryOK' /\ SeenOK' /\ UNCHANGED <<tables, lost>> /\ h[p].pc = "latest"
  BY StepMemory DEF CheckLatest, tables
<1>2. CASE latest = h[p].run
  <2>1. PICK rec : rec = [h[p] EXCEPT !.pc = "confirm"] /\ Become(p, rec)
    BY <1>2 DEF CheckLatest, Goto
  <2>2. HandlerOK(h[p]) /\ h[p] \in HandlerRecord
    BY DEF IInv, HandlerOK, Typed, RowPcs
  <2>3. /\ rec \in HandlerRecord /\ rec.pc = "confirm" /\ rec.run = h[p].run
        /\ rec.row = h[p].row /\ rec.cands = h[p].cands
    BY <2>1, <2>2 DEF HandlerRecord, Pcs
  <2>4. reco' = reco /\ latest' = latest
    BY <1>1 DEF tables
  <2>5. HandlerOK(rec)'
    BY <1>1, <1>2, <2>2, <2>3, <2>4
       DEF HandlerOK, Typed, Recorded, Kept, RowOK, RowPcs, GivenOut, Recommended, Working
  <2> QED BY <1>1, <2>1, <2>5, MoveKeeps DEF Working
<1>3. CASE latest # h[p].run
  <2>1. Become(p, Idle)
    BY <1>3 DEF CheckLatest, Done
  <2>2. HandlerOK(Idle)'
    BY IdleOK DEF HandlerOK, Typed, Recorded, Kept, RowOK, RowPcs, GivenOut, Recommended, Working
  <2> QED BY <1>1, <2>1, <2>2, MoveKeeps DEF Working
<1> QED BY <1>2, <1>3

LEMMA MapPickedStep ==
  ASSUME IInv, NEW p \in Handler, MapPicked(p)
  PROVE  IInv'
<1> DEFINE m == [code |-> h[p].cands[1].code, status |-> "confirmed", source |-> "manual"]
<1>1. /\ h[p].pc = "confirm" /\ UNCHANGED <<lost, requests, faults>>
      /\ UNCHANGED <<task, latest, ofTrace, reco, upload, assets, memory>>
  BY DEF MapPicked, Step, At
<1>2. PICK rec : rec = [h[p] EXCEPT !.pc = "confirmRun"] /\ SaveMapping(p, m, rec)
  BY DEF MapPicked
<1>3. /\ HandlerOK(h[p]) /\ h[p] \in HandlerRecord
      /\ h[p].cands \in Seq(Candidate) /\ h[p].cands # <<>>
  BY <1>1 DEF IInv, HandlerOK, Typed, RowPcs, HandlerRecord
<1>4. h[p].cands[1] \in Candidate
  BY <1>3, EmptySeq, ElementOfSeq
<1>5. m \in Mapping
  BY <1>4 DEF Mapping, Candidate
<1>6. Recommended(m.code) /\ reco' = reco
  BY <1>1, <1>3 DEF HandlerOK, Recorded, Recommended, Typed
<1> HIDE DEF m
<1>7. /\ rec \in HandlerRecord /\ rec.pc = "confirmRun" /\ rec.run = h[p].run
      /\ rec.row = h[p].row
  BY <1>2, <1>3 DEF HandlerRecord, Pcs
<1>8. HandlerOK(rec)'
  BY <1>1, <1>3, <1>6, <1>7 DEF HandlerOK, Typed, Recorded, Kept, RowOK, RowPcs, GivenOut, Recommended, Working
<1> QED BY <1>1, <1>2, <1>5, <1>6, <1>8, MapKeeps DEF Working

LEMMA ConfirmRunStep ==
  ASSUME IInv, NEW p \in Handler, ConfirmRun(p)
  PROVE  IInv'
<1>1. /\ MemoryOK' /\ SeenOK' /\ UNCHANGED lost /\ h[p].pc = "confirmRun"
      /\ UNCHANGED <<reco, mapping, upload, assets>>
  BY StepMemory DEF ConfirmRun
<1>2. PICK rec : rec = [h[p] EXCEPT !.pc = "keep"] /\ SaveTask(p, h[p].run, h[p].row.task, rec)
  BY DEF ConfirmRun
<1>3. /\ HandlerOK(h[p]) /\ h[p] \in HandlerRecord /\ h[p].run \in RunId
      /\ h[p].row.task \in TaskRow /\ h[p].row.task.status = "success"
      /\ GivenOut(h[p].row.task)
  BY <1>1 DEF IInv, HandlerOK, Typed, RowOK, RowPcs, Told
<1>4. rec \in HandlerRecord /\ rec.pc = "keep" /\ rec.run = h[p].run
  BY <1>2, <1>3 DEF HandlerRecord, Pcs
<1>5. HandlerOK(rec)'
  BY <1>3, <1>4 DEF HandlerOK, Typed, Recorded, Kept, RowOK, RowPcs, GivenOut, Recommended, Working
<1> QED BY <1>1, <1>2, <1>3, <1>5, SaveKeeps

LEMMA KeepStep ==
  ASSUME IInv, NEW p \in Handler, Keep(p)
  PROVE  IInv'
<1>1. /\ h[p].pc = "keep" /\ UNCHANGED <<tables, seen, lost, requests, faults>>
      /\ kept' = [kept EXCEPT ![h[p].ask] = h[p].run] /\ Done(p)
  BY DEF Keep, Step, At
<1>2. h[p].run \in RunId
  BY <1>1 DEF IInv, HandlerOK, Typed, RowPcs
<1>3. MemoryOK' /\ SeenOK'
  BY <1>1, <1>2 DEF IInv, MemoryOK, SeenOK, GivenOut, Recommended, tables
<1>4. HandlerOK(Idle)'
  BY IdleOK DEF HandlerOK, Typed, Recorded, Kept, RowOK, RowPcs, GivenOut, Recommended, Working
<1> QED BY <1>1, <1>3, <1>4, MoveKeeps DEF Done, Working

LEMMA ConfirmFailsStep ==
  ASSUME IInv, NEW p \in Handler, ConfirmFails(p)
  PROVE  IInv'
<1>1. PICK pc \in {"latest", "confirm", "confirmRun"} : Fault(p, pc)
  BY DEF ConfirmFails
<1> QED BY <1>1, GiveUpStep DEF ConfirmFails, Working, IInv, MemoryOK

\* A run that was worked on is lost with its handler.
LEMMA RestartStep ==
  ASSUME IInv, Restart
  PROVE  IInv'
<1>1. /\ h' = [p \in Handler |-> Idle] /\ seen' = [r \in RunId |-> None]
      /\ kept' = [i \in Request |-> None]
      /\ lost' = lost \cup {h[p].run : p \in {q \in Handler : h[q].pc \in Working}}
      /\ UNCHANGED <<tables, requests>>
      /\ faults < MaxFaults /\ faults' = faults + 1
  BY DEF Restart
<1>2. \A p \in Handler : h[p].pc \in Working => h[p].run \in RunId
  BY DEF IInv, HandlerOK, Typed, RowPcs, Working
<1>3. MemoryOK' /\ SeenOK'
  BY <1>1, <1>2, HsAssumption DEF IInv, MemoryOK, SeenOK
<1>4. TablesOK' /\ MapOK' /\ RowsOK' /\ AssetKept'
  BY <1>1 DEF IInv, TablesOK, MapOK, RowsOK, GivenOut, Recommended, AssetKept, tables
<1>5. RunningIsWorked'
  BY <1>1 DEF IInv, RunningIsWorked, tables
<1>6. h' = [p \in Handler |-> h'[p]] /\ \A p \in Handler : HandlerOK(h[p])'
  BY <1>1, IdleOK DEF HandlerOK, Typed, Recorded, Kept, RowOK, RowPcs, GivenOut, Recommended, Working
<1> QED BY <1>3, <1>4, <1>5, <1>6 DEF IInv

-----------------------------------------------------------------------------
(* The theorems *)

LEMMA InitIInv == Init => IInv
<1> SUFFICES ASSUME Init PROVE IInv
  OBVIOUS
<1>1. /\ task = [r \in RunId |-> None] /\ latest = None /\ ofTrace = [t \in Trace |-> None]
      /\ reco = [r \in RunId |-> <<>>] /\ mapping = None
      /\ upload = [u \in Upload |-> "staged"] /\ assets = {}
      /\ seen = [r \in RunId |-> None] /\ kept = [i \in Request |-> None]
      /\ h = [p \in Handler |-> Idle] /\ lost = {} /\ requests = 0 /\ faults = 0
  BY DEF Init
<1>2. TablesOK
  BY <1>1 DEF TablesOK
<1>3. MemoryOK
  BY <1>1, HsAssumption DEF MemoryOK
<1>4. h = [p \in Handler |-> h[p]] /\ \A p \in Handler : HandlerOK(h[p])
  BY <1>1, IdleOK
<1>5. MapOK /\ RowsOK /\ RunningIsWorked /\ AssetKept /\ SeenOK
  BY <1>1 DEF MapOK, RowsOK, RunningIsWorked, AssetKept, SeenOK, GivenOut
<1> QED BY <1>2, <1>3, <1>4, <1>5 DEF IInv

LEMMA StutterKeeps == IInv /\ UNCHANGED vars => IInv'
<1> SUFFICES ASSUME IInv, UNCHANGED vars PROVE IInv'
  OBVIOUS
<1>1. UNCHANGED <<task, latest, ofTrace, reco, mapping, upload, assets, seen, kept, h, lost,
                  requests, faults>>
  BY DEF vars
<1> QED BY <1>1 DEF IInv, TablesOK, MemoryOK, HandlerOK, Typed, Recorded, Kept, RowOK, RowPcs, GivenOut, Recommended,
                    MapOK, RowsOK, RunningIsWorked, AssetKept, SeenOK

LEMMA NextKeeps == IInv /\ [Next]_vars => IInv'
<1> SUFFICES ASSUME IInv, Next PROVE IInv'
  BY StutterKeeps
<1>1. ASSUME NEW p \in Handler, Resolver(p) PROVE IInv'
  BY <1>1, ResolveStep, MappedStep, FastPathStep, OpenRunStep, BeginFailsStep, DatasheetStep,
     ExtractStep, RecommendStep, AttemptFailsStep, ReadUploadStep, SaveAssetStep, MarkConsumedStep,
     UploadFailsStep, SaveTopNStep, MapBestStep, AuditFailsStep, MapFailsStep, FinishStep, FinishFailsStep,
     FailRunStep, FailRunFailsStep, TellOtherStep, CancelBatchStep DEF Resolver
<1>2. ASSUME NEW p \in Handler, Confirmer(p) PROVE IInv'
  BY <1>2, ConfirmStep, CheckLatestStep, MapPickedStep, ConfirmRunStep, KeepStep, ConfirmFailsStep
     DEF Confirmer
<1>3. ASSUME NEW u \in Upload, Purge(u) PROVE IInv'
  BY <1>3, PurgeStep
<1> QED BY <1>1, <1>2, <1>3, RestartStep DEF Next

LEMMA Invariance == Spec => []IInv
BY InitIInv, NextKeeps, PTL DEF Spec

\* Every table and every handler holds values of its kind in every reachable
\* state (TypeOK).
THEOREM TypeCorrectness == Spec => []TypeOK
<1>1. IInv => TypeOK
  <2> SUFFICES ASSUME IInv PROVE TypeOK
    OBVIOUS
  <2>1. ASSUME NEW p \in Handler, h[p].pc # "idle"
        PROVE  /\ h[p].run \in RunId /\ h[p].attempt \in 0 .. MaxStageRetries + 1
               /\ h[p].cands \in Seq(Candidate)
    BY <2>1 DEF IInv, HandlerOK, Typed, RowPcs, HandlerRecord
  <2> QED BY <2>1 DEF TypeOK, At, IInv, TablesOK, MemoryOK, Told
<1> QED BY <1>1, Invariance, PTL

\* Every code the program gives out is one that a recorded recommendation proposes
\* (CodesAreAudited), whatever runs of one id interleave and whatever is lost.
THEOREM Audited == Spec => []CodesAreAudited
<1>1. IInv => CodesAreAudited
  BY DEF IInv, TablesOK, MapOK, RowsOK, SeenOK, CodesAreAudited
<1> QED BY <1>1, Invariance, PTL

\* A row that says running has its handler, or its last save or its handler was
\* lost (RunningIsWorked).
THEOREM Worked == Spec => []RunningIsWorked
<1>1. IInv => RunningIsWorked
  BY DEF IInv
<1> QED BY <1>1, Invariance, PTL

\* A consumed manual datasheet is an asset, and only runs that read it before it
\* was marked use it again (UploadKept).
THEOREM UploadsKept == Spec => []UploadKept
<1>1. IInv => UploadKept
  BY DEF IInv, HandlerOK, Kept, AssetKept, UploadKept
<1> QED BY <1>1, Invariance, PTL

=============================================================================
