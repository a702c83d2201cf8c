-------------------------- MODULE BomSessionProofs --------------------------
(***************************************************************************)
(* Theorems about BomSession for any sets of part numbers, platforms and   *)
(* handlers and any number of requests.                                    *)
(***************************************************************************)
EXTENDS BomSession, TLAPS

\* What a handler is about to write into the status is a ready state.
MarkOK == \A p \in Handler : At(p, "mark") => h[p].read \in ReadyStates

\* A handler has not yet asked for the tasks of what it adds, ...
Early(p) == h[p].pc \in {"parse", "replace", "replaceTx", "cancelAll", "load",
                         "platforms", "retry"}

\* ... is in the middle of an edit of an existing line, ...
Editing(p) == h[p].pc \in {"patch", "patchTx", "patched", "cancelOld", "delete",
                           "deleteRead", "deleteTx"}

\* ... or judges the readiness of the session.
Judging(p) == h[p].pc \in {"view", "lines", "tasks", "mark"}

\* The state of a session before its first request asks for tasks: there is none,
\* and nobody has judged it.
Untouched ==
    /\ \A k \in Key : task[k] = "absent"
    /\ \A p \in Handler : ~Judging(p)
    /\ status \notin ReadyStates

\* What holds during and after the first request, until there is a second: it is
\* the only one in progress, its tasks are inserted once, after everything else it
\* writes, and those who judge the session see the lines and platforms there are.
First ==
    /\ requests = 0 =>
          Untouched /\ (\A l \in Line : line[l] = {}) /\ \A p \in Handler : At(p, "idle")
    /\ \A p \in Handler : ~Editing(p)
    /\ \A p \in Handler : Early(p) =>
          Untouched /\ \A q \in Handler : q # p => At(q, "idle")
    /\ \A p, q \in Handler : At(p, "upsert") /\ At(q, "upsert") => p = q
    /\ \A p \in Handler : At(p, "upsert") => \A k \in h[p].keys : task[k] = "absent"
    /\ \A p \in Handler : h[p].pc \in {"lines", "tasks"} => h[p].plats = platforms
    /\ \A p \in Handler : At(p, "tasks") => h[p].mpns = Mpns
    /\ \A p \in Handler : At(p, "mark") => LenientReady(Mpns, platforms)
    /\ status \in ReadyStates => LenientReady(Mpns, platforms)

FirstOK == requests <= 1 => First

\* The record of an idle handler is a handler record.
LEMMA IdleRecord == Idle \in HandlerRecord
BY DEF Idle, HandlerRecord, Steps, TaskStates

\* A handler that only moves to its next step keeps the type of its record.
LEMMA GotoType ==
  ASSUME TypeOK, NEW p \in Handler, NEW pc \in Steps, Goto(p, pc)
  PROVE  h' \in [Handler -> HandlerRecord]
<1>1. h[p] \in HandlerRecord
  BY DEF TypeOK
<1>2. [h[p] EXCEPT !.pc = pc] \in HandlerRecord
  BY <1>1 DEF HandlerRecord
<1> QED BY <1>2 DEF Goto, TypeOK

\* So does a handler that becomes another record, or idle.
LEMMA BecomeType ==
  ASSUME TypeOK, NEW p \in Handler, NEW rec \in HandlerRecord, Become(p, rec)
  PROVE  h' \in [Handler -> HandlerRecord]
BY DEF Become, TypeOK

LEMMA DoneType ==
  ASSUME TypeOK, NEW p \in Handler, Done(p)
  PROVE  h' \in [Handler -> HandlerRecord]
BY BecomeType, IdleRecord DEF Done

\* Cancelling tasks keeps their type, and so does asking for them.
LEMMA CancelledType ==
  ASSUME TypeOK, NEW keys
  PROVE  Cancelled(keys) \in [Key -> TaskStates]
BY DEF Cancelled, TypeOK, TaskStates

\* The part numbers of the lines are part numbers.
LEMMA MpnsType == ASSUME TypeOK PROVE Mpns \in SUBSET Mpn
BY DEF Mpns, TypeOK

\* A new request counts as one more, below the bound.
LEMMA AskType ==
  ASSUME TypeOK, NEW p, NEW kind, Ask(p, kind)
  PROVE  /\ requests' \in 0 .. MaxRequests /\ aborts' \in 0 .. MaxAborts
         /\ requests + 1 \in 1 .. MaxRequests
         /\ edited' \in BOOLEAN /\ unjudged' \in BOOLEAN
<1>1. edited' \in BOOLEAN /\ unjudged' \in BOOLEAN
  BY DEF Ask, TypeOK
<1>2. /\ requests' \in 0 .. MaxRequests /\ aborts' \in 0 .. MaxAborts
      /\ requests + 1 \in 1 .. MaxRequests
  BY SessionAssumption DEF Ask, TypeOK
<1> QED BY <1>1, <1>2

\* Requests keep the types.
LEMMA RequestType ==
  ASSUME TypeOK, NEW p \in Handler, NewRequest(p)
  PROVE  TypeOK'
<1>1. CASE Upload(p)
  <2>1. PICK content \in (SUBSET Mpn) \ {{}} :
           Become(p, [Idle EXCEPT !.pc = "parse", !.job = TRUE, !.mpns = content,
                                  !.line = NewLines(content)])
    BY <1>1 DEF Upload, StartJob
  <2>2. NewLines(content) \in SUBSET Line
    BY <1>1, AskType DEF Upload, StartJob, NewLines, Line
  <2>3. [Idle EXCEPT !.pc = "parse", !.job = TRUE, !.mpns = content, !.line = NewLines(content)]
           \in HandlerRecord
    BY <2>2 DEF Idle, HandlerRecord, Steps, TaskStates
  <2>4. h' \in [Handler -> HandlerRecord]
    BY <2>1, <2>3, BecomeType
  <2> QED BY <1>1, <2>4, AskType DEF Upload, StartJob, TypeOK
<1>2. CASE ReadSession(p)
  <2>1. PICK chosen \in SUBSET Platform :
           Become(p, [Idle EXCEPT !.pc = "platforms", !.rev = rev, !.plats = chosen])
    BY <1>2 DEF ReadSession
  <2>2. [Idle EXCEPT !.pc = "platforms", !.rev = rev, !.plats = chosen] \in HandlerRecord
    BY DEF Idle, HandlerRecord, Steps, TaskStates, TypeOK
  <2>3. h' \in [Handler -> HandlerRecord]
    BY <2>1, <2>2, BecomeType
  <2> QED BY <1>2, <2>3, AskType DEF ReadSession, TypeOK, session
<1>3. ASSUME NEW m \in Mpn, Create(p, m) PROVE TypeOK'
  <2>1. [Idle EXCEPT !.pc = "load", !.mpns = {m}] \in HandlerRecord
    BY DEF Idle, HandlerRecord, Steps, TaskStates
  <2>2. h' \in [Handler -> HandlerRecord]
    BY <1>3, <2>1, BecomeType DEF Create
  <2>3. line' \in [Line -> SUBSET Mpn] /\ rev' \in Nat
    <3> DEFINE new == <<requests + 1, m>>
    <3>1. line' = [line EXCEPT ![new] = {m}]
      BY <1>3 DEF Create
    <3> HIDE DEF new
    <3>2. line' \in [Line -> SUBSET Mpn]
      BY <3>1 DEF TypeOK
    <3>3. rev' \in Nat
      BY <1>3 DEF Create, TypeOK
    <3> QED BY <3>2, <3>3
  <2>4. /\ requests' \in 0 .. MaxRequests /\ aborts' \in 0 .. MaxAborts
        /\ edited' \in BOOLEAN /\ unjudged' \in BOOLEAN
    BY <1>3, AskType DEF Create
  <2> QED BY <1>3, <2>2, <2>3, <2>4 DEF Create, TypeOK
<1>4. ASSUME NEW l \in Line, Delete(p, l) PROVE TypeOK'
  <2>1. [Idle EXCEPT !.pc = "delete", !.line = {l}, !.old = line[l]] \in HandlerRecord
    BY DEF Idle, HandlerRecord, Steps, TaskStates, TypeOK
  <2>2. h' \in [Handler -> HandlerRecord]
    BY <1>4, <2>1, BecomeType DEF Delete
  <2> QED BY <1>4, <2>2, AskType DEF Delete, TypeOK, session
<1>5. ASSUME NEW l \in Line, NEW m \in Mpn, Patch(p, l, m) PROVE TypeOK'
  <2>1. [Idle EXCEPT !.pc = "patch", !.line = {l}, !.old = line[l], !.mpns = {m}]
           \in HandlerRecord
    BY DEF Idle, HandlerRecord, Steps, TaskStates, TypeOK
  <2>2. h' \in [Handler -> HandlerRecord]
    BY <1>5, <2>1, BecomeType DEF Patch
  <2> QED BY <1>5, <2>2, AskType DEF Patch, TypeOK, session
<1>6. ASSUME NEW k \in Key, Retry(p, k) PROVE TypeOK'
  <2>1. [Idle EXCEPT !.pc = "retry", !.keys = {k}, !.read = task[k]] \in HandlerRecord
    BY DEF Idle, HandlerRecord, Steps, TaskStates, TypeOK
  <2>2. h' \in [Handler -> HandlerRecord]
    BY <1>6, <2>1, BecomeType DEF Retry
  <2> QED BY <1>6, <2>2, AskType DEF Retry, TypeOK, session
<1> QED BY <1>1, <1>2, <1>3, <1>4, <1>5, <1>6 DEF NewRequest

\* The steps of an import, and of a line that asks for its tasks, keep the types.
LEMMA ImportType ==
  ASSUME TypeOK, NEW p \in Handler, ImportStep(p)
  PROVE  TypeOK'
<1> DEFINE r == h[p]
<1>0. r \in HandlerRecord
  BY DEF TypeOK
<1>1. CASE Parse(p)
  <2>1. h' \in [Handler -> HandlerRecord]
    BY <1>1, GotoType DEF Parse, Steps
  <2> QED BY <1>1, <2>1 DEF Parse, Step, TypeOK
<1>2. CASE ReplaceRead(p)
  <2>1. [r EXCEPT !.pc = "replaceTx", !.rev = rev] \in HandlerRecord
    BY <1>0 DEF HandlerRecord, Steps, TypeOK
  <2>2. h' \in [Handler -> HandlerRecord]
    BY <1>2, <2>1, BecomeType DEF ReplaceRead
  <2> QED BY <1>2, <2>2 DEF ReplaceRead, Step, TypeOK, session
<1>3. CASE ReplaceTx(p)
  <2>1. h' \in [Handler -> HandlerRecord]
    BY <1>3, GotoType DEF ReplaceTx, Steps
  <2>2. line' \in [Line -> SUBSET Mpn]
    BY <1>3 DEF ReplaceTx, Line
  <2>3. rev' \in Nat
    BY <1>0, <1>3 DEF ReplaceTx, HandlerRecord
  <2> QED BY <1>3, <2>1, <2>2, <2>3 DEF ReplaceTx, Step, TypeOK
<1>4. CASE CancelAll(p)
  <2>1. h' \in [Handler -> HandlerRecord]
    BY <1>4, GotoType DEF CancelAll, Steps
  <2> QED BY <1>4, <2>1, CancelledType DEF CancelAll, Step, TypeOK, session
<1>5. CASE Load(p)
  <2>1. r.mpns \X platforms \in SUBSET Key
    BY <1>0 DEF HandlerRecord, Key, TypeOK
  <2>2. [r EXCEPT !.pc = "upsert", !.keys = r.mpns \X platforms] \in HandlerRecord
    BY <1>0, <2>1 DEF HandlerRecord, Steps
  <2>3. h' \in [Handler -> HandlerRecord]
    BY <1>5, <2>2, BecomeType DEF Load
  <2> QED BY <1>5, <2>3 DEF Load, Step, TypeOK, session
<1>6. CASE Upsert(p)
  <2>1. PICK k \in r.keys : /\ task' = [task EXCEPT ![k] = "pending"]
                            /\ Become(p, [r EXCEPT !.keys = @ \ {k}])
    BY <1>6 DEF Upsert
  <2>2. [r EXCEPT !.keys = @ \ {k}] \in HandlerRecord
    BY <1>0 DEF HandlerRecord
  <2>3. h' \in [Handler -> HandlerRecord]
    BY <2>1, <2>2, BecomeType
  <2>4. task' \in [Key -> TaskStates]
    BY <2>1 DEF TypeOK, TaskStates
  <2> QED BY <1>6, <2>3, <2>4 DEF Upsert, Step, TypeOK, session
<1>7. CASE Asked(p)
  BY <1>7, DoneType DEF Asked, Step, TypeOK
<1> QED BY <1>1, <1>2, <1>3, <1>4, <1>5, <1>6, <1>7 DEF ImportStep

\* So do the steps of edits and retries.
LEMMA EditType ==
  ASSUME TypeOK, NEW p \in Handler, EditStep(p)
  PROVE  TypeOK'
<1> DEFINE r == h[p]
<1>0. r \in HandlerRecord
  BY DEF TypeOK
<1>1. CASE PatchRead(p)
  <2>1. [r EXCEPT !.pc = "patchTx", !.rev = rev] \in HandlerRecord
    BY <1>0 DEF HandlerRecord, Steps, TypeOK
  <2>2. h' \in [Handler -> HandlerRecord]
    BY <1>1, <2>1, BecomeType, DoneType DEF PatchRead
  <2> QED BY <1>1, <2>2 DEF PatchRead, Step, TypeOK, session
<1>2. CASE PatchTx(p)
  <2>1. h' \in [Handler -> HandlerRecord]
    BY <1>2, GotoType, DoneType DEF PatchTx, Steps
  <2>2. line' \in [Line -> SUBSET Mpn] /\ rev' \in Nat
    BY <1>0, <1>2 DEF PatchTx, HandlerRecord, TypeOK
  <2> QED BY <1>2, <2>1, <2>2 DEF PatchTx, Step, TypeOK
<1>3. CASE Patched(p)
  <2>1. r.mpns \X platforms \in SUBSET Key
    BY <1>0 DEF HandlerRecord, Key, TypeOK
  <2>2. [r EXCEPT !.pc = "cancelOld", !.keys = r.mpns \X platforms] \in HandlerRecord
    BY <1>0, <2>1 DEF HandlerRecord, Steps
  <2>3. h' \in [Handler -> HandlerRecord]
    BY <1>3, <2>2, BecomeType DEF Patched
  <2> QED BY <1>3, <2>3 DEF Patched, Step, TypeOK, session
<1>4. CASE CancelOld(p)
  <2>1. h' \in [Handler -> HandlerRecord]
    BY <1>4, GotoType DEF CancelOld, Steps
  <2> QED BY <1>4, <2>1, CancelledType DEF CancelOld, Step, TypeOK, session
<1>5. CASE DeleteCancel(p)
  <2>1. h' \in [Handler -> HandlerRecord]
    BY <1>5, GotoType DEF DeleteCancel, Steps
  <2> QED BY <1>5, <2>1, CancelledType DEF DeleteCancel, Step, TypeOK, session
<1>6. CASE DeleteRead(p)
  <2>1. [r EXCEPT !.pc = "deleteTx", !.rev = rev] \in HandlerRecord
    BY <1>0 DEF HandlerRecord, Steps, TypeOK
  <2>2. h' \in [Handler -> HandlerRecord]
    BY <1>6, <2>1, BecomeType, DoneType DEF DeleteRead
  <2> QED BY <1>6, <2>2 DEF DeleteRead, Step, TypeOK, session
<1>7. CASE DeleteTx(p)
  <2>1. h' \in [Handler -> HandlerRecord]
    BY <1>7, DoneType DEF DeleteTx
  <2>2. line' \in [Line -> SUBSET Mpn] /\ rev' \in Nat
    BY <1>0, <1>7 DEF DeleteTx, HandlerRecord, TypeOK
  <2> QED BY <1>7, <2>1, <2>2 DEF DeleteTx, Step, TypeOK
<1>8. CASE PutPlatforms(p)
  <2>1. h' \in [Handler -> HandlerRecord]
    BY <1>8, DoneType DEF PutPlatforms
  <2>2. platforms' \in SUBSET Platform /\ rev' \in Nat
    BY <1>0, <1>8 DEF PutPlatforms, HandlerRecord, TypeOK
  <2> QED BY <1>8, <2>1, <2>2 DEF PutPlatforms, Step, TypeOK
<1>9. CASE RetryDecide(p)
  <2>1. h' \in [Handler -> HandlerRecord]
    BY <1>9, DoneType DEF RetryDecide
  <2>2. task' \in [Key -> TaskStates]
    BY <1>9 DEF RetryDecide, TypeOK, TaskStates
  <2> QED BY <1>9, <2>1, <2>2 DEF RetryDecide, Step, TypeOK, session
<1> QED BY <1>1, <1>2, <1>3, <1>4, <1>5, <1>6, <1>7, <1>8, <1>9 DEF EditStep

\* So do results and the readiness evaluation.
LEMMA ReadyType ==
  ASSUME TypeOK, MarkOK, NEW p \in Handler,
         ReadyStep(p) \/ JobFails(p) \/ Abort(p) \/ \E k \in Key : TaskEnds(p, k)
  PROVE  TypeOK'
<1> DEFINE r == h[p]
<1>0. r \in HandlerRecord
  BY DEF TypeOK
<1>1. CASE ViewSession(p)
  <2>1. [r EXCEPT !.pc = "lines", !.plats = platforms] \in HandlerRecord
    BY <1>0 DEF HandlerRecord, Steps, TypeOK
  <2>2. h' \in [Handler -> HandlerRecord]
    BY <1>1, <2>1, BecomeType DEF ViewSession
  <2> QED BY <1>1, <2>2 DEF ViewSession, Step, TypeOK, session
<1>2. CASE ListLines(p)
  <2>1. [r EXCEPT !.pc = "tasks", !.mpns = Mpns] \in HandlerRecord
    BY <1>0, MpnsType DEF HandlerRecord, Steps
  <2>2. h' \in [Handler -> HandlerRecord]
    BY <1>2, <2>1, BecomeType DEF ListLines
  <2> QED BY <1>2, <2>2 DEF ListLines, Step, TypeOK, session
<1>3. CASE Judge(p)
  <2>1. Verdict(r.mpns, r.plats) \in ReadyStates
    BY DEF Verdict, ReadyStates
  <2>2. [Idle EXCEPT !.pc = "mark", !.read = Verdict(r.mpns, r.plats)] \in HandlerRecord
    BY <2>1 DEF Idle, HandlerRecord, Steps, ReadyStates
  <2>3. h' \in [Handler -> HandlerRecord]
    BY <1>3, <2>2, BecomeType, DoneType DEF Judge
  <2> QED BY <1>3, <2>3 DEF Judge, Step, TypeOK, session
<1>4. CASE Mark(p)
  <2>1. status' \in ReadyStates
    BY <1>4 DEF Mark, Step, MarkOK
  <2> QED BY <1>4, <2>1, DoneType DEF Mark, Step, TypeOK
<1>5. CASE JobFails(p)
  BY <1>5, DoneType DEF JobFails, TypeOK
<1>6. CASE Abort(p)
  <2>1. aborts' \in 0 .. MaxAborts
    BY <1>6, SessionAssumption DEF Abort, TypeOK
  <2> QED BY <1>6, <2>1, DoneType DEF Abort, TypeOK, session
<1>7. ASSUME NEW k \in Key, TaskEnds(p, k) PROVE TypeOK'
  <2>1. h' \in [Handler -> HandlerRecord]
    BY <1>7, GotoType DEF TaskEnds, Steps
  <2>2. task' \in [Key -> TaskStates]
    BY <1>7 DEF TaskEnds, Outcomes, TaskStates, TypeOK
  <2> QED BY <1>7, <2>1, <2>2 DEF TaskEnds, Step, TypeOK, session
<1> QED BY <1>1, <1>2, <1>3, <1>4, <1>5, <1>6, <1>7 DEF ReadyStep

\* What becomes of a handler's record.
LEMMA BecomeAt ==
  ASSUME TypeOK, NEW p \in Handler, NEW rec, Become(p, rec)
  PROVE  h'[p] = rec
BY DEF Become, TypeOK

LEMMA GotoAt ==
  ASSUME TypeOK, NEW p \in Handler, NEW pc, Goto(p, pc)
  PROVE  h'[p] = [h[p] EXCEPT !.pc = pc]
BY DEF Goto, TypeOK

LEMMA GotoPc ==
  ASSUME TypeOK, NEW p \in Handler, NEW pc, Goto(p, pc)
  PROVE  h'[p].pc = pc
<1>1. h[p] \in HandlerRecord
  BY DEF TypeOK
<1>2. h'[p] = [h[p] EXCEPT !.pc = pc]
  BY GotoAt
<1> QED BY <1>1, <1>2 DEF HandlerRecord

LEMMA DoneAt ==
  ASSUME TypeOK, NEW p \in Handler, Done(p)
  PROVE  h'[p] = Idle
BY BecomeAt DEF Done

\* The other handlers stay where they are.
LEMMA BecomeOthers ==
  ASSUME TypeOK, NEW p \in Handler, NEW rec, Become(p, rec), NEW q \in Handler, q # p
  PROVE  h'[q] = h[q]
BY DEF Become, TypeOK

LEMMA GotoOthers ==
  ASSUME TypeOK, NEW p \in Handler, NEW pc, Goto(p, pc), NEW q \in Handler, q # p
  PROVE  h'[q] = h[q]
BY DEF Goto, TypeOK

LEMMA DoneOthers ==
  ASSUME TypeOK, NEW p \in Handler, Done(p), NEW q \in Handler, q # p
  PROVE  h'[q] = h[q]
BY BecomeOthers DEF Done

\* Whatever a handler does, the others do nothing.
LEMMA Others ==
  ASSUME TypeOK, NEW p \in Handler, NEW q \in Handler, q # p,
         \/ NewRequest(p) \/ HandlerStep(p) \/ JobFails(p) \/ Abort(p)
         \/ \E k \in Key : TaskEnds(p, k)
  PROVE  h'[q] = h[q]
<1>1. CASE Upload(p)
  BY <1>1, BecomeOthers DEF Upload, StartJob
<1>2. CASE ReadSession(p)
  BY <1>2, BecomeOthers DEF ReadSession
<1>3. CASE \E m \in Mpn : Create(p, m)
  BY <1>3, BecomeOthers DEF Create
<1>4. CASE \E l \in Line : Delete(p, l)
  BY <1>4, BecomeOthers DEF Delete
<1>5. CASE \E l \in Line, m \in Mpn : Patch(p, l, m)
  BY <1>5, BecomeOthers DEF Patch
<1>6. CASE \E k \in Key : Retry(p, k)
  BY <1>6, BecomeOthers DEF Retry
<1>7. CASE Parse(p) \/ ReplaceTx(p) \/ CancelAll(p) \/ CancelOld(p) \/ DeleteCancel(p)
  BY <1>7, GotoOthers DEF Parse, ReplaceTx, CancelAll, CancelOld, DeleteCancel
<1>8. CASE ReplaceRead(p) \/ Load(p) \/ Patched(p) \/ ViewSession(p) \/ ListLines(p)
  BY <1>8, BecomeOthers DEF ReplaceRead, Load, Patched, ViewSession, ListLines
<1>9. CASE Upsert(p)
  BY <1>9, BecomeOthers DEF Upsert
<1>10. CASE Asked(p) \/ DeleteTx(p) \/ PutPlatforms(p) \/ RetryDecide(p)
            \/ Mark(p) \/ JobFails(p) \/ Abort(p)
  BY <1>10, DoneOthers DEF Asked, DeleteTx, PutPlatforms, RetryDecide, Mark, JobFails, Abort
<1>11. CASE PatchRead(p)
  BY <1>11, BecomeOthers, DoneOthers DEF PatchRead
<1>12. CASE PatchTx(p)
  BY <1>12, GotoOthers, DoneOthers DEF PatchTx
<1>13. CASE DeleteRead(p)
  BY <1>13, BecomeOthers, DoneOthers DEF DeleteRead
<1>14. CASE Judge(p)
  BY <1>14, BecomeOthers, DoneOthers DEF Judge
<1>15. CASE \E k \in Key : TaskEnds(p, k)
  BY <1>15, GotoOthers DEF TaskEnds
<1> QED BY <1>1, <1>2, <1>3, <1>4, <1>5, <1>6, <1>7, <1>8, <1>9, <1>10, <1>11, <1>12,
           <1>13, <1>14, <1>15 DEF NewRequest, HandlerStep, ImportStep, EditStep, ReadyStep

\* The record a request begins with.
LEMMA UploadAt ==
  ASSUME TypeOK, NEW p \in Handler, Upload(p)
  PROVE  h'[p].pc = "parse"
BY BecomeAt DEF Upload, StartJob, Idle

LEMMA PlatformsAt ==
  ASSUME TypeOK, NEW p \in Handler, ReadSession(p)
  PROVE  h'[p].pc = "platforms" /\ ~h'[p].job
<1>1. PICK chosen \in SUBSET Platform :
         h'[p] = [Idle EXCEPT !.pc = "platforms", !.rev = rev, !.plats = chosen]
  BY BecomeAt DEF ReadSession
<1> QED BY <1>1 DEF Idle

LEMMA CreateAt ==
  ASSUME TypeOK, NEW p \in Handler, NEW m \in Mpn, Create(p, m)
  PROVE  h'[p].pc = "load" /\ ~h'[p].job
<1>1. h'[p] = [Idle EXCEPT !.pc = "load", !.mpns = {m}]
  BY BecomeAt DEF Create
<1> QED BY <1>1 DEF Idle

LEMMA DeleteAt ==
  ASSUME TypeOK, NEW p \in Handler, NEW l \in Line, Delete(p, l)
  PROVE  h'[p].pc = "delete" /\ ~h'[p].job
<1>1. h'[p] = [Idle EXCEPT !.pc = "delete", !.line = {l}, !.old = line[l]]
  BY BecomeAt DEF Delete
<1> QED BY <1>1 DEF Idle

LEMMA PatchAt ==
  ASSUME TypeOK, NEW p \in Handler, NEW l \in Line, NEW m \in Mpn, Patch(p, l, m)
  PROVE  h'[p].pc = "patch" /\ ~h'[p].job
<1>1. h'[p] = [Idle EXCEPT !.pc = "patch", !.line = {l}, !.old = line[l], !.mpns = {m}]
  BY BecomeAt DEF Patch
<1> QED BY <1>1 DEF Idle

LEMMA RetryAt ==
  ASSUME TypeOK, NEW p \in Handler, NEW k \in Key, Retry(p, k)
  PROVE  h'[p].pc = "retry" /\ ~h'[p].job
<1>1. h'[p] = [Idle EXCEPT !.pc = "retry", !.keys = {k}, !.read = task[k]]
  BY BecomeAt DEF Retry
<1> QED BY <1>1 DEF Idle

\* Where a request begins.
LEMMA RequestPc ==
  ASSUME TypeOK, NEW p \in Handler, NewRequest(p)
  PROVE  h'[p].pc \in {"parse", "platforms", "load", "delete", "patch", "retry"}
BY UploadAt, PlatformsAt, CreateAt, DeleteAt, PatchAt, RetryAt DEF NewRequest

\* The record a handler goes on with after it has read something.
LEMMA ReplaceReadAt ==
  ASSUME TypeOK, NEW p \in Handler, ReplaceRead(p)
  PROVE  h'[p].pc = "replaceTx" /\ h'[p].job = h[p].job
<1>1. h'[p] = [h[p] EXCEPT !.pc = "replaceTx", !.rev = rev]
  BY BecomeAt DEF ReplaceRead
<1>2. h[p] \in HandlerRecord
  BY DEF TypeOK
<1> QED BY <1>1, <1>2 DEF HandlerRecord

LEMMA LoadAt ==
  ASSUME TypeOK, NEW p \in Handler, Load(p)
  PROVE  h'[p].pc = "upsert" /\ h'[p].job = h[p].job
<1>1. h'[p] = [h[p] EXCEPT !.pc = "upsert", !.keys = h[p].mpns \X platforms]
  BY BecomeAt DEF Load
<1>2. h[p] \in HandlerRecord
  BY DEF TypeOK
<1> QED BY <1>1, <1>2 DEF HandlerRecord

LEMMA PatchedAt ==
  ASSUME TypeOK, NEW p \in Handler, Patched(p)
  PROVE  h'[p].pc = "cancelOld" /\ h'[p].job = h[p].job
<1>1. h'[p] = [h[p] EXCEPT !.pc = "cancelOld", !.keys = h[p].mpns \X platforms]
  BY BecomeAt DEF Patched
<1>2. h[p] \in HandlerRecord
  BY DEF TypeOK
<1> QED BY <1>1, <1>2 DEF HandlerRecord

LEMMA PatchReadAt ==
  ASSUME TypeOK, NEW p \in Handler, PatchRead(p), ~Done(p)
  PROVE  h'[p].pc = "patchTx" /\ h'[p].job = h[p].job
<1>1. h'[p] = [h[p] EXCEPT !.pc = "patchTx", !.rev = rev]
  BY BecomeAt DEF PatchRead
<1>2. h[p] \in HandlerRecord
  BY DEF TypeOK
<1> QED BY <1>1, <1>2 DEF HandlerRecord

LEMMA DeleteReadAt ==
  ASSUME TypeOK, NEW p \in Handler, DeleteRead(p), ~Done(p)
  PROVE  h'[p].pc = "deleteTx" /\ h'[p].job = h[p].job
<1>1. h'[p] = [h[p] EXCEPT !.pc = "deleteTx", !.rev = rev]
  BY BecomeAt DEF DeleteRead
<1>2. h[p] \in HandlerRecord
  BY DEF TypeOK
<1> QED BY <1>1, <1>2 DEF HandlerRecord

LEMMA ViewAt ==
  ASSUME TypeOK, NEW p \in Handler, ViewSession(p)
  PROVE  h'[p].pc = "lines" /\ h'[p].plats = platforms /\ h'[p].job = h[p].job
<1>1. h'[p] = [h[p] EXCEPT !.pc = "lines", !.plats = platforms]
  BY BecomeAt DEF ViewSession
<1>2. h[p] \in HandlerRecord
  BY DEF TypeOK
<1> QED BY <1>1, <1>2 DEF HandlerRecord

LEMMA ListAt ==
  ASSUME TypeOK, NEW p \in Handler, ListLines(p)
  PROVE  /\ h'[p].pc = "tasks" /\ h'[p].mpns = Mpns
         /\ h'[p].plats = h[p].plats /\ h'[p].job = h[p].job
<1>1. h'[p] = [h[p] EXCEPT !.pc = "tasks", !.mpns = Mpns]
  BY BecomeAt DEF ListLines
<1>2. h[p] \in HandlerRecord
  BY DEF TypeOK
<1> QED BY <1>1, <1>2 DEF HandlerRecord

LEMMA JudgeAt ==
  ASSUME TypeOK, NEW p \in Handler, Judge(p), ~Done(p)
  PROVE  /\ h'[p].pc = "mark" /\ ~h'[p].job
         /\ h'[p].read = Verdict(h[p].mpns, h[p].plats)
<1>1. h'[p] = [Idle EXCEPT !.pc = "mark", !.read = Verdict(h[p].mpns, h[p].plats)]
  BY BecomeAt DEF Judge
<1> QED BY <1>1 DEF Idle

LEMMA UpsertAt ==
  ASSUME TypeOK, NEW p \in Handler, Upsert(p)
  PROVE  h'[p].pc = "upsert" /\ h'[p].job = h[p].job
<1>1. PICK k \in h[p].keys : Become(p, [h[p] EXCEPT !.keys = @ \ {k}])
  BY DEF Upsert
<1>2. h'[p] = [h[p] EXCEPT !.keys = @ \ {k}]
  BY <1>1, BecomeAt
<1>3. h[p] \in HandlerRecord /\ h[p].pc = "upsert"
  BY DEF TypeOK, Upsert, Step, At
<1> QED BY <1>2, <1>3 DEF HandlerRecord

\* Imports and edits never lead a handler to a step of the readiness evaluation.
LEMMA StepPc ==
  ASSUME TypeOK, NEW p \in Handler, ImportStep(p) \/ EditStep(p)
  PROVE  h'[p].pc \in Steps \ {"view", "lines", "tasks", "mark"}
<1>1. CASE Parse(p) \/ ReplaceTx(p) \/ CancelAll(p) \/ CancelOld(p) \/ DeleteCancel(p)
           \/ (PatchTx(p) /\ ~Done(p))
  BY <1>1, GotoPc DEF Parse, ReplaceTx, CancelAll, CancelOld, DeleteCancel, PatchTx, Steps
<1>2. CASE Done(p)
  BY <1>2, DoneAt DEF Idle, Steps
<1>3. CASE \/ ReplaceRead(p) \/ Load(p) \/ Upsert(p) \/ Patched(p)
           \/ ~Done(p) /\ (PatchRead(p) \/ DeleteRead(p))
  BY <1>3, ReplaceReadAt, LoadAt, UpsertAt, PatchedAt, PatchReadAt, DeleteReadAt DEF Steps
<1> QED BY <1>1, <1>2, <1>3
        DEF ImportStep, EditStep, Asked, DeleteTx, PutPlatforms, RetryDecide

\* A verdict is only written after Judge has reached it.
LEMMA MarkStep == TypeOK /\ MarkOK /\ [Next]_vars => MarkOK'
<1> SUFFICES ASSUME TypeOK, MarkOK, [Next]_vars PROVE MarkOK'
  OBVIOUS
<1>1. CASE UNCHANGED vars
  BY <1>1 DEF vars, MarkOK, At
<1>2. ASSUME NEW p \in Handler,
             \/ NewRequest(p) \/ HandlerStep(p) \/ JobFails(p) \/ Abort(p)
             \/ \E k \in Key : TaskEnds(p, k)
      PROVE  MarkOK'
  <2>1. CASE NewRequest(p)
    BY <2>1, RequestPc, Others DEF MarkOK, At
  <2>2. CASE ImportStep(p) \/ EditStep(p)
    BY <1>2, <2>2, StepPc, Others DEF MarkOK, At
  <2>3. CASE ViewSession(p)
    <3>1. h'[p].pc = "lines"
      BY <2>3, ViewAt
    <3> QED BY <1>2, <3>1, Others DEF MarkOK, At
  <2>4. CASE ListLines(p)
    <3>1. h'[p].pc = "tasks"
      BY <2>4, ListAt
    <3> QED BY <1>2, <3>1, Others DEF MarkOK, At
  <2>5. CASE Done(p)
    <3>1. h'[p].pc = "idle"
      BY <2>5, DoneAt DEF Idle
    <3> QED BY <1>2, <3>1, Others DEF MarkOK, At
  <2>6. CASE Judge(p) /\ ~Done(p)
    <3>1. Verdict(h[p].mpns, h[p].plats) \in ReadyStates
      BY DEF Verdict, ReadyStates
    <3>2. h'[p].read \in ReadyStates
      BY <2>6, <3>1, JudgeAt
    <3> QED BY <1>2, <3>2, Others DEF MarkOK, At
  <2>7. CASE \E k \in Key : TaskEnds(p, k)
    <3>1. h'[p].pc = "view"
      BY <2>7, GotoPc DEF TaskEnds
    <3> QED BY <1>2, <3>1, Others DEF MarkOK, At
  <2> QED BY <1>2, <2>1, <2>2, <2>3, <2>4, <2>5, <2>6, <2>7
          DEF HandlerStep, ReadyStep, Mark, JobFails, Abort
<1>3. ASSUME NEW k \in Key, TaskGivenUp(k) PROVE MarkOK'
  BY <1>3 DEF TaskGivenUp, MarkOK, At
<1> QED BY <1>1, <1>2, <1>3 DEF Next

\* Every step keeps the types.
LEMMA TypeStep == TypeOK /\ MarkOK /\ [Next]_vars => TypeOK'
<1> SUFFICES ASSUME TypeOK, MarkOK, [Next]_vars PROVE TypeOK'
  OBVIOUS
<1>1. CASE UNCHANGED vars
  BY <1>1 DEF vars, TypeOK
<1>2. ASSUME NEW k \in Key, TaskGivenUp(k) PROVE TypeOK'
  <2>1. task' \in [Key -> TaskStates]
    BY <1>2 DEF TaskGivenUp, TypeOK, TaskStates
  <2> QED BY <1>2, <2>1 DEF TaskGivenUp, TypeOK, session
<1> QED BY <1>1, <1>2, RequestType, ImportType, EditType, ReadyType DEF Next, HandlerStep

\* The session as CreateSession leaves it has the types, and nobody has a verdict.
LEMMA TypeInit == Init => TypeOK /\ MarkOK
<1> SUFFICES ASSUME Init PROVE TypeOK /\ MarkOK
  OBVIOUS
<1>1. h \in [Handler -> HandlerRecord] /\ MarkOK
  BY IdleRecord DEF Init, MarkOK, At, Idle
<1>2. edited \in BOOLEAN /\ unjudged \in BOOLEAN
  BY DEF Init
<1>3. task \in [Key -> TaskStates] /\ line \in [Line -> SUBSET Mpn]
  BY DEF Init, TaskStates
<1> QED BY <1>1, <1>2, <1>3, SessionAssumption DEF Init, TypeOK

\* The columns of a session and its handlers always hold values of their types.
THEOREM TypeCorrectness == Spec => []TypeOK
<1>1. TypeOK /\ MarkOK /\ [Next]_vars => (TypeOK /\ MarkOK)'
  BY TypeStep, MarkStep
<1> QED BY <1>1, TypeInit, PTL DEF Spec

-----------------------------------------------------------------------------
(* Imports of one session exclude each other *)

\* Only an upload makes a handler an import job.
LEMMA JobKept ==
  ASSUME TypeOK, NEW p \in Handler,
         \/ NewRequest(p) /\ ~Upload(p)
         \/ HandlerStep(p) \/ JobFails(p) \/ Abort(p) \/ \E k \in Key : TaskEnds(p, k)
  PROVE  h'[p].job => h[p].job
<1>0. h[p] \in HandlerRecord
  BY DEF TypeOK
<1>1. CASE NewRequest(p) /\ ~Upload(p)
  BY <1>1, PlatformsAt, CreateAt, DeleteAt, PatchAt, RetryAt DEF NewRequest
<1>2. CASE Done(p)
  BY <1>2, DoneAt DEF Idle
<1>3. ASSUME NEW pc, Goto(p, pc) PROVE h'[p].job = h[p].job
  BY <1>0, <1>3, GotoAt DEF HandlerRecord
<1>4. CASE Parse(p) \/ ReplaceTx(p) \/ CancelAll(p) \/ CancelOld(p) \/ DeleteCancel(p)
           \/ (PatchTx(p) /\ ~Done(p)) \/ \E k \in Key : TaskEnds(p, k)
  BY <1>3, <1>4 DEF Parse, ReplaceTx, CancelAll, CancelOld, DeleteCancel, PatchTx, TaskEnds
<1>5. CASE \/ ReplaceRead(p) \/ Load(p) \/ Upsert(p) \/ Patched(p) \/ ViewSession(p) \/ ListLines(p)
           \/ ~Done(p) /\ (PatchRead(p) \/ DeleteRead(p) \/ Judge(p))
  BY <1>5, ReplaceReadAt, LoadAt, UpsertAt, PatchedAt, ViewAt, ListAt, PatchReadAt, DeleteReadAt,
     JudgeAt
<1> QED BY <1>1, <1>2, <1>4, <1>5
        DEF HandlerStep, ImportStep, EditStep, ReadyStep, Asked, DeleteTx, PutPlatforms,
            RetryDecide, Mark, JobFails, Abort

\* The import status is written by uploads, and by import jobs: while they go on
\* it says so, and when it says something else the job is over.
LEMMA ImportStatusStep ==
  ASSUME TypeOK, NEW p \in Handler,
         \/ NewRequest(p) \/ HandlerStep(p) \/ JobFails(p) \/ Abort(p)
         \/ \E k \in Key : TaskEnds(p, k)
  PROVE  \/ importStatus' = importStatus
         \/ importStatus' = "parsing"
         \/ h[p].job /\ ~h'[p].job
<1>1. CASE NewRequest(p)
  BY <1>1 DEF NewRequest, Upload, StartJob, ReadSession, Create, Delete, Patch, Retry, session
<1>2. CASE Asked(p) \/ JobFails(p)
  <2>1. ~h'[p].job
    BY <1>2, DoneAt DEF Asked, JobFails, Idle
  <2> QED BY <1>2, <2>1 DEF Asked, JobFails
<1>3. CASE ImportStep(p) /\ ~Asked(p)
  BY <1>3 DEF ImportStep, Parse, ReplaceRead, ReplaceTx, CancelAll, Load, Upsert, session
<1>4. CASE EditStep(p)
  BY <1>4 DEF EditStep, PatchRead, PatchTx, Patched, CancelOld, DeleteCancel, DeleteRead,
              DeleteTx, PutPlatforms, RetryDecide, session
<1>5. CASE ReadyStep(p) \/ Abort(p) \/ \E k \in Key : TaskEnds(p, k)
  BY <1>5 DEF ReadyStep, ViewSession, ListLines, Judge, Mark, Abort, TaskEnds, session
<1> QED BY <1>1, <1>2, <1>3, <1>4, <1>5 DEF HandlerStep

\* Every step keeps the exclusion of imports.
LEMMA OneImportStep == TypeOK /\ OneImport /\ [Next]_vars => OneImport'
<1> SUFFICES ASSUME TypeOK, OneImport, [Next]_vars PROVE OneImport'
  OBVIOUS
<1>1. CASE UNCHANGED vars
  BY <1>1 DEF vars, OneImport
<1>2. ASSUME NEW p \in Handler,
             \/ NewRequest(p) \/ HandlerStep(p) \/ JobFails(p) \/ Abort(p)
             \/ \E k \in Key : TaskEnds(p, k)
      PROVE  OneImport'
  <2>1. \A q \in Handler : q # p => h'[q] = h[q]
    BY <1>2, Others
  <2>2. CASE Upload(p)
    <3>1. \A q \in Handler : ~h[q].job
      BY <2>2 DEF Upload, OneImport
    <3>2. importStatus' = "parsing"
      BY <2>2 DEF Upload, StartJob
    <3> QED BY <2>1, <3>1, <3>2 DEF OneImport
  <2>3. CASE ~Upload(p)
    <3>1. h'[p].job => h[p].job
      BY <1>2, <2>3, JobKept
    <3>2. \/ importStatus' = importStatus
          \/ importStatus' = "parsing"
          \/ h[p].job /\ ~h'[p].job
      BY <1>2, ImportStatusStep
    <3> QED BY <2>1, <3>1, <3>2 DEF OneImport
  <2> QED BY <2>2, <2>3
<1>3. ASSUME NEW k \in Key, TaskGivenUp(k) PROVE OneImport'
  BY <1>3 DEF TaskGivenUp, OneImport, session
<1> QED BY <1>1, <1>2, <1>3 DEF Next

\* At most one import of a session runs at any time, and until it ends the session
\* is in the import status that makes every other upload be refused.
THEOREM ImportsExclude == Spec => []OneImport
<1>1. Init => OneImport
  BY DEF Init, OneImport, Idle
<1>2. TypeOK /\ OneImport /\ [Next]_vars => OneImport'
  BY OneImportStep
<1> QED BY <1>1, <1>2, TypeCorrectness, PTL DEF Spec

-----------------------------------------------------------------------------
(* Readiness of a session with one request *)

\* What a step may change is only where its handler is: it comes to an end, and
\* all that First says of it says nothing of an idle handler.
LEMMA FirstDone ==
  ASSUME TypeOK, First, NEW p \in Handler, Done(p),
         \A q \in Handler : q # p => h'[q] = h[q],
         UNCHANGED <<status, platforms, line, task, requests>>
  PROVE  First'
<1>1. h'[p].pc = "idle"
  BY DoneAt DEF Idle
<1>2. Mpns' = Mpns
  BY DEF Mpns
<1>3. (requests = 0 =>
          Untouched /\ (\A l \in Line : line[l] = {}) /\ \A q \in Handler : At(q, "idle"))'
  BY <1>1 DEF First, Untouched, Judging, At
<1>4. (\A q \in Handler : ~Editing(q))'
  BY <1>1 DEF First, Editing
<1>5. (\A q \in Handler : Early(q) =>
          Untouched /\ \A q2 \in Handler : q2 # q => At(q2, "idle"))'
  BY <1>1 DEF First, Early, Untouched, Judging, At
<1>6. (\A q, q2 \in Handler : At(q, "upsert") /\ At(q2, "upsert") => q = q2)'
  BY <1>1 DEF First, At
<1>7. (\A q \in Handler : At(q, "upsert") => \A k \in h[q].keys : task[k] = "absent")'
  BY <1>1 DEF First, At
<1>8. (\A q \in Handler : h[q].pc \in {"lines", "tasks"} => h[q].plats = platforms)'
  BY <1>1 DEF First
<1>9. (\A q \in Handler : At(q, "tasks") => h[q].mpns = Mpns)'
  BY <1>1, <1>2 DEF First, At
<1>10. (\A q \in Handler : At(q, "mark") => LenientReady(Mpns, platforms))'
  BY <1>1, <1>2 DEF First, At, LenientReady
<1>11. (status \in ReadyStates => LenientReady(Mpns, platforms))'
  BY <1>2 DEF First, LenientReady
<1> QED BY <1>3, <1>4, <1>5, <1>6, <1>7, <1>8, <1>9, <1>10, <1>11 DEF First

\* As long as nothing has been asked for and nobody judges the session, First only
\* asks of the one handler in progress not to edit a line, and if it is about to
\* ask for tasks, nothing else.
LEMMA FirstUntouched ==
  ASSUME TypeOK', NEW p \in Handler,
         Untouched', requests' # 0, ~Editing(p)',
         \A q \in Handler : q # p => h'[q].pc = "idle"
  PROVE  First'
<1>1. \A q \in Handler : h'[q].pc \notin {"view", "lines", "tasks", "mark"}
  BY DEF Untouched, Judging
<1>2. (\A q \in Handler : ~Editing(q))'
  BY DEF Editing
<1>3. (\A q \in Handler : Early(q) =>
          Untouched /\ \A q2 \in Handler : q2 # q => At(q2, "idle"))'
  BY DEF Early, At
<1>4. (\A q, q2 \in Handler : At(q, "upsert") /\ At(q2, "upsert") => q = q2)'
  BY DEF At
<1>5. (\A q \in Handler : At(q, "upsert") => \A k \in h[q].keys : task[k] = "absent")'
  <2>1. \A q \in Handler : h'[q].keys \in SUBSET Key
    BY DEF TypeOK, HandlerRecord
  <2> QED BY <2>1 DEF Untouched
<1>6. status' \notin ReadyStates
  BY DEF Untouched
<1> QED BY <1>1, <1>2, <1>3, <1>4, <1>5, <1>6 DEF First, At

\* A first request finds nothing to edit; what it is going to ask for does not
\* exist yet.
LEMMA FirstRequest ==
  ASSUME TypeOK, TypeOK', First, requests = 0, NEW p \in Handler, NewRequest(p)
  PROVE  First'
<1>1. /\ Untouched /\ (\A l \in Line : line[l] = {})
      /\ \A q \in Handler : q # p => h'[q].pc = "idle"
  BY Others DEF First, At
<1>2. UNCHANGED <<status, task>> /\ requests' # 0
  <2>1. UNCHANGED <<status, task>>
    BY DEF NewRequest, Upload, StartJob, ReadSession, Create, Delete, Patch, Retry, session
  <2>2. requests' = requests + 1
    BY DEF NewRequest, Upload, StartJob, ReadSession, Create, Delete, Patch, Retry, Ask
  <2> QED BY <2>1, <2>2
<1>3. h'[p].pc \in {"parse", "platforms", "load", "retry"}
  <2>1. \A l \in Line : ~Delete(p, l) /\ \A m \in Mpn : ~Patch(p, l, m)
    BY <1>1 DEF Delete, Patch
  <2> QED BY <2>1, UploadAt, PlatformsAt, CreateAt, RetryAt DEF NewRequest
<1>4. Untouched'
  BY <1>1, <1>2, <1>3 DEF Untouched, Judging
<1> QED BY <1>1, <1>2, <1>3, <1>4, FirstUntouched DEF Editing

\* The steps before the first request asks for its tasks leave the session
\* untouched; Load computes what it asks for.
LEMMA FirstEarly ==
  ASSUME TypeOK, TypeOK', First, NEW p \in Handler, Early(p),
         ImportStep(p) \/ PutPlatforms(p)
  PROVE  First'
<1>1. requests # 0 /\ Untouched /\ \A q \in Handler : q # p => h'[q].pc = "idle"
  BY Others DEF First, At, Early, HandlerStep, EditStep
<1>2. requests' = requests
  BY DEF ImportStep, Parse, ReplaceRead, ReplaceTx, CancelAll, Load, Upsert, Asked,
         PutPlatforms, Step
<1>3. h'[p].pc \in {"replace", "replaceTx", "cancelAll", "load", "upsert", "idle"}
  <2>1. CASE Parse(p) \/ ReplaceTx(p) \/ CancelAll(p)
    BY <2>1, GotoPc DEF Parse, ReplaceTx, CancelAll
  <2>2. CASE ReplaceRead(p)
    BY <2>2, ReplaceReadAt
  <2>3. CASE Load(p)
    BY <2>3, LoadAt
  <2>4. CASE PutPlatforms(p)
    BY <2>4, DoneAt DEF PutPlatforms, Idle
  <2> QED BY <2>1, <2>2, <2>3, <2>4 DEF Early, ImportStep, Upsert, Asked, Step, At
<1>4. \A k \in Key : task'[k] = "absent"
  <2>1. CASE CancelAll(p)
    BY <1>1, <2>1 DEF CancelAll, Cancelled, Untouched
  <2>2. CASE ~CancelAll(p)
    BY <1>1, <2>2 DEF Untouched, Early, At, Step, ImportStep, Parse, ReplaceRead, ReplaceTx,
                      Load, Upsert, Asked, PutPlatforms
  <2> QED BY <2>1, <2>2
<1>5. status' \notin ReadyStates
  BY <1>1 DEF Untouched, ImportStep, Parse, ReplaceRead, ReplaceTx, CancelAll, Load, Upsert,
              Asked, PutPlatforms, session, ReadyStates
<1>6. Untouched'
  BY <1>1, <1>3, <1>4, <1>5 DEF Untouched, Judging
<1> QED BY <1>1, <1>2, <1>3, <1>6, FirstUntouched DEF Editing

\* Asking for a task that does not exist: as long as one is missing for a line the
\* session is not ready, and each task is asked for once.
LEMMA FirstUpsert ==
  ASSUME TypeOK, First, NEW p \in Handler, Upsert(p)
  PROVE  First'
<1>0. h[p] \in HandlerRecord /\ At(p, "upsert") /\ requests # 0
  BY DEF TypeOK, Upsert, Step, First, At
<1>1. \A q \in Handler : ~Early(q)
  BY <1>0 DEF First, Early, At
<1>2. PICK k \in h[p].keys : /\ task' = [task EXCEPT ![k] = "pending"]
                             /\ Become(p, [h[p] EXCEPT !.keys = @ \ {k}])
  BY DEF Upsert
<1>3. k \in Key /\ task[k] = "absent"
  BY <1>0, <1>2 DEF HandlerRecord, First
<1>4. h'[p].pc = "upsert" /\ h'[p].keys = h[p].keys \ {k}
  <2>1. h'[p] = [h[p] EXCEPT !.keys = @ \ {k}]
    BY <1>2, BecomeAt
  <2> QED BY <1>0, <2>1 DEF HandlerRecord, At
<1>5. \A q \in Handler : q # p => h'[q] = h[q]
  BY Others DEF HandlerStep, ImportStep
<1>6. UNCHANGED <<status, platforms, line, requests>> /\ Mpns' = Mpns
  BY DEF Upsert, Step, session, Mpns
<1>7. LenientReady(Mpns, platforms) => LenientReady(Mpns, platforms)'
  <2>1. Mpns \X platforms \subseteq Key
    BY MpnsType DEF Key, TypeOK
  <2>2. SUFFICES ASSUME LenientReady(Mpns, platforms), NEW k2 \in Mpns \X platforms
                 PROVE  task'[k2] \in Ended
    BY <1>6 DEF LenientReady
  <2>3. task[k2] \in Ended /\ k2 \in Key
    BY <2>1, <2>2 DEF LenientReady
  <2>4. k2 # k
    BY <1>3, <2>3 DEF Ended, Outcomes
  <2> QED BY <1>2, <2>3, <2>4 DEF TypeOK
<1>8. \A q \in Handler : (~Early(q) /\ ~Editing(q))'
  BY <1>1, <1>4, <1>5 DEF Early, Editing, First
<1>9. (\A q, q2 \in Handler : At(q, "upsert") /\ At(q2, "upsert") => q = q2)'
  BY <1>0, <1>5 DEF First, At
<1>10. (\A q \in Handler : At(q, "upsert") => \A k2 \in h[q].keys : task[k2] = "absent")'
  <2>1. SUFFICES ASSUME NEW k2 \in h[p].keys, k2 # k PROVE task'[k2] = "absent"
    BY <1>0, <1>4, <1>5 DEF First, At
  <2> QED BY <1>0, <1>2, <2>1 DEF First, HandlerRecord, TypeOK
<1>11. (\A q \in Handler : h[q].pc \in {"lines", "tasks"} => h[q].plats = platforms)'
  BY <1>4, <1>5, <1>6 DEF First
<1>12. (\A q \in Handler : At(q, "tasks") => h[q].mpns = Mpns)'
  BY <1>4, <1>5, <1>6 DEF First, At
<1>13. (\A q \in Handler : At(q, "mark") => LenientReady(Mpns, platforms))'
  BY <1>4, <1>5, <1>7 DEF First, At
<1>14. (status \in ReadyStates => LenientReady(Mpns, platforms))'
  BY <1>6, <1>7 DEF First
<1> QED BY <1>0, <1>6, <1>8, <1>9, <1>10, <1>11, <1>12, <1>13, <1>14 DEF First

\* A task that ends was asked for: nothing is left to begin, and it counts as tried.
LEMMA FirstTaskEnds ==
  ASSUME TypeOK, First, NEW p \in Handler, NEW k \in Key, TaskEnds(p, k)
  PROVE  First'
<1>1. ~Untouched /\ task[k] # "absent"
  BY DEF TaskEnds, Untouched
<1>2. requests # 0 /\ \A q \in Handler : ~Early(q)
  BY <1>1 DEF First
<1>3. PICK outcome \in Outcomes : task' = [task EXCEPT ![k] = outcome]
  BY DEF TaskEnds
<1>4. h'[p].pc = "view" /\ \A q \in Handler : q # p => h'[q] = h[q]
  BY GotoPc, Others DEF TaskEnds
<1>5. UNCHANGED <<status, platforms, line, requests>> /\ Mpns' = Mpns
  BY DEF TaskEnds, Step, session, Mpns
<1>6. LenientReady(Mpns, platforms) => LenientReady(Mpns, platforms)'
  <2>1. Mpns \X platforms \subseteq Key
    BY MpnsType DEF Key, TypeOK
  <2> QED BY <1>3, <1>5, <2>1 DEF LenientReady, Ended, TypeOK
<1>7. \A q \in Handler : (~Early(q) /\ ~Editing(q))'
  BY <1>2, <1>4 DEF Early, Editing, First
<1>8. (\A q, q2 \in Handler : At(q, "upsert") /\ At(q2, "upsert") => q = q2)'
  BY <1>4 DEF First, At
<1>9. (\A q \in Handler : At(q, "upsert") => \A k2 \in h[q].keys : task[k2] = "absent")'
  BY <1>1, <1>3, <1>4 DEF First, At, TypeOK, HandlerRecord
<1>10. (\A q \in Handler : h[q].pc \in {"lines", "tasks"} => h[q].plats = platforms)'
  BY <1>4, <1>5 DEF First
<1>11. (\A q \in Handler : At(q, "tasks") => h[q].mpns = Mpns)'
  BY <1>4, <1>5 DEF First, At
<1>12. (\A q \in Handler : At(q, "mark") => LenientReady(Mpns, platforms))'
  BY <1>4, <1>6 DEF First, At
<1>13. (status \in ReadyStates => LenientReady(Mpns, platforms))'
  BY <1>5, <1>6 DEF First
<1> QED BY <1>2, <1>5, <1>7, <1>8, <1>9, <1>10, <1>11, <1>12, <1>13 DEF First

\* So does a task that is given up.
LEMMA FirstGivenUp ==
  ASSUME TypeOK, First, NEW k \in Key, TaskGivenUp(k)
  PROVE  First'
<1>1. ~Untouched /\ task[k] = "pending"
  BY DEF TaskGivenUp, Untouched
<1>2. requests # 0 /\ \A q \in Handler : ~Early(q)
  BY <1>1 DEF First
<1>3. task' = [task EXCEPT ![k] = "failed_terminal"]
  BY DEF TaskGivenUp
<1>4. UNCHANGED <<status, platforms, line, h, requests>> /\ Mpns' = Mpns
  BY DEF TaskGivenUp, session, Mpns
<1>5. LenientReady(Mpns, platforms) => LenientReady(Mpns, platforms)'
  <2>1. Mpns \X platforms \subseteq Key
    BY MpnsType DEF Key, TypeOK
  <2> QED BY <1>3, <1>4, <2>1 DEF LenientReady, Ended, Outcomes, TypeOK
<1>6. \A q \in Handler : (~Early(q) /\ ~Editing(q))'
  BY <1>2, <1>4 DEF Early, Editing, First
<1>7. (\A q \in Handler : At(q, "upsert") => \A k2 \in h[q].keys : task[k2] = "absent")'
  BY <1>1, <1>3, <1>4 DEF First, At, TypeOK, HandlerRecord
<1>8. (\A q \in Handler : At(q, "mark") => LenientReady(Mpns, platforms))'
  BY <1>4, <1>5 DEF First, At
<1>9. (status \in ReadyStates => LenientReady(Mpns, platforms))'
  BY <1>4, <1>5 DEF First
<1> QED BY <1>2, <1>4, <1>6, <1>7, <1>8, <1>9 DEF First, At

\* A retry of a session without tasks leaves nobody who asks or judges.
LEMMA FirstRetry ==
  ASSUME TypeOK, First, NEW p \in Handler, RetryDecide(p)
  PROVE  First'
<1>1. requests # 0 /\ status \notin ReadyStates /\ \A q \in Handler : q # p => h'[q].pc = "idle"
  BY Others DEF RetryDecide, Step, At, First, Early, Untouched, HandlerStep, EditStep
<1>2. h'[p].pc = "idle"
  BY DoneAt DEF RetryDecide, Idle
<1>3. UNCHANGED <<status, requests>>
  BY DEF RetryDecide, Step, session
<1>4. \A q \in Handler : h'[q].pc = "idle"
  BY <1>1, <1>2
<1> QED BY <1>1, <1>3, <1>4 DEF First, Early, Editing, At

\* Reading the platforms and then the lines: nothing is edited in between.
LEMMA FirstRead ==
  ASSUME TypeOK, First, NEW p \in Handler, ViewSession(p) \/ ListLines(p)
  PROVE  First'
<1>1. requests # 0 /\ \A q \in Handler : ~Early(q)
  BY DEF ViewSession, ListLines, Step, At, First, Untouched, Judging
<1>2. \A q \in Handler : q # p => h'[q] = h[q]
  BY Others DEF HandlerStep, ReadyStep
<1>3. UNCHANGED <<status, platforms, line, task, requests>> /\ Mpns' = Mpns
  BY DEF ViewSession, ListLines, Step, session, Mpns
<1>4. \/ h'[p].pc = "lines" /\ h'[p].plats = platforms
      \/ h'[p].pc = "tasks" /\ h'[p].plats = platforms /\ h'[p].mpns = Mpns
  <2>1. CASE ViewSession(p)
    BY <2>1, ViewAt
  <2>2. CASE ListLines(p)
    <3>1. h[p].plats = platforms
      BY <2>2 DEF ListLines, Step, At, First
    <3> QED BY <2>2, <3>1, ListAt
  <2> QED BY <2>1, <2>2
<1>5. \A q \in Handler : (~Early(q) /\ ~Editing(q))'
  BY <1>1, <1>2, <1>4 DEF Early, Editing, First
<1>6. (\A q, q2 \in Handler : At(q, "upsert") /\ At(q2, "upsert") => q = q2)'
  BY <1>2, <1>4 DEF First, At
<1>7. (\A q \in Handler : At(q, "upsert") => \A k \in h[q].keys : task[k] = "absent")'
  BY <1>2, <1>3, <1>4 DEF First, At
<1>8. (\A q \in Handler : h[q].pc \in {"lines", "tasks"} => h[q].plats = platforms)'
  BY <1>2, <1>3, <1>4 DEF First
<1>9. (\A q \in Handler : At(q, "tasks") => h[q].mpns = Mpns)'
  BY <1>2, <1>3, <1>4 DEF First, At
<1>10. LenientReady(Mpns, platforms)' = LenientReady(Mpns, platforms)
  BY <1>3 DEF LenientReady
<1>11. (\A q \in Handler : At(q, "mark") => LenientReady(Mpns, platforms))'
  BY <1>2, <1>4, <1>10 DEF First, At
<1>12. (status \in ReadyStates => LenientReady(Mpns, platforms))'
  BY <1>3, <1>10 DEF First
<1> QED BY <1>1, <1>3, <1>5, <1>6, <1>7, <1>8, <1>9, <1>11, <1>12 DEF First

\* Who judges the tasks has read the lines and platforms there are.
LEMMA FirstJudge ==
  ASSUME TypeOK, First, NEW p \in Handler, Judge(p), ~Done(p)
  PROVE  First'
<1>1. requests # 0 /\ \A q \in Handler : ~Early(q)
  BY DEF Judge, Step, At, First, Untouched, Judging
<1>2. h'[p].pc = "mark"
  BY JudgeAt
<1>3. \A q \in Handler : q # p => h'[q] = h[q]
  BY Others DEF HandlerStep, ReadyStep
<1>4. UNCHANGED <<status, platforms, line, task, requests>> /\ Mpns' = Mpns
  BY DEF Judge, Step, session, Mpns
<1>5. LenientReady(Mpns, platforms)
  <2>1. LenientReady(h[p].mpns, h[p].plats)
    BY DEF Judge
  <2>2. h[p].mpns = Mpns /\ h[p].plats = platforms
    BY DEF Judge, Step, At, First
  <2> QED BY <2>1, <2>2
<1>6. LenientReady(Mpns, platforms)'
  BY <1>4, <1>5 DEF LenientReady
<1>7. \A q \in Handler : (~Early(q) /\ ~Editing(q))'
  BY <1>1, <1>2, <1>3 DEF Early, Editing, First
<1>8. (\A q, q2 \in Handler : At(q, "upsert") /\ At(q2, "upsert") => q = q2)'
  BY <1>2, <1>3 DEF First, At
<1>9. (\A q \in Handler : At(q, "upsert") => \A k \in h[q].keys : task[k] = "absent")'
  BY <1>2, <1>3, <1>4 DEF First, At
<1>10. (\A q \in Handler : h[q].pc \in {"lines", "tasks"} => h[q].plats = platforms)'
  BY <1>2, <1>3, <1>4 DEF First
<1>11. (\A q \in Handler : At(q, "tasks") => h[q].mpns = Mpns)'
  BY <1>2, <1>3, <1>4 DEF First, At
<1> QED BY <1>1, <1>4, <1>6, <1>7, <1>8, <1>9, <1>10, <1>11 DEF First

\* The verdict is written while the session is still as it was judged.
LEMMA FirstMark ==
  ASSUME TypeOK, First, NEW p \in Handler, Mark(p)
  PROVE  First'
<1>1. requests # 0 /\ \A q \in Handler : ~Early(q)
  BY DEF Mark, Step, At, First, Untouched, Judging
<1>2. h'[p].pc = "idle"
  BY DoneAt DEF Mark, Idle
<1>3. \A q \in Handler : q # p => h'[q] = h[q]
  BY Others DEF HandlerStep, ReadyStep
<1>4. UNCHANGED <<platforms, line, task, requests>> /\ Mpns' = Mpns
  BY DEF Mark, Step, Mpns
<1>5. LenientReady(Mpns, platforms)'
  BY <1>4 DEF LenientReady, Mark, Step, First
<1>6. \A q \in Handler : (~Early(q) /\ ~Editing(q))'
  BY <1>1, <1>2, <1>3 DEF Early, Editing, First
<1>7. (\A q, q2 \in Handler : At(q, "upsert") /\ At(q2, "upsert") => q = q2)'
  BY <1>2, <1>3 DEF First, At
<1>8. (\A q \in Handler : At(q, "upsert") => \A k \in h[q].keys : task[k] = "absent")'
  BY <1>2, <1>3, <1>4 DEF First, At
<1>9. (\A q \in Handler : h[q].pc \in {"lines", "tasks"} => h[q].plats = platforms)'
  BY <1>2, <1>3, <1>4 DEF First
<1>10. (\A q \in Handler : At(q, "tasks") => h[q].mpns = Mpns)'
  BY <1>2, <1>3, <1>4 DEF First, At
<1> QED BY <1>1, <1>4, <1>5, <1>6, <1>7, <1>8, <1>9, <1>10 DEF First

\* Every step but a second request keeps what holds of the first.
LEMMA FirstStep == TypeOK /\ MarkOK /\ FirstOK /\ [Next]_vars => FirstOK'
<1> SUFFICES ASSUME TypeOK, MarkOK, FirstOK, [Next]_vars, requests' <= 1 PROVE First'
  BY DEF FirstOK
<1>0. TypeOK'
  BY TypeStep
<1>1. CASE UNCHANGED vars
  <2>1. First
    BY <1>1 DEF vars, FirstOK
  <2>2. LenientReady(Mpns, platforms)' = LenientReady(Mpns, platforms) /\ Mpns' = Mpns
    BY <1>1 DEF vars, LenientReady, Mpns
  <2> QED BY <1>1, <2>1, <2>2 DEF vars, First, Untouched, Early, Editing, Judging, At
<1>2. ASSUME NEW p \in Handler,
             \/ NewRequest(p) \/ HandlerStep(p) \/ JobFails(p) \/ Abort(p)
             \/ \E k \in Key : TaskEnds(p, k)
      PROVE  First'
  <2>1. CASE NewRequest(p)
    <3>1. requests' = requests + 1
      BY <2>1 DEF NewRequest, Upload, StartJob, ReadSession, Create, Delete, Patch, Retry, Ask
    <3>2. requests = 0 /\ First
      BY <3>1 DEF FirstOK, TypeOK
    <3> QED BY <1>0, <2>1, <3>2, FirstRequest
  <2>2. CASE ~NewRequest(p)
    <3>1. requests' = requests
      BY <1>2, <2>2 DEF HandlerStep, ImportStep, EditStep, ReadyStep, Parse, ReplaceRead,
            ReplaceTx, CancelAll, Load, Upsert, Asked, PatchRead, PatchTx, Patched, CancelOld,
            DeleteCancel, DeleteRead, DeleteTx, PutPlatforms, RetryDecide, ViewSession,
            ListLines, Judge, Mark, JobFails, Abort, TaskEnds, Step
    <3>2. First
      BY <3>1 DEF FirstOK
    <3>3. \A q \in Handler : q # p => h'[q] = h[q]
      BY <1>2, Others
    <3>4. CASE (ImportStep(p) /\ Early(p)) \/ PutPlatforms(p)
      BY <1>0, <3>2, <3>4, FirstEarly DEF PutPlatforms, Early, Step, At
    <3>5. CASE Upsert(p)
      BY <3>2, <3>5, FirstUpsert
    <3>6. CASE Asked(p) \/ JobFails(p) \/ Abort(p)
      BY <3>1, <3>2, <3>3, <3>6, FirstDone DEF Asked, JobFails, Abort, session
    <3>7. CASE RetryDecide(p)
      BY <3>2, <3>7, FirstRetry
    <3>8. CASE ViewSession(p) \/ ListLines(p)
      BY <3>2, <3>8, FirstRead
    <3>9. CASE Judge(p)
      BY <3>1, <3>2, <3>3, <3>9, FirstDone, FirstJudge DEF Judge, session
    <3>10. CASE Mark(p)
      BY <3>2, <3>10, FirstMark
    <3>11. CASE \E k \in Key : TaskEnds(p, k)
      BY <3>2, <3>11, FirstTaskEnds
    <3>12. ImportStep(p) => Early(p) \/ Upsert(p) \/ Asked(p)
      BY DEF ImportStep, Parse, ReplaceRead, ReplaceTx, CancelAll, Load, Step, At, Early
    <3>13. EditStep(p) => PutPlatforms(p) \/ RetryDecide(p)
      BY <3>2 DEF First, Editing, EditStep, PatchRead, PatchTx, Patched, CancelOld,
                  DeleteCancel, DeleteRead, DeleteTx, Step, At
    <3> QED BY <1>2, <2>2, <3>4, <3>5, <3>6, <3>7, <3>8, <3>9, <3>10, <3>11, <3>12, <3>13
            DEF HandlerStep, ReadyStep
  <2> QED BY <2>1, <2>2
<1>3. ASSUME NEW k \in Key, TaskGivenUp(k) PROVE First'
  <2>1. First
    BY <1>3 DEF TaskGivenUp, FirstOK
  <2> QED BY <1>3, <2>1, FirstGivenUp
<1> QED BY <1>1, <1>2, <1>3 DEF Next

\* A session that was asked for one import is called ready only when each of its
\* lines has been tried on each of its platforms.
THEOREM ReadyIsTried == Spec => []ReadyMeansTried
<1>1. Init => FirstOK
  <2>1. Init => /\ requests = 0 /\ status \notin ReadyStates
                /\ \A p \in Handler : h[p].pc = "idle"
                /\ \A k \in Key : task[k] = "absent"
                /\ \A l \in Line : line[l] = {}
    BY DEF Init, Idle, ReadyStates
  <2> QED BY <2>1 DEF FirstOK, First, Untouched, Early, Editing, Judging, At
<1>2. TypeOK /\ MarkOK /\ FirstOK /\ [Next]_vars => (TypeOK /\ MarkOK /\ FirstOK)'
  BY TypeStep, MarkStep, FirstStep
<1>3. FirstOK => ReadyMeansTried
  BY DEF FirstOK, First, ReadyMeansTried
<1> QED BY <1>1, <1>2, <1>3, TypeInit, PTL DEF Spec

-----------------------------------------------------------------------------
(* Imports and retries leave each line covered *)

\* A task is alive unless it is missing or cancelled.
Alive(k) == task[k] \notin {"absent", "cancelled"}
Covered  == \A k \in Mpns \X platforms : Alive(k)

JobPc  == {"parse", "replace", "replaceTx", "cancelAll", "load", "upsert"}
FreePc == {"idle", "retry", "view", "lines", "tasks", "mark"}

\* What an import job has at its steps: the part numbers of the lines it will write, then
\* of all lines there are, and at last the tasks that are not alive in what it asks for.
JobOK(p) ==
    /\ h[p].pc \in JobPc
    /\ h[p].pc \in {"parse", "replace", "replaceTx"} => \A l \in h[p].line : l[2] \in h[p].mpns
    /\ h[p].pc \in {"cancelAll", "load"} => Mpns \subseteq h[p].mpns
    /\ h[p].pc = "upsert" => \A k \in Mpns \X platforms : k \in h[p].keys \/ Alive(k)

\* Lines are covered whenever no import is on its way and none has failed.
CoverInv ==
    /\ \A p \in Handler : IF h[p].job THEN JobOK(p) ELSE h[p].pc \in FreePc
    /\ aborts = 0 /\ importStatus = "parsing" => \E p \in Handler : h[p].job
    /\ importStatus \in {"idle", "ready"} => Covered

\* A step of a handler that is no job: tasks that are alive stay alive.
LEMMA CoverFree ==
  ASSUME TypeOK, CoverInv, OneImport, NEW p \in Handler, \A q \in Handler : q # p => h'[q] = h[q],
         ~h[p].job, ~h'[p].job, h'[p].pc \in FreePc,
         UNCHANGED <<importStatus, platforms, line>>, aborts' = 0 => aborts = 0,
         \A k \in Key : Alive(k) => Alive(k)'
  PROVE  CoverInv'
<1>1. Mpns' = Mpns
  BY DEF Mpns
<1>2. Mpns \X platforms \subseteq Key
  BY MpnsType DEF Key, TypeOK
<1>3. Covered => Covered'
  BY <1>1, <1>2 DEF Covered
<1>4. ASSUME NEW q \in Handler, h'[q].job
      PROVE  JobOK(q)'
  <2>1. q # p /\ h'[q] = h[q] /\ JobOK(q)
    BY <1>4 DEF CoverInv
  <2>2. \A k \in Mpns \X platforms : Alive(k) => Alive(k)'
    BY <1>2
  <2> QED BY <1>1, <2>1, <2>2 DEF JobOK
<1>5. \A q \in Handler : ~h'[q].job => h'[q].pc \in FreePc
  BY DEF CoverInv
<1>6. aborts' = 0 /\ importStatus' = "parsing" => \E q \in Handler : h'[q].job
  <2> SUFFICES ASSUME aborts' = 0, importStatus' = "parsing" PROVE \E q \in Handler : h'[q].job
    OBVIOUS
  <2>1. PICK q \in Handler : h[q].job
    BY DEF CoverInv
  <2> QED BY <2>1
<1> QED BY <1>3, <1>4, <1>5, <1>6 DEF CoverInv

\* A step of the import, which is the only one.
LEMMA CoverJob ==
  ASSUME CoverInv, OneImport, NEW p \in Handler, \A q \in Handler : q # p => h'[q] = h[q],
         \A q \in Handler : h[q].job => q = p, h'[p].job, JobOK(p)', importStatus' = "parsing"
  PROVE  CoverInv'
BY DEF CoverInv

\* The import ends.
LEMMA CoverEnd ==
  ASSUME CoverInv, OneImport, NEW p \in Handler, \A q \in Handler : q # p => h'[q] = h[q],
         h[p].job, h'[p] = Idle,
         \/ importStatus' = "failed"
         \/ importStatus' = "ready" /\ Covered'
         \/ importStatus' = "parsing" /\ aborts' # 0
  PROVE  CoverInv'
<1>1. \A q \in Handler : h[q].job => q = p
  BY DEF OneImport
<1>2. \A q \in Handler : ~h'[q].job /\ h'[q].pc \in FreePc
  BY <1>1 DEF CoverInv, Idle, FreePc
<1> QED BY <1>2 DEF CoverInv

\* What users ask for is never forgotten.
LEMMA EditedKept ==
  ASSUME [Next]_vars, ~edited'
  PROVE  ~edited
BY DEF Next, vars, NewRequest, Upload, StartJob, ReadSession, Create, Delete, Patch, Retry, Ask,
       HandlerStep, ImportStep, EditStep, ReadyStep, Parse, ReplaceRead, ReplaceTx, CancelAll,
       Load, Upsert, Asked, PatchRead, PatchTx, Patched, CancelOld, DeleteCancel, DeleteRead,
       DeleteTx, PutPlatforms, RetryDecide, ViewSession, ListLines, Judge, Mark, Step, JobFails,
       Abort, TaskEnds, TaskGivenUp

\* Uploads and retries are all that users have asked for.
LEMMA OnlyImports ==
  ASSUME ~edited', NEW p \in Handler, NewRequest(p)
  PROVE  Upload(p) \/ \E k \in Key : Retry(p, k)
BY DEF NewRequest, ReadSession, Create, Delete, Patch, Ask

LEMMA CoverRequest ==
  ASSUME TypeOK, CoverInv, OneImport, ~edited', NEW p \in Handler, NewRequest(p)
  PROVE  CoverInv'
<1>1. \A q \in Handler : q # p => h'[q] = h[q]
  BY Others
<1>2. Upload(p) \/ \E k \in Key : Retry(p, k)
  BY OnlyImports
<1>3. CASE Upload(p)
  <2>1. importStatus' = "parsing" /\ \A q \in Handler : ~h[q].job
    BY <1>3 DEF Upload, StartJob, OneImport
  <2>2. PICK content \in (SUBSET Mpn) \ {{}} :
           Become(p, [Idle EXCEPT !.pc = "parse", !.job = TRUE, !.mpns = content,
                                  !.line = NewLines(content)])
    BY <1>3 DEF Upload, StartJob
  <2>3. h'[p] = [Idle EXCEPT !.pc = "parse", !.job = TRUE, !.mpns = content, !.line = NewLines(content)]
    BY <2>2, BecomeAt
  <2>4. h'[p].pc = "parse" /\ h'[p].job /\ h'[p].mpns = content /\ h'[p].line = NewLines(content)
    BY <2>3 DEF Idle
  <2>5. JobOK(p)'
    BY <2>4 DEF JobOK, JobPc, NewLines
  <2> QED BY <1>1, <2>1, <2>4, <2>5, CoverJob
<1>4. ASSUME NEW k \in Key, Retry(p, k)
      PROVE  CoverInv'
  <2>1. h'[p].pc = "retry" /\ ~h'[p].job /\ ~h[p].job
    <3>1. h[p].pc = "idle"
      BY <1>4 DEF Retry, Ask, At
    <3>2. ~h[p].job
      BY <3>1 DEF CoverInv, JobOK, JobPc
    <3> QED BY <1>4, <3>2, RetryAt
  <2>2. UNCHANGED <<importStatus, platforms, line, task, aborts>>
    BY <1>4 DEF Retry, Ask, session
  <2>3. \A i \in Key : Alive(i) => Alive(i)'
    BY <2>2 DEF Alive
  <2> QED BY <1>1, <2>1, <2>2, <2>3, CoverFree DEF FreePc
<1> QED BY <1>2, <1>3, <1>4

\* Retries, results and the readiness evaluation.
LEMMA CoverOther ==
  ASSUME TypeOK, CoverInv, OneImport, NEW p \in Handler,
         RetryDecide(p) \/ ReadyStep(p) \/ \E k \in Key : TaskEnds(p, k)
  PROVE  CoverInv'
<1>1. \A q \in Handler : q # p => h'[q] = h[q]
  BY Others DEF HandlerStep, EditStep
<1>2. h[p].pc \in FreePc
  BY DEF RetryDecide, ReadyStep, ViewSession, ListLines, Judge, Mark, TaskEnds, Step, At, FreePc
<1>3. ~h[p].job
  BY <1>2 DEF CoverInv, JobOK, JobPc, FreePc
<1>4. ~h'[p].job
  BY <1>3, JobKept DEF HandlerStep, EditStep
<1>5. h'[p].pc \in FreePc
  <2>1. CASE Done(p)
    BY <2>1, DoneAt DEF Idle, FreePc
  <2>2. CASE \E k \in Key : TaskEnds(p, k)
    BY <2>2, GotoPc DEF TaskEnds, FreePc
  <2> QED BY <2>1, <2>2, ViewAt, ListAt, JudgeAt DEF RetryDecide, ReadyStep, Mark, FreePc
<1>6. UNCHANGED <<importStatus, platforms, line, aborts>>
  BY DEF RetryDecide, ReadyStep, ViewSession, ListLines, Judge, Mark, TaskEnds, Step, session
<1>7. ASSUME NEW k \in Key, Alive(k)
      PROVE  Alive(k)'
  <2>1. CASE RetryDecide(p)
    <3>1. task' = task \/ task' = [i \in Key |-> IF i \in h[p].keys THEN "pending" ELSE task[i]]
      BY <2>1 DEF RetryDecide
    <3> QED BY <1>7, <3>1 DEF Alive
  <2>2. CASE ReadyStep(p)
    <3>1. task' = task
      BY <2>2 DEF ReadyStep, ViewSession, ListLines, Judge, Mark
    <3> QED BY <1>7, <3>1 DEF Alive
  <2>3. ASSUME NEW i \in Key, TaskEnds(p, i)
        PROVE  Alive(k)'
    <3>1. PICK outcome \in Outcomes : task' = [task EXCEPT ![i] = outcome]
      BY <2>3 DEF TaskEnds
    <3> QED BY <1>7, <3>1 DEF Alive, Outcomes, TypeOK
  <2> QED BY <2>1, <2>2, <2>3
<1> QED BY <1>1, <1>3, <1>4, <1>5, <1>6, <1>7, CoverFree

\* The steps of an import.
LEMMA CoverImport ==
  ASSUME TypeOK, CoverInv, OneImport, NEW p \in Handler, ImportStep(p)
  PROVE  CoverInv'
<1>1. \A q \in Handler : q # p => h'[q] = h[q]
  BY Others DEF HandlerStep
<1>2. h[p].pc \in JobPc
  BY DEF ImportStep, Parse, ReplaceRead, ReplaceTx, CancelAll, Load, Upsert, Asked, Step, At, JobPc
<1>3. h[p].job
  BY <1>2 DEF CoverInv, JobPc, FreePc
<1>4. JobOK(p) /\ importStatus = "parsing" /\ \A q \in Handler : h[q].job => q = p
  BY <1>3 DEF CoverInv, OneImport
<1>5. h[p] \in HandlerRecord
  BY DEF TypeOK
<1>6. ASSUME h'[p].job, JobOK(p)', importStatus' = "parsing"
      PROVE  CoverInv'
  BY <1>1, <1>4, <1>6, CoverJob
<1>7. CASE Parse(p)
  <2>1. h'[p] = [h[p] EXCEPT !.pc = "replace"] /\ h[p].pc = "parse" /\ importStatus' = "parsing"
    BY <1>7, GotoAt DEF Parse, Step, At
  <2>2. /\ h'[p].pc = "replace" /\ h'[p].job /\ h'[p].line = h[p].line /\ h'[p].mpns = h[p].mpns
    BY <1>3, <1>5, <2>1 DEF HandlerRecord
  <2>3. JobOK(p)'
    BY <1>4, <2>1, <2>2 DEF JobOK, JobPc
  <2> QED BY <1>6, <2>1, <2>2, <2>3
<1>8. CASE ReplaceRead(p)
  <2>1. /\ h'[p] = [h[p] EXCEPT !.pc = "replaceTx", !.rev = rev] /\ h[p].pc = "replace"
        /\ importStatus' = importStatus
    BY <1>8, BecomeAt DEF ReplaceRead, Step, At, session
  <2>2. /\ h'[p].pc = "replaceTx" /\ h'[p].job /\ h'[p].line = h[p].line /\ h'[p].mpns = h[p].mpns
    BY <1>3, <1>5, <2>1 DEF HandlerRecord
  <2>3. JobOK(p)'
    BY <1>4, <2>1, <2>2 DEF JobOK, JobPc
  <2> QED BY <1>4, <1>6, <2>1, <2>2, <2>3
<1>9. CASE ReplaceTx(p)
  <2>1. /\ h'[p] = [h[p] EXCEPT !.pc = "cancelAll"] /\ h[p].pc = "replaceTx"
        /\ importStatus' = importStatus
        /\ line' = [l \in Line |-> IF l \in h[p].line THEN {l[2]} ELSE {}]
    BY <1>9, GotoAt DEF ReplaceTx, Step, At
  <2>2. h'[p].pc = "cancelAll" /\ h'[p].job /\ h'[p].mpns = h[p].mpns
    BY <1>3, <1>5, <2>1 DEF HandlerRecord
  <2>3. \A l \in h[p].line : l[2] \in h[p].mpns
    BY <1>4, <2>1 DEF JobOK
  <2>4. Mpns' \subseteq h[p].mpns
    BY <2>1, <2>3 DEF Mpns
  <2>5. JobOK(p)'
    BY <2>2, <2>4 DEF JobOK, JobPc
  <2> QED BY <1>4, <1>6, <2>1, <2>2, <2>5
<1>10. CASE CancelAll(p)
  <2>1. /\ h'[p] = [h[p] EXCEPT !.pc = "load"] /\ h[p].pc = "cancelAll"
        /\ importStatus' = importStatus /\ line' = line
    BY <1>10, GotoAt DEF CancelAll, Step, At, session
  <2>2. h'[p].pc = "load" /\ h'[p].job /\ h'[p].mpns = h[p].mpns
    BY <1>3, <1>5, <2>1 DEF HandlerRecord
  <2>3. JobOK(p)'
    BY <1>4, <2>1, <2>2 DEF JobOK, JobPc, Mpns
  <2> QED BY <1>4, <1>6, <2>1, <2>2, <2>3
<1>11. CASE Load(p)
  <2>1. /\ h'[p] = [h[p] EXCEPT !.pc = "upsert", !.keys = h[p].mpns \X platforms] /\ h[p].pc = "load"
        /\ importStatus' = importStatus /\ line' = line /\ platforms' = platforms
    BY <1>11, BecomeAt DEF Load, Step, At, session
  <2>2. h'[p].pc = "upsert" /\ h'[p].job /\ h'[p].keys = h[p].mpns \X platforms
    BY <1>3, <1>5, <2>1 DEF HandlerRecord
  <2>3. Mpns \subseteq h[p].mpns /\ Mpns' = Mpns
    BY <1>4, <2>1 DEF JobOK, Mpns
  <2>4. JobOK(p)'
    BY <2>1, <2>2, <2>3 DEF JobOK, JobPc
  <2> QED BY <1>4, <1>6, <2>1, <2>2, <2>4
<1>12. CASE Upsert(p)
  <2>1. /\ h[p].pc = "upsert" /\ importStatus' = importStatus
        /\ line' = line /\ platforms' = platforms
    BY <1>12 DEF Upsert, Step, At, session
  <2>2. PICK k \in h[p].keys : /\ task' = [task EXCEPT ![k] = "pending"]
                               /\ Become(p, [h[p] EXCEPT !.keys = @ \ {k}])
    BY <1>12 DEF Upsert
  <2>3. h'[p] = [h[p] EXCEPT !.keys = @ \ {k}]
    BY <2>2, BecomeAt
  <2>4. h'[p].pc = "upsert" /\ h'[p].job /\ h'[p].keys = h[p].keys \ {k}
    BY <1>3, <1>5, <2>1, <2>3 DEF HandlerRecord
  <2>5. Mpns' = Mpns /\ Mpns \X platforms \subseteq Key
    BY <2>1, MpnsType DEF Mpns, Key, TypeOK
  <2>6. \A i \in Key : i = k \/ Alive(i) => Alive(i)'
    BY <2>2 DEF Alive, TypeOK
  <2>7. JobOK(p)'
    BY <1>4, <2>1, <2>4, <2>5, <2>6 DEF JobOK, JobPc
  <2> QED BY <1>4, <1>6, <2>1, <2>4, <2>7
<1>13. CASE Asked(p)
  <2>1. /\ h'[p] = Idle /\ h[p].pc = "upsert" /\ h[p].keys = {} /\ importStatus' = "ready"
        /\ UNCHANGED <<line, platforms, task>>
    BY <1>3, <1>13, DoneAt DEF Asked, Step, At
  <2>2. Covered'
    BY <1>4, <2>1 DEF JobOK, Covered, Alive, Mpns
  <2> QED BY <1>1, <1>3, <2>1, <2>2, CoverEnd
<1> QED BY <1>7, <1>8, <1>9, <1>10, <1>11, <1>12, <1>13 DEF ImportStep

\* As long as no line or platform is edited, the only edit is a retry.
LEMMA OnlyRetries ==
  ASSUME CoverInv, NEW p \in Handler, EditStep(p)
  PROVE  RetryDecide(p)
<1>1. h[p].pc \in JobPc \cup FreePc
  BY DEF CoverInv, JobOK
<1> QED BY <1>1 DEF EditStep, PatchRead, PatchTx, Patched, CancelOld, DeleteCancel,
                    DeleteRead, DeleteTx, PutPlatforms, Step, At, JobPc, FreePc

\* A task that is given up was alive and is.
LEMMA CoverGivenUp ==
  ASSUME TypeOK, CoverInv, NEW k \in Key, TaskGivenUp(k)
  PROVE  CoverInv'
<1>1. /\ UNCHANGED <<importStatus, platforms, line, h, aborts>> /\ Mpns' = Mpns
      /\ task' = [task EXCEPT ![k] = "failed_terminal"]
  BY DEF TaskGivenUp, session, Mpns
<1>2. \A i \in Key : Alive(i) => Alive(i)'
  BY <1>1 DEF Alive, TypeOK
<1>3. Mpns \X platforms \subseteq Key
  BY MpnsType DEF Key, TypeOK
<1>4. Covered => Covered'
  BY <1>1, <1>2, <1>3 DEF Covered
<1>5. \A p \in Handler : JobOK(p) => JobOK(p)'
  BY <1>1, <1>2, <1>3 DEF JobOK
<1> QED BY <1>1, <1>4, <1>5 DEF CoverInv

LEMMA CoverStep ==
  ASSUME TypeOK, CoverInv, OneImport, ~edited', [Next]_vars
  PROVE  CoverInv'
<1>1. CASE UNCHANGED vars
  <2>1. Mpns' = Mpns
    BY <1>1 DEF vars, Mpns
  <2> QED BY <1>1, <2>1 DEF vars, CoverInv, JobOK, Covered, Alive
<1>3. ASSUME NEW p \in Handler, JobFails(p)
      PROVE  CoverInv'
  <2>1. h[p].job /\ h'[p] = Idle /\ importStatus' = "failed" /\ \A q \in Handler : q # p => h'[q] = h[q]
    BY <1>3, DoneAt, Others DEF JobFails
  <2> QED BY <2>1, CoverEnd
<1>4. ASSUME NEW p \in Handler, Abort(p)
      PROVE  CoverInv'
  <2>1. /\ h'[p] = Idle /\ \A q \in Handler : q # p => h'[q] = h[q]
        /\ UNCHANGED <<importStatus, platforms, line, task>> /\ aborts' = aborts + 1
    BY <1>4, DoneAt, Others DEF Abort, session
  <2>2. aborts' # 0
    BY <2>1 DEF TypeOK
  <2>3. CASE h[p].job
    BY <2>1, <2>2, <2>3, CoverEnd DEF OneImport
  <2>4. CASE ~h[p].job
    <3>1. ~h'[p].job /\ h'[p].pc \in FreePc
      BY <2>1 DEF Idle, FreePc
    <3>2. \A k \in Key : Alive(k) => Alive(k)'
      BY <2>1 DEF Alive
    <3> QED BY <2>1, <2>2, <2>4, <3>1, <3>2, CoverFree
  <2> QED BY <2>3, <2>4
<1> QED BY <1>1, <1>3, <1>4, OnlyRetries, CoverRequest, CoverImport, CoverOther, CoverGivenUp
        DEF Next, HandlerStep

CoverOK == edited \/ CoverInv

LEMMA CoverOKStep == TypeOK /\ OneImport /\ CoverOK /\ [Next]_vars => CoverOK'
BY CoverStep, EditedKept DEF CoverOK

LEMMA CoverInit == Init => OneImport /\ CoverInv
<1>1. Init => /\ importStatus = "idle" /\ Mpns = {}
              /\ \A p \in Handler : h[p].pc = "idle" /\ ~h[p].job
  BY DEF Init, Idle, Mpns
<1> QED BY <1>1 DEF OneImport, CoverInv, Covered, FreePc

\* As long as users only import and retry, once all handlers are done each line has a task
\* that is not cancelled on each platform, unless a handler died or the import failed.
THEOREM Coverage == Spec => []LinesCovered
<1> DEFINE Inv == TypeOK /\ MarkOK /\ OneImport /\ CoverOK
<1>1. Init => Inv
  BY TypeInit, CoverInit DEF CoverOK
<1>2. Inv /\ [Next]_vars => Inv'
  BY TypeStep, MarkStep, OneImportStep, CoverOKStep
<1>3. Inv => LinesCovered
  <2> SUFFICES ASSUME Inv, Quiet, ~edited, aborts = 0, importStatus # "failed"
               PROVE  \A k \in Mpns \X platforms : task[k] \notin {"absent", "cancelled"}
    BY DEF LinesCovered
  <2>1. CoverInv /\ \A p \in Handler : ~h[p].job
    BY DEF CoverOK, Quiet, At, CoverInv, JobOK, JobPc
  <2>2. importStatus \in {"idle", "ready"}
    BY <2>1 DEF CoverInv, TypeOK
  <2> QED BY <2>1, <2>2 DEF CoverInv, Covered, Alive
<1> QED BY <1>1, <1>2, <1>3, PTL DEF Spec

-----------------------------------------------------------------------------
(* A session does not stay in searching *)

\* A handler is going to judge what the session has now, or has found it ready.
Sees(p) ==
    \/ h[p].pc \in {"view", "mark"}
    \/ h[p].pc = "lines" /\ h[p].plats = platforms
    \/ h[p].pc = "tasks" /\ h[p].plats = platforms /\ h[p].mpns = Mpns

\* Something is still to come that moves the session on.
Awaited ==
    \/ \E k \in Mpns \X platforms : task[k] \notin Ended
    \/ unjudged
    \/ \E p \in Handler : Sees(p)

\* An import asks for a task of every part number it writes, and of nothing else.
JobAsks(p) ==
    /\ h[p].pc \in {"parse", "replace", "replaceTx"} =>
          h[p].mpns # {} /\ h[p].mpns = {l[2] : l \in h[p].line}
    /\ h[p].pc \in {"cancelAll", "load"} => h[p].mpns # {} /\ h[p].mpns = Mpns
    /\ h[p].pc = "upsert" => h[p].keys \subseteq Mpns \X platforms

\* When an import has asked for all its tasks, and from then on, something is to come.
SearchInv ==
    /\ \A p \in Handler : h[p].job => JobAsks(p)
    /\ platforms # {} /\ status = "searching" =>
          /\ importStatus = "ready" => Awaited
          /\ \A p \in Handler : h[p].job /\ h[p].pc = "upsert" => h[p].keys # {} \/ Awaited

\* A step of the import before it asks for tasks.
LEMMA SearchJob ==
  ASSUME SearchInv, OneImport, NEW p \in Handler, \A q \in Handler : q # p => h'[q] = h[q],
         \A q \in Handler : h[q].job => q = p, JobAsks(p)', importStatus' = "parsing",
         \/ h'[p].pc # "upsert"
         \/ platforms' # {} => h'[p].keys # {} \/ Awaited'
  PROVE  SearchInv'
BY DEF SearchInv

\* A step of a handler that is no job.
LEMMA SearchFree ==
  ASSUME SearchInv, NEW p \in Handler, \A q \in Handler : q # p => h'[q] = h[q],
         ~h'[p].job, UNCHANGED <<importStatus, platforms, line>>,
         status' = "searching" => status = "searching" /\ (Awaited => Awaited')
  PROVE  SearchInv'
<1>1. Mpns' = Mpns
  BY DEF Mpns
<1>2. \A q \in Handler : h'[q].job => h'[q] = h[q]
  OBVIOUS
<1>3. \A q \in Handler : h'[q].job => JobAsks(q)'
  BY <1>1, <1>2 DEF SearchInv, JobAsks
<1> QED BY <1>2, <1>3 DEF SearchInv

\* What is to come still is, or has been judged, whatever a handler that is no job does.
LEMMA SearchOther ==
  ASSUME TypeOK, TypeOK', MarkOK, CoverInv, SearchInv, NEW p \in Handler,
         \/ RetryDecide(p) \/ ReadyStep(p) \/ \E k \in Key : TaskEnds(p, k) \/ Retry(p, k)
  PROVE  SearchInv'
<1>1. \A q \in Handler : q # p => h'[q] = h[q]
  BY Others DEF HandlerStep, EditStep, NewRequest
<1>2. h[p].pc \in FreePc
  BY DEF RetryDecide, ReadyStep, ViewSession, ListLines, Judge, Mark, TaskEnds, Retry, Ask, Step,
         At, FreePc
<1>3. ~h'[p].job
  <2>1. ~h[p].job
    BY <1>2 DEF CoverInv, JobOK, JobPc, FreePc
  <2> QED BY <2>1, JobKept, RetryAt DEF HandlerStep, EditStep
<1>4. UNCHANGED <<importStatus, platforms, line>> /\ Mpns' = Mpns
  BY DEF RetryDecide, ReadyStep, ViewSession, ListLines, Judge, Mark, TaskEnds, Retry, session,
         Mpns
<1>5. Mpns \X platforms \subseteq Key
  BY MpnsType DEF Key, TypeOK
<1>6. ASSUME NEW q \in Handler, q # p, Sees(q)
      PROVE  Awaited'
  BY <1>1, <1>4, <1>6 DEF Awaited, Sees
<1>7. CASE Mark(p)
  <2>1. status' # "searching"
    BY <1>7 DEF Mark, Step, MarkOK, ReadyStates
  <2> QED BY <1>1, <1>3, <1>4, <2>1, SearchFree
<1>8. CASE ~Mark(p)
  <2>1. status' = status
    BY <1>8 DEF RetryDecide, ReadyStep, ViewSession, ListLines, Judge, TaskEnds, Retry, session
  <2>2. ASSUME Awaited PROVE Awaited'
    <3>1. CASE \E k \in Key : TaskEnds(p, k)
      <4>1. h'[p].pc = "view"
        BY <3>1, GotoPc DEF TaskEnds
      <4> QED BY <4>1 DEF Awaited, Sees
    <3>2. CASE RetryDecide(p) \/ \E k \in Key : Retry(p, k)
      <4>1. unjudged' = unjudged /\ h[p].pc \in {"retry", "idle"}
        BY <3>2 DEF RetryDecide, Retry, Ask, Step, At
      <4>2. task' = task \/ task' = [k \in Key |-> IF k \in h[p].keys THEN "pending" ELSE task[k]]
        BY <3>2 DEF RetryDecide, Retry
      <4>3. \A k \in Key : task[k] \notin Ended => task'[k] \notin Ended
        BY <4>2 DEF Ended, Outcomes
      <4>4. ~Sees(p)
        BY <4>1 DEF Sees
      <4> QED BY <1>4, <1>5, <1>6, <2>2, <4>1, <4>3, <4>4 DEF Awaited
    <3>3. CASE ViewSession(p)
      <4>1. Sees(p)'
        BY <1>4, <3>3, ViewAt DEF Sees
      <4> QED BY <4>1 DEF Awaited
    <3>4. CASE ListLines(p)
      <4>1. UNCHANGED <<task, unjudged>> /\ h[p].pc = "lines"
        BY <3>4 DEF ListLines, Step, At
      <4>2. Sees(p) => Sees(p)'
        BY <1>4, <3>4, <4>1, ListAt DEF Sees
      <4> QED BY <1>4, <1>6, <2>2, <4>1, <4>2 DEF Awaited
    <3>5. CASE Judge(p)
      <4>1. UNCHANGED <<task, unjudged>> /\ h[p].pc = "tasks"
        BY <3>5 DEF Judge, Step, At
      <4>2. CASE Sees(p) /\ LenientReady(h[p].mpns, h[p].plats)
        <5>1. h'[p] = [Idle EXCEPT !.pc = "mark", !.read = Verdict(h[p].mpns, h[p].plats)]
          BY <3>5, <4>2, BecomeAt DEF Judge
        <5>2. h'[p].pc = "mark"
          BY <5>1 DEF Idle
        <5> QED BY <5>2 DEF Awaited, Sees
      <4>3. CASE Sees(p) /\ ~LenientReady(h[p].mpns, h[p].plats)
        <5>1. h[p].mpns = Mpns /\ h[p].plats = platforms
          BY <4>1, <4>3 DEF Sees
        <5>2. \E k \in Mpns \X platforms : task[k] \notin Ended
          BY <4>3, <5>1 DEF LenientReady
        <5> QED BY <1>4, <4>1, <5>2 DEF Awaited
      <4>4. CASE ~Sees(p)
        BY <1>4, <1>6, <2>2, <4>1, <4>4 DEF Awaited
      <4> QED BY <4>2, <4>3, <4>4
    <3> QED BY <1>8, <3>1, <3>2, <3>3, <3>4, <3>5 DEF ReadyStep
  <2> QED BY <1>1, <1>3, <1>4, <2>1, <2>2, SearchFree
<1> QED BY <1>7, <1>8

\* The steps of an import.
LEMMA SearchImport ==
  ASSUME TypeOK, CoverInv, OneImport, SearchInv, NEW p \in Handler, ImportStep(p)
  PROVE  SearchInv'
<1>1. \A q \in Handler : q # p => h'[q] = h[q]
  BY Others DEF HandlerStep
<1>2. h[p].pc \in JobPc
  BY DEF ImportStep, Parse, ReplaceRead, ReplaceTx, CancelAll, Load, Upsert, Asked, Step, At, JobPc
<1>3. h[p].job
  BY <1>2 DEF CoverInv, JobPc, FreePc
<1>4. /\ JobAsks(p) /\ JobOK(p) /\ importStatus = "parsing"
      /\ \A q \in Handler : h[q].job => q = p
  BY <1>3 DEF CoverInv, SearchInv, OneImport
<1>5. h[p] \in HandlerRecord
  BY DEF TypeOK
<1>6. CASE Parse(p)
  <2>1. h'[p] = [h[p] EXCEPT !.pc = "replace"] /\ h[p].pc = "parse" /\ importStatus' = "parsing"
    BY <1>6, GotoAt DEF Parse, Step, At
  <2>2. h'[p].pc = "replace" /\ h'[p].line = h[p].line /\ h'[p].mpns = h[p].mpns
    BY <1>5, <2>1 DEF HandlerRecord
  <2>3. JobAsks(p)'
    BY <1>4, <2>1, <2>2 DEF JobAsks
  <2> QED BY <1>1, <1>4, <2>1, <2>2, <2>3, SearchJob
<1>7. CASE ReplaceRead(p)
  <2>1. /\ h'[p] = [h[p] EXCEPT !.pc = "replaceTx", !.rev = rev] /\ h[p].pc = "replace"
        /\ importStatus' = importStatus
    BY <1>7, BecomeAt DEF ReplaceRead, Step, At, session
  <2>2. h'[p].pc = "replaceTx" /\ h'[p].line = h[p].line /\ h'[p].mpns = h[p].mpns
    BY <1>5, <2>1 DEF HandlerRecord
  <2>3. JobAsks(p)'
    BY <1>4, <2>1, <2>2 DEF JobAsks
  <2> QED BY <1>1, <1>4, <2>1, <2>2, <2>3, SearchJob
<1>8. CASE ReplaceTx(p)
  <2>1. /\ h'[p] = [h[p] EXCEPT !.pc = "cancelAll"] /\ h[p].pc = "replaceTx"
        /\ importStatus' = importStatus
        /\ line' = [l \in Line |-> IF l \in h[p].line THEN {l[2]} ELSE {}]
    BY <1>8, GotoAt DEF ReplaceTx, Step, At
  <2>2. h'[p].pc = "cancelAll" /\ h'[p].mpns = h[p].mpns
    BY <1>5, <2>1 DEF HandlerRecord
  <2>3. h[p].mpns # {} /\ h[p].mpns = {l[2] : l \in h[p].line}
    BY <1>4, <2>1 DEF JobAsks
  <2>4. h[p].line \subseteq Line
    BY <1>5 DEF HandlerRecord
  <2>5. Mpns' = {l[2] : l \in h[p].line}
    BY <2>1, <2>4 DEF Mpns
  <2>6. JobAsks(p)'
    BY <2>2, <2>3, <2>5 DEF JobAsks
  <2> QED BY <1>1, <1>4, <2>1, <2>2, <2>6, SearchJob
<1>9. CASE CancelAll(p)
  <2>1. /\ h'[p] = [h[p] EXCEPT !.pc = "load"] /\ h[p].pc = "cancelAll"
        /\ importStatus' = importStatus /\ line' = line
    BY <1>9, GotoAt DEF CancelAll, Step, At, session
  <2>2. h'[p].pc = "load" /\ h'[p].mpns = h[p].mpns
    BY <1>5, <2>1 DEF HandlerRecord
  <2>3. JobAsks(p)'
    BY <1>4, <2>1, <2>2 DEF JobAsks, Mpns
  <2> QED BY <1>1, <1>4, <2>1, <2>2, <2>3, SearchJob
<1>10. CASE Load(p)
  <2>1. /\ h'[p] = [h[p] EXCEPT !.pc = "upsert", !.keys = h[p].mpns \X platforms]
        /\ h[p].pc = "load" /\ importStatus' = importStatus
        /\ line' = line /\ platforms' = platforms /\ Mpns' = Mpns
    BY <1>10, BecomeAt DEF Load, Step, At, session, Mpns
  <2>2. h'[p].pc = "upsert" /\ h'[p].keys = h[p].mpns \X platforms
    BY <1>5, <2>1 DEF HandlerRecord
  <2>3. h[p].mpns # {} /\ h[p].mpns = Mpns
    BY <1>4, <2>1 DEF JobAsks
  <2>4. JobAsks(p)'
    BY <2>1, <2>2, <2>3 DEF JobAsks
  <2>5. ASSUME platforms # {} PROVE h'[p].keys # {}
    <3>1. PICK m \in h[p].mpns, q \in platforms : TRUE
      BY <2>3, <2>5
    <3>2. <<m, q>> \in h'[p].keys
      BY <2>2, <3>1
    <3> QED BY <3>2
  <2> QED BY <1>1, <1>4, <2>1, <2>4, <2>5, SearchJob
<1>11. CASE Upsert(p)
  <2>1. /\ h[p].pc = "upsert" /\ importStatus' = importStatus
        /\ line' = line /\ platforms' = platforms /\ Mpns' = Mpns
    BY <1>11 DEF Upsert, Step, At, session, Mpns
  <2>2. PICK k \in h[p].keys : /\ task' = [task EXCEPT ![k] = "pending"]
                               /\ Become(p, [h[p] EXCEPT !.keys = @ \ {k}])
    BY <1>11 DEF Upsert
  <2>3. h'[p] = [h[p] EXCEPT !.keys = @ \ {k}]
    BY <2>2, BecomeAt
  <2>4. h'[p].pc = "upsert" /\ h'[p].keys = h[p].keys \ {k}
    BY <1>5, <2>1, <2>3 DEF HandlerRecord
  <2>5. h[p].keys \subseteq Mpns \X platforms /\ k \in Key
    BY <1>4, <1>5, <2>1 DEF JobAsks, HandlerRecord
  <2>6. task'[k] \notin Ended
    BY <2>2, <2>5 DEF TypeOK, Ended, Outcomes
  <2>7. Awaited'
    BY <2>1, <2>5, <2>6 DEF Awaited
  <2>8. JobAsks(p)'
    BY <2>1, <2>4, <2>5 DEF JobAsks
  <2> QED BY <1>1, <1>4, <2>1, <2>7, <2>8, SearchJob
<1>12. CASE Asked(p)
  <2>1. /\ h'[p] = Idle /\ h[p].pc = "upsert" /\ h[p].keys = {}
        /\ UNCHANGED <<status, line, platforms, task, unjudged>> /\ Mpns' = Mpns
    BY <1>12, DoneAt DEF Asked, Step, At, Mpns
  <2>2. \A q \in Handler : ~h'[q].job
    BY <1>1, <1>4, <2>1 DEF Idle
  <2>3. platforms # {} /\ status = "searching" => Awaited
    BY <1>3, <2>1 DEF SearchInv
  <2>4. ~Sees(p)
    BY <2>1 DEF Sees
  <2>5. \A q \in Handler : Sees(q) => Sees(q)'
    BY <1>1, <2>1, <2>4 DEF Sees
  <2>6. Awaited => Awaited'
    BY <2>1, <2>5 DEF Awaited
  <2> QED BY <2>1, <2>2, <2>3, <2>6 DEF SearchInv
<1> QED BY <1>6, <1>7, <1>8, <1>9, <1>10, <1>11, <1>12 DEF ImportStep

LEMMA SearchStep ==
  ASSUME TypeOK, MarkOK, OneImport, CoverInv, SearchInv, ~edited', aborts' = 0, [Next]_vars
  PROVE  SearchInv'
<1>0. TypeOK'
  BY TypeStep
<1>1. CASE UNCHANGED vars
  <2>1. Mpns' = Mpns
    BY <1>1 DEF vars, Mpns
  <2> QED BY <1>1, <2>1 DEF vars, SearchInv, JobAsks, Awaited, Sees
<1>2. ASSUME NEW p \in Handler, Upload(p)
      PROVE  SearchInv'
  <2>1. importStatus' = "parsing" /\ \A q \in Handler : ~h[q].job
    BY <1>2 DEF Upload, StartJob, OneImport
  <2>2. PICK content \in (SUBSET Mpn) \ {{}} :
           Become(p, [Idle EXCEPT !.pc = "parse", !.job = TRUE, !.mpns = content,
                                  !.line = NewLines(content)])
    BY <1>2 DEF Upload, StartJob
  <2>3. h'[p] = [Idle EXCEPT !.pc = "parse", !.job = TRUE, !.mpns = content, !.line = NewLines(content)]
    BY <2>2, BecomeAt
  <2>4. h'[p].pc = "parse" /\ h'[p].mpns = content /\ h'[p].line = NewLines(content)
    BY <2>3 DEF Idle
  <2>5. content = {l[2] : l \in NewLines(content)}
    <3>1. ASSUME NEW m \in content PROVE m \in {l[2] : l \in NewLines(content)}
      <4>1. <<requests + 1, m>> \in NewLines(content) /\ <<requests + 1, m>>[2] = m
        BY DEF NewLines
      <4> QED BY <4>1
    <3>2. \A l \in NewLines(content) : l[2] \in content
      BY DEF NewLines
    <3> QED BY <3>1, <3>2
  <2>6. JobAsks(p)'
    <3>1. content # {}
      OBVIOUS
    <3> QED BY <2>4, <2>5, <3>1 DEF JobAsks
  <2>7. \A q \in Handler : q # p => h'[q] = h[q]
    BY <1>2, Others DEF NewRequest
  <2> QED BY <2>1, <2>4, <2>6, <2>7, SearchJob
<1>3. ASSUME NEW p \in Handler, JobFails(p)
      PROVE  SearchInv'
  <2>1. h[p].job /\ h'[p] = Idle /\ importStatus' = "failed" /\ \A q \in Handler : q # p => h'[q] = h[q]
    BY <1>3, DoneAt, Others DEF JobFails
  <2>2. \A q \in Handler : ~h'[q].job
    BY <2>1 DEF OneImport, Idle
  <2> QED BY <2>1, <2>2 DEF SearchInv
<1>4. ASSUME NEW p \in Handler, Abort(p)
      PROVE  FALSE
  BY <1>4 DEF Abort, TypeOK
<1>5. ASSUME NEW k \in Key, TaskGivenUp(k)
      PROVE  SearchInv'
  <2>1. UNCHANGED <<status, importStatus, platforms, line, h>> /\ Mpns' = Mpns /\ unjudged'
    BY <1>5 DEF TaskGivenUp, session, Mpns
  <2>2. \A p \in Handler : JobAsks(p) => JobAsks(p)'
    BY <2>1 DEF JobAsks
  <2> QED BY <2>1, <2>2 DEF SearchInv, Awaited
<1> QED BY <1>0, <1>1, <1>2, <1>3, <1>4, <1>5, OnlyRetries, OnlyImports, SearchImport, SearchOther
        DEF Next, HandlerStep

SearchOK == edited \/ aborts # 0 \/ SearchInv

\* The handlers that died are never forgotten.
LEMMA AbortsKept ==
  ASSUME TypeOK, [Next]_vars, aborts' = 0
  PROVE  aborts = 0
<1>1. ASSUME NEW p \in Handler, Abort(p) PROVE FALSE
  BY <1>1 DEF Abort, TypeOK
<1> QED
  BY <1>1 DEF Next, vars, NewRequest, Upload, StartJob, ReadSession, Create, Delete, Patch, Retry,
       Ask, HandlerStep, ImportStep, EditStep, ReadyStep, Parse, ReplaceRead, ReplaceTx, CancelAll,
       Load, Upsert, Asked, PatchRead, PatchTx, Patched, CancelOld, DeleteCancel, DeleteRead,
       DeleteTx, PutPlatforms, RetryDecide, ViewSession, ListLines, Judge, Mark, Step, JobFails,
       TaskEnds, TaskGivenUp

\* As long as users only import and retry, a session whose import is ready and whose tasks
\* have all ended is not left in searching once all handlers are done, unless a handler
\* died or a task was given up and no result came since.
THEOREM SearchIsOver == Spec => []SearchEnds
<1> DEFINE Inv == TypeOK /\ MarkOK /\ OneImport /\ CoverOK /\ SearchOK
<1>1. Init => Inv
  <2>1. Init => status = "draft" /\ \A p \in Handler : ~h[p].job
    BY DEF Init, Idle
  <2>2. Init => SearchInv
    BY <2>1 DEF SearchInv
  <2> QED BY <2>2, TypeInit, CoverInit DEF CoverOK, SearchOK
<1>2. Inv /\ [Next]_vars => Inv'
  <2> SUFFICES ASSUME Inv, [Next]_vars PROVE Inv'
    OBVIOUS
  <2>1. SearchOK'
    <3> SUFFICES ASSUME ~edited', aborts' = 0 PROVE SearchInv'
      BY DEF SearchOK
    <3>1. ~edited /\ aborts = 0
      BY EditedKept, AbortsKept
    <3> QED BY <3>1, SearchStep DEF SearchOK, CoverOK
  <2> QED BY <2>1, TypeStep, MarkStep, OneImportStep, CoverOKStep
<1>3. Inv => SearchEnds
  <2> SUFFICES ASSUME Inv, Quiet, ~edited, aborts = 0, importStatus = "ready", platforms # {},
                      \A k \in Mpns \X platforms : task[k] \in Ended, ~unjudged,
                      status = "searching"
               PROVE  FALSE
    BY DEF SearchEnds
  <2>1. Awaited
    BY DEF SearchOK, SearchInv
  <2> QED BY <2>1 DEF Awaited, Sees, Quiet, At
<1> QED BY <1>1, <1>2, <1>3, PTL DEF Spec
=============================================================================
