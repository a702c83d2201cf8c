-------------------------- MODULE ScriptSyncProofs --------------------------
(***************************************************************************)
(* Theorems about ScriptSync for any versions and contents and any number  *)
(* of uploads, publications, failures and deaths: a task runs with the     *)
(* whole package of its version, and no directory is left being prepared   *)
(* while the agent lives and can remove what is in its way.                *)
(***************************************************************************)
EXTENDS ScriptSync, TLAPS

Dirs == [preparing : BOOLEAN, failed : BOOLEAN, text : BOOLEAN, sha : Content \cup {None},
         body : Content \cup {None, Part}]

Stages == {"idle", "lock", "remove", "get", "unzip", "unzipped", "text", "sha", "pip", "unmark",
           "cleanup"}

\* What the installing goroutine keeps.
Record == [pc : Stages, version : Version \cup {None}, sha : Content \cup {None},
           zip : Content \cup {None}]

Shapes ==
    /\ pkg \in [Version -> Row \cup {None}]
    /\ file \in [Version -> Content \cup {None}]
    /\ up \subseteq [version : Version, content : Content]
    /\ dir \in [Version -> Dirs]
    /\ inst \in Record
    /\ task # None => task \in [pc : {"waiting", "running"}, version : Version]

\* What is installed was asked for with the checksum of its version's row, which keeps it;
\* what was downloaded has that checksum, and what was unpacked is it.
Installing ==
    /\ inst.pc # "idle" =>
          inst.version \in Version /\ pkg[inst.version] # None /\ inst.sha = pkg[inst.version].sha
    /\ inst.pc \in {"unzip", "unzipped", "text", "sha", "pip", "unmark"} => inst.zip = inst.sha
    /\ inst.pc \in {"text", "sha", "pip", "unmark"} => dir[inst.version].body = inst.zip

Exclude == Running => ~Locked

WorkedOn(v) == Locked /\ inst.version = v

\* A task is of a version that has a row.
RunsHaveRows == task # None => pkg[task.version] # None

\* A directory nobody works on holds nothing of a package or the whole of its version's.
Whole(v) == dir[v].body # None => pkg[v] # None /\ dir[v].body = pkg[v].sha

WholeUnlessTorn == \A v \in Version : v \in torn \/ WorkedOn(v) \/ Whole(v)

IInv == Shapes /\ Installing /\ Exclude /\ RunsHaveRows /\ WholeUnlessTorn /\ PreparingIsWorked
           /\ RunsWhole

-----------------------------------------------------------------------------
(* The server *)

\* Rows come and change their status, and keep their checksum.
RowsStay ==
    \A v \in Version : pkg[v] # None => pkg'[v] # None /\ pkg'[v].sha = pkg[v].sha

\* A step that leaves the agent alone keeps what is known of it.
LEMMA AgentAlone ==
  ASSUME IInv, Shapes', RowsStay, UNCHANGED <<dir, inst, scan, reported, task, torn>>
  PROVE  IInv'
<1>1. Installing'
  BY DEF IInv, Shapes, Record, Installing, RowsStay
<1>2. Exclude' /\ PreparingIsWorked'
  BY DEF IInv, Exclude, Running, Locked, PreparingIsWorked
<1>3. RunsHaveRows'
  BY DEF IInv, Shapes, Record, RunsHaveRows, RowsStay
<1>4. WholeUnlessTorn'
  BY DEF IInv, WholeUnlessTorn, WorkedOn, Locked, Whole, RowsStay
<1>5. RunsWhole'
  <2>1. SUFFICES ASSUME Running', task.version \notin torn
                 PROVE  dir[task.version].body = pkg'[task.version].sha
    BY DEF RunsWhole
  <2>2. task.version \in Version /\ ~Locked
    BY <2>1 DEF IInv, Shapes, Record, Exclude, Running
  <2>3. dir[task.version].body = pkg[task.version].sha
    BY <2>1 DEF IInv, RunsWhole, Running
  <2>4. RunsHaveRows
    BY DEF IInv
  <2> QED BY <2>1, <2>2, <2>3, <2>4 DEF RunsHaveRows, Running, RowsStay
<1> QED BY <1>1, <1>2, <1>3, <1>4, <1>5 DEF IInv

LEMMA UploadStep == ASSUME SyncAssumption, IInv, NEW v \in Version, NEW c \in Content, Upload(v, c) PROVE IInv'
<1>1. Shapes'
  BY DEF Upload, IInv, Shapes, Record
<1>2. RowsStay
  BY DEF Upload, RowsStay
<1> QED BY <1>1, <1>2, AgentAlone DEF Upload

LEMMA InsertStep == ASSUME SyncAssumption, IInv, NEW u \in up, Insert(u) PROVE IInv'
<1>1. u \in [version : Version, content : Content]
  BY DEF IInv, Shapes, Record
<1>2. [status |-> "uploaded", sha |-> u.content] \in Row
  BY <1>1 DEF Row
<1>3. pkg' \in [Version -> Row \cup {None}] /\ RowsStay
  BY <1>1, <1>2 DEF Insert, IInv, Shapes, Record, RowsStay
<1>4. Shapes'
  BY <1>1, <1>3 DEF Insert, IInv, Shapes, Record
<1> QED BY <1>3, <1>4, AgentAlone DEF Insert

LEMMA PublishStep == ASSUME SyncAssumption, IInv, NEW v \in Version, Publish(v) PROVE IInv'
<1>1. ASSUME NEW w \in Version
      PROVE  /\ pkg'[w] \in Row \cup {None}
             /\ pkg[w] # None => pkg'[w] # None /\ pkg'[w].sha = pkg[w].sha
  <2>1. pkg[w] # None => pkg[w] \in Row
    BY DEF IInv, Shapes, Record
  <2>2. \A r \in Row, t \in {"published", "archived"} :
           [r EXCEPT !.status = t] \in Row /\ [r EXCEPT !.status = t].sha = r.sha
    BY DEF Row
  <2>3. None \notin Row
    BY DEF SyncAssumption
  <2> QED BY <2>1, <2>2, <2>3 DEF Publish, Published
<1>2. pkg' \in [Version -> Row \cup {None}]
  BY <1>1 DEF Publish
<1>3. Shapes' /\ RowsStay
  BY <1>1, <1>2 DEF Publish, IInv, Shapes, Record, RowsStay
<1> QED BY <1>3, AgentAlone DEF Publish

LEMMA AdminStep == ASSUME SyncAssumption, IInv, Admin PROVE IInv'
<1>1. CASE ServerDies
  <2>1. Shapes' /\ RowsStay
    BY <1>1 DEF ServerDies, IInv, Shapes, Record, RowsStay
  <2> QED BY <1>1, <2>1, AgentAlone DEF ServerDies
<1> QED BY <1>1, UploadStep, InsertStep, PublishStep DEF Admin

-----------------------------------------------------------------------------
(* Installation *)

\* While the lock is held nothing runs: what an installation does concerns no task, and no
\* version but its own.
LEMMA LockedStep ==
  ASSUME IInv, NEW i \in Version, WorkedOn(i), Shapes', Installing', UNCHANGED <<server, task>>,
         \A v \in Version : v # i => dir'[v] = dir[v] /\ (v \in torn => v \in torn'),
         \/ WorkedOn(i)'
         \/ ~Locked' /\ i \in torn'
         \/ ~Locked' /\ Whole(i)' /\ ~dir'[i].preparing
  PROVE  IInv'
<1>1. ~Running /\ ~Running'
  BY DEF IInv, Exclude, Running, WorkedOn
<1>2. Exclude' /\ RunsHaveRows' /\ RunsWhole'
  BY <1>1 DEF IInv, Exclude, RunsHaveRows, RunsWhole, Running, server
<1>4. ASSUME NEW v \in Version PROVE v \in torn' \/ WorkedOn(v)' \/ Whole(v)'
  <2>1. CASE v = i
    BY <2>1
  <2>2. CASE v # i
    BY <2>2 DEF IInv, WholeUnlessTorn, WorkedOn, Whole, server
  <2> QED BY <2>1, <2>2
<1>5. ASSUME NEW v \in Version, dir'[v].preparing
      PROVE  v \in torn' \/ (Locked' /\ inst'.version = v)
  <2>1. CASE v = i
    BY <1>5, <2>1 DEF WorkedOn
  <2>2. CASE v # i
    BY <1>5, <2>2 DEF IInv, PreparingIsWorked, WorkedOn
  <2> QED BY <2>1, <2>2
<1> QED BY <1>2, <1>4, <1>5 DEF IInv, WholeUnlessTorn, PreparingIsWorked

\* What holds at a step under the lock.
LEMMA AtWork ==
  ASSUME IInv, Locked
  PROVE  /\ inst.version \in Version /\ WorkedOn(inst.version) /\ dir[inst.version] \in Dirs
         /\ pkg[inst.version] # None /\ inst.sha = pkg[inst.version].sha
         /\ inst.sha \in Content
<1>1. inst.version \in Version /\ pkg[inst.version] # None /\ inst.sha = pkg[inst.version].sha
  BY DEF IInv, Installing, Locked
<1>2. pkg[inst.version] \in Row
  BY <1>1 DEF IInv, Shapes, Record
<1> QED BY <1>1, <1>2 DEF IInv, Shapes, Record, WorkedOn, Row

\* A step that only goes to another one.
LEMMA GotoStep ==
  ASSUME IInv, Locked, NEW pc \in Stages \ {"idle", "lock"}, NEW z \in Content \cup {None},
         inst' \in Record /\ inst'.pc = pc /\ inst'.zip = z,
         inst'.version = inst.version /\ inst'.sha = inst.sha,
         UNCHANGED <<server, dir, task, torn>>,
         pc \in {"unzip", "unzipped", "text", "sha", "pip", "unmark"} => z = inst.sha,
         pc \notin {"text", "sha", "pip", "unmark"}
  PROVE  IInv'
<1>1. inst.pc # "idle"
  BY DEF Locked
<1>2. Shapes' /\ Installing'
  BY <1>1 DEF IInv, Shapes, Record, Installing, server
<1>3. PICK i \in Version : i = inst.version /\ WorkedOn(i)
  BY AtWork
<1>4. WorkedOn(i)'
  BY <1>3 DEF WorkedOn, Locked, Stages
<1> QED BY <1>2, <1>3, <1>4, LockedStep

\* A step that writes in the directory and goes on.
LEMMA WriteStep ==
  ASSUME IInv, Locked, NEW pc \in Stages \ {"idle", "lock"}, NEW d \in Dirs, Write(d, pc),
         UNCHANGED <<server, task>>,
         \A v \in Version : v # inst.version => (v \in torn => v \in torn'),
         pc \in {"unzip", "unzipped", "text", "sha", "pip", "unmark"} => inst.zip = inst.sha,
         pc \in {"text", "sha", "pip", "unmark"} => d.body = inst.zip
  PROVE  IInv'
<1>1. inst.pc # "idle" /\ inst.version \in Version
  BY AtWork DEF Locked
<1>2. inst' = [inst EXCEPT !.pc = pc] /\ dir' = [dir EXCEPT ![inst.version] = d]
  BY DEF Write
<1>3. dir' \in [Version -> Dirs] /\ dir'[inst.version] = d
      /\ \A v \in Version : v # inst.version => dir'[v] = dir[v]
  BY <1>1, <1>2 DEF IInv, Shapes, Record
<1>4. Shapes' /\ Installing'
  BY <1>1, <1>2, <1>3 DEF IInv, Shapes, Record, Installing, server
<1>5. PICK i \in Version : i = inst.version /\ WorkedOn(i)
  BY AtWork
<1>6. WorkedOn(i)'
  BY <1>2, <1>5 DEF IInv, Shapes, Record, WorkedOn, Locked, Stages
<1> QED BY <1>3, <1>4, <1>5, <1>6, LockedStep

\* A step that writes in the directory and is the last one.
LEMMA LastStep ==
  ASSUME IInv, Locked, NEW d \in Dirs, dir' = [dir EXCEPT ![inst.version] = d], inst' = Idle,
         UNCHANGED <<server, task>>,
         \A v \in Version : v # inst.version => (v \in torn => v \in torn'),
         \/ inst.version \in torn'
         \/ ~d.preparing /\ (d.body = None \/ d.body = inst.sha)
  PROVE  IInv'
<1>1. PICK i \in Version : i = inst.version /\ WorkedOn(i)
  BY AtWork
<1>2. dir' \in [Version -> Dirs] /\ dir'[i] = d /\ \A v \in Version : v # i => dir'[v] = dir[v]
  BY <1>1 DEF IInv, Shapes, Record
<1>3. Shapes' /\ Installing'
  BY <1>2 DEF IInv, Shapes, Record, Installing, server, Idle, Stages
<1>4. ~Locked'
  BY DEF Locked, Idle
<1>5. CASE inst.version \in torn'
  BY <1>1, <1>2, <1>3, <1>4, <1>5, LockedStep
<1>6. CASE ~d.preparing /\ (d.body = None \/ d.body = inst.sha)
  <2>1. d.body # None => pkg[i] # None /\ d.body = pkg[i].sha
    BY <1>1, <1>6, AtWork
  <2>2. Whole(i)'
    BY <2>1, <1>2 DEF Whole, server
  <2> QED BY <1>1, <1>2, <1>3, <1>4, <1>6, <2>2, LockedStep
<1> QED BY <1>5, <1>6

\* What RemoveAll leaves is a directory.
LEMMA LessIsDir == ASSUME SyncAssumption, NEW d \in Dirs, NEW e \in Less(d) PROVE e \in Dirs
BY DEF Less, Dirs

LEMMA RemoveStep == ASSUME SyncAssumption, IInv, Remove PROVE IInv'
<1>1. Locked
  BY DEF Remove, Locked
<1>2. PICK d \in Less(dir[inst.version]) : dir' = [dir EXCEPT ![inst.version] = d]
  BY DEF Remove, Here
<1>3. d \in Dirs
  BY <1>1, AtWork, LessIsDir
<1>4. inst' = [inst EXCEPT !.pc = inst.pc] /\ inst.pc # "idle"
  BY DEF Remove, IInv, Shapes, Record
<1> QED BY <1>1, <1>2, <1>3, <1>4, WriteStep DEF Remove, Write, Stages

LEMMA CleanedStep == ASSUME SyncAssumption, IInv, Cleaned PROVE IInv'
<1>1. Locked /\ Empty \in Dirs
  BY DEF Cleaned, Locked, Empty, Dirs
<1>2. dir' = [dir EXCEPT ![inst.version] = Empty]
  BY <1>1, AtWork DEF Cleaned, Here, IInv, Shapes, Record
<1> QED BY <1>1, <1>2, LastStep DEF Cleaned, Empty

\* A directory with what could not be removed.
LEMMA RemoveFailsStep == ASSUME SyncAssumption, IInv, RemoveFails PROVE IInv'
<1>1. Locked
  BY DEF RemoveFails, Locked
<1>2. Here \in Dirs
  BY <1>1, AtWork DEF Here
<1>3. torn' = torn \cup {inst.version} \/ (torn' = torn /\ Here = Empty)
  BY DEF RemoveFails
<1>4. CASE Write(Here, "idle")
  <2>1. inst.version \in torn' \/ (~Here.preparing /\ Here.body = None)
    BY <1>3 DEF Empty
  <2> QED BY <1>1, <1>2, <1>3, <1>4, <2>1, LastStep DEF RemoveFails, Write
<1>5. CASE Write([Here EXCEPT !.preparing = TRUE], "get")
  <2>1. [Here EXCEPT !.preparing = TRUE] \in Dirs
    BY <1>2 DEF Dirs
  <2> QED BY <1>1, <1>3, <1>5, <2>1, WriteStep DEF RemoveFails, Stages
<1> QED BY <1>4, <1>5 DEF RemoveFails

LEMMA GetStep == ASSUME SyncAssumption, IInv, Get PROVE IInv'
<1>1. Locked
  BY DEF Get, Locked
<1>2. CASE file[inst.version] = inst.sha
  <2>1. inst' \in Record /\ inst'.pc = "unzip" /\ inst'.zip = inst.sha
        /\ inst'.version = inst.version /\ inst'.sha = inst.sha /\ inst.sha \in Content
    BY <1>1, <1>2, AtWork DEF Get, IInv, Shapes, Record, Stages
  <2>2. UNCHANGED <<server, dir, task, torn>>
    BY DEF Get
  <2> QED BY <1>1, <2>1, <2>2, GotoStep DEF Stages
<1>3. CASE file[inst.version] # inst.sha
  <2>1. inst' \in Record /\ inst'.pc = "cleanup" /\ inst'.zip = inst.zip
        /\ inst'.version = inst.version /\ inst'.sha = inst.sha /\ inst.zip \in Content \cup {None}
    BY <1>3 DEF Get, IInv, Shapes, Record, Stages
  <2>2. UNCHANGED <<server, dir, task, torn>>
    BY DEF Get
  <2> QED BY <1>1, <2>1, <2>2, GotoStep DEF Stages
<1> QED BY <1>2, <1>3

LEMMA FillStep ==
  ASSUME SyncAssumption, IInv, Mark \/ Unzip \/ Unzipped \/ WriteText \/ WriteSha
  PROVE  IInv'
<1>1. Locked
  BY DEF Mark, Unzip, Unzipped, WriteText, WriteSha, Locked
<1> DEFINE d == Here
<1>2. d \in Dirs /\ inst.sha \in Content
  BY <1>1, AtWork DEF Here
<1>3. CASE Mark
  <2>1. [Empty EXCEPT !.preparing = TRUE] \in Dirs
    BY DEF Empty, Dirs
  <2> QED BY <1>1, <1>3, <2>1, WriteStep DEF Mark, Stages
<1>4. CASE Unzip
  <2>1. PICK t \in BOOLEAN : Write([d EXCEPT !.body = Part, !.text = t], "unzipped")
    BY <1>4 DEF Unzip
  <2>2. [d EXCEPT !.body = Part, !.text = t] \in Dirs
    BY <1>2 DEF Dirs
  <2>3. inst.zip = inst.sha
    BY <1>4 DEF Unzip, IInv, Installing
  <2> QED BY <1>1, <1>4, <2>1, <2>2, <2>3, WriteStep DEF Unzip, Stages
<1>5. CASE Unzipped
  <2>1. inst.zip = inst.sha
    BY <1>5 DEF Unzipped, IInv, Installing
  <2>2. [d EXCEPT !.body = inst.zip] \in Dirs /\ [d EXCEPT !.body = inst.zip].body = inst.zip
    BY <1>2, <2>1 DEF Dirs
  <2> QED BY <1>1, <1>5, <2>1, <2>2, WriteStep DEF Unzipped, Stages
<1>6. CASE WriteText
  <2>1. inst.zip = inst.sha /\ d.body = inst.zip
    BY <1>6 DEF WriteText, Here, IInv, Installing
  <2>2. [d EXCEPT !.text = TRUE] \in Dirs /\ [d EXCEPT !.text = TRUE].body = d.body
    BY <1>2 DEF Dirs
  <2> QED BY <1>1, <1>6, <2>1, <2>2, WriteStep DEF WriteText, Stages
<1>7. CASE WriteSha
  <2>1. inst.zip = inst.sha /\ d.body = inst.zip
    BY <1>7 DEF WriteSha, Here, IInv, Installing
  <2>2. [d EXCEPT !.sha = inst.sha] \in Dirs /\ [d EXCEPT !.sha = inst.sha].body = d.body
    BY <1>2 DEF Dirs
  <2> QED BY <1>1, <1>7, <2>1, <2>2, WriteStep DEF WriteSha, Stages
<1> QED BY <1>3, <1>4, <1>5, <1>6, <1>7

LEMMA InstallFailsStep == ASSUME SyncAssumption, IInv, InstallFails PROVE IInv'
<1>1. Locked
  BY DEF InstallFails, Locked
<1>2. inst' \in Record /\ inst'.pc = "cleanup" /\ inst'.zip = inst.zip
        /\ inst'.version = inst.version /\ inst'.sha = inst.sha /\ inst.zip \in Content \cup {None}
  BY DEF InstallFails, Goto, IInv, Shapes, Record, Stages
<1>3. UNCHANGED <<server, dir, task, torn>>
  BY DEF InstallFails
<1> QED BY <1>1, <1>2, <1>3, GotoStep DEF Stages

\* The last steps: the marker goes or stays, and another one may have come.
LEMMA PipStep ==
  ASSUME SyncAssumption, IInv, Pip \/ PipFails \/ Unmark \/ UnmarkFails
  PROVE  IInv'
<1>1. Locked
  BY DEF Pip, PipFails, Unmark, UnmarkFails, Locked
<1> DEFINE d == Here
<1>2. d \in Dirs /\ inst.zip = inst.sha /\ d.body = inst.zip
  BY <1>1, AtWork DEF Pip, PipFails, Unmark, UnmarkFails, Here, IInv, Installing
<1>3. CASE PipFails
  <2>1. PICK f \in BOOLEAN : Write([d EXCEPT !.failed = f], "unmark")
    BY <1>2, <1>3 DEF PipFails, Dirs
  <2>2. [d EXCEPT !.failed = f] \in Dirs /\ [d EXCEPT !.failed = f].body = d.body
    BY <1>2 DEF Dirs
  <2> QED BY <1>1, <1>2, <1>3, <2>1, <2>2, WriteStep DEF PipFails, Stages
<1>4. CASE Pip \/ Unmark
  <2> DEFINE e == [d EXCEPT !.preparing = FALSE]
  <2>1. e \in Dirs /\ e.body = d.body /\ ~e.preparing
    BY <1>2 DEF Dirs
  <2>2. Write(e, "idle") /\ torn \ {inst.version} \subseteq torn'
    BY <1>4 DEF Pip, Unmark
  <2> QED BY <1>1, <1>2, <1>4, <2>1, <2>2, LastStep DEF Write, Pip, Unmark
<1>5. CASE UnmarkFails
  BY <1>1, <1>2, <1>5, LastStep DEF Write, UnmarkFails
<1> QED BY <1>3, <1>4, <1>5

\* Asking, and taking the lock, which no task holds then.
LEMMA LockStep == ASSUME SyncAssumption, IInv, Ask \/ Lock PROVE IInv'
<1>1. Shapes' /\ Installing'
  <2>1. CASE Ask
    <3>1. PICK v \in Version :
             /\ Published(v)
             /\ inst' = [Idle EXCEPT !.pc = "lock", !.version = v, !.sha = pkg[v].sha]
      BY <2>1 DEF Ask
    <3>2. pkg[v] \in Row /\ pkg[v] # None
      BY <3>1 DEF Published, IInv, Shapes, Record
    <3> QED BY <2>1, <3>1, <3>2 DEF Ask, IInv, Shapes, Record, Installing, server, Idle, Stages, Row
  <2>2. CASE Lock
    BY <2>2 DEF Lock, Goto, IInv, Shapes, Record, Installing, server, Stages
  <2> QED BY <2>1, <2>2
<1>2. ~Locked /\ UNCHANGED <<server, dir, task, torn>>
  BY DEF Ask, Lock, Locked
<1>3. Exclude' /\ RunsHaveRows' /\ RunsWhole'
  BY <1>2 DEF Ask, Lock, Goto, Idle, IInv, Shapes, Record, Exclude, Running, Locked, RunsHaveRows, RunsWhole, server
<1>4. WholeUnlessTorn' /\ PreparingIsWorked'
  BY <1>2 DEF IInv, WholeUnlessTorn, WorkedOn, Whole, PreparingIsWorked, server
<1> QED BY <1>1, <1>3, <1>4 DEF IInv

LEMMA InstallStep == ASSUME SyncAssumption, IInv, Install \/ Lock PROVE IInv'
BY RemoveStep, RemoveFailsStep, CleanedStep, GetStep, FillStep, InstallFailsStep, PipStep, LockStep DEF Install

-----------------------------------------------------------------------------
(* Tasks *)

\* A task that is not running, or none.
LEMMA TaskStep ==
  ASSUME IInv, UNCHANGED <<server, dir, inst, torn>>, RunsHaveRows', ~Running',
         task' # None => task' \in [pc : {"waiting", "running"}, version : Version]
  PROVE  IInv'
BY DEF IInv, Shapes, Record, Installing, Exclude, Locked, WholeUnlessTorn, WorkedOn, Whole, PreparingIsWorked,
       RunsWhole, server

LEMMA LeaseStep == ASSUME SyncAssumption, IInv, Lease PROVE IInv'
<1>1. PICK v \in Version : pkg[v] # None /\ task' = [pc |-> "waiting", version |-> v]
  BY DEF Lease
<1> QED BY <1>1, TaskStep DEF Lease, RunsHaveRows, Running, server

\* A run begins with the lock: nobody works on the directory of its version.
LEMMA RunStep == ASSUME SyncAssumption, IInv, Run PROVE IInv'
<1>1. CASE task' = None
  BY <1>1, TaskStep DEF Run, RunsHaveRows, Running
<1>2. CASE task' # None
  <2>1. /\ task \in [pc : {"waiting", "running"}, version : Version]
        /\ task' = [task EXCEPT !.pc = "running"] /\ dir[task.version].body # None /\ ~Locked
        /\ pkg[task.version] # None
    BY <1>2 DEF Run, IInv, Shapes, Record, RunsHaveRows
  <2>2. task' \in [pc : {"waiting", "running"}, version : Version] /\ task'.version = task.version
    BY <2>1
  <2>3. task.version \in torn \/ dir[task.version].body = pkg[task.version].sha
    BY <2>1 DEF IInv, WholeUnlessTorn, WorkedOn, Whole
  <2>4. Shapes' /\ Installing' /\ Exclude' /\ RunsHaveRows'
    BY <2>1, <2>2 DEF Run, IInv, Shapes, Record, Installing, Exclude, Locked, RunsHaveRows, server
  <2>5. WholeUnlessTorn' /\ PreparingIsWorked'
    BY DEF Run, IInv, WholeUnlessTorn, WorkedOn, Locked, Whole, PreparingIsWorked, server
  <2>6. RunsWhole'
    BY <2>2, <2>3 DEF RunsWhole, Run, server
  <2> QED BY <2>4, <2>5, <2>6 DEF IInv
<1> QED BY <1>1, <1>2

\* The agent dies: what it was working on is torn.
LEMMA AgentDiesStep == ASSUME SyncAssumption, IInv, AgentDies PROVE IInv'
<1>1. Shapes' /\ Installing' /\ Exclude' /\ RunsHaveRows' /\ RunsWhole'
  BY DEF AgentDies, IInv, Shapes, Record, Installing, Exclude, Running, RunsHaveRows, RunsWhole, Idle, Stages, server
<1>2. \A v \in Version : (v \in torn \/ WorkedOn(v)) => v \in torn'
  BY DEF AgentDies, WorkedOn
<1>3. WholeUnlessTorn'
  BY <1>2 DEF AgentDies, IInv, WholeUnlessTorn, Whole, server
<1>4. PreparingIsWorked'
  BY <1>2 DEF AgentDies, IInv, PreparingIsWorked, WorkedOn
<1> QED BY <1>1, <1>3, <1>4 DEF IInv

-----------------------------------------------------------------------------
(* The theorems *)

LEMMA Initially == ASSUME SyncAssumption PROVE Init => IInv
<1> SUFFICES ASSUME Init PROVE IInv
  OBVIOUS
<1>1. Empty \in Dirs /\ Empty.body = None /\ ~Empty.preparing
  BY DEF Empty, Dirs
<1> QED BY <1>1 DEF Init, Idle, IInv, Shapes, Record, Installing, Exclude, Running, RunsHaveRows,
               WholeUnlessTorn, Whole, PreparingIsWorked, RunsWhole, Stages

LEMMA Inductive == ASSUME SyncAssumption PROVE IInv /\ [Next]_vars => IInv'
<1> SUFFICES ASSUME IInv, [Next]_vars PROVE IInv'
  OBVIOUS
<1>1. CASE Admin
  BY <1>1, AdminStep
<1>2. CASE Install \/ Lock
  BY <1>2, InstallStep
<1>3. CASE Scan
  <2>1. UNCHANGED <<server, dir, inst, task, torn>>
    BY <1>3 DEF Scan, Look, Read, Report
  <2> QED BY <2>1 DEF IInv, Shapes, Record, Installing, Exclude, Running, Locked, RunsHaveRows, WholeUnlessTorn,
                      WorkedOn, Whole, PreparingIsWorked, RunsWhole, server
<1>4. CASE Tasks
  <2>1. CASE RunEnds
    BY <2>1, TaskStep DEF RunEnds, RunsHaveRows, Running
  <2> QED BY <1>4, <2>1, LeaseStep, RunStep DEF Tasks
<1>5. CASE AgentDies
  BY <1>5, AgentDiesStep
<1>6. CASE UNCHANGED vars
  BY <1>6 DEF vars, IInv, Shapes, Record, Installing, Exclude, Running, Locked, RunsHaveRows, WholeUnlessTorn,
              WorkedOn, Whole, PreparingIsWorked, RunsWhole, server
<1> QED BY <1>1, <1>2, <1>3, <1>4, <1>5, <1>6 DEF Next

\* Whatever is uploaded again under a name that is taken, published, rolled back, downloaded at the
\* wrong moment or left half installed: a task runs with the whole package of its version's row, or
\* the agent died in the installation or could not empty the directory, and no installation
\* succeeded since (UploadPackage, downloadAndInstallPackage, RunTask).
THEOREM RunsAreWhole == Spec => []RunsWhole
<1>1. IInv => RunsWhole
  BY DEF IInv
<1> QED BY Initially, Inductive, SyncAssumption, <1>1, PTL DEF Spec

\* Whatever step of an installation fails, the marker that bars every later attempt goes, or a
\* removal failed or the agent died (downloadAndInstallPackage, needsScriptSync).
THEOREM MarkersGo == Spec => []PreparingIsWorked
<1>1. IInv => PreparingIsWorked
  BY DEF IInv
<1> QED BY Initially, Inductive, SyncAssumption, <1>1, PTL DEF Spec
=============================================================================
