------------------------------ MODULE ScriptSync ------------------------------
(***************************************************************************)
(* The packages of one script, from upload to execution: rows of           *)
(* t_agent_script_package and the files they name                          *)
(* (service/script_package_admin.go, data/agent_script_package_repo.go),   *)
(* what the server tells an agent to install (script_package_sync.go), how *)
(* the agent installs it (agentapp/sync.go), what it reports               *)
(* (manifest.go), and the tasks it is given and runs (runner.go, app.go).  *)
(*                                                                         *)
(* The agent's heartbeat of scripts, its heartbeat of tasks and its tasks  *)
(* are goroutines; the last and the first share a lock per script.  A step *)
(* is one operation on a file or a table.  A checksum stands for the       *)
(* content it is of, a file for its name: all uploads of a version have    *)
(* the same file name.  Scripts share nothing, and agents only the files.  *)
(* The server never sends the action "delete".                             *)
(***************************************************************************)
EXTENDS Naturals, Sequences

CONSTANTS
    None,
    Names,        \* versions, in the order in which a directory lists their names
    Content,      \* contents of packages
    NeedsPip,     \* those that bring a requirements.txt
    MaxUploads,   \* bound: uploads
    MaxPublishes, \* bound: publications
    MaxFaults,    \* bound: failing downloads, unpackings, installations of dependencies, removals
    MaxCrashes    \* bound: deaths of the server or the agent

Version == {Names[i] : i \in DOMAIN Names}
Part    == "part"

\* A row of the table; its version is its key.
Row == [status : {"uploaded", "published", "archived"}, sha : Content]

ASSUME SyncAssumption ==
    /\ Names \in Seq(Version)
    /\ \A i, j \in DOMAIN Names : Names[i] = Names[j] => i = j
    /\ None \notin Version \cup Content \cup Row /\ Part \notin Content \cup {None}
    /\ NeedsPip \subseteq Content
    /\ MaxUploads \in Nat /\ MaxPublishes \in Nat /\ MaxFaults \in Nat /\ MaxCrashes \in Nat

VARIABLES
    pkg,      \* [Version -> row of the version, None if there is none]
    file,     \* [Version -> content of the file its row names, None if there is none]
    up,       \* uploads that have written the file and not yet the row
    dir,      \* [Version -> what the agent's directory of the version holds]
    inst,     \* the goroutine that installs: next step, version, checksum, package
    scan,     \* the one that reports: place in Names, markers looked for, last ready version
    reported, \* the version of the script that the server has as ready on the agent
    task,     \* the agent's task of the script, None if there is none
    torn,     \* history: versions in whose directory there is what a dead agent left or what
              \* could not be removed, since when they have not been installed anew
    uploads, publishes, faults, crashes

server == <<pkg, file, up, uploads, publishes>>
vars   == <<server, dir, inst, scan, reported, task, torn, faults, crashes>>

\* Markers, version.txt, .package_sha256 and the files of the package.
Empty   == [preparing |-> FALSE, failed |-> FALSE, text |-> FALSE, sha |-> None, body |-> None]
Idle    == [pc |-> "idle", version |-> None, sha |-> None, zip |-> None]
Begin   == [at |-> 1, looked |-> FALSE, last |-> None]

Init ==
    /\ pkg  = [v \in Version |-> None]
    /\ file = [v \in Version |-> None]
    /\ up   = {}
    /\ dir  = [v \in Version |-> Empty]
    /\ inst = Idle /\ scan = Begin
    /\ reported = None /\ task = None
    /\ torn = {}
    /\ uploads = 0 /\ publishes = 0 /\ faults = 0 /\ crashes = 0

-----------------------------------------------------------------------------
(* Packages *)

\* UploadPackage writes the file, over another one of its name ...
Upload(v, c) ==
    /\ uploads < MaxUploads /\ uploads' = uploads + 1
    /\ file' = [file EXCEPT ![v] = c]
    /\ up'   = up \cup {[version |-> v, content |-> c]}
    /\ UNCHANGED <<pkg, publishes, dir, inst, scan, reported, task, torn, faults, crashes>>

\* ... and then the row; a version that has one is refused, and the file removed.
Insert(u) ==
    /\ up' = up \ {u}
    /\ IF pkg[u.version] = None
       THEN /\ pkg' = [pkg EXCEPT ![u.version] = [status |-> "uploaded", sha |-> u.content]]
            /\ UNCHANGED file
       ELSE /\ file' = [file EXCEPT ![u.version] = None]
            /\ UNCHANGED pkg
    /\ UNCHANGED <<uploads, publishes, dir, inst, scan, reported, task, torn, faults, crashes>>

Published(v) == pkg[v] # None /\ pkg[v].status = "published"

\* SetPublished: the row published before is archived.
Publish(v) ==
    /\ publishes < MaxPublishes /\ publishes' = publishes + 1
    /\ pkg[v] # None /\ ~Published(v)
    /\ pkg' = [w \in Version |->
                  IF w = v THEN [pkg[w] EXCEPT !.status = "published"]
                  ELSE IF Published(w) THEN [pkg[w] EXCEPT !.status = "archived"] ELSE pkg[w]]
    /\ UNCHANGED <<file, up, uploads, dir, inst, scan, reported, task, torn, faults, crashes>>

ServerDies ==
    /\ up # {} /\ crashes < MaxCrashes /\ crashes' = crashes + 1
    /\ up' = {}
    /\ UNCHANGED <<pkg, file, uploads, publishes, dir, inst, scan, reported, task, torn, faults>>

-----------------------------------------------------------------------------
(* Installation *)

\* scriptRowFromVersionDir: only a ready directory has its checksum reported.
HasRow(d) == d.preparing \/ d.failed \/ d.text
Ready(d)  == ~d.preparing /\ ~d.failed /\ d.text
RowSha(d) == IF Ready(d) THEN d.sha ELSE None

\* Of the rows reported for a script the server keeps the last.
Rows    == {i \in DOMAIN Names : HasRow(dir[Names[i]])}
LastRow(v) == \E i \in Rows : Names[i] = v /\ \A j \in Rows : j <= i

\* Mutant of NeedsSync: any installed version will do.
NeedsSyncIfNone(v) == Rows = {}

\* needsScriptSync for the published version: whether the row is ready is not asked.
NeedsSync(v) ==
    IF LastRow(v) THEN RowSha(dir[v]) \notin {None, pkg[v].sha} ELSE TRUE

\* ScriptSyncHeartbeat and its answer.
Ask ==
    /\ inst.pc = "idle"
    /\ \E v \in Version :
          /\ Published(v) /\ NeedsSync(v)
          /\ inst' = [Idle EXCEPT !.pc = "lock", !.version = v, !.sha = pkg[v].sha]
    /\ UNCHANGED <<server, dir, scan, reported, task, torn, faults, crashes>>

Running == task # None /\ task.pc = "running"
Locked  == inst.pc \notin {"idle", "lock"}

Goto(pc) == inst' = [inst EXCEPT !.pc = pc]

\* applySyncActions: the lock of the script.
Lock ==
    /\ inst.pc = "lock" /\ ~Running
    /\ Goto("remove")
    /\ UNCHANGED <<server, dir, scan, reported, task, torn, faults, crashes>>

\* What RemoveAll leaves after its next step; files go one by one.
Less(d) ==
    {[d EXCEPT !.preparing = FALSE], [d EXCEPT !.failed = FALSE], [d EXCEPT !.text = FALSE],
     [d EXCEPT !.sha = None], [d EXCEPT !.body = IF @ \in Content THEN Part ELSE None]} \ {d}

\* The directory of the version that is installed.
Here == dir[inst.version]

\* The directory is emptied, before it is filled or after that has failed.
Remove ==
    /\ inst.pc \in {"remove", "cleanup"} /\ Here # Empty
    /\ \E d \in Less(Here) : dir' = [dir EXCEPT ![inst.version] = d]
    /\ UNCHANGED <<server, inst, scan, reported, task, torn, faults, crashes>>

Cleaned ==
    /\ inst.pc = "cleanup" /\ Here = Empty
    /\ inst' = Idle
    /\ UNCHANGED <<server, dir, scan, reported, task, torn, faults, crashes>>

\* The directory with other contents, and the next step.
Write(d, pc) ==
    /\ dir' = [dir EXCEPT ![inst.version] = d]
    /\ inst' = IF pc = "idle" THEN Idle ELSE [inst EXCEPT !.pc = pc]

Mark ==
    /\ inst.pc = "remove" /\ Here = Empty
    /\ Write([Empty EXCEPT !.preparing = TRUE], "get")
    /\ torn' = torn \ {inst.version}
    /\ UNCHANGED <<server, scan, reported, task, faults, crashes>>

\* RemoveAll stops at a file it cannot remove, which nobody is told: the installation goes on
\* over what is left, or ends; it also ends when the directory or the marker cannot be made.
RemoveFails ==
    /\ inst.pc \in {"remove", "cleanup"}
    /\ faults < MaxFaults /\ faults' = faults + 1
    /\ \/ Write(Here, "idle")
       \/ inst.pc = "remove" /\ Write([Here EXCEPT !.preparing = TRUE], "get")
    /\ torn' = IF Here = Empty THEN torn ELSE torn \cup {inst.version}
    /\ UNCHANGED <<server, scan, reported, task, crashes>>

\* Mutant of Get: whatever is downloaded is taken.
GetAnything ==
    /\ inst.pc = "get"
    /\ inst' = IF file[inst.version] # None
               THEN [inst EXCEPT !.pc = "unzip", !.zip = file[inst.version]]
               ELSE [inst EXCEPT !.pc = "cleanup"]
    /\ UNCHANGED <<server, dir, scan, reported, task, torn, faults, crashes>>

\* The package is downloaded and its checksum compared.
Get ==
    /\ inst.pc = "get"
    /\ inst' = IF file[inst.version] = inst.sha
               THEN [inst EXCEPT !.pc = "unzip", !.zip = file[inst.version]]
               ELSE [inst EXCEPT !.pc = "cleanup"]
    /\ UNCHANGED <<server, dir, scan, reported, task, torn, faults, crashes>>

\* Unpacking, on the way; there may be a version.txt among the files ...
Unzip ==
    /\ inst.pc = "unzip"
    /\ \E t \in BOOLEAN :
          Write([Here EXCEPT !.body = Part, !.text = t], "unzipped")
    /\ UNCHANGED <<server, scan, reported, task, torn, faults, crashes>>

\* ... and done.
Unzipped ==
    /\ inst.pc = "unzipped"
    /\ Write([Here EXCEPT !.body = inst.zip], "text")
    /\ UNCHANGED <<server, scan, reported, task, torn, faults, crashes>>

WriteText ==
    /\ inst.pc = "text"
    /\ Write([Here EXCEPT !.text = TRUE], "sha")
    /\ UNCHANGED <<server, scan, reported, task, torn, faults, crashes>>

WriteSha ==
    /\ inst.pc = "sha"
    /\ Write([Here EXCEPT !.sha = inst.sha], "pip")
    /\ UNCHANGED <<server, scan, reported, task, torn, faults, crashes>>

\* A download fails, or a file cannot be written or looked up: what there is is removed.
InstallFails ==
    /\ inst.pc \in {"get", "unzipped", "text", "sha", "pip"}
    /\ faults < MaxFaults /\ faults' = faults + 1
    /\ Goto("cleanup")
    /\ UNCHANGED <<server, dir, scan, reported, task, torn, crashes>>

\* The dependencies are there, or none are needed.
Pip ==
    /\ inst.pc = "pip"
    /\ Write([Here EXCEPT !.preparing = FALSE], "idle")
    /\ torn' = torn \ {inst.version}
    /\ UNCHANGED <<server, scan, reported, task, faults, crashes>>

\* Mutant of PipFails: the first marker stays.
PipFailsMarked ==
    /\ inst.pc = "pip" /\ inst.zip \in NeedsPip
    /\ faults < MaxFaults /\ faults' = faults + 1
    /\ Write([Here EXCEPT !.failed = TRUE], "idle")
    /\ UNCHANGED <<server, scan, reported, task, torn, crashes>>

\* pip fails: one marker comes, unless it cannot be written, then the other goes.
PipFails ==
    /\ inst.pc = "pip" /\ inst.zip \in NeedsPip
    /\ faults < MaxFaults /\ faults' = faults + 1
    /\ \E f \in {TRUE, Here.failed} : Write([Here EXCEPT !.failed = f], "unmark")
    /\ UNCHANGED <<server, scan, reported, task, torn, crashes>>

Unmark ==
    /\ inst.pc = "unmark"
    /\ Write([Here EXCEPT !.preparing = FALSE], "idle")
    /\ UNCHANGED <<server, scan, reported, task, torn, faults, crashes>>

\* The marker cannot be removed, which nobody is told either.
UnmarkFails ==
    /\ inst.pc \in {"pip", "unmark"}
    /\ faults < MaxFaults /\ faults' = faults + 1
    /\ Write(Here, "idle")
    /\ torn' = torn \cup {inst.version}
    /\ UNCHANGED <<server, scan, reported, task, crashes>>

-----------------------------------------------------------------------------
(* Reports and tasks *)

AtEnd == scan.at > Len(Names)
Next1(s) == [s EXCEPT !.at = @ + 1, !.looked = FALSE]

\* ScanInstalledScripts takes no lock: it looks for the markers of a directory ...
Look ==
    /\ ~AtEnd /\ ~scan.looked
    /\ LET d == dir[Names[scan.at]]
       IN  scan' = IF d.preparing \/ d.failed THEN Next1(scan) ELSE [scan EXCEPT !.looked = TRUE]
    /\ UNCHANGED <<server, dir, inst, reported, task, torn, faults, crashes>>

\* ... and then reads its version.txt.
Read ==
    /\ ~AtEnd /\ scan.looked
    /\ scan' = Next1(IF dir[Names[scan.at]].text THEN [scan EXCEPT !.last = Names[scan.at]] ELSE scan)
    /\ UNCHANGED <<server, dir, inst, reported, task, torn, faults, crashes>>

\* TaskHeartbeat: of the ready versions of a script the server keeps the last, and its
\* row stays when none is reported.
Report ==
    /\ AtEnd
    /\ scan' = Begin
    /\ reported' = IF scan.last # None THEN scan.last ELSE reported
    /\ UNCHANGED <<server, dir, inst, task, torn, faults, crashes>>

\* A task, built when its version was published, is leased: MatchTaskForAgent.
Lease ==
    /\ task = None
    /\ \E v \in Version :
          /\ pkg[v] # None /\ pkg[v].status # "uploaded" /\ reported = v
          /\ task' = [pc |-> "waiting", version |-> v]
    /\ UNCHANGED <<server, dir, inst, scan, reported, torn, faults, crashes>>

\* RunTask, under the lock of the script: the markers are not looked at, and an entry may be
\* missing from files that are not all there.
Run ==
    /\ task # None /\ task.pc = "waiting" /\ ~Locked
    /\ LET d == dir[task.version]
       IN  \/ /\ d.text /\ d.body # None
              /\ task' = [task EXCEPT !.pc = "running"]
           \/ /\ ~d.text \/ d.body \notin Content
              /\ task' = None
    /\ UNCHANGED <<server, dir, inst, scan, reported, torn, faults, crashes>>

RunEnds ==
    /\ Running
    /\ task' = None
    /\ UNCHANGED <<server, dir, inst, scan, reported, torn, faults, crashes>>

\* The agent's process dies and starts again; the directories stay as they are.
AgentDies ==
    /\ crashes < MaxCrashes /\ crashes' = crashes + 1
    /\ inst' = Idle /\ scan' = Begin /\ task' = None
    /\ torn' = IF Locked THEN torn \cup {inst.version} ELSE torn
    /\ UNCHANGED <<server, dir, reported, faults>>

-----------------------------------------------------------------------------
Admin   == \/ \E v \in Version : Publish(v) \/ \E c \in Content : Upload(v, c)
           \/ \E u \in up : Insert(u)
           \/ ServerDies
Install == Ask \/ Remove \/ Cleaned \/ Mark \/ Get \/ Unzip \/ Unzipped \/ WriteText \/ WriteSha
              \/ RemoveFails \/ InstallFails \/ Pip \/ PipFails \/ Unmark \/ UnmarkFails
Scan    == Look \/ Read \/ Report
Tasks   == Lease \/ Run \/ RunEnds

Next == Admin \/ Install \/ Lock \/ Scan \/ Tasks \/ AgentDies

\* The loops of the agent go on; a mutex of Go is not denied for ever to who waits for it, and
\* a task ends at its time-out.
Fairness == WF_vars(Install) /\ SF_vars(Lock) /\ WF_vars(Scan) /\ WF_vars(RunEnds)

Spec == Init /\ [][Next]_vars /\ Fairness

-----------------------------------------------------------------------------
(* Properties *)

\* A version stands for one content on every agent, from the row to the running task, though
\* files are overwritten by later uploads and directories refilled: a task runs with the whole
\* package of its version's row, unless the agent died while it installed that version or could
\* not empty its directory, and has not installed it since.
RunsWhole ==
    Running => task.version \in torn \/ dir[task.version].body = pkg[task.version].sha

\* A directory that is being prepared is being worked on, unless the agent died or a removal
\* failed: whatever else fails in an installation, the marker goes, for with it the version is
\* never tried again.
PreparingIsWorked ==
    \A v \in Version : dir[v].preparing => v \in torn \/ (Locked /\ inst.version = v)

\* What can be hoped for: the file of the version is what its row says, its dependencies can be
\* installed, nothing is left in its directory by a dead agent or a removal that failed, and no
\* directory with a later name is reported instead.
Sound(v) ==
    /\ Published(v) /\ file[v] = pkg[v].sha
    /\ v \notin torn /\ ~dir[v].failed
    /\ \A i, j \in DOMAIN Names : (Names[i] = v /\ i < j) => ~HasRow(dir[Names[j]])

\* The published version is installed in the end and known to the server to be, which then gives
\* the agent its tasks (needsScriptSync, downloadAndInstallPackage, ScanInstalledScripts).
Settles == <>[](\A v \in Version : Sound(v) => Ready(dir[v]) /\ reported = v)
=============================================================================
