---------------------------- MODULE PipelineLock ----------------------------
(***************************************************************************)
(* app/services/pipeline_lock.py and task_runner.py: the file lock that    *)
(* keeps the jobs of the CLI (the systemd timers start them) and the       *)
(* background tasks of the web process apart, and the register that admits *)
(* one background task at a time.  Every unit of deploy/ that starts a job *)
(* declares RuntimeDirectory=headachetrade, and so does the web service.   *)
(***************************************************************************)
EXTENDS Integers, FiniteSets

CONSTANTS
  Processes,   \* CLI jobs; a systemd unit runs one instance at a time
  Tasks,       \* ids of background tasks of the web process
  WebRestarts, \* BOOLEAN: the web process may be restarted
  MaxFiles     \* bound: lock files that have a name or are open at one time

Jobs == Processes \cup Tasks
Files == 1 .. MaxFiles
NoFile == 0
NoJob == "-"

ASSUME JobsAssumption ==
  /\ Processes \cap Tasks = {} /\ NoJob \notin Processes \cup Tasks
  /\ WebRestarts \in BOOLEAN /\ MaxFiles \in Nat

VARIABLES
  managed, \* the jobs and the web process run as the units of deploy/; never changes
  runDir,  \* /run/headachetrade exists; only systemd can make it
  path,    \* the lock file each of LOCK_PATHS names, or NoFile
  owner,   \* [Files -> Jobs \cup {NoJob}], who holds the flock
  at,      \* where each job is
  fd,      \* the lock file each job has open
  status,  \* [Tasks -> TaskState.status]
  active   \* _active_task_id

files == <<managed, runDir, path>>
register == <<status, active>>
lockVars == <<files, owner, at, fd, register>>

Places == {"off", "mkdir", "open", "fallback", "flock", "work", "refused", "stopping"}

\* A job has a lock file open exactly from its open to its close.
HasFile(j) == at[j] \in {"flock", "work", "refused"}

TypeOK ==
  /\ managed \in BOOLEAN /\ runDir \in BOOLEAN
  /\ path \in [{"run", "tmp"} -> Files \cup {NoFile}]
  /\ owner \in [Files -> Jobs \cup {NoJob}]
  /\ at \in [Jobs -> Places]
  /\ fd \in [Jobs -> Files \cup {NoFile}]
  /\ \A j \in Jobs : HasFile(j) <=> fd[j] # NoFile
  /\ status \in [Tasks -> {"NONE", "PENDING", "RUNNING", "SUCCEEDED", "FAILED"}]
  /\ active \in Tasks \cup {NoJob}

Goes(j, from, to) == at[j] = from /\ at' = [at EXCEPT ![j] = to]

----------------------------------------------------------------------------
(* Starting *)

\* systemd makes the runtime directory of the unit before it starts it.
StartProcess(j) ==
  /\ Goes(j, "off", "mkdir")
  /\ runDir' = (managed \/ runDir)
  /\ UNCHANGED <<managed, path, owner, fd, register>>

Unfinished(t) == status[t] \in {"PENDING", "RUNNING"}

\* Mutant: a task that waits for the worker is not active.
StartTaskBesidePending(t) ==
  /\ status[t] = "NONE"
  /\ active = NoJob \/ (active \in Tasks /\ status[active] # "RUNNING")
  /\ status' = [status EXCEPT ![t] = "PENDING"] /\ active' = t
  /\ UNCHANGED <<files, owner, at, fd>>

\* start_task; an active task makes it raise.
StartTask(t) ==
  /\ status[t] = "NONE"
  /\ active = NoJob \/ (active \in Tasks /\ ~Unfinished(active))
  /\ status' = [status EXCEPT ![t] = "PENDING"] /\ active' = t
  /\ UNCHANGED <<files, owner, at, fd>>

\* The executor has one worker.
RunTask(t) ==
  /\ status[t] = "PENDING" /\ \A u \in Tasks : at[u] = "off"
  /\ status' = [status EXCEPT ![t] = "RUNNING"]
  /\ Goes(t, "off", "mkdir")
  /\ UNCHANGED <<files, owner, fd, active>>

----------------------------------------------------------------------------
(* pipeline_lock: the first of LOCK_PATHS that can be opened, then a       *)
(* flock that does not wait.                                               *)

MakeDir(j) ==
  /\ Goes(j, "mkdir", IF runDir THEN "open" ELSE "fallback")
  /\ UNCHANGED <<files, owner, fd, register>>

\* A file is gone when it has no name and nobody has it open.
NotInUse == {f \in Files : (\A name \in {"run", "tmp"} : path[name] # f)
                           /\ \A j \in Jobs : fd[j] # f}

\* open("a+") makes the file if there is none.
Open(j, name) ==
  /\ \/ path[name] # NoFile /\ path' = path
     \/ /\ path[name] = NoFile
        /\ \E f \in NotInUse : /\ \A g \in NotInUse : f <= g
                               /\ path' = [path EXCEPT ![name] = f]
  /\ fd' = [fd EXCEPT ![j] = path'[name]]
  /\ UNCHANGED <<managed, runDir, owner, register>>

OpenRun(j) == runDir /\ Goes(j, "open", "flock") /\ Open(j, "run")

\* The directory went away between the mkdir and the open.
OpenRunFails(j) ==
  /\ ~runDir
  /\ Goes(j, "open", "fallback")
  /\ UNCHANGED <<files, owner, fd, register>>

OpenTmp(j) == Goes(j, "fallback", "flock") /\ Open(j, "tmp")

\* Mutant: the flock is shared.
FlockShared(j) ==
  /\ Goes(j, "flock", "work")
  /\ owner' = [owner EXCEPT ![fd[j]] = j]
  /\ UNCHANGED <<files, fd, register>>

Flock(j) ==
  /\ Goes(j, "flock", "work")
  /\ owner[fd[j]] = NoJob
  /\ owner' = [owner EXCEPT ![fd[j]] = j]
  /\ UNCHANGED <<files, fd, register>>

\* Mutant: without LOCK_NB the flock waits.
FlockWaits(j) ==
  /\ Goes(j, "flock", "flock")
  /\ owner[fd[j]] # NoJob
  /\ UNCHANGED <<files, owner, fd, register>>

\* PipelineBusyError
FlockBusy(j) ==
  /\ Goes(j, "flock", "refused")
  /\ owner[fd[j]] # NoJob
  /\ UNCHANGED <<files, owner, fd, register>>

----------------------------------------------------------------------------
(* Ending *)

\* Mutant: neither the unlock nor the close happens when a job ends.
OwnerAfterKept(S) == owner

\* The unlock and the close of the finally clause, or the kernel's close.
OwnerAfter(S) == [f \in Files |-> IF owner[f] \in S THEN NoJob ELSE owner[f]]

\* Mutant: the lock file is removed when a job ends.
EndProcessUnlinks(j) ==
  /\ \E from \in {"work", "refused"} : Goes(j, from, "stopping")
  /\ owner' = OwnerAfter({j})
  /\ fd' = [fd EXCEPT ![j] = NoFile]
  /\ path' = [path EXCEPT !["tmp"] = NoFile]
  /\ UNCHANGED <<managed, runDir, register>>

\* The job is done, or it was refused, and its unit is about to stop.
EndProcess(j) ==
  /\ \E from \in {"work", "refused"} : Goes(j, from, "stopping")
  /\ owner' = OwnerAfter({j})
  /\ fd' = [fd EXCEPT ![j] = NoFile]
  /\ UNCHANGED <<files, register>>

\* It crashes, or TimeoutStartSec is over: the kernel closes its files.
KillProcess(j) ==
  /\ at[j] \notin {"off", "stopping"}
  /\ at' = [at EXCEPT ![j] = "stopping"]
  /\ owner' = OwnerAfter({j})
  /\ fd' = [fd EXCEPT ![j] = NoFile]
  /\ UNCHANGED <<files, register>>

\* systemd removes the runtime directory of a unit that stops.
WithoutRuntimeDirectory ==
  path' = IF managed THEN [path EXCEPT !["run"] = NoFile] ELSE path

StopProcess(j) ==
  /\ Goes(j, "stopping", "off")
  /\ runDir' = (runDir /\ ~managed)
  /\ WithoutRuntimeDirectory
  /\ UNCHANGED <<managed, owner, fd, register>>

EndTask(t) ==
  /\ \/ /\ Goes(t, "work", "off")
        /\ \E result \in {"SUCCEEDED", "FAILED"} : status' = [status EXCEPT ![t] = result]
     \/ /\ Goes(t, "refused", "off")
        /\ status' = [status EXCEPT ![t] = "FAILED"]
  /\ owner' = OwnerAfter({t})
  /\ fd' = [fd EXCEPT ![t] = NoFile]
  /\ UNCHANGED <<files, active>>

\* Restart=always: the tasks and their register die with the web process, and
\* its own runtime directory is made anew.
RestartWeb ==
  /\ WebRestarts
  /\ at' = [j \in Jobs |-> IF j \in Tasks THEN "off" ELSE at[j]]
  /\ fd' = [j \in Jobs |-> IF j \in Tasks THEN NoFile ELSE fd[j]]
  /\ owner' = OwnerAfter(Tasks)
  /\ status' = [t \in Tasks |-> "NONE"] /\ active' = NoJob
  /\ runDir' = (managed \/ runDir)
  /\ WithoutRuntimeDirectory
  /\ managed' = managed

----------------------------------------------------------------------------
Init ==
  /\ managed \in BOOLEAN /\ runDir = managed
  /\ path = [name \in {"run", "tmp"} |-> NoFile]
  /\ owner = [f \in Files |-> NoJob]
  /\ at = [j \in Jobs |-> "off"] /\ fd = [j \in Jobs |-> NoFile]
  /\ status = [t \in Tasks |-> "NONE"] /\ active = NoJob

LockStep(j) ==
  \/ MakeDir(j) \/ OpenRun(j) \/ OpenRunFails(j) \/ OpenTmp(j)
  \/ Flock(j) \/ FlockBusy(j)

\* What a job that has started goes on to do by itself.
JobStep(j) ==
  \/ LockStep(j)
  \/ j \in Tasks /\ (RunTask(j) \/ EndTask(j))
  \/ j \in Processes /\ (EndProcess(j) \/ StopProcess(j))

Next ==
  \/ \E j \in Jobs : JobStep(j)
  \/ \E j \in Processes : StartProcess(j) \/ KillProcess(j)
  \/ \E t \in Tasks : StartTask(t)
  \/ RestartWeb

Spec == Init /\ [][Next]_lockVars

FairSpec == Spec /\ \A j \in Jobs : WF_lockVars(JobStep(j))

----------------------------------------------------------------------------
\* Two jobs never work at the same time, whatever is killed and restarted: the
\* busy message says so (pipeline_lock.py:33-36).  Not so under deploy/.
MutualExclusion ==
  \A j, k \in Jobs : at[j] = "work" /\ at[k] = "work" => j = k

\* Jobs started by hand exclude each other: nothing removes the lock file they
\* share (pipeline_lock.py:9-36).
ExclusionByHand == ~managed => MutualExclusion

\* A job is refused only while another one works: no lock outlives the job that
\* took it (pipeline_lock.py:33-42).
RefusalsAreJustified ==
  [][\A j \in Jobs : at[j] # "refused" /\ at'[j] = "refused" =>
       \E k \in Jobs : at[k] = "work"]_lockVars

\* What the jobs see of the lock when they are started by hand; of the units of
\* deploy/ nothing is claimed.
Seen ==
  [j \in Jobs |-> IF managed THEN "idle"
                  ELSE IF at[j] = "work" THEN "holding"
                  ELSE IF at[j] = "refused" THEN "refused" ELSE "idle"]

Promise == INSTANCE TryLock WITH job <- Seen

\* By hand, the lock files, the flock and its close are a try-lock: a job goes on
\* only when no other one works, is refused only when one does, and jobs that
\* end, are killed or die with the web process leave it free (pipeline_lock.py:20-42).
ImplementsTryLock == Promise!Spec

\* The register has one unfinished task, which is the active one
\* (task_runner.py:35-45).
OneUnfinishedTask == \A t \in Tasks : Unfinished(t) => t = active

\* An admitted task ends, so that the register admits the next one
\* (task_runner.py:64-74).
TasksEnd == \A t \in Tasks : Unfinished(t) ~> ~Unfinished(t)
=============================================================================
