------------------------- MODULE PipelineLockProofs -------------------------
(***************************************************************************)
(* The pipeline lock and the register of background tasks, for any number  *)
(* of jobs, kills and restarts.  The flock follows the open file, not its  *)
(* name: two jobs exclude each other as long as one name leads to one file *)
(* for good, which holds where systemd does not remove the directory.      *)
(***************************************************************************)
EXTENDS PipelineLock, TLAPS

\* A job works exactly while it holds the lock of the file it has open.
HoldsLock ==
  /\ \A f \in Files : owner[f] # NoJob =>
        owner[f] \in Jobs /\ at[owner[f]] = "work" /\ fd[owner[f]] = f
  /\ \A j \in Jobs : at[j] = "work" => fd[j] \in Files /\ owner[fd[j]] = j

LockInv == TypeOK /\ HoldsLock

\* Without systemd there is one lock file for everybody.
OneFile ==
  /\ ~runDir /\ path["run"] = NoFile
  /\ \A j \in Jobs : at[j] # "open" /\ fd[j] \in {NoFile, path["tmp"]}

----------------------------------------------------------------------------
(* No lock file, no job and no task at the start. *)
LEMMA InitLockInv == Init => LockInv /\ OneUnfinishedTask
<1> SUFFICES ASSUME Init PROVE LockInv /\ OneUnfinishedTask
  OBVIOUS
<1>1. TypeOK
  BY JobsAssumption DEF Init, TypeOK, Places, HasFile, Files, NoFile
<1>2. HoldsLock /\ OneUnfinishedTask
  BY DEF Init, HoldsLock, OneUnfinishedTask, Unfinished
<1> QED BY <1>1, <1>2 DEF LockInv

(* Closing handles leaves each file with a job or without one. *)
LEMMA OwnerAfterType ==
  ASSUME TypeOK, NEW S
  PROVE  OwnerAfter(S) \in [Files -> Jobs \cup {NoJob}]
<1> QED BY DEF TypeOK, OwnerAfter

\* Starting a job, and the way to the lock.
LEMMA StartKeepsLockInv ==
  ASSUME LockInv, NEW j \in Jobs,
         \/ j \in Processes /\ StartProcess(j)
         \/ j \in Tasks /\ (StartTask(j) \/ RunTask(j))
         \/ MakeDir(j) \/ OpenRunFails(j)
  PROVE  LockInv'
<1>1. /\ UNCHANGED <<managed, path, owner, fd>> /\ runDir' \in BOOLEAN
      /\ \/ at' = at
         \/ \E from \in {"off", "mkdir", "open"}, to \in {"mkdir", "open", "fallback"} :
              at[j] = from /\ at' = [at EXCEPT ![j] = to]
  BY JobsAssumption DEF StartProcess, StartTask, RunTask, MakeDir, OpenRunFails, Goes, files,
     register, LockInv, TypeOK
<1>2. /\ status' \in [Tasks -> {"NONE", "PENDING", "RUNNING", "SUCCEEDED", "FAILED"}]
      /\ active' \in Tasks \cup {NoJob}
  BY DEF StartProcess, StartTask, RunTask, MakeDir, OpenRunFails, files, register, LockInv, TypeOK
<1>3. TypeOK'
  BY <1>1, <1>2 DEF LockInv, TypeOK, Places, HasFile
<1>4. HoldsLock'
  BY <1>1 DEF LockInv, TypeOK, HoldsLock, Places
<1> QED BY <1>3, <1>4 DEF LockInv

\* A file is opened by its name; a new name gets a file not in use.
LEMMA OpenKeepsLockInv ==
  ASSUME LockInv, NEW j \in Jobs, OpenRun(j) \/ OpenTmp(j)
  PROVE  LockInv'
<1>1. PICK name \in {"run", "tmp"} : Open(j, name)
  BY DEF OpenRun, OpenTmp
<1>2. PICK from \in {"open", "fallback"} : at[j] = from /\ at' = [at EXCEPT ![j] = "flock"]
  BY DEF OpenRun, OpenTmp, Goes
<1>3. path' \in [{"run", "tmp"} -> Files \cup {NoFile}] /\ path'[name] \in Files
  BY <1>1 DEF Open, NotInUse, LockInv, TypeOK
<1>4. fd' = [fd EXCEPT ![j] = path'[name]] /\ NoFile \notin Files
  BY <1>1 DEF Open, Files, NoFile
<1>5. UNCHANGED <<managed, runDir, owner, status, active>>
  BY <1>1 DEF Open, register
<1>6. TypeOK'
  BY <1>2, <1>3, <1>4, <1>5 DEF LockInv, TypeOK, Places, HasFile
<1>7. HoldsLock'
  BY <1>2, <1>4, <1>5 DEF LockInv, TypeOK, HoldsLock
<1> QED BY <1>6, <1>7 DEF LockInv

(* flock takes a free file or refuses one that is held. *)
LEMMA FlockKeepsLockInv ==
  ASSUME LockInv, NEW j \in Jobs, Flock(j) \/ FlockBusy(j)
  PROVE  LockInv'
<1>1. fd[j] \in Files /\ at[j] = "flock"
  BY DEF Flock, FlockBusy, Goes, LockInv, TypeOK, HasFile
<1>2. CASE Flock(j)
  <2>1. TypeOK'
    BY <1>1, <1>2 DEF Flock, Goes, LockInv, TypeOK, Places, HasFile, files, register
  <2>2. HoldsLock'
    BY <1>1, <1>2, JobsAssumption DEF Flock, Goes, LockInv, TypeOK, HoldsLock, files, register, Jobs
  <2> QED BY <2>1, <2>2 DEF LockInv
<1>3. CASE FlockBusy(j)
  <2>1. TypeOK'
    BY <1>1, <1>3 DEF FlockBusy, Goes, LockInv, TypeOK, Places, HasFile, files, register
  <2>2. HoldsLock'
    BY <1>1, <1>3 DEF FlockBusy, Goes, LockInv, TypeOK, HoldsLock, files, register
  <2> QED BY <2>1, <2>2 DEF LockInv
<1> QED BY <1>2, <1>3

\* The jobs of S come to their end together and leave no lock behind.
LEMMA EndingKeepsHoldsLock ==
  ASSUME LockInv, NEW S \in SUBSET Jobs, NEW to \in {"off", "stopping"},
         at' = [k \in Jobs |-> IF k \in S THEN to ELSE at[k]],
         fd' = [k \in Jobs |-> IF k \in S THEN NoFile ELSE fd[k]],
         owner' = OwnerAfter(S)
  PROVE  /\ HoldsLock'
         /\ at' \in [Jobs -> Places] /\ fd' \in [Jobs -> Files \cup {NoFile}]
         /\ owner' \in [Files -> Jobs \cup {NoJob}]
         /\ (\A k \in Jobs : HasFile(k) <=> fd[k] # NoFile)'
<1>1. owner' \in [Files -> Jobs \cup {NoJob}]
  BY OwnerAfterType DEF LockInv
<1>2. /\ at' \in [Jobs -> Places] /\ fd' \in [Jobs -> Files \cup {NoFile}]
      /\ (\A k \in Jobs : HasFile(k) <=> fd[k] # NoFile)'
  BY DEF LockInv, TypeOK, Places, HasFile
<1>3. HoldsLock'
  BY DEF LockInv, TypeOK, HoldsLock, OwnerAfter
<1> QED BY <1>1, <1>2, <1>3

(* A job that ends or is killed closes what it had open. *)
LEMMA EndKeepsLockInv ==
  ASSUME LockInv, NEW j \in Jobs,
         \/ j \in Processes /\ (EndProcess(j) \/ KillProcess(j))
         \/ j \in Tasks /\ EndTask(j)
  PROVE  LockInv'
<1>1. PICK to \in {"off", "stopping"} : at' = [at EXCEPT ![j] = to]
  BY DEF EndProcess, KillProcess, EndTask, Goes
<1>2. /\ owner' = OwnerAfter({j}) /\ fd' = [fd EXCEPT ![j] = NoFile]
      /\ UNCHANGED <<managed, runDir, path, active>>
  BY DEF EndProcess, KillProcess, EndTask, files, register
<1>3. status' \in [Tasks -> {"NONE", "PENDING", "RUNNING", "SUCCEEDED", "FAILED"}]
  BY DEF EndProcess, KillProcess, EndTask, register, LockInv, TypeOK
<1>4. /\ at' = [k \in Jobs |-> IF k \in {j} THEN to ELSE at[k]]
      /\ fd' = [k \in Jobs |-> IF k \in {j} THEN NoFile ELSE fd[k]]
  BY <1>1, <1>2 DEF LockInv, TypeOK
<1>5. /\ HoldsLock'
      /\ at' \in [Jobs -> Places] /\ fd' \in [Jobs -> Files \cup {NoFile}]
      /\ owner' \in [Files -> Jobs \cup {NoJob}]
      /\ (\A k \in Jobs : HasFile(k) <=> fd[k] # NoFile)'
  BY <1>2, <1>4, EndingKeepsHoldsLock
<1> QED BY <1>2, <1>3, <1>5 DEF LockInv, TypeOK

(* A unit that stops removes the lock file's name, not the file others have open. *)
LEMMA StopKeepsLockInv ==
  ASSUME LockInv, NEW j \in Jobs, StopProcess(j)
  PROVE  LockInv'
<1>1. path' \in [{"run", "tmp"} -> Files \cup {NoFile}]
  BY DEF StopProcess, WithoutRuntimeDirectory, LockInv, TypeOK
<1>2. TypeOK'
  BY <1>1, JobsAssumption DEF StopProcess, Goes, LockInv, TypeOK, Places, HasFile, register
<1>3. HoldsLock'
  BY DEF StopProcess, Goes, LockInv, TypeOK, HoldsLock
<1> QED BY <1>2, <1>3 DEF LockInv

(* A restarted web process fails the tasks it finds unfinished. *)
LEMMA RestartKeepsLockInv == ASSUME LockInv, RestartWeb PROVE LockInv'
<1>1. /\ managed' = managed /\ runDir' \in BOOLEAN
      /\ path' \in [{"run", "tmp"} -> Files \cup {NoFile}]
  BY JobsAssumption DEF RestartWeb, WithoutRuntimeDirectory, LockInv, TypeOK
<1>2. /\ status' \in [Tasks -> {"NONE", "PENDING", "RUNNING", "SUCCEEDED", "FAILED"}]
      /\ active' \in Tasks \cup {NoJob}
  BY DEF RestartWeb
<1>3. /\ HoldsLock'
      /\ at' \in [Jobs -> Places] /\ fd' \in [Jobs -> Files \cup {NoFile}]
      /\ owner' \in [Files -> Jobs \cup {NoJob}]
      /\ (\A k \in Jobs : HasFile(k) <=> fd[k] # NoFile)'
  <2>1. Tasks \in SUBSET Jobs
    BY DEF Jobs
  <2> QED BY <2>1, EndingKeepsHoldsLock DEF RestartWeb
<1> QED BY <1>1, <1>2, <1>3 DEF LockInv, TypeOK

(* Every step keeps the invariant of the lock files. *)
LEMMA NextKeepsLockInv == LockInv /\ [Next]_lockVars => LockInv'
<1> SUFFICES ASSUME LockInv, [Next]_lockVars PROVE LockInv'
  OBVIOUS
<1>1. CASE Next
  BY <1>1, StartKeepsLockInv, OpenKeepsLockInv, FlockKeepsLockInv, EndKeepsLockInv,
     StopKeepsLockInv, RestartKeepsLockInv
  DEF Next, JobStep, LockStep, Jobs
<1>2. CASE UNCHANGED lockVars
  BY <1>2 DEF lockVars, files, register, LockInv, TypeOK, HasFile, HoldsLock
<1> QED BY <1>1, <1>2

\* Every job is in one place, with a lock file open exactly there where the code
\* has one, and every task has one of its statuses (pipeline_lock.py:20-42,
\* task_runner.py:15-32).
THEOREM LockTypeCorrect == Spec => []TypeOK
<1>1. LockInv => TypeOK
  BY DEF LockInv
<1> QED BY <1>1, InitLockInv, NextKeepsLockInv, PTL DEF Spec

(* The invariant of the lock files holds in every reachable state. *)
LEMMA LockInvAlways == Spec => []LockInv
<1> QED BY InitLockInv, NextKeepsLockInv, PTL DEF Spec

----------------------------------------------------------------------------
\* No lock outlives the job that took it, however the job ends: a refusal means
\* that another job works (pipeline_lock.py:33-42).
THEOREM RefusalsAlwaysJustified == Spec => RefusalsAreJustified
<1>1. LockInv /\ [Next]_lockVars =>
        [\A j \in Jobs : at[j] # "refused" /\ at'[j] = "refused" =>
           \E k \in Jobs : at[k] = "work"]_lockVars
  <2> SUFFICES ASSUME LockInv, Next, NEW j \in Jobs, at[j] # "refused", at'[j] = "refused"
               PROVE  \E k \in Jobs : at[k] = "work"
    BY DEF lockVars
  <2>1. PICK k \in Jobs : FlockBusy(k)
    BY ZenonT(60) DEF Next, JobStep, LockStep, MakeDir, OpenRun, OpenRunFails, OpenTmp, Flock, EndProcess,
           StopProcess, RunTask, EndTask, StartProcess, KillProcess, StartTask, RestartWeb,
           Goes, LockInv, TypeOK, Jobs
  <2>2. fd[k] \in Files /\ owner[fd[k]] # NoJob
    BY <2>1 DEF FlockBusy, Goes, LockInv, TypeOK, HasFile
  <2> QED BY <2>2 DEF LockInv, HoldsLock
<1> QED BY <1>1, LockInvAlways, PTL DEF Spec, RefusalsAreJustified

----------------------------------------------------------------------------
\* One task at most is PENDING or RUNNING, and it is the one the web shows as
\* active (task_runner.py:35-45).
THEOREM OneUnfinishedTaskAlways == Spec => []OneUnfinishedTask
<1>1. TypeOK /\ OneUnfinishedTask /\ [Next]_lockVars => OneUnfinishedTask'
  <2> SUFFICES ASSUME TypeOK, OneUnfinishedTask, [Next]_lockVars PROVE OneUnfinishedTask'
    OBVIOUS
  <2>1. ASSUME NEW t \in Tasks, StartTask(t) PROVE OneUnfinishedTask'
    BY <2>1, JobsAssumption DEF StartTask, TypeOK, OneUnfinishedTask, Unfinished
  <2>2. ASSUME NEW t \in Tasks, RunTask(t) \/ EndTask(t) PROVE OneUnfinishedTask'
    <3>1. active' = active /\ \E s : status' = [status EXCEPT ![t] = s]
      BY <2>2 DEF RunTask, EndTask
    <3>2. \A u \in Tasks : u # t => status'[u] = status[u]
      BY <3>1 DEF TypeOK
    <3>3. Unfinished(t)' => Unfinished(t)
      BY <2>2 DEF RunTask, EndTask, TypeOK, Unfinished
    <3> QED BY <3>1, <3>2, <3>3 DEF OneUnfinishedTask, Unfinished
  <2>3. CASE RestartWeb
    BY <2>3 DEF RestartWeb, OneUnfinishedTask, Unfinished
  <2>4. CASE UNCHANGED register
    BY <2>4 DEF register, OneUnfinishedTask, Unfinished
  <2>5. ASSUME ~RestartWeb, ~\E t \in Tasks : StartTask(t) \/ RunTask(t) \/ EndTask(t)
        PROVE  UNCHANGED register
    BY <2>5 DEF Next, JobStep, LockStep, MakeDir, OpenRun, OpenRunFails, OpenTmp, Open, Flock,
       FlockBusy, EndProcess, StopProcess, StartProcess, KillProcess, lockVars, register
  <2> QED BY <2>1, <2>2, <2>3, <2>4, <2>5
<1> QED BY <1>1, InitLockInv, LockTypeCorrect, PTL DEF Spec

----------------------------------------------------------------------------
\* No step changes what the jobs run under.
LEMMA ManagedStays == ASSUME [Next]_lockVars PROVE managed' = managed
<1> QED BY DEF Next, JobStep, LockStep, MakeDir, OpenRun, OpenRunFails, OpenTmp, Open, Flock,
       FlockBusy, EndProcess, StopProcess, RunTask, EndTask, StartProcess, KillProcess,
       StartTask, RestartWeb, files, lockVars

(* Run by hand, no job ever opens a second lock file. *)
LEMMA OneFileStep ==
  ASSUME ~managed, LockInv, OneFile, [Next]_lockVars
  PROVE  OneFile'
<1>1. ASSUME NEW j \in Jobs, OpenRun(j) \/ OpenTmp(j) PROVE OneFile'
  <2>1. at[j] = "fallback" /\ at' = [at EXCEPT ![j] = "flock"] /\ Open(j, "tmp")
    BY <1>1 DEF OpenRun, OpenTmp, Goes, OneFile
  <2>2. /\ runDir' = runDir /\ path'["run"] = path["run"]
        /\ path["tmp"] # NoFile => path'["tmp"] = path["tmp"]
        /\ fd' = [fd EXCEPT ![j] = path'["tmp"]]
    BY <2>1 DEF Open, LockInv, TypeOK
  <2> QED BY <2>1, <2>2 DEF OneFile, LockInv, TypeOK
<1>2. CASE ~\E j \in Jobs : OpenRun(j) \/ OpenTmp(j)
  <2>1. runDir' = runDir /\ path' = path
    BY <1>2 DEF Next, JobStep, LockStep, MakeDir, OpenRunFails, Flock, FlockBusy, EndProcess,
       StopProcess, RunTask, EndTask, StartProcess, KillProcess, StartTask, RestartWeb,
       WithoutRuntimeDirectory, files, lockVars, OneFile, LockInv, TypeOK
  <2>2. \A j \in Jobs : at'[j] # "open" /\ fd'[j] \in {NoFile, fd[j]}
    BY <1>2, ZenonT(60) DEF Next, JobStep, LockStep, MakeDir, OpenRunFails, Flock, FlockBusy, EndProcess,
       StopProcess, RunTask, EndTask, StartProcess, KillProcess, StartTask, RestartWeb,
       Goes, files, lockVars, OneFile, LockInv, TypeOK
  <2> QED BY <2>1, <2>2 DEF OneFile
<1> QED BY <1>1, <1>2

ByHand == ~managed => OneFile

(* Run by hand, every open handle is of the one file. *)
LEMMA ByHandAlways == Spec => [](LockInv /\ ByHand)
<1>1. Init => ByHand
  BY DEF Init, ByHand, OneFile
<1>2. LockInv /\ ByHand /\ [Next]_lockVars => ByHand'
  BY OneFileStep, ManagedStays DEF ByHand
<1> QED BY <1>1, <1>2, LockInvAlways, PTL DEF Spec

\* Where the runtime directory is never made, all jobs share the lock file in
\* /tmp and no two of them work at a time (pipeline_lock.py:9-36).
THEOREM MutualExclusionByHand == Spec => []ExclusionByHand
<1>1. LockInv /\ ByHand => ExclusionByHand
  BY DEF ByHand, LockInv, TypeOK, HasFile, HoldsLock, OneFile, ExclusionByHand, MutualExclusion,
     Files, NoFile
<1> QED BY <1>1, ByHandAlways, PTL
----------------------------------------------------------------------------
\* The steps of the lock are steps of the try-lock, seen by the jobs.
LEMMA ManagedSeesNothing ==
  ASSUME managed, managed' = managed
  PROVE  Seen' = Seen
<1> QED BY DEF Seen

(* A flock that succeeds is the Take of the abstract try-lock. *)
LEMMA FlockTakes ==
  ASSUME LockInv, ByHand, ~managed, NEW j \in Jobs, Flock(j)
  PROVE  Promise!Take(j)
<1>1. managed' = managed /\ at[j] = "flock" /\ at' = [at EXCEPT ![j] = "work"] /\ owner[fd[j]] = NoJob
  BY DEF Flock, Goes, files
<1>2. \A k \in Jobs : at[k] # "work"
  <2>1. fd[j] # NoFile /\ fd[j] \in Files
    BY <1>1 DEF LockInv, TypeOK, HasFile
  <2>2. ASSUME NEW k \in Jobs, at[k] = "work" PROVE FALSE
    <3>1. fd[k] = fd[j]
      BY <2>1, <2>2 DEF LockInv, HoldsLock, ByHand, OneFile, Files, NoFile
    <3> QED BY <1>1, <2>2, <3>1, JobsAssumption DEF LockInv, HoldsLock, Jobs
  <2> QED BY <2>2
<1>3. Seen[j] = "idle" /\ \A k \in Jobs : Seen[k] # "holding"
  BY <1>1, <1>2 DEF Seen
<1>4. Seen' = [Seen EXCEPT ![j] = "holding"]
  BY <1>1 DEF Seen, LockInv, TypeOK
<1> QED BY <1>3, <1>4 DEF Promise!Take

(* A flock that is refused is its Refuse. *)
LEMMA FlockBusyRefuses ==
  ASSUME LockInv, ~managed, NEW j \in Jobs, FlockBusy(j)
  PROVE  Promise!Refuse(j)
<1>1. /\ managed' = managed /\ at[j] = "flock" /\ at' = [at EXCEPT ![j] = "refused"]
      /\ owner[fd[j]] # NoJob
  BY DEF FlockBusy, Goes, files
<1>2. \E k \in Jobs : at[k] = "work"
  BY <1>1 DEF LockInv, TypeOK, HasFile, HoldsLock
<1>3. Seen[j] = "idle" /\ \E k \in Jobs : Seen[k] = "holding"
  BY <1>1, <1>2 DEF Seen
<1>4. Seen' = [Seen EXCEPT ![j] = "refused"]
  BY <1>1 DEF Seen, LockInv, TypeOK
<1> QED BY <1>3, <1>4 DEF Promise!Refuse

\* Whoever goes anywhere but to its work or its refusal is seen to end.
LEMMA OthersEnd ==
  ASSUME LockInv, [Next]_lockVars, ~managed,
         ~\E j \in Jobs : Flock(j) \/ FlockBusy(j)
  PROVE  \E S \in SUBSET Jobs : Promise!End(S)
<1>1. managed' = managed
  BY ManagedStays
<1>2. \A j \in Jobs : at'[j] = at[j] \/ at'[j] \in Places \ {"work", "refused"}
  BY ZenonT(60) DEF Next, JobStep, LockStep, MakeDir, OpenRun, OpenRunFails, OpenTmp, EndProcess,
     StopProcess, RunTask, EndTask, StartProcess, KillProcess, StartTask, RestartWeb,
     Goes, files, lockVars, LockInv, TypeOK, Places
<1> DEFINE S == {j \in Jobs : at'[j] # at[j]}
<1>3. \A j \in Jobs : Seen'[j] = IF j \in S THEN "idle" ELSE Seen[j]
  BY <1>1, <1>2 DEF Seen, Places
<1>4. Seen' = [j \in Jobs |-> IF j \in S THEN "idle" ELSE Seen[j]]
  BY <1>3 DEF Seen
<1>5. Promise!End(S) /\ S \in SUBSET Jobs
  BY <1>4 DEF Promise!End
<1> QED BY <1>5

\* The lock files, the flock and its close implement a try-lock for any number of
\* jobs started by hand, however they are killed (pipeline_lock.py:20-42).
THEOREM LockImplementsTryLock == Spec => ImplementsTryLock
<1>1. Init => Promise!Init
  BY DEF Init, Promise!Init, Seen
<1>2. LockInv /\ ByHand /\ [Next]_lockVars => [Promise!Next]_Seen
  <2> SUFFICES ASSUME LockInv, ByHand, [Next]_lockVars PROVE [Promise!Next]_Seen
    OBVIOUS
  <2>1. CASE managed
    BY <2>1, ManagedStays, ManagedSeesNothing
  <2>2. ASSUME ~managed, NEW j \in Jobs, Flock(j) \/ FlockBusy(j) PROVE Promise!Next
    BY <2>2, FlockTakes, FlockBusyRefuses DEF Promise!Next
  <2>3. ASSUME ~managed, ~\E j \in Jobs : Flock(j) \/ FlockBusy(j) PROVE Promise!Next
    BY <2>3, OthersEnd DEF Promise!Next
  <2> QED BY <2>1, <2>2, <2>3
<1> QED BY <1>1, <1>2, ByHandAlways, PTL DEF Spec, ImplementsTryLock, Promise!Spec
=============================================================================
