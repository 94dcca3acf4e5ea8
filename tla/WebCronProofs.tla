--------------------------- MODULE WebCronProofs ----------------------------
(***************************************************************************)
(* Proofs about WebCron: composed, JobSync and LogCollector each behave as *)
(* they do alone, so everything proved of them holds here, and the two     *)
(* together keep the logs of an organization to it.                        *)
(***************************************************************************)
EXTENDS WebCron, JobSyncInStepProofs

\* The theorems about the collector, for the collector of this system.
CP == INSTANCE LogCollectorProofs WITH
        Jobs <- Jobs \X Servers,
        ServerOf <- [d \in Jobs \X Servers |-> d[2]],
        JobOf <- RunOf,
        MaxFaults <- MaxPassFaults,
        faults <- passFaults

LEMMA RunsPlaced ==
  ASSUME NEW r \in Runs
  PROVE  RunOf[r] \in Jobs \X Servers /\ JobOfRun(r) \in Jobs /\ HostOfRun(r) \in Servers
BY WebCronAssumption DEF JobOfRun, HostOfRun

\* What LogCollector assumes of its constants.
LEMMA CollectorAssumed ==
  /\ [d \in Jobs \X Servers |-> d[2]] \in [Jobs \X Servers -> Servers]
  /\ RunOf \in [Runs -> Jobs \X Servers]
  /\ None \notin Runs /\ None \notin Servers
  /\ MaxStderr \in Nat /\ MaxPassFaults \in Nat
<1>1. \A d \in Jobs \X Servers : d[2] \in Servers
  OBVIOUS
<1> QED
  BY <1>1, WebCronAssumption, JobSyncAssumption

-----------------------------------------------------------------------------
(* The collector, its theorems speak of it under another name. *)

LEMMA InitSame == Collector!Init <=> CP!Init
BY DEF Collector!Init, CP!Init, Collector!NoLogRow, CP!NoLogRow, Collector!IdlePass, CP!IdlePass,
       Collector!NewPass, CP!NewPass

LEMMA RunSteps ==
  ASSUME NEW r
  PROVE  /\ Collector!RunStarts(r) <=> CP!RunStarts(r)
         /\ Collector!RunOpensErrorFile(r) <=> CP!RunOpensErrorFile(r)
         /\ Collector!RunWritesOutput(r) <=> CP!RunWritesOutput(r)
         /\ Collector!RunWritesError(r) <=> CP!RunWritesError(r)
         /\ Collector!RunEnds(r) <=> CP!RunEnds(r)
         /\ Collector!DeleteLog(r) <=> CP!DeleteLog(r)
<1> USE DEF Collector!remoteVars, CP!remoteVars
<1>1. Collector!RunStarts(r) <=> CP!RunStarts(r)
  BY DEF Collector!RunStarts, CP!RunStarts
<1>2. Collector!RunOpensErrorFile(r) <=> CP!RunOpensErrorFile(r)
  BY DEF Collector!RunOpensErrorFile, CP!RunOpensErrorFile
<1>3. Collector!RunWritesOutput(r) <=> CP!RunWritesOutput(r)
  BY DEF Collector!RunWritesOutput, CP!RunWritesOutput
<1>4. Collector!RunWritesError(r) <=> CP!RunWritesError(r)
  BY DEF Collector!RunWritesError, CP!RunWritesError
<1>5. Collector!RunEnds(r) <=> CP!RunEnds(r)
  BY DEF Collector!RunEnds, CP!RunEnds
<1>6. Collector!DeleteLog(r) <=> CP!DeleteLog(r)
  BY DEF Collector!DeleteLog, CP!DeleteLog
<1> QED
  BY <1>1, <1>2, <1>3, <1>4, <1>5, <1>6

LEMMA ScheduleSteps ==
  ASSUME NEW t, NEW s
  PROVE  /\ Collector!Schedule(t) <=> CP!Schedule(t)
         /\ Collector!Unschedule(s) <=> CP!Unschedule(s)
         /\ Collector!CronTick(s) <=> CP!CronTick(s)
         /\ Collector!Crash <=> CP!Crash
<1> USE DEF Collector!remoteVars, CP!remoteVars, Collector!IdlePass, CP!IdlePass,
            Collector!NewPass, CP!NewPass
<1>1. Collector!Schedule(t) <=> CP!Schedule(t)
  BY DEF Collector!Schedule, CP!Schedule
<1>2. Collector!Unschedule(s) <=> CP!Unschedule(s)
  BY DEF Collector!Unschedule, CP!Unschedule
<1>3. Collector!CronTick(s) <=> CP!CronTick(s)
  BY DEF Collector!CronTick, CP!CronTick
<1>4. Collector!Crash <=> CP!Crash
  BY DEF Collector!Crash, CP!Crash
<1> QED
  BY <1>1, <1>2, <1>3, <1>4

LEMMA ReadingSteps ==
  ASSUME NEW p
  PROVE  /\ Collector!Connect(p) <=> CP!Connect(p)
         /\ Collector!ListJobs(p) <=> CP!ListJobs(p)
         /\ Collector!ListLogs(p) <=> CP!ListLogs(p)
         /\ Collector!CatLog(p) <=> CP!CatLog(p)
         /\ Collector!CatError(p) <=> CP!CatError(p)
<1> USE DEF Collector!remoteVars, CP!remoteVars
<1>1. Collector!Connect(p) <=> CP!Connect(p)
  BY DEF Collector!Connect, CP!Connect
<1>2. Collector!ListJobs(p) <=> CP!ListJobs(p)
  BY DEF Collector!ListJobs, CP!ListJobs, Collector!ListDirs, CP!ListDirs, Collector!JobsOn,
         CP!JobsOn, Collector!DirsOfRuns, CP!DirsOfRuns, Collector!HostOf, CP!HostOf
<1>3. Collector!ListLogs(p) <=> CP!ListLogs(p)
  BY DEF Collector!ListLogs, CP!ListLogs, Collector!OnJob, CP!OnJob, Collector!InboxOf, CP!InboxOf
<1>4. Collector!CatLog(p) <=> CP!CatLog(p)
  BY DEF Collector!CatLog, CP!CatLog, Collector!OnLog, CP!OnLog, Collector!EndMark, CP!EndMark
<1>5. Collector!CatError(p) <=> CP!CatError(p)
  BY DEF Collector!CatError, CP!CatError
<1> QED
  BY <1>1, <1>2, <1>3, <1>4, <1>5

LEMMA SavingSteps ==
  ASSUME NEW p
  PROVE  /\ Collector!Save(p) <=> CP!Save(p)
         /\ Collector!SaveFails(p) <=> CP!SaveFails(p)
         /\ Collector!ClearLog(p) <=> CP!ClearLog(p)
         /\ Collector!ClearError(p) <=> CP!ClearError(p)
         /\ Collector!Finish(p) <=> CP!Finish(p)
         /\ Collector!CommandFails(p) <=> CP!CommandFails(p)
<1> USE DEF Collector!remoteVars, CP!remoteVars, Collector!LogDone, CP!LogDone,
            Collector!IdlePass, CP!IdlePass, Collector!NewPass, CP!NewPass
<1>1. Collector!Save(p) <=> CP!Save(p)
  BY DEF Collector!Save, CP!Save, Collector!AfterSave, CP!AfterSave, Collector!Status, CP!Status,
         Collector!UpsertResult, CP!UpsertResult
<1>2. Collector!SaveFails(p) <=> CP!SaveFails(p)
  BY DEF Collector!SaveFails, CP!SaveFails, Collector!AfterSave, CP!AfterSave,
         Collector!UpsertResult, CP!UpsertResult
<1>3. Collector!ClearLog(p) <=> CP!ClearLog(p)
  BY DEF Collector!ClearLog, CP!ClearLog, Collector!ClearedTo, CP!ClearedTo
<1>4. Collector!ClearError(p) <=> CP!ClearError(p)
  BY DEF Collector!ClearError, CP!ClearError, Collector!ClearedTo, CP!ClearedTo
<1>5. Collector!Finish(p) <=> CP!Finish(p)
  BY DEF Collector!Finish, CP!Finish, Collector!EndPass, CP!EndPass
<1>6. Collector!CommandFails(p) <=> CP!CommandFails(p)
  BY DEF Collector!CommandFails, CP!CommandFails, Collector!EndPass, CP!EndPass,
         Collector!Awaiting, CP!Awaiting
<1> QED
  BY <1>1, <1>2, <1>3, <1>4, <1>5, <1>6

LEMMA PassSteps == ASSUME NEW p PROVE Collector!PassStep(p) <=> CP!PassStep(p)
BY ReadingSteps, SavingSteps DEF Collector!PassStep, CP!PassStep

LEMMA NextSame == Collector!Next <=> CP!Next
BY RunSteps, ScheduleSteps, PassSteps, SavingSteps DEF Collector!Next, CP!Next

LEMMA SpecSame == Collector!Spec <=> CP!Spec
<1>1. [Collector!Next]_(Collector!vars) <=> [CP!Next]_(CP!vars)
  BY NextSame DEF Collector!vars, CP!vars
<1> QED
  BY <1>1, InitSame, PTL DEF Collector!Spec, CP!Spec

-----------------------------------------------------------------------------
(* Seen from JobSync, the collector does nothing. *)

LEMMA RequestsStep == [WebNext]_webVars => [Next]_vars
BY DEF WebNext, webVars, Restart, Next

\* Composed with the collector, requests do what they do alone (JobsService, SshService).
THEOREM ImplementsJobSync == WebSpec => Spec
BY RequestsStep, PTL DEF WebSpec, WebInit, Spec

-----------------------------------------------------------------------------
(* Seen from LogCollector, requests change the schedule. *)

LEMMA ScheduleKinds ==
  ASSUME TypeOK, Step
  PROVE  \/ scheduled' = scheduled
         \/ \E t \in SUBSET Servers : scheduled' = scheduled \union t
         \/ \E s \in Servers : scheduled' = scheduled \ {s}
<1> USE DEF memVars
<1>1. ASSUME NEW x \in Ops, Reschedule(x)
      PROVE  \/ \E t \in SUBSET Servers : scheduled' = scheduled \union t
             \/ \E s \in Servers : scheduled' = scheduled \ {s}
  <2>1. op[x].srv \in Servers
    BY <1>1, Working DEF Reschedule, PastWrite
  <2>2. PICK s \in Servers : s = op[x].srv
    BY <2>1
  <2>3. scheduled' = scheduled \union {s} \/ scheduled' = scheduled \ {s}
    BY <1>1, <2>2 DEF Reschedule
  <2> QED
    BY <2>2, <2>3
<1>2. ASSUME NEW x \in Ops, Create(x) \/ Write(x) \/ Abort(x) \/ Land(x)
      PROVE  scheduled' = scheduled
  BY <1>2 DEF Create, Write, Patch, Delete, Abort, Land
<1>3. ASSUME NEW x \in Ops, Sync(x), ~Reschedule(x) PROVE scheduled' = scheduled
  BY <1>3 DEF Sync, ReadCron, InitCronFile, ApplyInitFile, ApplyCron, ApplyCronFile, CreateLogDirs,
       SetJobScripts, SetCronFile, Commit
<1>4. ASSUME NEW x \in Ops, NEW j \in Jobs, Begin(x, j) PROVE scheduled' = scheduled
  BY <1>4 DEF Begin
<1>5. ASSUME NEW t \in Servers, CheckDelete(t) \/ WriteDelete(t) \/ FailDelete(t)
      PROVE  scheduled' = scheduled
  BY <1>5 DEF CheckDelete, WriteDelete, FailDelete
<1>6. ASSUME NEW s \in Servers, EndDelete(s) PROVE scheduled' = scheduled \ {s}
  BY <1>6 DEF EndDelete
<1>7. CASE BootRead \/ BootFails
  BY <1>7 DEF BootRead, BootFails
<1>8. CASE BootSchedule
  BY <1>8 DEF BootSchedule, TypeOK
<1> QED
  BY <1>1, <1>2, <1>3, <1>4, <1>5, <1>6, <1>7, <1>8 DEF Step

\* Every run of which there is a file has its directory, the one createLogDir made.
RunDirs == \A r \in Runs : logFile[r] # "absent" => JobOfRun(r) \in dirs[HostOfRun(r)]

LEMMA HostSame == ASSUME NEW r \in Runs PROVE CP!HostOf(r) = HostOfRun(r)
BY RunsPlaced DEF CP!HostOf, HostOfRun

LEMMA ListJobsStep ==
  ASSUME TypeOK, CP!TypeOK, RunDirs, NEW p \in Passes, ListJobs(p)
  PROVE  CP!ListJobs(p)
<1> DEFINE s == pass[p].server
           js == dirs[s] \X {s}
<1>1. pass[p].pc = "list" /\ Collector!ListDirs(p, js)
  BY DEF ListJobs
<1>2. s \in Servers
  BY <1>1, CollectorAssumed DEF CP!TypeOK, CP!PassState
<1>3. dirs[s] \subseteq Jobs
  BY <1>2 DEF TypeOK
<1>4. js \subseteq CP!JobsOn(s)
  BY <1>2, <1>3 DEF CP!JobsOn
<1>5. ASSUME NEW r \in Runs, CP!HostOf(r) = s, logFile[r] # "absent" PROVE RunOf[r] \in js
  <2>1. JobOfRun(r) \in dirs[s] /\ HostOfRun(r) = s
    BY <1>5, HostSame DEF RunDirs
  <2>2. RunOf[r] = <<JobOfRun(r), HostOfRun(r)>>
    BY RunsPlaced DEF JobOfRun, HostOfRun
  <2> QED
    BY <2>1, <2>2
<1>6. CP!DirsOfRuns(p) \subseteq js
  BY <1>5 DEF CP!DirsOfRuns
<1>7. CP!ListDirs(p, js)
  BY <1>1 DEF Collector!ListDirs, CP!ListDirs, Collector!remoteVars, CP!remoteVars
<1> QED
  BY <1>4, <1>6, <1>7 DEF CP!ListJobs

LEMMA PassStepKinds ==
  ASSUME TypeOK, CP!TypeOK, RunDirs, NEW p \in Passes, PassStep(p)
  PROVE  CP!PassStep(p)
BY ListJobsStep, ReadingSteps, SavingSteps DEF PassStep, CP!PassStep, Connect, Save

LEMMA StepOfCollector ==
  ASSUME TypeOK, CP!TypeOK, RunDirs, CollectorStep PROVE CP!Next
<1>1. ASSUME NEW r \in Runs,
             \/ RunStarts(r) \/ Collector!RunOpensErrorFile(r) \/ Collector!RunWritesOutput(r)
             \/ Collector!RunWritesError(r) \/ Collector!RunEnds(r) \/ Collector!DeleteLog(r)
      PROVE  CP!Next
  BY <1>1, RunSteps DEF RunStarts, CP!Next
<1>2. ASSUME NEW s \in Servers, Collector!CronTick(s) PROVE CP!Next
  BY <1>2, ScheduleSteps DEF CP!Next
<1>3. ASSUME NEW p \in Passes,
             PassStep(p) \/ Collector!SaveFails(p) \/ Collector!CommandFails(p)
      PROVE  CP!Next
  BY <1>3, PassStepKinds, SavingSteps DEF CP!Next
<1> QED
  BY <1>1, <1>2, <1>3 DEF CollectorStep

LEMMA CollectorSteps ==
  ASSUME TypeOK, CP!TypeOK, RunDirs, [WebNext]_webVars PROVE [CP!Next]_(CP!vars)
<1>1. CASE Step /\ UNCHANGED collectorVars
  <2>1. UNCHANGED <<CP!remoteVars, logFile, errFile, log, serversInProgress, pass, passFaults>>
    BY <1>1 DEF collectorVars, CP!remoteVars
  <2>2. CASE scheduled' = scheduled
    BY <2>1, <2>2 DEF CP!vars, CP!remoteVars
  <2>3. ASSUME NEW t \in SUBSET Servers, scheduled' = scheduled \union t PROVE CP!Next
    BY <2>1, <2>3 DEF CP!Next, CP!Schedule
  <2>4. ASSUME NEW s \in Servers, scheduled' = scheduled \ {s} PROVE CP!Next
    BY <2>1, <2>4 DEF CP!Next, CP!Unschedule
  <2> QED
    BY <1>1, <2>2, <2>3, <2>4, ScheduleKinds
<1>2. CASE CollectorStep
  BY <1>2, StepOfCollector
<1>3. CASE Restart
  BY <1>3, ScheduleSteps DEF Restart, CP!Next
<1>4. CASE UNCHANGED webVars
  BY <1>4 DEF webVars, vars, memVars, collectorVars, CP!vars
<1> QED
  BY <1>1, <1>2, <1>3, <1>4 DEF WebNext

-----------------------------------------------------------------------------
(* Files and rows appear only in these steps. *)

LEMMA FileKinds ==
  ASSUME CollectorStep
  PROVE  \/ UNCHANGED logFile
         \/ \E r \in Runs : RunStarts(r)
         \/ \E p \in Passes : CP!ClearLog(p)
<1>1. ASSUME NEW r \in Runs,
             \/ CP!RunOpensErrorFile(r) \/ CP!RunWritesOutput(r)
             \/ CP!RunWritesError(r) \/ CP!RunEnds(r) \/ CP!DeleteLog(r)
      PROVE  UNCHANGED logFile
  BY <1>1 DEF CP!RunOpensErrorFile, CP!RunWritesOutput, CP!RunWritesError, CP!RunEnds, CP!DeleteLog
<1>2. ASSUME NEW s \in Servers, CP!CronTick(s) PROVE UNCHANGED logFile
  BY <1>2 DEF CP!CronTick
<1>3. ASSUME NEW p \in Passes,
             \/ Connect(p) \/ ListJobs(p) \/ CP!ListLogs(p) \/ CP!CatLog(p) \/ CP!CatError(p)
             \/ Save(p) \/ CP!ClearError(p) \/ CP!Finish(p) \/ CP!SaveFails(p)
             \/ CP!CommandFails(p)
      PROVE  UNCHANGED logFile
  BY <1>3 DEF Connect, Collector!Connect, ListJobs, Collector!ListDirs, CP!ListLogs, CP!CatLog,
       CP!CatError, Save, Collector!Save, CP!ClearError, CP!Finish, CP!SaveFails, CP!CommandFails
<1> QED
  BY <1>1, <1>2, <1>3, RunSteps, ScheduleSteps, ReadingSteps, SavingSteps
     DEF CollectorStep, PassStep

LEMMA RowKinds ==
  ASSUME CollectorStep
  PROVE  \/ UNCHANGED log
         \/ \E r \in Runs : CP!DeleteLog(r)
         \/ \E p \in Passes : Save(p)
<1>1. ASSUME NEW r \in Runs,
             \/ CP!RunStarts(r) \/ CP!RunOpensErrorFile(r) \/ CP!RunWritesOutput(r)
             \/ CP!RunWritesError(r) \/ CP!RunEnds(r)
      PROVE  UNCHANGED log
  BY <1>1 DEF CP!RunStarts, CP!RunOpensErrorFile, CP!RunWritesOutput, CP!RunWritesError, CP!RunEnds
<1>2. ASSUME NEW s \in Servers, CP!CronTick(s) PROVE UNCHANGED log
  BY <1>2 DEF CP!CronTick
<1>3. ASSUME NEW p \in Passes,
             \/ Connect(p) \/ ListJobs(p) \/ CP!ListLogs(p) \/ CP!CatLog(p) \/ CP!CatError(p)
             \/ CP!ClearLog(p) \/ CP!ClearError(p) \/ CP!Finish(p) \/ CP!SaveFails(p)
             \/ CP!CommandFails(p)
      PROVE  UNCHANGED log
  BY <1>3 DEF Connect, Collector!Connect, ListJobs, Collector!ListDirs, CP!ListLogs, CP!CatLog,
       CP!CatError, CP!ClearLog, CP!ClearError, CP!Finish, CP!SaveFails, CP!CommandFails
<1> QED
  BY <1>1, <1>2, <1>3, RunSteps, ScheduleSteps, ReadingSteps, SavingSteps
     DEF CollectorStep, PassStep, RunStarts

LEMMA PhaseKinds ==
  ASSUME CollectorStep
  PROVE  \/ UNCHANGED phase
         \/ \E r \in Runs : RunStarts(r) \/ CP!RunOpensErrorFile(r) \/ CP!RunEnds(r)
<1> USE DEF Collector!remoteVars, CP!remoteVars
<1>1. ASSUME NEW r \in Runs,
             CP!RunWritesOutput(r) \/ CP!RunWritesError(r) \/ CP!DeleteLog(r)
      PROVE  UNCHANGED phase
  BY <1>1 DEF CP!RunWritesOutput, CP!RunWritesError, CP!DeleteLog
<1>2. ASSUME NEW s \in Servers, CP!CronTick(s) PROVE UNCHANGED phase
  BY <1>2 DEF CP!CronTick
<1>3. ASSUME NEW p \in Passes,
             \/ Connect(p) \/ ListJobs(p) \/ CP!ListLogs(p) \/ CP!CatLog(p) \/ CP!CatError(p)
             \/ Save(p) \/ CP!ClearLog(p) \/ CP!ClearError(p) \/ CP!Finish(p)
             \/ CP!SaveFails(p) \/ CP!CommandFails(p)
      PROVE  UNCHANGED phase
  BY <1>3 DEF Connect, Collector!Connect, ListJobs, Collector!ListDirs, CP!ListLogs, CP!CatLog,
       CP!CatError, Save, Collector!Save, CP!ClearLog, CP!ClearError, CP!Finish, CP!SaveFails,
       CP!CommandFails
<1> QED
  BY <1>1, <1>2, <1>3, RunSteps, ScheduleSteps, ReadingSteps, SavingSteps
     DEF CollectorStep, PassStep

\* A pass that saves or clears the log file of a run has found it in the inbox.
LEMMA Handled ==
  ASSUME CP!TypeOK, CP!CollectorInv, NEW p \in Passes, pass[p].pc \in {"save", "clear"}
  PROVE  \E r \in Runs : /\ r = pass[p].run /\ logFile[r] = "inbox" /\ phase[r] # "idle"
<1>1. pass[p] \in CP!PassState /\ pass[p].run # None
  BY DEF CP!TypeOK, CP!OnRun
<1>2. PICK r \in Runs : r = pass[p].run
  BY <1>1 DEF CP!PassState
<1>3. CP!Read(p, r) /\ CP!RowSound(r)
  BY <1>1, <1>2 DEF CP!CollectorInv, CP!Active
<1>4. logFile[r] = "inbox"
  BY <1>3 DEF CP!Read
<1> QED
  BY <1>2, <1>3, <1>4 DEF CP!RowSound

-----------------------------------------------------------------------------
(* The collector here is the collector alone: every run finds its directory. *)

LEMMA RunDirsStep ==
  ASSUME TypeOK, Installed, CP!TypeOK, CP!CollectorInv, RunDirs, [WebNext]_webVars
  PROVE  RunDirs'
<1>1. CASE (Step \/ Crash) /\ UNCHANGED logFile
  <2>1. \A s \in Servers : dirs[s] \subseteq dirs'[s]
    BY <1>1, HostChanges DEF Next, Grows
  <2> QED
    BY <1>1, <2>1, RunsPlaced DEF RunDirs
<1>2. CASE CollectorStep /\ UNCHANGED vars
  <2>1. dirs' = dirs
    BY <1>2 DEF vars, hostVars
  <2>2. ASSUME NEW r \in Runs, RunStarts(r) PROVE RunDirs'
    <3>1. JobOfRun(r) \in dirs[HostOfRun(r)]
      BY <2>2, RunsPlaced DEF RunStarts, Installed, Runnable
    <3>2. \A x \in Runs \ {r} : logFile'[x] = logFile[x]
      BY <2>2, RunSteps DEF RunStarts, CP!RunStarts, CP!TypeOK
    <3> QED
      BY <2>1, <3>1, <3>2 DEF RunDirs
  <2>3. ASSUME NEW p \in Passes, CP!ClearLog(p) PROVE RunDirs'
    <3>1. PICK r \in Runs : r = pass[p].run /\ logFile[r] = "inbox"
      BY <2>3, Handled DEF CP!ClearLog
    <3>2. \A x \in Runs \ {r} : logFile'[x] = logFile[x]
      BY <2>3, <3>1 DEF CP!ClearLog, CP!TypeOK
    <3> QED
      BY <2>1, <3>1, <3>2 DEF RunDirs
  <2> QED
    BY <1>2, <2>1, <2>2, <2>3, FileKinds DEF RunDirs
<1>3. CASE UNCHANGED webVars
  BY <1>3 DEF webVars, vars, hostVars, collectorVars, RunDirs
<1>4. Restart => UNCHANGED logFile
  BY DEF Restart, Collector!Crash
<1> QED
  BY <1>1, <1>2, <1>3, <1>4 DEF WebNext, Restart, collectorVars

\* What holds of the collector, here as alone.
CollectorHere == CP!TypeOK /\ CP!CollectorInv /\ RunDirs

LEMMA HereInit == WebInit => CollectorHere
<1> SUFFICES ASSUME WebInit PROVE CollectorHere
  OBVIOUS
<1>1. CP!Init
  BY InitSame DEF WebInit
<1>2. CP!TypeOK /\ CP!CollectorInv
  BY <1>1, CP!InvInit, CollectorAssumed DEF CP!InvInit
<1> QED
  BY <1>1, <1>2 DEF CollectorHere, RunDirs, CP!Init

LEMMA HereStep == TypeOK /\ SyncInv /\ CollectorHere /\ [WebNext]_webVars => CollectorHere'
<1> SUFFICES ASSUME TypeOK, SyncInv, CollectorHere, [WebNext]_webVars PROVE CollectorHere'
  OBVIOUS
<1>1. [CP!Next]_(CP!vars)
  BY CollectorSteps DEF CollectorHere
<1>2. CP!TypeOK'
  BY <1>1, CP!TypeStep, CollectorAssumed DEF CP!TypeStep, CollectorHere
<1>3. CP!CollectorInv'
  BY <1>1, CP!CollectorStep, CollectorAssumed DEF CP!CollectorStep, CollectorHere
<1>4. RunDirs'
  BY RunDirsStep DEF SyncInv, CollectorHere
<1> QED
  BY <1>2, <1>3, <1>4 DEF CollectorHere

LEMMA HereAlways == WebSpec => [](TypeOK /\ SyncInv /\ CollectorHere)
<1>1. WebSpec => [](TypeOK /\ SyncInv)
  BY ImplementsJobSync, SyncInvariant, PTL
<1>2. WebInit => CollectorHere
  BY HereInit
<1>3. TypeOK /\ SyncInv /\ CollectorHere /\ [WebNext]_webVars => CollectorHere'
  BY HereStep
<1> QED
  BY <1>1, <1>2, <1>3, PTL DEF WebSpec

\* Composed with the requests, the collector does what it does alone: the schedule is all
\* they change for it, the crontabs start only runs whose directory it lists, and a failed
\* request or a restart in between leaves it nothing else to read (SshClient.upsertLogs).
THEOREM ImplementsCollector == WebSpec => CollectorRefinement
<1>1. WebInit => CP!Init
  BY InitSame DEF WebInit
<1>2. TypeOK /\ SyncInv /\ CollectorHere /\ [WebNext]_webVars => [CP!Next]_(CP!vars)
  BY CollectorSteps DEF CollectorHere
<1>3. WebSpec => CP!Spec
  BY <1>1, <1>2, HereAlways, PTL DEF WebSpec, CP!Spec
<1> QED
  BY <1>3, SpecSame, PTL DEF CollectorRefinement

-----------------------------------------------------------------------------
(* Logs stay in the organization of the server that wrote them. *)

\* A run is of a job of its server's organization, and a row of a run of a job in the table.
RunsOwned == \A r \in Runs : phase[r] # "idle" => Belongs(JobOfRun(r), OrgOf[HostOfRun(r)])
RowsOwned == \A r \in Runs : log[r].status > 0 => phase[r] # "idle" /\ jobs[JobOfRun(r)] # None
Owned == RunsOwned /\ RowsOwned

LEMMA OwnedInit == WebInit => Owned
BY InitSame DEF WebInit, CP!Init, CP!NoLogRow, Owned, RunsOwned, RowsOwned

LEMMA RowsStay ==
  ASSUME TypeOK, [Next]_vars, NEW j \in Jobs, jobs[j] # None PROVE jobs'[j] # None
<1>1. ASSUME NEW x \in Ops, Commit(x) PROVE jobs'[j] # None
  <2>1. PICK i, row : i = op[x].job /\ row = op[x].row
    OBVIOUS
  <2>2. jobs' = IF row = None THEN jobs ELSE [jobs EXCEPT ![i] = row]
    BY <1>1, <2>1 DEF Commit
  <2> QED
    BY <2>2 DEF TypeOK
<1> QED
  BY <1>1, TableKinds

LEMMA RunsOwnedStep ==
  ASSUME TypeOK, SyncInv, CP!TypeOK, RunsOwned, [WebNext]_webVars PROVE RunsOwned'
<1>1. CASE UNCHANGED phase
  <2>1. ASSUME NEW r \in Runs, phase[r] # "idle"
        PROVE  Belongs(JobOfRun(r), OrgOf[HostOfRun(r)])'
    <3>1. PICK j \in Jobs : j = JobOfRun(r)
      BY RunsPlaced
    <3>2. PICK g : g = OrgOf[HostOfRun(r)]
      OBVIOUS
    <3>3. Belongs(j, g)
      BY <2>1, <3>1, <3>2 DEF RunsOwned
    <3>4. Belongs(j, g)'
      BY <3>3, RequestsStep, BelongsKept DEF SyncInv
    <3> QED
      BY <3>1, <3>2, <3>4 DEF JobOfRun, HostOfRun
  <2> QED
    BY <1>1, <2>1 DEF RunsOwned
<1>2. ASSUME UNCHANGED vars, NEW r \in Runs,
             RunStarts(r) \/ CP!RunOpensErrorFile(r) \/ CP!RunEnds(r)
      PROVE  RunsOwned'
  <2>1. Belongs(JobOfRun(r), OrgOf[HostOfRun(r)])
    <3>1. CASE RunStarts(r)
      BY <3>1, RunsPlaced DEF RunStarts, SyncInv, OrgsApart
    <3>2. CASE CP!RunOpensErrorFile(r) \/ CP!RunEnds(r)
      BY <3>2 DEF CP!RunOpensErrorFile, CP!RunEnds, RunsOwned
    <3> QED
      BY <1>2, <3>1, <3>2
  <2>2. \A x \in Runs \ {r} : phase'[x] = phase[x]
    BY <1>2, RunSteps DEF RunStarts, CP!RunStarts, CP!RunOpensErrorFile, CP!RunEnds, CP!TypeOK
  <2>3. \A x \in Runs : phase'[x] # "idle" => Belongs(JobOfRun(x), OrgOf[HostOfRun(x)])
    BY <2>1, <2>2 DEF RunsOwned
  <2> QED
    BY <1>2, <2>3 DEF RunsOwned, Belongs, vars, dbVars, JobOfRun, HostOfRun
<1>3. CollectorStep \/ UNCHANGED phase
  BY DEF WebNext, webVars, collectorVars, Restart, Collector!Crash, Collector!remoteVars
<1>4. CollectorStep => UNCHANGED vars \/ UNCHANGED phase
  BY DEF WebNext, webVars, collectorVars, Restart, Collector!Crash, Collector!remoteVars
<1> QED
  BY <1>1, <1>2, <1>3, <1>4, PhaseKinds

LEMMA RowsOwnedStep ==
  ASSUME TypeOK, CP!TypeOK, CP!CollectorInv, RowsOwned, [WebNext]_webVars PROVE RowsOwned'
<1>0. ASSUME NEW r \in Runs, phase[r] # "idle" PROVE phase'[r] # "idle"
  <2>1. CASE UNCHANGED phase
    BY <1>0, <2>1
  <2>2. ASSUME NEW x \in Runs, RunStarts(x) \/ CP!RunOpensErrorFile(x) \/ CP!RunEnds(x)
        PROVE  phase'[r] # "idle"
    BY <1>0, <2>2, RunSteps
       DEF RunStarts, CP!RunStarts, CP!RunOpensErrorFile, CP!RunEnds, CP!TypeOK
  <2>3. CollectorStep \/ UNCHANGED phase
    BY DEF WebNext, webVars, collectorVars, Restart, Collector!Crash, Collector!remoteVars
  <2> QED
    BY <2>1, <2>2, <2>3, PhaseKinds
<1>1. ASSUME NEW r \in Runs, log[r].status > 0 PROVE phase'[r] # "idle" /\ jobs'[JobOfRun(r)] # None
  BY <1>0, <1>1, RequestsStep, RowsStay, RunsPlaced DEF RowsOwned
<1>2. CASE \A r \in Runs : log'[r].status > 0 => log[r].status > 0
  BY <1>1, <1>2 DEF RowsOwned, JobOfRun
<1>3. ASSUME NEW p \in Passes, Save(p) PROVE RowsOwned'
  <2>1. PICK r \in Runs : r = pass[p].run /\ phase[r] # "idle"
    BY <1>3, Handled DEF Save
  <2>2. jobs[JobOfRun(r)] # None
    BY <1>3, <2>1 DEF Save, RowOfJob, RowsOwned
  <2>3. jobs'[JobOfRun(r)] # None /\ phase'[r] # "idle"
    BY <1>0, <2>1, <2>2, RequestsStep, RowsStay, RunsPlaced
  <2>4. \A x \in Runs \ {r} : log'[x] = log[x]
    BY <1>3, <2>1 DEF Save, Collector!Save, CP!TypeOK
  <2> QED
    BY <1>1, <2>3, <2>4 DEF RowsOwned, JobOfRun
<1>4. ASSUME NEW r \in Runs, CP!DeleteLog(r) PROVE \A x \in Runs : log'[x].status > 0 => log[x].status > 0
  BY <1>4 DEF CP!DeleteLog, CP!TypeOK, CP!LogRow
<1>5. CollectorStep \/ UNCHANGED log
  BY DEF WebNext, webVars, collectorVars, Restart, Collector!Crash, Collector!remoteVars
<1> QED
  BY <1>2, <1>3, <1>4, <1>5, RowKinds

\* Whatever requests, crashes and failures do while scripts run and passes read them, the
\* output of a run is only in a row of a job in the table, of the organization of the
\* server it ran on (LogService.upsert; LogService.list shows it to that organization).
THEOREM LogsStayInOrganization == WebSpec => []LogsSameOrg
<1>1. WebInit => Owned
  BY OwnedInit
<1>2. TypeOK /\ SyncInv /\ CollectorHere /\ Owned /\ [WebNext]_webVars => Owned'
  BY RunsOwnedStep, RowsOwnedStep DEF Owned, CollectorHere
<1>3. Owned => LogsSameOrg
  BY DEF Owned, RunsOwned, RowsOwned, LogsSameOrg, Belongs
<1> QED
  BY <1>1, <1>2, <1>3, HereAlways, PTL DEF WebSpec

-----------------------------------------------------------------------------
(* What holds of each part holds of the whole. *)

LEMMA PropertiesSame ==
  /\ Collector!NothingLost <=> CP!NothingLost
  /\ Collector!MovedRunsClosed <=> CP!MovedRunsClosed
  /\ Collector!InProgressExact <=> CP!InProgressExact
<1>1. \A r \in Runs : Collector!Closed(r) = CP!Closed(r) /\ Collector!EndMark(r) = CP!EndMark(r)
  BY DEF Collector!Closed, CP!Closed, Collector!EndMark, CP!EndMark
<1>2. Collector!NothingLost <=> CP!NothingLost
  BY <1>1 DEF Collector!NothingLost, CP!NothingLost
<1>3. Collector!MovedRunsClosed <=> CP!MovedRunsClosed
  BY <1>1 DEF Collector!MovedRunsClosed, CP!MovedRunsClosed, Collector!Moved, CP!Moved
<1>4. Collector!InProgressExact <=> CP!InProgressExact
  BY DEF Collector!InProgressExact, CP!InProgressExact, Collector!Active, CP!Active
<1> QED
  BY <1>2, <1>3, <1>4

\* Nothing a request does, no rollback and no restart loses the output of a run, takes away
\* a file too early, or leaves a server marked for ever (logCollectorWrapper, upsertLogs).
THEOREM CollectorStaysSafe ==
  WebSpec => [](/\ Collector!NothingLost /\ Collector!MovedRunsClosed
                /\ Collector!InProgressExact)
<1>1. WebSpec => CP!Spec
  BY ImplementsCollector, SpecSame, PTL DEF CollectorRefinement
<1>2. CP!Spec => []CP!NothingLost
  BY CP!NothingIsLost, CollectorAssumed DEF CP!NothingIsLost
<1>3. CP!Spec => []CP!MovedRunsClosed
  BY CP!MovedAreClosed, CollectorAssumed DEF CP!MovedAreClosed
<1>4. CP!Spec => []CP!InProgressExact
  BY CP!PassesApart, CollectorAssumed DEF CP!PassesApart
<1> QED
  BY <1>1, <1>2, <1>3, <1>4, PropertiesSame, PTL

\* The requests keep their promises with the collector beside them: crontabs that can run
\* and belong to the organization, servers in step, and only changes of the table it allows.
THEOREM RequestsStaySafe ==
  WebSpec => [](CronEntriesRunnable /\ CronSameOrg /\ InStep) /\ TableRefinement
BY ImplementsJobSync, EntriesRunnable, TenantsApart, ServersInStep, ImplementsJobTable, PTL

=============================================================================
