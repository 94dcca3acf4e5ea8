------------------------------ MODULE WebCron -------------------------------
(***************************************************************************)
(* Jobs and their logs together: JobSync installs the cron lines that      *)
(* start the runs of LogCollector, makes the directories its passes list,  *)
(* owns the rows its log rows refer to, and shares with it the schedule    *)
(* and the process that may die.  The collector sees one log directory per *)
(* job and server.                                                         *)
(***************************************************************************)
EXTENDS JobSync

CONSTANTS Runs, Passes, MaxStderr, \* as in LogCollector
          RunOf,          \* the job of a run and the server whose cron starts it
          MaxPassFaults   \* bound: failures of passes, and crashes

ASSUME WebCronAssumption ==
  /\ RunOf \in [Runs -> Jobs \X Servers]
  /\ None \notin Runs
  /\ MaxStderr \in Nat /\ MaxPassFaults \in Nat

VARIABLES phase, lastOut, stderr, logFile, errFile, log, serversInProgress, pass,
          passFaults      \* failures of passes so far

JobOfRun(r) == RunOf[r][1]
HostOfRun(r) == RunOf[r][2]

Collector == INSTANCE LogCollector WITH
               Jobs <- Jobs \X Servers,
               ServerOf <- [d \in Jobs \X Servers |-> d[2]],
               JobOf <- RunOf,
               MaxFaults <- MaxPassFaults,
               faults <- passFaults

collectorVars == <<phase, lastOut, stderr, logFile, errFile, log, serversInProgress, pass,
                   passFaults>>
webVars == <<vars, collectorVars>>

WebInit == Init /\ Collector!Init

-----------------------------------------------------------------------------
(* The steps in which one component relies on the other. *)

\* cron starts what the crontab has at that minute, whatever the table says by then.
RunStarts(r) ==
  /\ \E e \in crontab[HostOfRun(r)] : e.job = JobOfRun(r)
  /\ Collector!RunStarts(r)

\* A deleted server is not found: getById throws, CommandFails is the wrapper's catch.
Connect(p) ==
  /\ pass[p].server \notin sshDeleted
  /\ Collector!Connect(p)

ListJobs(p) ==
  LET s == pass[p].server
  IN  pass[p].pc = "list" /\ Collector!ListDirs(p, dirs[s] \X {s})

\* Mutant: the log table has no foreign key.
RowOfJobUnchecked(j) == TRUE

\* The foreign key jobEntityId: the row must be there, and nobody may hold its lock.
RowOfJob(j) == jobs[j] # None /\ \A o \in Ops : PastWrite(o) => op[o].job # j

\* Only an INSERT checks the foreign key.
Save(p) ==
  LET r == pass[p].run
  IN  /\ pass[p].pc = "save"
      /\ log[r].status > 0 \/ RowOfJob(JobOfRun(r))
      /\ Collector!Save(p)

\* The process that runs requests is the one that collects.
Restart == Crash /\ Collector!Crash

PassStep(p) == \/ Connect(p) \/ ListJobs(p) \/ Collector!ListLogs(p) \/ Collector!CatLog(p)
               \/ Collector!CatError(p) \/ Save(p) \/ Collector!ClearLog(p)
               \/ Collector!ClearError(p) \/ Collector!Finish(p)

CollectorStep ==
  \/ \E r \in Runs : \/ RunStarts(r) \/ Collector!RunOpensErrorFile(r)
                     \/ Collector!RunWritesOutput(r) \/ Collector!RunWritesError(r)
                     \/ Collector!RunEnds(r) \/ Collector!DeleteLog(r)
  \/ \E s \in Servers : Collector!CronTick(s)
  \/ \E p \in Passes : PassStep(p) \/ Collector!SaveFails(p) \/ Collector!CommandFails(p)

WebNext == \/ Step /\ UNCHANGED collectorVars
           \/ CollectorStep /\ UNCHANGED vars
           \/ Restart

WebSpec == WebInit /\ [][WebNext]_webVars

-----------------------------------------------------------------------------
(* Properties. *)

\* Whatever is moved, rolled back or deleted while scripts run and passes read, the output
\* of a run ends up only in a row of a job that is in the table, on a server of the
\* organization it ran for: the one whose members LogService.list shows it to.
LogsSameOrg ==
  \A r \in Runs : log[r].status > 0 =>
    jobs[JobOfRun(r)] # None /\ OrgOf[jobs[JobOfRun(r)].ssh] = OrgOf[HostOfRun(r)]

\* The requests schedule, and the crontabs start, only what the collector allows for, and it
\* finds a directory for every run: what holds of it alone holds here.
CollectorRefinement == Collector!Spec

=============================================================================
