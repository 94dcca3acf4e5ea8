---------------------------- MODULE LogCollector ----------------------------
(***************************************************************************)
(* The log collector: once a minute, for every scheduled server, a pass    *)
(* (SshService.logCollectorWrapper) reads over SSH the files the job       *)
(* scripts leave on the server and upserts one row of the Log table per    *)
(* run.  The scripts run on the servers at the same time, without any      *)
(* lock.  Every `await` of the pass ends an action.                        *)
(***************************************************************************)
EXTENDS Naturals

CONSTANTS Servers, Jobs,
          Runs,        \* executions of job scripts; their $DATE is the file name
          Passes,      \* activations of the wrapper that may be alive at once
          ServerOf,    \* the server a job is installed on
          JobOf,       \* the job of a run
          None,        \* no run, no server
          MaxStderr,   \* bound: chunks of error output of one run
          MaxFaults    \* bound: failed commands, failed saves and crashes

ASSUME CollectorAssumption ==
  /\ ServerOf \in [Jobs -> Servers]
  /\ JobOf \in [Runs -> Jobs]
  /\ None \notin Runs /\ None \notin Servers
  /\ MaxStderr \in Nat /\ MaxFaults \in Nat

VARIABLES
  phase,              \* run: idle, opening (only the log file), running, ended
  lastOut,            \* run: does its standard output end with a newline?
  stderr,             \* run: chunks written on its error output
  logFile, errFile,   \* run: where its two files are
  log,                \* run: its row of the Log table
  scheduled,          \* servers with a CronJob in the SchedulerRegistry
  serversInProgress,  \* SshService.serversInProgress
  pass,               \* the activations of the wrapper
  faults              \* failures so far

remoteVars == <<phase, lastOut, stderr>>
vars == <<phase, lastOut, stderr, logFile, errFile, log,
          scheduled, serversInProgress, pass, faults>>

Places == {"absent", "inbox", "skipped", "deleted"}
LogRow == [status : 0..3, error : 0..MaxStderr, isDel : BOOLEAN]
NoLogRow == [status |-> 0, error |-> 0, isDel |-> FALSE]

PassState == [pc      : {"idle", "connect", "list", "logs", "cat_error", "save",
                         "clear", "clear_error"},
              server  : Servers \union {None},
              jobs    : SUBSET Jobs,            \* directories still to visit
              logs    : SUBSET Runs,            \* log files still to read
              errors  : SUBSET Runs,            \* error files of the listing
              run     : Runs \union {None},
              end     : BOOLEAN,
              error   : 0..MaxStderr,
              success : BOOLEAN]
OnRun(pc) == pc \in {"cat_error", "save", "clear", "clear_error"}
NewPass(pc, s) == [pc |-> pc, server |-> s, jobs |-> {}, logs |-> {}, errors |-> {},
                   run |-> None, end |-> FALSE, error |-> 0, success |-> FALSE]
IdlePass == NewPass("idle", None)

HostOf(r) == ServerOf[JobOf[r]]

\* The script appends "JendJ=<ts>"; the collector looks for "\nJendJ=", which is in
\* the file only when the output of the job ended with a newline.
EndMark(r) == phase[r] = "ended" /\ lastOut[r] = "line"

Init ==
  /\ phase = [r \in Runs |-> "idle"]
  /\ lastOut = [r \in Runs |-> "ragged"]
  /\ stderr = [r \in Runs |-> 0]
  /\ logFile = [r \in Runs |-> "absent"]
  /\ errFile = [r \in Runs |-> "absent"]
  /\ log = [r \in Runs |-> NoLogRow]
  /\ scheduled = {}
  /\ serversInProgress = {}
  /\ pass = [p \in Passes |-> IdlePass]
  /\ faults = 0
-----------------------------------------------------------------------------
(* The job scripts, on the servers. *)

RunStarts(r) ==
  /\ phase[r] = "idle"
  /\ phase' = [phase EXCEPT ![r] = "opening"]
  /\ logFile' = [logFile EXCEPT ![r] = "inbox"]
  /\ UNCHANGED <<lastOut, stderr, errFile, log, scheduled, serversInProgress, pass, faults>>

RunOpensErrorFile(r) ==
  /\ phase[r] = "opening"
  /\ phase' = [phase EXCEPT ![r] = "running"]
  /\ errFile' = [errFile EXCEPT ![r] = "inbox"]
  /\ UNCHANGED <<lastOut, stderr, logFile, log, scheduled, serversInProgress, pass, faults>>

RunWritesOutput(r) ==
  /\ phase[r] = "running"
  /\ \E o \in {"line", "ragged"} : lastOut' = [lastOut EXCEPT ![r] = o]
  /\ UNCHANGED <<phase, stderr, logFile, errFile, log, scheduled, serversInProgress, pass, faults>>

RunWritesError(r) ==
  /\ phase[r] = "running"
  /\ stderr[r] < MaxStderr
  /\ stderr' = [stderr EXCEPT ![r] = @ + 1]
  /\ UNCHANGED <<phase, lastOut, logFile, errFile, log, scheduled, serversInProgress, pass, faults>>

RunEnds(r) ==
  /\ phase[r] = "running"
  /\ phase' = [phase EXCEPT ![r] = "ended"]
  /\ UNCHANGED <<lastOut, stderr, logFile, errFile, log, scheduled, serversInProgress, pass, faults>>
-----------------------------------------------------------------------------
(* The schedule, and the wrapper the CronJob of a server calls. *)

\* setAllServersInSchedule adds several at once.
Schedule(t) ==
  /\ scheduled' = scheduled \union t
  /\ UNCHANGED <<remoteVars, logFile, errFile, log, serversInProgress, pass, faults>>

Unschedule(s) ==
  /\ scheduled' = scheduled \ {s}
  /\ UNCHANGED <<remoteVars, logFile, errFile, log, serversInProgress, pass, faults>>

\* Mutant: the wrapper does not look at serversInProgress.
CronTickUnchecked(s) ==
  /\ s \in scheduled
  /\ \E p \in Passes :
       /\ pass[p].pc = "idle"
       /\ pass' = [pass EXCEPT ![p] = NewPass("connect", s)]
  /\ serversInProgress' = serversInProgress \union {s}
  /\ UNCHANGED <<remoteVars, logFile, errFile, log, scheduled, faults>>

CronTick(s) ==
  /\ s \in scheduled
  /\ s \notin serversInProgress
  /\ \E p \in Passes :
       /\ pass[p].pc = "idle"
       /\ pass' = [pass EXCEPT ![p] = NewPass("connect", s)]
  /\ serversInProgress' = serversInProgress \union {s}
  /\ UNCHANGED <<remoteVars, logFile, errFile, log, scheduled, faults>>

\* Mutant: the entry of serversInProgress is left behind.
EndPassLeaks(p) ==
  /\ UNCHANGED serversInProgress
  /\ pass' = [pass EXCEPT ![p] = IdlePass]

\* The wrapper forgets the pass, on its normal end and after its catch.
EndPass(p) ==
  /\ serversInProgress' = serversInProgress \ {pass[p].server}
  /\ pass' = [pass EXCEPT ![p] = IdlePass]
-----------------------------------------------------------------------------
(* One pass: SshService.upsertLogs, then SshClient.upsertLogs. *)

Connect(p) ==
  /\ pass[p].pc = "connect"
  /\ pass' = [pass EXCEPT ![p] = [@ EXCEPT !.pc = "list"]]
  /\ UNCHANGED <<remoteVars, logFile, errFile, log, scheduled, serversInProgress, faults>>

\* The directories of cron_logs: the jobs installed on the server so far.
JobsOn(s) == {j \in Jobs : ServerOf[j] = s}

\* Mutant: the directory "skipped" is not filtered out of the listing.
ListDirsUnfiltered(p, js) ==
  /\ pass[p].pc = "list"
  /\ pass' = [pass EXCEPT ![p] = [@ EXCEPT !.pc = "logs", !.jobs = js \union {None}]]
  /\ UNCHANGED <<remoteVars, logFile, errFile, log, scheduled, serversInProgress, faults>>

\* js are the directories there.
ListDirs(p, js) ==
  /\ pass[p].pc = "list"
  /\ pass' = [pass EXCEPT ![p] = [@ EXCEPT !.pc = "logs", !.jobs = js]]
  /\ UNCHANGED <<remoteVars, logFile, errFile, log, scheduled, serversInProgress, faults>>

\* createLogDir made the directory of a job before its first run there.
DirsOfRuns(p) ==
  {JobOf[r] : r \in {x \in Runs : HostOf(x) = pass[p].server /\ logFile[x] # "absent"}}

ListJobs(p) ==
  \E js \in SUBSET JobsOn(pass[p].server) : DirsOfRuns(p) \subseteq js /\ ListDirs(p, js)

InboxOf(j, file) == {r \in Runs : JobOf[r] = j /\ file[r] = "inbox"}

OnJob(q, j) == [q EXCEPT !.jobs = @ \ {j}, !.logs = InboxOf(j, logFile),
                         !.errors = InboxOf(j, errFile)]

ListLogs(p) ==
  /\ pass[p].pc = "logs" /\ pass[p].logs = {}
  /\ \E j \in pass[p].jobs :
       pass' = [pass EXCEPT ![p] = OnJob(@, j)]
  /\ UNCHANGED <<remoteVars, logFile, errFile, log, scheduled, serversInProgress, faults>>

OnLog(q, r) == [q EXCEPT !.pc = IF r \in q.errors THEN "cat_error" ELSE "save",
                         !.run = r, !.logs = @ \ {r}, !.end = EndMark(r), !.error = 0]

CatLog(p) ==
  /\ pass[p].pc = "logs"
  /\ \E r \in pass[p].logs :
       pass' = [pass EXCEPT ![p] = OnLog(@, r)]
  /\ UNCHANGED <<remoteVars, logFile, errFile, log, scheduled, serversInProgress, faults>>

CatError(p) ==
  /\ pass[p].pc = "cat_error"
  /\ pass' = [pass EXCEPT ![p] = [@ EXCEPT !.pc = "save", !.error = stderr[pass[p].run]]]
  /\ UNCHANGED <<remoteVars, logFile, errFile, log, scheduled, serversInProgress, faults>>

\* Mutant: an error text closes the row even if the run has not ended.
StatusByError(end, error) == IF error > 0 THEN 3 ELSE IF end THEN 2 ELSE 1

Status(end, error) == IF ~end THEN 1 ELSE IF error > 0 THEN 3 ELSE 2

\* Mutant: a save that failed counts as a success.
UpsertAlwaysTrue(saved) == TRUE

\* .then(() => true).catch(...).then(() => false): what upsert returns.
UpsertResult(saved) == FALSE

\* The body of the loop over the files is left: its variables are gone.
LogDone(q) == [q EXCEPT !.pc = "logs", !.run = None, !.end = FALSE, !.error = 0,
                        !.success = FALSE]

\* Mutant: the files are cleared whether the run has ended or not.
AfterSaveAlwaysClears(p, saved) ==
  pass' = [pass EXCEPT ![p] = [@ EXCEPT !.pc = "clear", !.success = UpsertResult(saved)]]

\* Mutant: the error file goes first, and the log file is forgotten.
AfterSaveErrorFirst(p, saved) ==
  pass' = [pass EXCEPT ![p] =
             IF ~pass[p].end THEN LogDone(@)
             ELSE [@ EXCEPT !.success = UpsertResult(saved),
                            !.pc = IF pass[p].run \in pass[p].errors THEN "clear_error"
                                                                      ELSE "clear"]]

\* if (end): only the files of a finished run are cleared.
AfterSave(p, saved) ==
  pass' = [pass EXCEPT ![p] = IF pass[p].end
                              THEN [@ EXCEPT !.pc = "clear", !.success = UpsertResult(saved)]
                              ELSE LogDone(@)]

Save(p) ==
  /\ pass[p].pc = "save"
  /\ log' = [log EXCEPT ![pass[p].run] =
                [@ EXCEPT !.status = Status(pass[p].end, pass[p].error),
                          !.error = pass[p].error]]
  /\ AfterSave(p, TRUE)
  /\ UNCHANGED <<remoteVars, logFile, errFile, scheduled, serversInProgress, faults>>

\* The database refuses the row: upsert logs the error and the pass goes on.  That is
\* counted as a failure, but no bound stops it.
SaveFails(p) ==
  /\ pass[p].pc = "save"
  /\ MaxFaults > 0 /\ faults' = IF faults < MaxFaults THEN faults + 1 ELSE faults
  /\ AfterSave(p, FALSE)
  /\ UNCHANGED <<remoteVars, logFile, errFile, log, scheduled, serversInProgress>>

\* delLogFile or mvToSkipped
ClearedTo(success) == IF success THEN "deleted" ELSE "skipped"

ClearLog(p) ==
  /\ pass[p].pc = "clear"
  /\ logFile' = [logFile EXCEPT ![pass[p].run] = ClearedTo(pass[p].success)]
  /\ pass' = [pass EXCEPT ![p] = IF pass[p].run \in pass[p].errors
                                 THEN [@ EXCEPT !.pc = "clear_error"]
                                 ELSE LogDone(@)]
  /\ UNCHANGED <<remoteVars, errFile, log, scheduled, serversInProgress, faults>>

ClearError(p) ==
  /\ pass[p].pc = "clear_error"
  /\ errFile' = [errFile EXCEPT ![pass[p].run] = ClearedTo(pass[p].success)]
  /\ pass' = [pass EXCEPT ![p] = LogDone(@)]
  /\ UNCHANGED <<remoteVars, logFile, log, scheduled, serversInProgress, faults>>

Finish(p) ==
  /\ pass[p].pc = "logs" /\ pass[p].logs = {} /\ pass[p].jobs = {}
  /\ EndPass(p)
  /\ UNCHANGED <<remoteVars, logFile, errFile, log, scheduled, faults>>

\* The query, the connection or a command of the pass fails: the wrapper's catch.
\* (save is not among them: upsert never rejects.)
Awaiting(p) == \/ pass[p].pc \in {"connect", "list", "cat_error", "clear", "clear_error"}
               \/ pass[p].pc = "logs" /\ (pass[p].logs # {} \/ pass[p].jobs # {})

CommandFails(p) ==
  /\ Awaiting(p)
  /\ faults < MaxFaults /\ faults' = faults + 1
  /\ EndPass(p)
  /\ UNCHANGED <<remoteVars, logFile, errFile, log, scheduled>>
-----------------------------------------------------------------------------
\* LogService.delete: a user hides a row.
DeleteLog(r) ==
  /\ log[r].status > 0
  /\ log' = [log EXCEPT ![r].isDel = TRUE]
  /\ UNCHANGED <<remoteVars, logFile, errFile, scheduled, serversInProgress, pass, faults>>

\* The process dies and restarts with empty memory; the scripts run on.
Crash ==
  /\ faults < MaxFaults /\ faults' = faults + 1
  /\ scheduled' = {}
  /\ serversInProgress' = {}
  /\ pass' = [p \in Passes |-> IdlePass]
  /\ UNCHANGED <<remoteVars, logFile, errFile, log>>

PassStep(p) == \/ Connect(p) \/ ListJobs(p) \/ ListLogs(p) \/ CatLog(p) \/ CatError(p)
               \/ Save(p) \/ ClearLog(p) \/ ClearError(p) \/ Finish(p)

Next == \/ \E r \in Runs : \/ RunStarts(r) \/ RunOpensErrorFile(r) \/ RunWritesOutput(r)
                           \/ RunWritesError(r) \/ RunEnds(r) \/ DeleteLog(r)
        \/ \E t \in SUBSET Servers : Schedule(t)
        \/ \E s \in Servers : Unschedule(s) \/ CronTick(s)
        \/ \E p \in Passes : PassStep(p) \/ SaveFails(p) \/ CommandFails(p)
        \/ Crash

Spec == Init /\ [][Next]_vars

\* The CronJob of a scheduled server ticks every minute, and a command, a query or a
\* save that was sent gets its answer.  Nothing is assumed of the scripts or of users.
FairSpec == /\ Spec
            /\ \A s \in Servers : WF_vars(CronTick(s))
            /\ \A p \in Passes : WF_vars(PassStep(p))

-----------------------------------------------------------------------------
(* Properties. *)

\* Every variable holds a value of its kind.
TypeOK ==
  /\ phase \in [Runs -> {"idle", "opening", "running", "ended"}]
  /\ lastOut \in [Runs -> {"line", "ragged"}]
  /\ stderr \in [Runs -> 0..MaxStderr]
  /\ logFile \in [Runs -> Places]
  /\ errFile \in [Runs -> Places]
  /\ log \in [Runs -> LogRow]
  /\ scheduled \subseteq Servers
  /\ serversInProgress \subseteq Servers
  /\ pass \in [Passes -> PassState]
  /\ \A p \in Passes : /\ pass[p].run # None <=> OnRun(pass[p].pc)
                       /\ pass[p].server # None <=> pass[p].pc # "idle"
  /\ faults \in 0..MaxFaults

Active == {p \in Passes : pass[p].pc # "idle"}
Closed(r) == log[r].status \in {2, 3}
Moved(place) == place \in {"skipped", "deleted"}

\* serversInProgress is the set of the servers of the live passes, and no server has two:
\* neither a failure nor a restart leaks an entry (the server would never be collected
\* again) or lets two passes read the same files (logCollectorWrapper).
InProgressExact ==
  /\ serversInProgress = {pass[p].server : p \in Active}
  /\ \A p, q \in Active : pass[p].server = pass[q].server => p = q

\* A row is closed only of a run that has ended, and says what the run has printed on its
\* error output: all of it and "with error", or none and "success".  The two files are read
\* at different times while the script runs; only a pass that listed the directory between
\* the openings of the two files knows of no error output (SshClient.upsertLogs).
StatusSound ==
  [][\A r \in Runs : log'[r].status # log[r].status /\ log'[r].status \in {2, 3} =>
       /\ EndMark(r)
       /\ \/ log'[r].error = stderr[r] /\ (log'[r].status = 3 <=> stderr[r] > 0)
          \/ log'[r].status = 2 /\ \E p \in Passes : pass[p].run = r /\ r \notin pass[p].errors]_vars

\* Whatever fails in the middle of a pass, the output of a run that has ended is still on
\* its server or in its row, and so is its error output.
NothingLost ==
  \A r \in Runs : phase[r] = "ended" =>
    /\ logFile[r] \in {"inbox", "skipped"} \/ Closed(r)
    /\ \/ errFile[r] \in {"inbox", "skipped"}
       \/ log[r].error = stderr[r]

\* A pass never takes away a file a script may still write to, it takes the error file
\* only after the log file, and, unless something failed, only once the row is closed.
MovedRunsClosed ==
  \A r \in Runs :
    /\ Moved(logFile[r]) => EndMark(r) /\ (faults = 0 => Closed(r))
    /\ Moved(errFile[r]) => Moved(logFile[r])

\* A row never goes back, whichever pass writes it and however old the text it has read:
\* not to an earlier status, not to a shorter error text, not from deleted to visible.
RowsOnlyAdvance ==
  [][\A r \in Runs : /\ log'[r].status >= log[r].status
                     /\ log'[r].error >= log[r].error
                     /\ log[r].isDel => log'[r].isDel]_vars

\* The collector implements the ledger.
Ledger == INSTANCE LogLedger WITH
            ended <- {r \in Runs : phase[r] = "ended"},
            row <- [r \in Runs |-> [status |-> log[r].status, error |-> log[r].error]]
LedgerRefinement == Ledger!LedgerSpec

\* On a server that stays scheduled, the log file of every finished run whose end mark can
\* be recognised leaves the inbox, in spite of failures, crashes and live scripts.
Drained ==
  \A r \in Runs :
    <>[](HostOf(r) \in scheduled) =>
      ((EndMark(r) /\ logFile[r] = "inbox") ~> Moved(logFile[r]))

\* SshClient.ts:173 "del log file": the file of a run whose row is stored is deleted.
StoredLogDeleted == \A r \in Runs : logFile[r] = "skipped" => ~Closed(r)

\* log.entity.ts:28 "2=finish success, 3=finish with error": a run that a row calls a
\* success has printed nothing on its error output.
SuccessHasNoErrors == \A r \in Runs : log[r].status = 2 => stderr[r] = 0

\* log.entity.ts:28 "1=in progress, 2=finish success, 3=finish with error": on a server
\* that stays scheduled the row of a finished run ends up closed.
FinishedRunClosed ==
  \A r \in Runs :
    <>[](HostOf(r) \in scheduled) => (phase[r] = "ended" ~> Closed(r))

-----------------------------------------------------------------------------
(* The invariant that makes a step safe to take: what a live pass holds is still true. *)

Reading(p) == pass[p].logs \union ({pass[p].run} \ {None})

\* What the two files of run r, its row and its script say of each other.
RowSound(r) ==
  /\ logFile[r] = "absent" <=> phase[r] = "idle"
  /\ errFile[r] = "absent" <=> phase[r] \in {"idle", "opening"}
  /\ stderr[r] > 0 => errFile[r] # "absent"
  /\ Moved(errFile[r]) => Moved(logFile[r])
  /\ Moved(logFile[r]) => EndMark(r) /\ (faults = 0 => Closed(r))
  /\ logFile[r] = "deleted" => Closed(r)
  /\ errFile[r] = "deleted" => log[r].error = stderr[r]
  /\ log[r].error > 0 => errFile[r] # "absent"
  /\ log[r].error <= stderr[r]
  /\ Closed(r) => EndMark(r)
  /\ log[r].status = 3 => log[r].error = stderr[r] /\ stderr[r] > 0
  /\ log[r].status \in {0, 2} => log[r].error = 0

\* A pass holds only files of its server, and those it has still to read are in the inbox.
Held(p) ==
  /\ \A j \in pass[p].jobs : ServerOf[j] = pass[p].server
  /\ pass[p].pc \in {"connect", "list"} => pass[p].logs = {}
  /\ \A r \in pass[p].logs : logFile[r] = "inbox" /\ r # pass[p].run
  /\ \A r \in Reading(p) : /\ HostOf(r) = pass[p].server
                           /\ r \in pass[p].errors => errFile[r] # "absent"
                           /\ r \notin pass[p].errors => log[r].error = 0

\* What a pass has read of run r when it saves its row, and clears its files.
Read(p, r) ==
  /\ pass[p].end => EndMark(r)
  /\ pass[p].pc \in {"cat_error", "save"} =>
       /\ logFile[r] = "inbox"
       /\ ~pass[p].end => ~Closed(r)
  /\ pass[p].pc = "cat_error" => r \in pass[p].errors
  /\ pass[p].pc = "save" =>
       /\ log[r].error <= pass[p].error /\ pass[p].error <= stderr[r]
       /\ pass[p].end /\ r \in pass[p].errors => pass[p].error = stderr[r]
       /\ r \notin pass[p].errors => pass[p].error = 0
  /\ pass[p].pc \in {"clear", "clear_error"} =>
       /\ pass[p].end
       /\ faults = 0 \/ pass[p].success => Closed(r)
       /\ pass[p].success /\ r \in pass[p].errors => log[r].error = stderr[r]
  /\ pass[p].pc = "clear" => logFile[r] = "inbox"
  /\ pass[p].pc = "clear_error" => Moved(logFile[r]) /\ r \in pass[p].errors

\* Passes are apart, and each holds the truth: the invariant the proofs rest on.
CollectorInv ==
  /\ InProgressExact
  /\ \A r \in Runs : RowSound(r)
  /\ \A p \in Active : Held(p)
  /\ \A p \in Active : pass[p].run # None => Read(p, pass[p].run)

=============================================================================
