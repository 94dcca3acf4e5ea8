------------------------------ MODULE JobSync -------------------------------
(***************************************************************************)
(* Creating, changing and deleting cron jobs (JobsService), and what each  *)
(* of these operations does to the crontab of the job's server (SshClient  *)
(* .setJobs) and to the schedule of the log collector (SshService), before *)
(* its transaction commits.  Operations, deletions of servers and the      *)
(* schedule set up at start-up interleave at every `await`.                *)
(* The database is MariaDB at REPEATABLE READ: a transaction reads from    *)
(* the snapshot of its first SELECT and its own writes, an UPDATE applies  *)
(* to the last committed row, waits for its lock and keeps it.             *)
(***************************************************************************)
EXTENDS Naturals, FiniteSets

CONSTANTS Servers, Jobs,
          Bodies,      \* commands and times of jobs
          Orgs, OrgOf, \* organizations, and the one a server belongs to
          Ops,         \* requests on jobs that may be in flight at once
          None,        \* no row, no server, no value
          MaxFaults    \* bound: failures and crashes

Row == [ssh : Servers, body : Bodies, isActive : 0..1, isDel : 0..1]
Entry == [job : Jobs, body : Bodies]
\* What a request has a server do: directories, scripts, ~/crontabFile, `crontab`.
Command == [do : {"dirs", "scripts", "file", "cron"}, list : SUBSET Entry]

ASSUME JobSyncAssumption ==
  /\ IsFiniteSet(Jobs)
  /\ OrgOf \in [Servers -> Orgs]
  /\ None \notin Row /\ None \notin Jobs /\ None \notin Servers
  /\ None \notin Bodies /\ None \notin 0..1 /\ None \notin [job : Jobs, new : Row]
  /\ MaxFaults \in Nat

VARIABLES
  jobs,        \* committed rows of the table job
  fresh,       \* ids AUTO_INCREMENT has not given yet
  sshDeleted,  \* servers whose row has a deleted_at
  op,          \* the requests on jobs
  delete,      \* server: how far a request to delete it is
  hasCrontab,  \* servers where `crontab -l` answers
  crontab,     \* server: the web-cron lines of its crontab
  file,        \* server: ~/crontabFile, where every request stages its crontab
  dirs,        \* server: the log directories of jobs
  script,      \* server, job: what ~/webcron/<id>.sh runs
  scheduled,   \* servers in the SchedulerRegistry
  boot,        \* setAllServersInSchedule: pending, read, done
  bootList,    \* the servers it has read
  faults,      \* failures so far
  disturbed    \* history: servers where something happened that nothing repairs

dbVars == <<jobs, fresh, sshDeleted>>
hostVars == <<hasCrontab, crontab, file, dirs, script>>
memVars == <<scheduled, boot, bootList>>
vars == <<dbVars, op, delete, hostVars, memVars, faults, disturbed>>

OpState == [pc     : {"idle", "write", "read", "init_file", "init_apply", "dirs", "scripts",
                      "stage", "apply", "schedule", "commit", "left"},
            job    : Jobs \union {None},
            view   : [Jobs -> Row \union {None}],   \* its snapshot of jobs
            gone   : SUBSET Servers,                \* its snapshot of sshDeleted
            row    : Row \union {None},             \* the row it wrote, if any
            srv    : Servers \union {None},
            list   : SUBSET Entry,                  \* the jobs it installs on srv
            active : BOOLEAN,                       \* cntJobsActive > 0
            holds  : SUBSET Servers,                \* ssh rows it locks (foreign key)
            left   : SUBSET Command,                \* it has stopped, they go on
            touch  : SUBSET Servers,                \* history: servers of its job
            missed : SUBSET Servers]                \* history: servers others worked at
NoView == [j \in Jobs |-> None]
IdleOp == [pc |-> "idle", job |-> None, view |-> NoView, gone |-> {}, row |-> None,
           srv |-> None, list |-> {}, active |-> FALSE, holds |-> {}, left |-> {},
           touch |-> {}, missed |-> {}]

Init ==
  /\ jobs = NoView
  /\ fresh = Jobs
  /\ sshDeleted = {}
  /\ op = [o \in Ops |-> IdleOp]
  /\ delete = [s \in Servers |-> "no"]
  /\ hasCrontab \in SUBSET Servers
  /\ crontab = [s \in Servers |-> {}]
  /\ file = [s \in Servers |-> {}]
  /\ dirs = [s \in Servers |-> {}]
  /\ script = [s \in Servers |-> [j \in Jobs |-> None]]
  /\ scheduled = {}
  /\ boot = "pending"
  /\ bootList = {}
  /\ faults = 0
  /\ disturbed = {}

-----------------------------------------------------------------------------
(* What a query sees in a view of the table. *)

Live(view, j, s) == view[j] # None /\ view[j].isDel = 0 /\ view[j].ssh = s
JobsOf(view, s) == {j \in Jobs : Live(view, j, s)}
ActiveOf(view, s) == {j \in JobsOf(view, s) : view[j].isActive = 1}

\* The two left joins on the same server multiply each other.
CntJobs(view, s) ==
  LET n == Cardinality(JobsOf(view, s))
      a == Cardinality(ActiveOf(view, s))
  IN  IF a = 0 THEN n ELSE n * a

\* Mutant: every job counts as active.
CntJobsActiveAll(view, s) == CntJobs(view, s)

CntJobsActive(view, s) ==
  Cardinality(JobsOf(view, s)) * Cardinality(ActiveOf(view, s))

\* The jobs an operation writes on a server.
Entries(view, s) == {[job |-> j, body |-> view[j].body] : j \in ActiveOf(view, s)}

\* Mutant: the filter forgets isDel = 0.
VisibleEvenDeleted(view, j, org) == view[j] # None /\ OrgOf[view[j].ssh] = org

\* Mutant: the filter forgets the organization.
VisibleAnywhere(view, j, org) == view[j] # None /\ view[j].isDel = 0

\* JobsService.__filter: a live job on a server of the organization.
Visible(view, j, org) == view[j] # None /\ view[j].isDel = 0 /\ OrgOf[view[j].ssh] = org

-----------------------------------------------------------------------------
(* History: who works at the same time as whom. *)

\* A request that has stopped stays as long as its commands go on.
InFlight == {o \in Ops : op[o].pc # "idle"}

\* Servers somebody is working at, or some command.
Busy == (UNION {op[o].touch : o \in InFlight})
          \union {s \in Servers : delete[s] # "no"}
          \union (IF boot = "read" THEN Servers ELSE {})

\* The other requests in flight learn that somebody works at the servers of set t.
Told(o, t) == IF op[o].job = None THEN op[o] ELSE [op[o] EXCEPT !.missed = @ \union t]

\* From here on an operation that stops leaves traces on its server.
Traces(pc) == pc \in {"scripts", "stage", "apply", "schedule", "commit"}

-----------------------------------------------------------------------------
(* The database part of an operation. *)

\* updateStatus sets isActive; the body of update is not validated (it is a Partial), and
\* may set any columns of the row.
Requests == [ssh : Servers \union {None}, body : Bodies \union {None},
             isActive : 0..1 \union {None}, isDel : 0..1 \union {None}]
Patched(row, d) == [row EXCEPT !.ssh = IF d.ssh = None THEN @ ELSE d.ssh,
                               !.body = IF d.body = None THEN @ ELSE d.body,
                               !.isActive = IF d.isActive = None THEN @ ELSE d.isActive,
                               !.isDel = IF d.isDel = None THEN @ ELSE d.isDel]

\* Mutant: no lock is taken.
LockedNever(o) == FALSE

\* Mutant: a request also waits for those that wait.
LockedByWaiting(o) == \E x \in Ops \ {o} : op[x].job = op[o].job

\* Rows are locked from the write to the end of the transaction.
Locked(o) == \E x \in Ops \ {o} : op[x].pc # "write" /\ op[x].job = op[o].job

\* checkExist (the first SELECT of delete): the snapshot is taken, the job is in it.
Begin(o, j) ==
  /\ op[o].pc = "idle"
  /\ jobs[j] # None /\ jobs[j].isDel = 0
  /\ op' = [op EXCEPT ![o] = [IdleOp EXCEPT !.pc = "write", !.job = j, !.view = jobs,
                                            !.gone = sshDeleted, !.missed = Busy]]
  /\ UNCHANGED <<dbVars, delete, hostVars, memVars, faults, disturbed>>

\* Mutant: the jobs are read without the manager, outside the transaction.
StartSyncOutside(o, j, row, view, s, holds, touch, missed) ==
  op' = [x \in Ops |->
           IF x = o
           THEN [IdleOp EXCEPT !.pc = "read", !.job = j, !.row = row, !.srv = s,
                               !.list = Entries(jobs, s),
                               !.active = CntJobsActive(view, s) > 0,
                               !.holds = holds, !.touch = touch, !.missed = missed]
           ELSE Told(x, touch)]

\* The operation on job j has written the row (None: it changed nothing), sees the view,
\* and goes on with server s: JobsService.updateJobsOnServer and SshService.getById.
StartSync(o, j, row, view, s, holds, touch, missed) ==
  op' = [x \in Ops |->
           IF x = o
           THEN [IdleOp EXCEPT !.pc = "read", !.job = j, !.row = row, !.srv = s,
                               !.list = Entries(view, s),
                               !.active = CntJobsActive(view, s) > 0,
                               !.holds = holds, !.touch = touch, !.missed = missed]
           ELSE Told(x, touch)]

\* save(newJob), then the snapshot: the new row and the rows committed until then.
Create(o) ==
  /\ op[o].pc = "idle"
  /\ \E j \in fresh, s \in Servers, b \in Bodies, org \in Orgs :
       LET row == [ssh |-> s, body |-> b, isActive |-> 1, isDel |-> 0]
       IN  /\ fresh' = fresh \ {j}
           /\ IF s \notin sshDeleted /\ OrgOf[s] = org
              THEN StartSync(o, j, row, [jobs EXCEPT ![j] = row], s, {s}, {s}, Busy)
              ELSE UNCHANGED op
  /\ UNCHANGED <<jobs, sshDeleted, delete, hostVars, memVars, faults, disturbed>>

\* The UPDATE of update and updateStatus applies to the last committed row; a row that it
\* leaves as it was stays what the snapshot says.  A job that is not visible, because it is
\* deleted and the request does not set isDel back, or sets isDel or the id, makes `jobSaved`
\* undefined, and a deleted server is not found: the transaction is rolled back.
Patch(o) ==
  LET j == op[o].job
      org == OrgOf[op[o].view[j].ssh]
  IN  /\ op[o].pc = "write" /\ ~Locked(o)
      /\ \E d \in Requests :
           LET new  == Patched(jobs[j], d)
               row  == IF new = jobs[j] THEN None ELSE new
               view == IF new = jobs[j] THEN op[o].view ELSE [op[o].view EXCEPT ![j] = new]
               s    == view[j].ssh
           IN  IF Visible(view, j, org) /\ s \notin op[o].gone
               THEN StartSync(o, j, row, view, s, IF s # jobs[j].ssh THEN {s} ELSE {},
                              {op[o].view[j].ssh, jobs[j].ssh, s}, op[o].missed)
               ELSE op' = [op EXCEPT ![o] = IdleOp]
      /\ UNCHANGED <<dbVars, delete, hostVars, memVars, faults, disturbed>>

\* The UPDATE of delete finds no row when somebody else has deleted the job meanwhile;
\* the operation goes on with the server, and the jobs, of its snapshot.
Delete(o) ==
  LET j    == op[o].job
      s    == op[o].view[j].ssh
      new  == [jobs[j] EXCEPT !.isDel = 1]
      row  == IF jobs[j].isDel = 0 THEN new ELSE None
      view == IF jobs[j].isDel = 0 THEN [op[o].view EXCEPT ![j] = new] ELSE op[o].view
  IN  /\ op[o].pc = "write" /\ ~Locked(o)
      /\ IF s \notin op[o].gone
         THEN StartSync(o, j, row, view, s, {}, {s, jobs[j].ssh}, op[o].missed)
         ELSE op' = [op EXCEPT ![o] = IdleOp]
      /\ UNCHANGED <<dbVars, delete, hostVars, memVars, faults, disturbed>>

-----------------------------------------------------------------------------
(* SshClient.setJobs: each command is a step on the server. *)

Goto(o, pc) == op' = [op EXCEPT ![o] = [@ EXCEPT !.pc = pc]]

\* `crontab -l`; "no crontab" makes getCronFile create one.
ReadCron(o) ==
  /\ op[o].pc = "read"
  /\ Goto(o, IF op[o].srv \in hasCrontab THEN "dirs" ELSE "init_file")
  /\ UNCHANGED <<dbVars, delete, hostVars, memVars, faults, disturbed>>

InitCronFile(o) ==
  /\ op[o].pc = "init_file"
  /\ file' = [file EXCEPT ![op[o].srv] = {}]
  /\ Goto(o, "init_apply")
  /\ UNCHANGED <<dbVars, delete, hasCrontab, crontab, dirs, script, memVars, faults, disturbed>>

\* `crontab ~/crontabFile` installs whatever the file holds by then.
ApplyCronFile(o, next) ==
  /\ crontab' = [crontab EXCEPT ![op[o].srv] = file[op[o].srv]]
  /\ hasCrontab' = hasCrontab \union {op[o].srv}
  /\ Goto(o, next)
  /\ UNCHANGED <<dbVars, delete, file, dirs, script, memVars, faults, disturbed>>

ApplyInitFile(o) == op[o].pc = "init_apply" /\ ApplyCronFile(o, "read")

\* Mutant: the command is given the job, not its id.
ListedWhole(o) == op[o].list

Listed(o) == {e.job : e \in op[o].list}
DirsMade(o, js) == dirs' = [dirs EXCEPT ![op[o].srv] = @ \union js]
\* The entries es of the list get their script.
ScriptsSet(o, es) ==
  script' = [script EXCEPT ![op[o].srv] =
               [j \in Jobs |-> IF \E e \in es : e.job = j
                               THEN (CHOOSE e \in es : e.job = j).body ELSE @[j]]]

\* Mutant: nobody waits for the directories.
CreateLogDirsUnawaited(o) ==
  /\ op[o].pc = "dirs"
  /\ \E js \in SUBSET Listed(o) : DirsMade(o, js)
  /\ Goto(o, "scripts")
  /\ UNCHANGED <<dbVars, delete, hasCrontab, crontab, file, script, memVars, faults, disturbed>>

CreateLogDirs(o) ==
  /\ op[o].pc = "dirs"
  /\ DirsMade(o, Listed(o))
  /\ Goto(o, "scripts")
  /\ UNCHANGED <<dbVars, delete, hasCrontab, crontab, file, script, memVars, faults, disturbed>>

\* Mutant: nobody waits for the scripts.
SetJobScriptsUnawaited(o) ==
  /\ op[o].pc = "scripts"
  /\ \E es \in SUBSET op[o].list : ScriptsSet(o, es)
  /\ Goto(o, "stage")
  /\ UNCHANGED <<dbVars, delete, hasCrontab, crontab, file, dirs, memVars, faults, disturbed>>

SetJobScripts(o) ==
  /\ op[o].pc = "scripts"
  /\ ScriptsSet(o, op[o].list)
  /\ Goto(o, "stage")
  /\ UNCHANGED <<dbVars, delete, hasCrontab, crontab, file, dirs, memVars, faults, disturbed>>

SetCronFile(o) ==
  /\ op[o].pc = "stage"
  /\ file' = [file EXCEPT ![op[o].srv] = op[o].list]
  /\ Goto(o, "apply")
  /\ UNCHANGED <<dbVars, delete, hasCrontab, crontab, dirs, script, memVars, faults, disturbed>>

ApplyCron(o) == op[o].pc = "apply" /\ ApplyCronFile(o, "schedule")

\* The counts were read with the server, before the commands.
Reschedule(o) ==
  /\ op[o].pc = "schedule"
  /\ scheduled' = IF op[o].active THEN scheduled \union {op[o].srv}
                                  ELSE scheduled \ {op[o].srv}
  /\ Goto(o, "commit")
  /\ UNCHANGED <<dbVars, delete, hostVars, boot, bootList, faults, disturbed>>

Commit(o) ==
  /\ op[o].pc = "commit"
  /\ jobs' = IF op[o].row = None THEN jobs ELSE [jobs EXCEPT ![op[o].job] = op[o].row]
  /\ op' = [op EXCEPT ![o] = IdleOp]
  /\ disturbed' = IF op[o].touch \intersect op[o].missed = {}
                  THEN (disturbed \union op[o].touch) \ {op[o].srv}
                  ELSE disturbed \union op[o].touch
  /\ UNCHANGED <<fresh, sshDeleted, delete, hostVars, memVars, faults>>

\* The commands a request awaits, and those of one that has stopped.
Sent(o) ==
  CASE op[o].pc = "dirs"       -> {[do |-> "dirs", list |-> {e}] : e \in op[o].list}
    [] op[o].pc = "scripts"    -> {[do |-> "scripts", list |-> {e}] : e \in op[o].list}
    [] op[o].pc = "init_file"  -> {[do |-> "file", list |-> {}]}
    [] op[o].pc = "stage"      -> {[do |-> "file", list |-> op[o].list]}
    [] op[o].pc \in {"init_apply", "apply"} -> {[do |-> "cron", list |-> {}]}
    [] OTHER                   -> op[o].left

\* The request stops, the commands cs go on.
Stopped(o, cs) ==
  IF cs = {} THEN IdleOp
  ELSE [IdleOp EXCEPT !.pc = "left", !.srv = op[o].srv, !.left = cs, !.touch = {op[o].srv}]

\* A query, a command or the commit fails: the transaction is rolled back, what was done
\* on the server stays.  Promise.all rejects at the first failure and a connection is lost
\* with its answers: what has been sent may still be done, whatever happens meanwhile.
Abort(o) ==
  /\ op[o].job # None
  /\ faults < MaxFaults /\ faults' = faults + 1
  /\ \E cs \in SUBSET Sent(o) :
       /\ op' = [op EXCEPT ![o] = Stopped(o, cs)]
       /\ disturbed' = IF cs # {} \/ Traces(op[o].pc) THEN disturbed \union op[o].touch
                                                       ELSE disturbed
  /\ UNCHANGED <<dbVars, delete, hostVars, memVars>>

\* A command whose request has stopped takes effect.
Land(o) ==
  \E c \in op[o].left :
    /\ \/ c.do = "dirs" /\ DirsMade(o, {e.job : e \in c.list})
          /\ UNCHANGED <<hasCrontab, crontab, file, script>>
       \/ c.do = "scripts" /\ ScriptsSet(o, c.list)
          /\ UNCHANGED <<hasCrontab, crontab, file, dirs>>
       \/ c.do = "file" /\ file' = [file EXCEPT ![op[o].srv] = c.list]
          /\ UNCHANGED <<hasCrontab, crontab, dirs, script>>
       \/ c.do = "cron" /\ crontab' = [crontab EXCEPT ![op[o].srv] = file[op[o].srv]]
          /\ hasCrontab' = hasCrontab \union {op[o].srv} /\ UNCHANGED <<file, dirs, script>>
    /\ op' = [op EXCEPT ![o] = Stopped(o, @.left \ {c})]
    /\ UNCHANGED <<dbVars, delete, memVars, faults, disturbed>>

-----------------------------------------------------------------------------
(* SshService.delete: no transaction around the check and the update. *)

CheckDelete(s) ==
  /\ delete[s] = "no" /\ s \notin sshDeleted
  /\ CntJobs(jobs, s) = 0
  /\ delete' = [delete EXCEPT ![s] = "checked"]
  /\ op' = [o \in Ops |-> Told(o, {s})]
  /\ UNCHANGED <<dbVars, hostVars, memVars, faults, disturbed>>

\* The UPDATE waits for the foreign-key locks on the row.
WriteDelete(s) ==
  /\ delete[s] = "checked"
  /\ \A o \in Ops : s \notin op[o].holds
  /\ sshDeleted' = sshDeleted \union {s}
  /\ delete' = [delete EXCEPT ![s] = "written"]
  /\ UNCHANGED <<jobs, fresh, op, hostVars, memVars, faults, disturbed>>

EndDelete(s) ==
  /\ delete[s] = "written"
  /\ scheduled' = scheduled \ {s}
  /\ delete' = [delete EXCEPT ![s] = "no"]
  /\ UNCHANGED <<dbVars, op, hostVars, boot, bootList, faults, disturbed>>

FailDelete(s) ==
  /\ delete[s] = "checked"
  /\ faults < MaxFaults /\ faults' = faults + 1
  /\ delete' = [delete EXCEPT ![s] = "no"]
  /\ UNCHANGED <<dbVars, op, hostVars, memVars, disturbed>>

-----------------------------------------------------------------------------
(* setAllServersInSchedule, a second after the start, and restarts. *)

BootRead ==
  /\ boot = "pending"
  /\ boot' = "read"
  /\ bootList' = {s \in Servers \ sshDeleted : CntJobsActive(jobs, s) > 0}
  /\ op' = [o \in Ops |-> Told(o, Servers)]
  /\ UNCHANGED <<dbVars, delete, hostVars, scheduled, faults, disturbed>>

BootSchedule ==
  /\ boot = "read"
  /\ scheduled' = scheduled \union bootList
  /\ boot' = "done" /\ bootList' = {}
  /\ UNCHANGED <<dbVars, op, delete, hostVars, faults, disturbed>>

\* The error is logged, and nothing tries again.
BootFails ==
  /\ boot = "pending"
  /\ faults < MaxFaults /\ faults' = faults + 1
  /\ boot' = "done"
  /\ disturbed' = Servers
  /\ UNCHANGED <<dbVars, op, delete, hostVars, scheduled, bootList>>

Crash ==
  /\ faults < MaxFaults /\ faults' = faults + 1
  /\ \E cs \in SUBSET (UNION {Sent(o) : o \in Ops}) :
       op' = [o \in Ops |-> Stopped(o, Sent(o) \intersect cs)]
  /\ delete' = [s \in Servers |-> "no"]
  /\ scheduled' = {}
  /\ boot' = "pending" /\ bootList' = {}
  /\ disturbed' = disturbed \union
       UNION {op[o].touch : o \in {x \in Ops : Sent(x) # {} \/ Traces(op[x].pc)}}
  /\ UNCHANGED <<dbVars, hostVars>>

-----------------------------------------------------------------------------
Write(o) == Patch(o) \/ Delete(o)
Sync(o) == \/ ReadCron(o) \/ InitCronFile(o) \/ ApplyInitFile(o) \/ CreateLogDirs(o)
           \/ SetJobScripts(o) \/ SetCronFile(o) \/ ApplyCron(o) \/ Reschedule(o) \/ Commit(o)

\* What a living process does.
Step == \/ \E o \in Ops, j \in Jobs : Begin(o, j)
        \/ \E o \in Ops : Create(o) \/ Write(o) \/ Sync(o) \/ Abort(o) \/ Land(o)
        \/ \E s \in Servers : CheckDelete(s) \/ WriteDelete(s) \/ EndDelete(s) \/ FailDelete(s)
        \/ BootRead \/ BootSchedule \/ BootFails

Next == Step \/ Crash

Spec == Init /\ [][Next]_vars

\* Queries and commands are answered; row locks are granted in the order of the requests.
FairSpec == /\ Spec
            /\ \A o \in Ops : SF_vars(Write(o)) /\ WF_vars(Sync(o)) /\ WF_vars(Land(o))
            /\ \A s \in Servers : SF_vars(WriteDelete(s)) /\ WF_vars(EndDelete(s))

-----------------------------------------------------------------------------
(* Properties. *)

PastWrite(o) == op[o].pc \notin {"idle", "write", "left"}

\* A request names its job, later its server, and the job it has checked stays in the table;
\* commands go on only when it has stopped.
WellFormed(o) ==
  /\ op[o].job # None <=> op[o].pc \notin {"idle", "left"}
  /\ op[o].srv # None <=> op[o].pc \notin {"idle", "write"}
  /\ op[o].left # {} <=> op[o].pc = "left"
  /\ op[o].row # None => PastWrite(o)
  /\ op[o].pc = "write" => op[o].view[op[o].job] # None /\ jobs[op[o].job] # None

\* Every variable holds a value of its kind.
TypeOK ==
  /\ jobs \in [Jobs -> Row \union {None}]
  /\ fresh \subseteq Jobs
  /\ sshDeleted \subseteq Servers
  /\ op \in [Ops -> OpState]
  /\ delete \in [Servers -> {"no", "checked", "written"}]
  /\ hasCrontab \subseteq Servers
  /\ crontab \in [Servers -> SUBSET Entry]
  /\ file \in [Servers -> SUBSET Entry]
  /\ dirs \in [Servers -> SUBSET Jobs]
  /\ script \in [Servers -> [Jobs -> Bodies \union {None}]]
  /\ scheduled \subseteq Servers
  /\ boot \in {"pending", "read", "done"}
  /\ bootList \subseteq Servers
  /\ faults \in 0..MaxFaults
  /\ disturbed \subseteq Servers
  /\ \A o \in Ops : WellFormed(o)

\* Whatever operations overlap on a server, stage their crontab in the same file or stop
\* half-way, every line cron runs has its script and its log directory (SshClient.setJobs).
CronEntriesRunnable ==
  \A s \in Servers : \A e \in crontab[s] : e.job \in dirs[s] /\ script[s][e.job] # None

\* A server never runs the job of another organization: no interleaving of checks made in
\* a snapshot with moves of the job takes it across (JobsService.__filter).
CronSameOrg ==
  \A s \in Servers : \A e \in crontab[s] :
    jobs[e.job] # None => OrgOf[jobs[e.job].ssh] = OrgOf[s]

\* A server is in step with the database when nobody works at it, unless operations, or what
\* is left of them, overlapped there, one stopped half-way, or a job was moved away: its
\* crontab and its scripts are those of its active jobs, it is collected if and only if it
\* has some, and it is not deleted if it has jobs.  The next operation that nothing overlaps
\* with puts it back in step.
InStep ==
  \A s \in Servers \ (disturbed \union Busy) :
    /\ crontab[s] = Entries(jobs, s)
    /\ \A e \in crontab[s] : script[s][e.job] = e.body
    /\ boot = "done" => (s \in scheduled <=> ActiveOf(jobs, s) # {})
    /\ s \in sshDeleted => JobsOf(jobs, s) = {}

\* Whatever they have read before, and however long their transactions last, requests change
\* a row only as one who holds it alone may: they add it active, remove it once, or edit it
\* within its organization; an edit that checked a job before it was deleted sets it back
\* altogether or leaves it alone (JobsService.update).
Table == INSTANCE JobTable WITH
  work <- [o \in Ops |-> IF op[o].row = None THEN None
                         ELSE [job |-> op[o].job, new |-> op[o].row]]
TableRefinement == Table!TableSpec

\* Every operation ends, whatever locks it waits for.
OpsEnd == /\ \A o \in Ops : op[o].pc # "idle" ~> op[o].pc = "idle"
          /\ \A s \in Servers : delete[s] # "no" ~> delete[s] = "no"

\* i18n/en/ssh.json:6 "you cannot delete a server to which at least one job is assigned".
NoJobOnDeleted == \A s \in sshDeleted : JobsOf(jobs, s) = {}

-----------------------------------------------------------------------------
(* The invariant the proofs rest on. *)

Runnable(s, e) == e.job \in dirs[s] /\ script[s][e.job] # None

\* What is, or may get, installed can run.
Installed ==
  /\ \A s \in Servers : \A e \in crontab[s] \union file[s] : Runnable(s, e)
  /\ \A o \in Ops : op[o].pc = "scripts" => \A e \in op[o].list : e.job \in dirs[op[o].srv]
  /\ \A o \in Ops : op[o].pc = "stage" => \A e \in op[o].list : Runnable(op[o].srv, e)
  /\ \A o \in Ops : \A c \in op[o].left : c.do = "file" =>
       \A e \in c.list : Runnable(op[o].srv, e)

\* An id is given once, and a row is written by one request at a time.
RowsLocked ==
  /\ \A j \in fresh : jobs[j] = None /\ \A o \in Ops : op[o].job # j
  /\ \A o, x \in Ops : PastWrite(o) /\ PastWrite(x) /\ op[o].job = op[x].job => o = x

\* Whatever is known of job j, its row and the row a request will commit, is of organization g.
Belongs(j, g) ==
  /\ j \notin fresh
  /\ jobs[j] # None => OrgOf[jobs[j].ssh] = g
  /\ \A o \in Ops : op[o].row # None /\ op[o].job = j => OrgOf[op[o].row.ssh] = g

\* Crontabs, staged crontabs, lists, rows and snapshots agree on whose a job is.
OrgsApart ==
  /\ \A s \in Servers : \A e \in crontab[s] \union file[s] : Belongs(e.job, OrgOf[s])
  /\ \A o \in Ops : \A e \in op[o].list : Belongs(e.job, OrgOf[op[o].srv])
  /\ \A o \in Ops : \A c \in op[o].left : \A e \in c.list : Belongs(e.job, OrgOf[op[o].srv])
  /\ \A o \in Ops : op[o].row # None => Belongs(op[o].job, OrgOf[op[o].row.ssh])
  /\ \A o \in Ops : op[o].pc = "write" =>
       \A j \in Jobs : op[o].view[j] # None => Belongs(j, OrgOf[op[o].view[j].ssh])

\* What a request will commit is still a change it may make of what is committed.
RowsCurrent ==
  \A o \in Ops : op[o].row # None => Table!May(jobs[op[o].job], op[o].row)

\* Requests install only what can run, write only rows they hold, of their organization,
\* and only what they are for.
SyncInv == Installed /\ RowsLocked /\ OrgsApart /\ RowsCurrent

=============================================================================
