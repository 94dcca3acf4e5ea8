# web-cron-api in TLA+

web-cron-api is a NestJS service with which the members of an organization
manage cron jobs on remote servers. It keeps servers, jobs and logs in MariaDB,
sessions and codes in Redis, and drives the servers over SSH: it writes their
crontab, and once a minute it fetches the files the job scripts leave behind.
Almost everything that can go wrong goes wrong between two `await`s, between
the database and a server, or between the service and the scripts that run on
the server meanwhile. That is what these modules model, what TLC checks on
small instances and what TLAPS proves for all instances.

## The system

| Component | State | Operations | Hard because | Modelled in |
|---|---|---|---|---|
| Log collector: `SshService` schedule and wrapper, `SshClient.upsertLogs`, `LogService.upsert` | `SchedulerRegistry`, `serversInProgress`, the files of `~/webcron/cron_logs`, the table `log` | a tick per server and minute; list, read, save, clear files; users hide rows | scripts write while a pass reads; passes fail or die between two commands; two files per run | `LogCollector`, `LogLedger`; with the requests in `WebCron` |
| Jobs: `JobsService`, `SshClient.setJobs`, `SshService.updateJobsOnServer` | the table `job`, per server the crontab, `~/crontabFile`, scripts, directories; the schedule | create, update, updateStatus, delete | the server is changed before the transaction commits; REPEATABLE READ snapshots; one staging file | `JobSync`, `JobTable`; with the collector in `WebCron` |
| Server registry: `SshService` create, update, delete, `__filter` | the table `ssh` (soft delete), key files | create, update, delete, job counts | check and insert in two statements; key files and rows committed apart | `SshConnections`; counts and schedule in `JobSync` |
| Connection cache: `SshClientFactory`, `waitConnection` | `connections` by `user:host` | get, expire, retry | expiry in mixed units, racing connects, dead connections | `SshConnections` |
| Authentication: `AuthService`, guards, sessions | `user.login_cnt`, `banned_to`, Redis codes and sessions, `VerifyKeyByEmail` | login, codes, sign-up, reset, change of a password, checkLogin, logout | read-modify-write counters, sessions stored again, codes used once | `Credentials`, `Access` |
| Users and memberships: `UserService` | `users_in_organization_entity`, `user` | create, update, (de)activate, unban, changeOrg, acceptInviteCode | rights copied into sessions, uniqueness checked before the insert | `Access`; passwords in `Credentials` |
| Organizations: `OrganizationService` | invitations in Redis, names | invite, getById, updateOrgName | a code read by two logins | `Access` (names are not) |
| Logs read by users: `LogService` list, getOne, delete | the table `log` | list, getOne, delete | | delete in `LogCollector`, rights in `Access` |
| Mail: `MailerService` | none | sendEmail | sent unawaited, after the update it is about | what `Credentials` needs |
| Helpers, configuration, translations, migrations, wiring | none of their own | | | not modelled |

The components meet in these places. `JobsService` calls `SshService.updateJobsOnServer`
inside its transaction; that call adds or removes the server from the schedule of the
log collector; the crontab lines it installs run the scripts whose files the collector
reads; deleting a server checks the counts of its jobs and unschedules it. Jobs, passes
and the registry get their connections from one cache. The guards of every controller
read the rights of the session, which logins, `checkLogin` and `changeOrg` copy from the
memberships; a login, an invitation and a reset of a password meet in `AuthService.login`
and in the sweep of sessions.

### What makes each component correct

- *Log collector*: no output of a finished run is lost, whatever fails; a row is closed
  only for a finished run, with the status of its errors; rows never go back; passes of one
  server never overlap and never leak their mark; recognisable logs are drained.
- *Jobs*: every cron line is runnable; a server that nobody disturbed runs exactly its
  active jobs and is collected if and only if it has some; requests add, edit and remove
  rows only as one that holds the row alone may; jobs do not cross organizations; operations
  end.
- *Both together*: the log of a run stays in the organization of its server, whatever
  happens to the job meanwhile; the requests feed the collector what it relies on.
- *Registry*: keys and rows agree; the port of a row has been connected to; a server with
  jobs is not deleted.
- *Cache*: a request gets the connection of its own server; an account has one open
  connection.
- *Authentication*: an account belongs to somebody who reads its e-mail; wrong passwords
  are counted and bans hold; no password is unknown to everybody, and none comes back.
- *Sessions and memberships*: a session stays within what its user has been allowed; rows
  change by those who may; ended sessions stay ended; invitations admit once.

The code does not keep all of that. Where it falls short against what one of its documents
says, a run shows the violation; where it falls short in a way nothing rules out, the
property names the exception in a history variable (see *Exemptions*).

## Modules

| Module | Models |
|---|---|
| `LogLedger` | what the collector promises of the table of runs (abstract) |
| `LogCollector` | schedule, wrapper, passes, saves, job scripts, crashes |
| `MCLogCollector` | instances for TLC |
| `LogCollectorProofs` | its theorems |
| `JobTable` | what the requests make of the table of jobs (abstract) |
| `JobSync` | operations on jobs, their commands on servers, deletion of servers, start-up |
| `MCJobSync` | instances for TLC |
| `JobSyncProofs` | its theorems |
| `JobSyncInStepProofs` | the theorems about `InStep` and the counts it rests on |
| `WebCron` | `JobSync` and `LogCollector` together: what cron starts, what passes find |
| `MCWebCron` | instances for TLC |
| `WebCronProofs` | its theorems |
| `SshConnections` | rows of servers, key files, the cache of connections |
| `MCSshConnections` | instances for TLC |
| `SshConnectionsProofs` | its theorems |
| `Credentials` | codes, sign-up, logins and bans, resets and changes of passwords, mails |
| `MCCredentials` | instances for TLC |
| `CredentialsProofs` | its theorems |
| `Access` | sessions, guards, memberships, invitations, logins and logouts, sweeps |
| `MCAccess` | instances for TLC |
| `AccessProofs` | its theorems |

`WebCron` composes `JobSync` and `LogCollector`, which share the schedule and the process.
`SshConnections`, `Credentials` and `Access` share no variable with the others: what they
need of them is an action that may happen at any time (`SshConnections.Delete`,
`Credentials.CreateMember`, `Access.SignUp` and `PasswordReset`), which allows more than
the composition would.

Mutants (`\* Mutant:`) stand before the definitions they replace; each is a plausible
bug that makes one property fail.

### LogCollector and the code

One action per `await` of `SshClient.upsertLogs`. A pass is an activation of the function
`logCollectorWrapper` returns; its record holds the local variables: `jobs` (`jobIds`
still to visit), `logs` (`logFiles` still to read), `errors` (`logErrors`), `run`,
`end`, `error`, `success`. `CronTick` is the test and the mark of `serversInProgress`,
`Connect` `SshService.upsertLogs`, `ListJobs`/`ListLogs` the two `ls`, `CatLog`/`CatError`
the two `cat`, `Save` the upsert (`SaveFails`: its catch), `ClearLog`/`ClearError` the two
`rm` or `mv`, `Finish` and `CommandFails` the two ways into the end of the wrapper.

The text of a log is abstracted to what the collector tells apart: whether it ends with a
newline (`lastOut`; only then is `"\nJendJ="` in the file) and how many chunks of error
output were written (`stderr`). The job script is the line `createJobScript` writes:
shell redirection creates the log file, then the error file, the command writes both, the
mark is appended. A run keeps its own file: two runs of a job in one second are outside
the model. `Schedule` and `Unschedule` may happen at any time here, `Schedule` to several servers
at once as at the start; `JobSync` says when they do. `ListJobs` finds any directories of jobs of the server, but those of
its runs for sure (`DirsOfRuns`): `createLogDir` made them before the first run. A failed
save (`SaveFails`) needs no bound, since it leaves everything as it was but the pass.

`upsertLogs` lists a directory before it reads the files in it, and looks for the error file
of a run in that listing. A run whose two files were opened on either side of the listing has
none there: if it ends before its log file is read, it is closed as a success, whatever it
has written. `SuccessHasNoErrors`, which is what `log.entity.ts` says of status 2, is
violated; `StatusSound` is what remains: a status fits the text stored with it, that text is
all of the errors or the error file was not listed, and only ended runs are closed.

`LogLedger` is the same table without the collector: rows are opened, grow, and are
closed with success, when no error text was found, or with the whole error output of the run. `LedgerRefinement` maps `ended` to the
runs in phase `ended` and a row to its status and error text.

### JobSync and the code

A request is a record with a `pc`. `Begin` is the first SELECT (`checkExist`, or the one of
`delete`): it takes the snapshot of the transaction. `Patch`, `Delete` and `Create` are
the write, which waits for the row lock and applies to the last committed row, and the
reads that follow in the same transaction; these depend only on the snapshot and the own
write, so they are one step with it. What the request asks for is chosen at the write: the
body of an update is a `Partial` nobody validates and `repo.create` keeps every column of it,
so `Requests` is any combination of server, body, `isActive` and `isDel`; an update can set
back a job that was deleted since it was checked, or delete one (it is then rolled back, since
the job is not found any more). Ids and values that are not of a column's kind are outside the
model.
A write that leaves the row as it was creates no version: the transaction goes on seeing
its snapshot, also when the job has been deleted meanwhile. Then one action per command:
`ReadCron`, `InitCronFile` and `ApplyInitFile` (no crontab yet), `CreateLogDirs`,
`SetJobScripts`, `SetCronFile`, `ApplyCron`, then `Reschedule` and `Commit`. `Abort` is a
failure at any of them. `Promise.all` rejects at the first failure while the other commands go
on, and a lost connection says nothing of the commands it carried: `Abort`, and `Crash`, leave any
subset of the commands sent (`Sent`) behind (`left`, the `pc` of the same name), and each of these
takes effect at some later step (`Land`), after the rollback and after whatever other
requests do meanwhile. The request of such a command counts as working at its server until the last
has landed. Whoever opens a connection, a request on a job or something else, first reads the
crontab of the server and makes an empty one where there is none (`waitConnection`). Here only
`ReadCron` and `InitCronFile` do this: a server without a crontab to which a pass or an update
of the server connects while its first job is being installed is not modelled. `CheckDelete`,
`WriteDelete`, `EndDelete` are `SshService.delete`, which waits for the foreign-key locks
of creations and moves; `BootRead` and `BootSchedule` are `setAllServersInSchedule`. `Step` is
all that but `Crash`, which `WebCron` shares with the collector. A
crontab is the set of its web-cron lines (job and body); the lines of others are copied
unchanged by `deleteAllJobsFromFile` and left out.

`touch`, `missed` and `disturbed` are history: they guard nothing. A server becomes
disturbed when an operation that overlapped another there, or commands one has left,
commits, when one stops after it has changed scripts or leaves commands behind, when a job is
moved away from it (the old server is not rewritten), when the read at start-up fails. An operation that overlapped nobody there
makes it undisturbed again. `InStep` says that nothing else puts a server out of step.

`JobTable` is the table of jobs without snapshots and servers: a request *takes* the row of
one job, which no other has then, knows from that moment what it will make of it (`May`: add it active,
edit it within its organization, remove it once), and makes it or drops it. `TableRefinement` says
that this is what transactions amount to, whatever they read before they waited for the
row: `work` is the row a request has written and not committed. A service that wrote back the
entity it had read, checked the job outside the transaction or found deleted jobs would
violate it.

### WebCron and the code

`WebCron` extends `JobSync` and instantiates `LogCollector` with one log directory per job
*and server*, since a moved job has one on each; a run is fixed to the job and the
server whose cron starts it (`RunOf`). What one part needs of the other becomes a guard or an
argument:

- `RunStarts`: cron starts what the crontab has, also a job that was rolled back, switched off,
  moved away or deleted since.
- `Connect`: `getById` does not find a deleted server, so the pass fails.
- `ListJobs`: the directories are those `CreateLogDirs` made.
- `Save`: the first save of a run is an INSERT, whose foreign key `jobEntityId` needs the row of
  the job and waits while a request holds its lock; later saves are UPDATEs of other columns.
- `Restart`: the process that runs the requests is the one that collects.

`CollectorRefinement` is `LogCollector`'s own specification: with `Schedule` and `Unschedule` in the
place of `Reschedule`, `EndDelete` and `BootSchedule`, every step of the composition is
a step of the collector alone or leaves it as it is. Two runs of a moved job that start in the
same second on both of its servers would share a row of the table of logs (its key is
the job and the second); they are outside the model, as two runs in one second on one
server are.

### SshConnections and the code

A request is a creation, an update or a use (`updateJobsOnServer`, a pass of the collector).
`CheckDuplicate` is the check of `SshService.create`, `SaveRow` its INSERT, which waits for
uncommitted rows of the account and fails on the unique index of host and username;
`WriteKey` the key file; `Commit` the end of the transaction. `BeginUpdate` is the UPDATE,
which takes the lock of the row, and `getById`; it leaves the port, which no body can set (`port`
of `update-ssh.dto.ts` has to be a number and a string). Then, for all three,
`getSSHInstance`: `CacheHit` (an entry that has not expired, whatever became of its
connection) or `CacheMiss`, and `waitConnection`: `Connect`, and on the open connection
`getCronFile` and `initWebcronDir`, which end in `Prepared`, the only step that puts a client into the
cache. Either part may fail (`MayFail`): then `Retry` opens another connection, up to `ErrCnt`
times, and `GiveUp` ends the request; neither closes the connection whose commands failed
(`LeavesOpen`). `GiveUp` of a creation removes the key file; `Fails` (a query, the disk, the
commit) does not.

The key of the cache is the account, so `connections` is a function of accounts; the id of a
client is that of the row it was opened for, the one `upsertLogs` writes in the table of
logs. The clock is in seconds and the two constants of the factory are used as the code
does, `now + EXPIRED_INTERVAL_MS >= expire`. `HostChanges` moves or stops the server's
sshd, `ConnectionDies` closes a connection, which nobody listens for, `Collect` frees
clients nobody refers to. `reached`, `rolledBack` and `doubled` are history.

### Credentials and the code

One action per query, Redis command or mail of `AuthService.sendCode`, `signUp`, `login`,
`resetPass` and `changePass`. A code and the key it is stored under are one value: whoever
has got the mail knows both (`Received`). `keyByEmail` is `VerifyKeyByEmail`, which a
restart empties while `verify` stays. `StartLogin` reads the row, `SaveLogin` writes the
counter of the row *read*, and the ban with it; `Attempt` writes only the columns the entity
of `updateInternal` has. `BanEnds` is both the ban that is over (`banned_to`) and `unban`,
which leave `login_cnt` as it is; the ban of three hours in `login` is never reached, since
it tests `banned_to` of the entity it is about to write. `SendEmail` and `LoseEmail` end
what `sendEmail` began; nobody looks at its result.

A password is a number, its order the order it was set in. `known` are those a user has
chosen, `given` those somebody has chosen who created a member (`CreateMember`): no mail takes
them to the member, the only one goes to the owner of the organization and does not contain
it. The key `<email>_retry`, which
refuses a second mail within a minute, may expire at any time and only cuts requests
short, as `Fails` does. Which of `PRODUCTION`'s branches runs decides whether the mail is
sent at all: the code is in it in both. Users deactivated everywhere are not found; since memberships
are in `Access`, the branch of nobody found is open to any request. `changePass` compares the
current password before it saves: `StartChange` stands for the requests that passed.

### Access and the code

A session is a copy of a user: its id, the organization selected, the organizations of
`orgEntities` and the rights. A request (`Handle`, `HandleGuarded`) loads the session in
Redis into `sess`, works with it and stores it again when it ends (`Finish`), also when the
stored one has been deleted meanwhile: `resave: true` of `main.ts`. The tables of rights
are the decorators of the controllers (`LogRights`, ..., `OrganizationRights`); a handler
that changes nothing here is `StartRoute`. `FindOne` is the pair of an organization and
rights that `UserService.findOne` returns, which it takes from the first of rows no query
orders. Then one action per query of `update`, `deactivate`, `activate`, `create`,
`inviteUserByEmail`, `checkLogin`, `changeOrg`, `logout` and `login`; `Save` records in
`held` the rights a row has had.

`StartLogin` starts a sweep (`deleteAllRedisSessionByUserId`), which nobody awaits; its
KEYS and GETs are one step (`SweepGet`), since the user of a session never changes, its DELs
another. `LoginSession` is passport's `logIn`: `regenerate` destroys the old session and
stores the new one, read as one step. A time to live needs no action: a session or an
invitation that has expired is one no request uses any more. The e-mail of an
invitation stands for its user. `Stores` are the rows and sessions a server may find when it
starts; the sessions have been made by an earlier one, so they are assumed to have a row in each of
their organizations.

## Runs

| Run | Instance | Checks |
|---|---|---|
| `collector_passes` | 1 server, 1 job, 2 runs, 2 passes, 1 chunk of errors, 1 fault besides failed saves, fairness (0.65 million states) | types, no loss, statuses, the inductive invariant, rows only advance, exact `serversInProgress`, the ledger, draining |
| `collector_delete` | 1 run, no fault | *violated*: the file of a stored run is deleted |
| `collector_close` | 1 run, no fault, fairness | *violated*: the row of a finished run is closed |
| `collector_success` | 1 run, no fault | *violated*: a run closed as a success has written no errors |
| `sync_server` | 1 server, 2 jobs, 2 requests, 1 fault, the server is not deleted (1.3 million states) | types, runnable cron lines, in step |
| `sync_moves` | 2 servers of one organization and 1 of another, 1 job, 2 requests, 1 fault (1.4 million states) | in step, organizations stay apart, the inductive invariant, the table of jobs |
| `sync_ends` | 1 server, 1 job with 2 bodies, 2 requests, no fault, fairness | operations end |
| `sync_deleted` | 1 server, 1 job, 1 request, no fault | *violated*: no job on a deleted server |
| `webcron_logs` | 1 job, 2 servers of 2 organizations, 1 request at a time, 1 run, 1 pass, 1 fault besides failed saves (2.2 million states) | logs stay in their organization, the collector is implemented |
| `ssh_registry` | 1 account, 2 ids, 1 organization, 2 ports, 4 connections, 2 requests, 1 retry, 1 fault, one step of the clock as long as the cache keeps an entry (2.4 million states) | types, rows and keys, clients of their rows, ports reached, one connection |
| `credentials_accounts` | 1 user, 2 e-mails, 1 key, 1 reset code, 2 requests, 2 wrong passwords ban, 3 passwords, 1 fault (1.4 million states) | types, verified e-mails, attempts counted, bans, passwords not unknown and not restored, codes spent |
| `access_members` | 2 users, 2 organizations, 3 sessions, 1 code, 3 requests of which 2 at a time, 1 fault, starting empty or populated (1.1 million states) | types, sessions within rows and rights, guards, ended sessions, invitations, changes of rows, sweeps |

Bounds. `MaxFaults` bounds failures and crashes together: one fault reaches every state a
single failure leaves; that a second failure on top of another's traces makes no difference is
left to the proofs, which know no bound. `MaxStderr = 1` is the
difference between no error output and some; the proofs are for any bound. Two runs of a
job make a listing with several files; two passes let a second one start if the guard of
the wrapper fails; two requests are what an overlap takes. Job ids are a pool that is
used up, so the instances of `JobSync` may stop: their deadlock check is off.
Interchangeable runs, passes, jobs, requests and servers are symmetric in the safety runs;
the runs with fairness use no symmetry.

`sync_server` is about two jobs on one server: `ServersStay` leaves the deletion of the server to
`sync_moves` and `sync_deleted`. In `sync_moves` (`HasCrontabs`, `AfterStart`) all servers have a crontab, requests
come when the start-up is done and the server of the other organization is not deleted: what it is there
for is a job taken across; a first crontab, and requests during the start-up, are in
`sync_server`. There is one job in `sync_moves`, so the multiplied counts are looked at
in `sync_server` only. In `webcron_logs` both servers have a crontab and belong to two
organizations: moves within one organization do not occur there and are left to the proof.
One request at a time is enough there, since overlaps of requests are checked without the
collector, and what is new is a request that overlaps with a run and a pass; the proofs have no
such bound. A pass whose next command is bound to fail (the server is deleted) stops there once
the fault is used, so the deadlock check is off.

In `ssh_registry` one account is where the cache, the index and the locks meet, since requests
of different accounts share nothing; two ids are two rows that could share a client, two
ports two creations that differ; four connections are those of two requests and their
replacements (a fifth is not opened: `Connect` waits, the proofs have no such bound). The
clock steps by exactly the age at which an entry expires. In `credentials_accounts` two
requests are what an overlap takes, three passwords one that is set, replaced and replaced
again; keys, codes and passwords are used up, so behaviours may end and the deadlock
check is off. That no key opens two accounts needs two users and is left to the
proof. In `access_members` the populated start stands for the requests that lead there: an
owner of two organizations with a session in the second, and a member of both that was
deactivated in one and still has a session in it. `MaxRequests` ends a behaviour, so the
deadlock check is off here, too. Levels of rights are those of the code; updates carry all
rights, since what matters is whether they are more than before.

Fairness. A cron tick comes every minute and a command that was sent is answered, so passes
and operations are weakly fair; nothing is assumed of users or scripts. Row locks of InnoDB
are granted in the order of the requests, so writes that wait for one are strongly fair.
The code sets no timeout on a command: a command that is never answered blocks its
server's collector for ever, which is outside this fairness. The runs of `SshConnections`,
`Credentials` and `Access` assume none: all that is said there is safety.

## What the violated runs show

- `collector_delete`: `LogService.upsert` ends in `.then(() => false)` also after a
  successful save, so collected files are never deleted but moved to `skipped`.
- `collector_close`: the end mark is looked for after a newline the script does not write.
  A job whose output is empty or lacks the last newline stays "in progress" and its file
  is read again every minute.
- `collector_success`: a run that was listed before it had opened its error file, and ended
  before its log file was read, is closed as a success whatever it wrote to the error file, which
  stays in the directory.
- `sync_deleted`: a job can be created between the check and the write of the deletion of
  its server.

What follows has no run, as no document states otherwise, reading the line shows as much as
a run would, or nothing is left wrong by it:

- The job counts multiply (two active jobs of one server count four), of which only "zero or
  not" is used.
- `SSH_CACHE` and `EXPIRED_INTERVAL_MS` are in milliseconds and added to seconds: the entries
  meant to live 60 minutes (the comments at `SshClientFactory.ts:14-15`) live about 38 days.
  Replaced clients are never closed, nor is a connection whose `crontab -l` or `mkdir` failed.
- `unban` and the end of a ban leave `login_cnt` at 5 or more, so the next wrong password
  bans again; the branch with three hours is unreachable.
- `checkLogin` keeps the organization but takes the rights of the first membership;
  `changeOrg` does not look whether the row is active and sets the organization before it has
  the rights; deactivation changes no session.
- `tests/e2e.spec.ts:531-583` invites a user, logs in without the code and switches to the
  organization of the inviter. `changeOrg` refuses this (the organization is not among those of
  the session), as `SessionOrgs` says.
- An older invitation readmits a member who was deactivated meanwhile. A PATCH of a user
  without rights fails after it has saved the row of the user.
- A member's first password reaches the member only if the one who chose it says it.

## Exemptions

Some properties hold of the code only with an exception, which a history variable names. What
is exempted is what the code gets wrong, so these properties do not catch it; they say that nothing
else goes wrong in that way.

| Property | Exempts | Which is |
|---|---|---|
| `InStep` | `disturbed` | servers where requests, or commands left by one, overlapped; where one stopped half-way (also at its commit); from which a job was moved; all after the start-up read failed. They stay out of step until a request that nothing overlaps with |
| `AttemptsCounted` | `raced` | users two of whose login attempts overlapped: both write back the same counter |
| `PasswordKnown` | `lost`, `given` | generated passwords whose mail was not sent; passwords of members, known to whoever chose them |
| `ResetCodesSpent`, `CodeAdmitsOnce` | `contended` | codes that two requests had read before one deleted them; for invitations also those whose deletion failed |
| `EndedStaysGone` | `carried` | sessions a request had loaded when they were deleted: it stores them again |
| `ClientOfRow`, `RowReached` | `rolledBack` | accounts of which a creation failed after it had connected: its client stays in the cache |
| `OneConnection` | `doubled` | accounts with an expired entry, with two connects at a time, or with a command that failed on an open connection |
| `RightsOnceHeld`, `HandlerRights`, `ChangesAuthorised` | | rights count that the user has *had in some organization*: copies in sessions are not updated, and organization and rights of a copy may not belong together |

## Proofs

`LogCollectorProofs` proves all safety properties of `LogCollector` for any finite or
infinite sets of servers, jobs, runs and passes and any bounds, from `CollectorAssumption`
only.

- `TypeCorrect` is inductive as it stands. `PassesApart` (`InProgressExact`) needs only
  types: ticks add a server that no live pass has, ends remove exactly their own.
- The other properties are not inductive: a step is safe only because what the pass has
  read before is still true. `CollectorInv` adds that: `RowSound` ties files, row and
  script of a run together; `Held` says that what a pass still has to read is in the inbox
  of its own server; `Read` says what is known of the run at hand at each point (for
  instance that after an end mark the error text it read is all there is). The step
  works because passes of one server are apart, so nobody else moves a file a pass holds.
- `NothingIsLost` and `MovedAreClosed` follow from it; `StatusIsSound`, `RowsAdvance` and
  `ImplementsLedger` use `SaveEffect`, what a save makes of a row in a state of the
  invariant.

`JobSyncProofs` proves the safety properties of `JobSync` but `InStep`, and
`JobSyncInStepProofs` that one, for any servers, organizations and requests, any finite set
of jobs and any number of faults, from `JobSyncAssumption` only (finiteness is needed for
the counts alone).

- `TypeCorrect` is inductive as it stands; it includes that the job a request has checked
  is in the table when it writes, since rows never leave it.
- `SyncInv` has four parts, each inductive on top of the types. `Installed`: cron lines,
  staged lines and the lists of requests past `scripts` can run, because directories and
  scripts are made before lines and nothing removes them. `RowsLocked`: new ids are
  new, and two requests past their write never hold the same job. `OrgsApart`: every crontab, staged
  crontab, list, row, snapshot and command left behind that names a job agrees with the table on
  its organization; it needs the second part, for a row that is created. `RowsCurrent`: the row a
  request will commit is one it may make of the committed one, since nobody else has
  committed that row since the write (`RowsLocked`). `Installed` and `OrgsApart` speak of the
  commands of stopped requests too: a late `crontabFile` holds only lines that can run.
- `EntriesRunnable` and `TenantsApart` follow from it, and so does `ImplementsJobTable`: writes
  take a row that nobody else has and may become what they make of it (`RowsLocked`,
  `RowsCurrent`), commits make it so, ends drop it, all other steps leave `jobs` and `work` alone.
- The argument goes by kinds of steps (`StepKinds`, `HostChanges`): only beginning,
  creating, writing and committing change what is known of a job, and what is staged or
  installed on a server either was so before or comes from the list of a request.

`ServersInStep` (`JobSyncInStepProofs`) needs a stronger invariant, `InStepInv`, because
`InStep` says nothing of what a request is about to do. Its parts, each preserved with the
help of those before it:

- `Apart` and `Warned`: a request in flight has been told (`missed`) of every server another
  request, or what is left of one, works at, that is being deleted, or that the start-up may schedule. `Touches`: it
  works only at servers it has in `touch`, and its commit changes rows of these alone.
- `Informed`: the snapshot of a request about to write is out of date only for servers it
  has been told of.
- `Exact`: a request past its write whose servers nobody else works at (`Clean`) has in its
  list, scripts, staged file, crontab and counts what the table will say once it commits.
- `Stepped`: a server that is not in `disturbed`, and where no request in flight has got to
  its scripts, is in step (`Right`), whatever else goes on. The steps of requests that only
  read or begin the crontab keep it (`RightSync`; an empty one is replaced by an empty one,
  `NoCrontab`), the commit of a clean request restores it (`RightCommit`), everybody else
  leaves the server as it is (`RightStill`).

`CountsTell`, on which `Right` rests for the schedule and the deletion, is about the operators
alone: the counts of the two joins are positive, and zero, exactly when those without the
joins would be.

`WebCronProofs` proves the properties of `WebCron` for any constants that meet the assumptions of
`JobSync` and `WebCronAssumption`, from the theorems about its parts:

- `ImplementsJobSync`: the collector changes nothing of the requests, so `SyncInvariant` and
  `ServersInStep` hold of the composition.
- `ImplementsCollector` needs one fact that neither part has, `RunDirs`: a run that has a file has
  its directory. It is inductive because a run starts only from a line of the crontab,
  such a line has its directory (`Installed`), and directories stay. With `CollectorInv`
  (`CollectorHere`) every step is one of `LogCollector`; the theorems of `LogCollectorProofs` are then
  those of its instance for this system (`CP`), whose definitions are shown to be the same
  (`NextSame`, `SpecSame`).
- `LogsStayInOrganization` follows from `Owned`: whatever is known of the job of a started run is of
  the organization of its server (`RunsOwned`, from `OrgsApart` when it starts and kept by every
  request), and a stored row is of a job in the table (`RowsOwned`, from the foreign key).
- `CollectorStaysSafe` and `RequestsStaySafe` carry the invariants of the parts over.

`SshConnectionsProofs`, `CredentialsProofs` and `AccessProofs` prove every property of their
modules' runs, for any constants that meet `SshAssumption`, `CredentialsAssumption` and
`AccessAssumption`. In each, a first invariant says what a request in a given `pc` holds
(which fields are set, and that the rows they name exist), every action is described by
the records it leaves, and the properties follow from parts that are inductive on top of
that:

- *Connections*. `KeysMatch` needs that the ids of requests that insert are apart (`RegInv`:
  fresh ids are in no row, file or request). `ClientsOwn` needs two facts of the cache: no
  client is referred to that is not there (`NoStray`), and a client of an account belongs to
  the one row of the index, to a creation that holds it, or to one rolled back (`ClientInv`).
  `RowsVerified` is `VerifiedInv`, the same of what requests past their connection will write.
  `OneConnectionEach` (`OneOpen`): an open connection of an account without history is the
  one of its entry or the one that the only request that connects has just opened.
- *Credentials*. `OldPasswordsGone`: numbers in rows are at most `passes`, those of the past
  less than that of the row (`PassInv`). `WrongPasswordsCounted` (`CountInv`): of an attempt
  without overlap the row read is still the row. `CodesSpent` (`SpentInv`): of the requests
  past the deletion of a code without contention there is at most one, and the code is
  gone. `EmailsVerified` (`KeyInv`): a key is fresh, or that of one e-mail, in mails,
  `keyByEmail` and requests alike; a key that is nobody's is one no account has used.
  `PasswordsReachTheirUsers` is inductive with the fact that e-mails of rows stay.
  `BansHold` follows from what each action does to a row.
- *Access*. `CopiesInOrganizations` and `RightsWereHeld` are inductive together: a copy is
  loaded from a copy or from rows, and rows never go nor do rights leave `held`.
  `HandlersHaveRights` rests on them: a request keeps the user it was let in for.
  `EndedSessionsStayGone` (`EndInv`): a deleted session that nobody carried has no request
  and no fresh id. `OthersKeepTheirSessions` (`SidInv`): a session id belongs to one user in
  Redis, requests and sweeps. `CodesAdmitOnce` (`CodeInv`), `RowsChangeAuthorised`
  (`IssuedInv`: what a login has read was issued). The argument goes by classes of actions:
  those that load a session, those that go on with it, those that write rows, those that
  renew a session, those that touch no store.

Only model-checked: the liveness properties (`Drained`, `OpsEnd`), which TLAPS does not
prove under fairness.

## Left out

The composition is about safety: a server whose last job is switched off is unscheduled, and
what its inbox still holds is collected only when a job is active there again; the code
promises nothing else, and `CollectorStaysSafe` says that it is not lost. Liveness of the two
together is not checked: what `Drained` and `OpsEnd` assume of each is what the other grants,
but for a server that comes and goes in the schedule nothing ends.

Not modelled and why: templates of mails, logging, translations, configuration and migrations
keep no state the other parts read; list and getOne of logs, users, jobs and servers only
read, and their filters compute nothing that is stored; the name of an organization and
the profile of a user carry no behaviour; the HTTP layer and validation only restrict the
inputs; the text of crontab lines and of logs is abstracted as described.
