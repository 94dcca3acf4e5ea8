---------------------------- MODULE SshConnections ----------------------------
(***************************************************************************)
(* The registry of servers (SshService.create and update) and the cache of *)
(* SSH connections (SshClientFactory, SshClient.waitConnection): rows, key *)
(* files and open connections are three stores that requests change one    *)
(* after the other, with an `await` in between.  A server is an account    *)
(* username:host; the port and the row id are not part of the cache's key. *)
(***************************************************************************)
EXTENDS Naturals, FiniteSets

CONSTANTS Ids,        \* ids of rows of the table ssh
          Accounts,   \* pairs username:host
          Orgs, Ports,
          Conns,      \* connections that may be open at once
          Reqs,       \* requests that may be in flight at once
          None,       \* no row, no file, no connection
          ErrCnt,     \* retries of waitConnection: 5
          Steps,      \* seconds that may pass between two steps
          MaxNow,     \* bound: seconds of a behaviour
          MaxFaults   \* bound: failed queries and commits, restarts

Row == [account : Accounts, org : Orgs, port : Ports, deleted : BOOLEAN]
Client == [account : Accounts, id : Ids, alive : BOOLEAN]
Cached == [conn : Conns, expire : Nat]
KeyFiles == {"good", "bad"}   \* a key the server accepts, or one it does not

ASSUME SshAssumption ==
  /\ None \notin Row \union Client \union Cached \union Conns \union Ids
  /\ None \notin Ports /\ None \notin KeyFiles
  /\ ErrCnt \in Nat /\ Steps \subseteq Nat /\ MaxNow \in Nat /\ MaxFaults \in Nat

\* The two constants of SshClientFactory, in the unit the code adds them in.
EXPIRED_INTERVAL_MS == 1000 * 60 * 5
SSH_CACHE == 1000 * 60 * 60

VARIABLES
  rows,        \* committed rows
  fresh,       \* ids AUTO_INCREMENT has not given yet
  keyFile,     \* the files keys/<id>
  connections, \* SshClientFactory.connections
  client,      \* the connections that are still referred to or open
  req,         \* the requests
  sshd,        \* account: the port its server answers on, None when it is down
  now,         \* the clock, in seconds
  faults,      \* failures so far
  reached,     \* history: pairs of a row id and a port that a client was made with
  rolledBack,  \* history: accounts of creations that failed after they connected
  doubled      \* history: accounts with an expired entry, two connects at a time, or a
               \* connection left open because the commands that follow it failed

history == <<reached, rolledBack, doubled>>
vars == <<rows, fresh, keyFile, connections, client, req, sshd, now, faults, history>>

Request == [pc    : {"idle", "save", "key", "lookup", "connect", "prepare", "commit", "using"},
            kind  : {"none", "create", "update", "use"},
            id    : Ids \union {None},
            row   : Row \union {None},       \* what it writes, or has read
            key   : KeyFiles \union {None},  \* the file uploaded
            tries : 0..ErrCnt,
            conn  : Conns \union {None}]     \* the one it has opened, or was handed out
Idle == [pc |-> "idle", kind |-> "none", id |-> None, row |-> None, key |-> None,
         tries |-> 0, conn |-> None]

Init ==
  /\ rows = [i \in Ids |-> None]
  /\ fresh = Ids
  /\ keyFile = [i \in Ids |-> None]
  /\ connections = [a \in Accounts |-> None]
  /\ client = [c \in Conns |-> None]
  /\ req = [r \in Reqs |-> Idle]
  /\ sshd \in [Accounts -> Ports \union {None}]
  /\ now = 0
  /\ faults = 0
  /\ reached = {} /\ rolledBack = {} /\ doubled = {}

-----------------------------------------------------------------------------
(* Creating and updating rows. *)

At(r, pc) == req[r].pc = pc

\* The uncommitted rows other requests hold a lock on.
Writing(r) == {q \in Reqs \ {r} : req[q].kind \in {"create", "update"}
                                    /\ req[q].pc \in {"key", "lookup", "connect", "prepare", "commit"}}

\* SshService.create: the duplicate check reads the live rows of the organization.
CheckDuplicate(r) ==
  /\ At(r, "idle")
  /\ Cardinality({q \in Reqs : req[q].pc = "save"}) < Cardinality(fresh)
  /\ \E a \in Accounts, o \in Orgs, p \in Ports, k \in KeyFiles :
       /\ \A i \in Ids : rows[i] # None /\ rows[i].account = a /\ rows[i].org = o
                           => rows[i].deleted
       /\ req' = [req EXCEPT ![r] =
            [Idle EXCEPT !.pc = "save", !.kind = "create", !.key = k,
                         !.row = [account |-> a, org |-> o, port |-> p, deleted |-> FALSE]]]
  /\ UNCHANGED <<rows, fresh, keyFile, connections, client, sshd, now, faults, history>>

\* Mutant: no unique index.
SaveRowAnyway(r) ==
  /\ At(r, "save")
  /\ \E i \in fresh :
       /\ fresh' = fresh \ {i}
       /\ req' = [req EXCEPT ![r].pc = "key", ![r].id = i]
  /\ UNCHANGED <<rows, keyFile, connections, client, sshd, now, faults, history>>

\* The unique index on host and username: the INSERT waits for uncommitted rows
\* of the account, and fails when there is a committed one, deleted or not.
SaveRow(r) ==
  /\ At(r, "save")
  /\ \A q \in Writing(r) : req[q].row.account # req[r].row.account
  /\ \/ /\ \A i \in Ids : rows[i] # None => rows[i].account # req[r].row.account
        /\ \E i \in fresh :
             /\ fresh' = fresh \ {i}
             /\ req' = [req EXCEPT ![r].pc = "key", ![r].id = i]
     \/ /\ \E i \in Ids : rows[i] # None /\ rows[i].account = req[r].row.account
        /\ req' = [req EXCEPT ![r] = Idle]
        /\ UNCHANGED fresh
  /\ UNCHANGED <<rows, keyFile, connections, client, sshd, now, faults, history>>

WriteKey(r) ==
  /\ At(r, "key")
  /\ keyFile' = [keyFile EXCEPT ![req[r].id] = req[r].key]
  /\ req' = [req EXCEPT ![r].pc = "lookup"]
  /\ UNCHANGED <<rows, fresh, connections, client, sshd, now, faults, history>>

\* SshService.update: the UPDATE waits for the row; getById then checks the
\* organization and deleted_at, and a request it rejects leaves no trace.  Only the
\* description changes: UpdateSshDto wants of a port that it is a number and a string.
BeginUpdate(r) ==
  /\ At(r, "idle")
  /\ \E i \in Ids :
       /\ rows[i] # None /\ ~rows[i].deleted
       /\ \A q \in Writing(r) : req[q].id # i
       /\ req' = [req EXCEPT ![r] = [Idle EXCEPT !.pc = "lookup", !.kind = "update",
                                       !.id = i, !.row = rows[i]]]
  /\ UNCHANGED <<rows, fresh, keyFile, connections, client, sshd, now, faults, history>>

\* updateJobsOnServer and upsertLogs: getById, then a client for that row.
BeginUse(r) ==
  /\ At(r, "idle")
  /\ \E i \in Ids :
       /\ rows[i] # None /\ ~rows[i].deleted
       /\ req' = [req EXCEPT ![r] = [Idle EXCEPT !.pc = "lookup", !.kind = "use",
                                       !.id = i, !.row = rows[i]]]
  /\ UNCHANGED <<rows, fresh, keyFile, connections, client, sshd, now, faults, history>>

\* Mutant: create does not wait for the client.
CommitEarly(r) ==
  /\ At(r, "commit") \/ (At(r, "connect") /\ req[r].kind = "create")
  /\ rows' = [rows EXCEPT ![req[r].id] = req[r].row]
  /\ req' = [req EXCEPT ![r] = Idle]
  /\ UNCHANGED <<fresh, keyFile, connections, client, sshd, now, faults, history>>

Commit(r) ==
  /\ At(r, "commit")
  /\ rows' = [rows EXCEPT ![req[r].id] = req[r].row]
  /\ req' = [req EXCEPT ![r] = Idle]
  /\ UNCHANGED <<fresh, keyFile, connections, client, sshd, now, faults, history>>

\* A query, the file system or the commit fails: rolled back, the key file stays.
Fails(r) ==
  /\ faults < MaxFaults
  /\ req[r].pc \in {"key", "lookup", "commit"} /\ req[r].kind # "use"
  /\ faults' = faults + 1
  /\ rolledBack' = IF At(r, "commit") /\ req[r].kind = "create"
                   THEN rolledBack \union {req[r].row.account} ELSE rolledBack
  /\ req' = [req EXCEPT ![r] = Idle]
  /\ UNCHANGED <<rows, fresh, keyFile, connections, client, sshd, now, reached, doubled>>

\* SshService.delete, when the server has no jobs (JobSync has its steps).
Delete(i) ==
  /\ rows[i] # None /\ ~rows[i].deleted
  /\ \A q \in Reqs : req[q].id = i /\ req[q].kind = "update" => At(q, "idle")
  /\ rows' = [rows EXCEPT ![i].deleted = TRUE]
  /\ UNCHANGED <<fresh, keyFile, connections, client, req, sshd, now, faults, history>>

-----------------------------------------------------------------------------
(* SshClientFactory.getSSHInstance. *)

IsExpired(entry) == now + EXPIRED_INTERVAL_MS >= entry.expire
Usable(entry) == entry # None /\ ~IsExpired(entry)

\* What a request does with its client.
Served(r) == IF req[r].kind = "use" THEN "using" ELSE "commit"

\* The requests that are in waitConnection for the account.
Connecting(a) == {r \in Reqs : req[r].pc \in {"connect", "prepare"}
                                  /\ req[r].row.account = a}

\* A cached connection that has not expired is handed out, dead or alive.
CacheHit(r) ==
  LET entry == connections[req[r].row.account]
  IN  /\ At(r, "lookup")
      /\ Usable(entry)
      /\ req' = [req EXCEPT ![r].pc = Served(r), ![r].conn = entry.conn]
      /\ UNCHANGED <<rows, fresh, keyFile, connections, client, sshd, now, faults, history>>

CacheMiss(r) ==
  LET a == req[r].row.account
      entry == connections[a]
  IN  /\ At(r, "lookup")
      /\ ~Usable(entry)
      /\ req' = [req EXCEPT ![r].pc = "connect"]
      /\ doubled' = IF entry # None \/ Connecting(a) # {}
                    THEN doubled \union {a} ELSE doubled
      /\ UNCHANGED <<rows, fresh, keyFile, connections, client, sshd, now, faults,
                     reached, rolledBack>>

\* Connections somebody may still use.
Referred(c) == \/ \E a \in Accounts : connections[a] # None /\ connections[a].conn = c
               \/ \E r \in Reqs : req[r].conn = c

Unused == {c \in Conns : client[c] = None}

Accepts(r) == /\ sshd[req[r].row.account] = req[r].row.port
              /\ keyFile[req[r].id] = "good"

\* The connection is open; it is nobody else's until the client is made.
Connect(r) ==
  /\ At(r, "connect") /\ Accepts(r)
  /\ Unused # {}
  /\ LET c == CHOOSE c \in Unused : TRUE IN
       /\ client' = [client EXCEPT ![c] = [account |-> req[r].row.account, id |-> req[r].id,
                                           alive |-> TRUE]]
       /\ req' = [req EXCEPT ![r].pc = "prepare", ![r].conn = c]
  /\ UNCHANGED <<rows, fresh, keyFile, connections, sshd, now, faults, history>>

\* Mutant: the client is not kept in the cache.
PreparedUncached(r) ==
  /\ At(r, "prepare") /\ client[req[r].conn].alive
  /\ req' = [req EXCEPT ![r].pc = Served(r), ![r].tries = 0]
  /\ reached' = reached \union {<<req[r].id, req[r].row.port>>}
  /\ UNCHANGED <<rows, fresh, keyFile, connections, client, sshd, now, faults,
                 rolledBack, doubled>>

\* getCronFile and initWebcronDir were answered, waitConnection is done: the entry of
\* the cache is replaced, and the client it held is not closed.
Prepared(r) ==
  /\ At(r, "prepare") /\ client[req[r].conn].alive
  /\ connections' = [connections EXCEPT ![req[r].row.account] =
                       [conn |-> req[r].conn, expire |-> now + SSH_CACHE]]
  /\ req' = [req EXCEPT ![r].pc = Served(r), ![r].tries = 0]
  /\ reached' = reached \union {<<req[r].id, req[r].row.port>>}
  /\ UNCHANGED <<rows, fresh, keyFile, client, sshd, now, faults, rolledBack, doubled>>

\* connect, or one of the two commands after it, may fail.
MayFail(r) == At(r, "prepare") \/ (At(r, "connect") /\ ~Accepts(r))

\* A connection whose commands failed is not closed: the next one comes beside it.
LeavesOpen(r) ==
  doubled' = IF At(r, "prepare") /\ client[req[r].conn].alive
             THEN doubled \union {req[r].row.account} ELSE doubled

NoKey(r) == At(r, "connect") /\ keyFile[req[r].id] = None

\* Mutant: one retry too many.
RetryOnceMore(r) ==
  /\ MayFail(r) /\ ~NoKey(r) /\ req[r].tries <= ErrCnt
  /\ req' = [req EXCEPT ![r].pc = "connect", ![r].tries = @ + 1, ![r].conn = None]
  /\ LeavesOpen(r)
  /\ UNCHANGED <<rows, fresh, keyFile, connections, client, sshd, now, faults, reached,
                 rolledBack>>

Retry(r) ==
  /\ MayFail(r) /\ ~NoKey(r) /\ req[r].tries < ErrCnt
  /\ req' = [req EXCEPT ![r].pc = "connect", ![r].tries = @ + 1, ![r].conn = None]
  /\ LeavesOpen(r)
  /\ UNCHANGED <<rows, fresh, keyFile, connections, client, sshd, now, faults, reached,
                 rolledBack>>

\* Mutant: the key file of a failed creation stays.
GiveUpKeepingKey(r) ==
  /\ MayFail(r)
  /\ NoKey(r) \/ req[r].tries = ErrCnt
  /\ req' = [req EXCEPT ![r] = Idle]
  /\ LeavesOpen(r)
  /\ UNCHANGED <<rows, fresh, keyFile, connections, client, sshd, now, faults, reached,
                 rolledBack>>

\* An unreadable key file or the last retry: the request fails, its transaction is
\* rolled back; create removes the key file first.
GiveUp(r) ==
  /\ MayFail(r)
  /\ NoKey(r) \/ req[r].tries = ErrCnt
  /\ keyFile' = IF req[r].kind = "create" THEN [keyFile EXCEPT ![req[r].id] = None]
                ELSE keyFile
  /\ req' = [req EXCEPT ![r] = Idle]
  /\ LeavesOpen(r)
  /\ UNCHANGED <<rows, fresh, connections, client, sshd, now, faults, reached, rolledBack>>

EndUse(r) ==
  /\ At(r, "using")
  /\ req' = [req EXCEPT ![r] = Idle]
  /\ UNCHANGED <<rows, fresh, keyFile, connections, client, sshd, now, faults, history>>

-----------------------------------------------------------------------------
(* The servers, the network, time and restarts. *)

HostChanges(a) ==
  /\ \E p \in Ports \union {None} : p # sshd[a] /\ sshd' = [sshd EXCEPT ![a] = p]
  /\ UNCHANGED <<rows, fresh, keyFile, connections, client, req, now, faults, history>>

\* Nothing listens for the end of a connection: the cache keeps the client.
ConnectionDies(c) ==
  /\ client[c] # None /\ client[c].alive
  /\ client' = [client EXCEPT ![c].alive = FALSE]
  /\ UNCHANGED <<rows, fresh, keyFile, connections, req, sshd, now, faults, history>>

Collect(c) ==
  /\ client[c] # None /\ ~client[c].alive /\ ~Referred(c)
  /\ client' = [client EXCEPT ![c] = None]
  /\ UNCHANGED <<rows, fresh, keyFile, connections, req, sshd, now, faults, history>>

TimePasses ==
  /\ \E d \in Steps : now + d <= MaxNow /\ now' = now + d
  /\ UNCHANGED <<rows, fresh, keyFile, connections, client, req, sshd, faults, history>>

Restart ==
  /\ faults < MaxFaults
  /\ faults' = faults + 1
  /\ connections' = [a \in Accounts |-> None]
  /\ client' = [c \in Conns |-> None]
  /\ req' = [r \in Reqs |-> Idle]
  /\ UNCHANGED <<rows, fresh, keyFile, sshd, now, history>>

-----------------------------------------------------------------------------
Begin(r) == CheckDuplicate(r) \/ BeginUpdate(r) \/ BeginUse(r)
Work(r) == \/ WriteKey(r) \/ Commit(r) \/ CacheHit(r) \/ CacheMiss(r)
           \/ Connect(r) \/ Prepared(r) \/ Retry(r) \/ GiveUp(r) \/ EndUse(r)
Environment == \/ \E a \in Accounts : HostChanges(a)
               \/ \E c \in Conns : ConnectionDies(c) \/ Collect(c)
               \/ TimePasses \/ Restart
               \/ \E i \in Ids : Delete(i)

Next == \/ \E r \in Reqs : Begin(r) \/ SaveRow(r) \/ Work(r) \/ Fails(r)
        \/ Environment

Spec == Init /\ [][Next]_vars

-----------------------------------------------------------------------------
(* Properties. *)

\* Types: in particular no request retries more than ErrCnt times (waitConnection).
TypeOK ==
  /\ rows \in [Ids -> Row \union {None}]
  /\ fresh \subseteq Ids
  /\ keyFile \in [Ids -> KeyFiles \union {None}]
  /\ connections \in [Accounts -> Cached \union {None}]
  /\ client \in [Conns -> Client \union {None}]
  /\ req \in [Reqs -> Request]
  /\ sshd \in [Accounts -> Ports \union {None}]
  /\ now \in Nat /\ faults \in 0..MaxFaults
  /\ reached \subseteq Ids \X Ports
  /\ rolledBack \subseteq Accounts /\ doubled \subseteq Accounts

\* The creations that have written their key file.
Creating(i) == \E r \in Reqs : req[r].kind = "create" /\ req[r].id = i
                                 /\ req[r].pc \in {"lookup", "connect", "prepare", "commit"}

\* Every row has its key file, and unless a query, a commit or the process failed
\* there is no key file without a row or a creation under way (create writes the
\* file before it commits and removes it only when the connection fails).
KeysMatchRows ==
  \A i \in Ids : /\ rows[i] # None => keyFile[i] # None
                 /\ keyFile[i] # None /\ faults = 0 => rows[i] # None \/ Creating(i)

\* A request is handed out a client of the row it works for: upsertLogs stores logs
\* under the id of the client.  The cache does not look at the id; the unique index
\* on host and username is what keeps two rows from sharing a client, and a commit
\* that fails after the connection leaves the client of a row that never was.
ClientOfRow ==
  \A r \in Reqs : req[r].conn # None =>
    /\ client[req[r].conn] # None
    /\ client[req[r].conn].account = req[r].row.account
    /\ \/ client[req[r].conn].id = req[r].id
       \/ req[r].row.account \in rolledBack

\* Every row was committed after a client had been made with its own key, on its own
\* port (SshService.create waits for getSshClient).  The exception is an account of
\* which a creation was rolled back after it had connected: the client it left in the
\* cache answers for the next creation, whatever its key and its port.
RowReached ==
  \A i \in Ids : rows[i] # None =>
    <<i, rows[i].port>> \in reached \/ rows[i].account \in rolledBack

\* One open connection per account.  More than one only if an entry had expired, if
\* two requests were connecting at a time, or if getCronFile or initWebcronDir failed
\* on an open connection; none of these connections is ever closed.  A client of the
\* cache whose connection has died is not replaced, so that adds none.
OneConnection ==
  \A a \in Accounts \ doubled :
    Cardinality({c \in Conns : client[c] # None /\ client[c].account = a
                                 /\ client[c].alive}) <= 1

===============================================================================
