------------------------ MODULE SshConnectionsProofs ------------------------
(***************************************************************************)
(* Proofs about SshConnections, for any rows, accounts, organizations,     *)
(* ports, connections and requests.                                        *)
(***************************************************************************)
EXTENDS SshConnections, FiniteSetTheorems, TLAPS

-----------------------------------------------------------------------------
(* Types, and what a request carries at each of its steps. *)

Shaped(q) ==
  /\ q.pc # "idle" => q.row \in Row /\ q.kind # "none"
  /\ q.pc = "idle" => q.kind = "none"
  /\ q.pc \in {"save", "key"} => q.kind = "create" /\ q.key \in KeyFiles
  /\ q.id = None <=> q.pc \in {"idle", "save"}
  /\ q.conn = None <=> q.pc \notin {"prepare", "commit", "using"}
  /\ q.pc = "using" => q.kind = "use"
  /\ q.pc = "commit" => q.kind # "use"

TypeInv == TypeOK /\ \A r \in Reqs : Shaped(req[r])

LEMMA IdleShape == Idle \in Request /\ Shaped(Idle)
BY SshAssumption DEF Idle, Request, Shaped

\* The request r goes on and the others stay as they are.
Moves(r) == /\ req' \in [Reqs -> Request] /\ Shaped(req'[r])
            /\ \A x \in Reqs \ {r} : req'[x] = req[x]
Ends(r) == /\ req' \in [Reqs -> Request] /\ req'[r] = Idle
           /\ \A x \in Reqs \ {r} : req'[x] = req[x]

\* It keeps what it works for.
Keeps(r) == /\ req'[r].kind = req[r].kind /\ req'[r].id = req[r].id
            /\ req'[r].row = req[r].row

LEMMA EndMoves == ASSUME NEW r, Ends(r) PROVE Moves(r)
BY IdleShape DEF Ends, Moves

LEMMA EndsIdle ==
  ASSUME TypeInv, NEW r \in Reqs, req' = [req EXCEPT ![r] = Idle] PROVE Ends(r)
BY IdleShape DEF TypeInv, TypeOK, Ends

-----------------------------------------------------------------------------
(* What each action does to the request that takes it. *)

LEMMA CheckDuplicateMoves ==
  ASSUME TypeInv, NEW r \in Reqs, CheckDuplicate(r)
  PROVE  Moves(r) /\ req'[r].pc = "save" /\ req'[r].id = None /\ req'[r].conn = None
<1>1. PICK a \in Accounts, o \in Orgs, p \in Ports, k \in KeyFiles :
        req' = [req EXCEPT ![r] =
            [Idle EXCEPT !.pc = "save", !.kind = "create", !.key = k,
                         !.row = [account |-> a, org |-> o, port |-> p, deleted |-> FALSE]]]
  BY DEF CheckDuplicate
<1>2. PICK w \in Row : w = [account |-> a, org |-> o, port |-> p, deleted |-> FALSE]
  BY DEF Row
<1>3. req'[r] = [pc |-> "save", kind |-> "create", id |-> None, row |-> w, key |-> k,
                 tries |-> 0, conn |-> None]
  BY <1>1, <1>2 DEF TypeInv, TypeOK, Idle, Request
<1>4. req'[r] \in Request /\ Shaped(req'[r])
  BY <1>3, SshAssumption DEF Request, Shaped
<1>5. req' \in [Reqs -> Request] /\ \A x \in Reqs \ {r} : req'[x] = req[x]
  BY <1>1, <1>4 DEF TypeInv, TypeOK
<1> QED
  BY <1>3, <1>4, <1>5 DEF Moves

LEMMA SaveRowMoves ==
  ASSUME TypeInv, NEW r \in Reqs, SaveRow(r)
  PROVE  \/ Ends(r) /\ fresh' = fresh
         \/ \E i \in fresh :
              /\ Moves(r) /\ fresh' = fresh \ {i}
              /\ req'[r].pc = "key" /\ req'[r].kind = "create" /\ req'[r].conn = None
              /\ req'[r].id = i /\ req'[r].row = req[r].row
              /\ \A j \in Ids : rows[j] # None => rows[j].account # req[r].row.account
              /\ \A q \in Writing(r) : req[q].row.account # req[r].row.account
<1>1. req \in [Reqs -> Request] /\ fresh \subseteq Ids /\ Shaped(req[r]) /\ req[r].pc = "save"
  BY DEF TypeInv, TypeOK, SaveRow, At
<1>2. CASE req' = [req EXCEPT ![r] = Idle] /\ UNCHANGED fresh
  BY <1>2, EndsIdle
<1>3. ASSUME \A i \in Ids : rows[i] # None => rows[i].account # req[r].row.account,
             NEW i \in fresh, fresh' = fresh \ {i},
             req' = [req EXCEPT ![r].pc = "key", ![r].id = i]
      PROVE  /\ Moves(r)
             /\ req'[r].pc = "key" /\ req'[r].kind = "create" /\ req'[r].conn = None
             /\ req'[r].id = i /\ req'[r].row = req[r].row
  <2>1. req'[r] = [pc |-> "key", kind |-> req[r].kind, id |-> i, row |-> req[r].row,
                   key |-> req[r].key, tries |-> req[r].tries, conn |-> req[r].conn]
    BY <1>1, <1>3 DEF Request
  <2>2. /\ req[r].kind = "create" /\ req[r].conn = None /\ req[r].row \in Row
        /\ req[r].key \in KeyFiles /\ req[r].tries \in 0..ErrCnt
    BY <1>1 DEF Shaped, Request
  <2>3. req'[r] \in Request /\ Shaped(req'[r])
    BY <1>1, <2>1, <2>2, SshAssumption DEF Request, Shaped
  <2>4. req' \in [Reqs -> Request] /\ \A x \in Reqs \ {r} : req'[x] = req[x]
    BY <1>1, <1>3, <2>3
  <2> QED
    BY <2>1, <2>2, <2>3, <2>4 DEF Moves
<1>4. \A q \in Writing(r) : req[q].row.account # req[r].row.account
  BY DEF SaveRow
<1> QED
  BY <1>2, <1>3, <1>4 DEF SaveRow

LEMMA WriteKeyMoves ==
  ASSUME TypeInv, NEW r \in Reqs, WriteKey(r)
  PROVE  Moves(r) /\ Keeps(r) /\ req'[r].pc = "lookup" /\ req'[r].conn = None
<1>1. req \in [Reqs -> Request] /\ Shaped(req[r]) /\ req[r].pc = "key"
  BY DEF TypeInv, TypeOK, WriteKey, At
<1>2. req'[r] = [pc |-> "lookup", kind |-> req[r].kind, id |-> req[r].id, row |-> req[r].row,
                 key |-> req[r].key, tries |-> req[r].tries, conn |-> req[r].conn]
  BY <1>1 DEF WriteKey, Request
<1>3. req'[r] \in Request /\ Shaped(req'[r]) /\ req[r].conn = None
  BY <1>1, <1>2 DEF Request, Shaped
<1>4. \A x \in Reqs \ {r} : req'[x] = req[x]
  BY <1>1 DEF WriteKey
<1>5. req' \in [Reqs -> Request]
  BY <1>1, <1>3 DEF WriteKey
<1> QED
  BY <1>2, <1>3, <1>4, <1>5 DEF Moves, Keeps

LEMMA BeginShape ==
  ASSUME NEW kind, kind = "update" \/ kind = "use", NEW i \in Ids, NEW w \in Row,
         NEW q, q = [pc |-> "lookup", kind |-> kind, id |-> i, row |-> w, key |-> None,
                     tries |-> 0, conn |-> None]
  PROVE  q \in Request /\ Shaped(q)
<1>1. i # None /\ 0 \in 0..ErrCnt
  BY SshAssumption
<1>2. q \in Request
  BY <1>1 DEF Request
<1> QED
  BY <1>1, <1>2 DEF Shaped

LEMMA BeginMoves ==
  ASSUME TypeInv, NEW r \in Reqs, NEW kind, kind = "update" \/ kind = "use",
         NEW i \in Ids, NEW w \in Row,
         req' = [req EXCEPT ![r] = [Idle EXCEPT !.pc = "lookup", !.kind = kind, !.id = i, !.row = w]]
  PROVE  /\ Moves(r)
         /\ req'[r].pc = "lookup" /\ req'[r].kind = kind /\ req'[r].id = i /\ req'[r].row = w
         /\ req'[r].conn = None
<1>1. req'[r] = [pc |-> "lookup", kind |-> kind, id |-> i, row |-> w, key |-> None,
                 tries |-> 0, conn |-> None]
  BY DEF TypeInv, TypeOK, Idle, Request
<1>2. req'[r] \in Request /\ Shaped(req'[r])
  BY <1>1, BeginShape
<1>3. req' \in [Reqs -> Request] /\ \A x \in Reqs \ {r} : req'[x] = req[x]
  BY <1>2 DEF TypeInv, TypeOK
<1> QED
  BY <1>1, <1>2, <1>3 DEF Moves

LEMMA BeginUpdateMoves ==
  ASSUME TypeInv, NEW r \in Reqs, BeginUpdate(r)
  PROVE  /\ Moves(r)
         /\ req'[r].pc = "lookup" /\ req'[r].kind = "update" /\ req'[r].conn = None
         /\ req'[r].id \in Ids /\ rows[req'[r].id] # None
         /\ req'[r].row = rows[req'[r].id]
<1>1. PICK i \in Ids :
        /\ rows[i] # None
        /\ req' = [req EXCEPT ![r] = [Idle EXCEPT !.pc = "lookup", !.kind = "update",
                                       !.id = i, !.row = rows[i]]]
  BY DEF BeginUpdate
<1>2. PICK w \in Row : w = rows[i]
  BY <1>1 DEF TypeInv, TypeOK
<1>3. req' = [req EXCEPT ![r] = [Idle EXCEPT !.pc = "lookup", !.kind = "update", !.id = i, !.row = w]]
  BY <1>1, <1>2
<1>4. /\ Moves(r)
      /\ req'[r].pc = "lookup" /\ req'[r].kind = "update" /\ req'[r].id = i /\ req'[r].row = w
      /\ req'[r].conn = None
  BY <1>3, BeginMoves
<1> QED
  BY <1>1, <1>2, <1>4

LEMMA BeginUseMoves ==
  ASSUME TypeInv, NEW r \in Reqs, BeginUse(r)
  PROVE  /\ Moves(r)
         /\ req'[r].pc = "lookup" /\ req'[r].kind = "use" /\ req'[r].conn = None
         /\ req'[r].id \in Ids /\ rows[req'[r].id] # None
         /\ req'[r].row = rows[req'[r].id]
<1>1. PICK i \in Ids :
        /\ rows[i] # None
        /\ req' = [req EXCEPT ![r] = [Idle EXCEPT !.pc = "lookup", !.kind = "use",
                                       !.id = i, !.row = rows[i]]]
  BY DEF BeginUse
<1>2. PICK w \in Row : w = rows[i]
  BY <1>1 DEF TypeInv, TypeOK
<1>3. req' = [req EXCEPT ![r] = [Idle EXCEPT !.pc = "lookup", !.kind = "use", !.id = i, !.row = w]]
  BY <1>1, <1>2
<1>4. /\ Moves(r)
      /\ req'[r].pc = "lookup" /\ req'[r].kind = "use" /\ req'[r].id = i /\ req'[r].row = w
      /\ req'[r].conn = None
  BY <1>3, BeginMoves
<1> QED
  BY <1>1, <1>2, <1>4

LEMMA CacheHitMoves ==
  ASSUME TypeInv, NEW r \in Reqs, CacheHit(r)
  PROVE  LET entry == connections[req[r].row.account] IN
         /\ Moves(r) /\ Keeps(r) /\ req[r].pc = "lookup" /\ req'[r].pc = Served(r)
         /\ req[r].row \in Row
         /\ entry \in Cached /\ ~IsExpired(entry) /\ req'[r].conn = entry.conn
<1> DEFINE a == req[r].row.account
<1>1. req \in [Reqs -> Request] /\ Shaped(req[r]) /\ req[r].pc = "lookup" /\ req[r].row \in Row
  BY DEF TypeInv, TypeOK, CacheHit, At, Shaped
<1>2. a \in Accounts
  BY <1>1 DEF Row
<1>3. connections[a] \in Cached /\ ~IsExpired(connections[a])
  BY <1>2 DEF TypeInv, TypeOK, CacheHit, Usable
<1>4. PICK c \in Conns : c = connections[a].conn
  BY <1>3 DEF Cached
<1>5. Served(r) \in {"using", "commit"} /\ (Served(r) = "using" <=> req[r].kind = "use")
  BY DEF Served
<1>6. PICK s : s = Served(r)
  OBVIOUS
<1>7. req' = [req EXCEPT ![r].pc = s, ![r].conn = c]
  BY <1>4, <1>6 DEF CacheHit
<1>8. req'[r] = [pc |-> s, kind |-> req[r].kind, id |-> req[r].id, row |-> req[r].row,
                 key |-> req[r].key, tries |-> req[r].tries, conn |-> c]
  BY <1>1, <1>7 DEF Request
<1>9. req'[r] \in Request /\ Shaped(req'[r])
  BY <1>1, <1>5, <1>6, <1>8, SshAssumption DEF Request, Shaped
<1>10. req' \in [Reqs -> Request] /\ \A x \in Reqs \ {r} : req'[x] = req[x]
  BY <1>1, <1>7, <1>9
<1> QED
  BY <1>1, <1>3, <1>4, <1>6, <1>8, <1>9, <1>10 DEF Moves, Keeps

LEMMA CacheMissMoves ==
  ASSUME TypeInv, NEW r \in Reqs, CacheMiss(r)
  PROVE  /\ Moves(r) /\ Keeps(r) /\ req[r].pc = "lookup" /\ req'[r].pc = "connect"
         /\ req[r].conn = None /\ req'[r].conn = None /\ req[r].row \in Row
<1>1. req \in [Reqs -> Request] /\ Shaped(req[r]) /\ req[r].pc = "lookup"
  BY DEF TypeInv, TypeOK, CacheMiss, At
<1>2. req'[r] = [pc |-> "connect", kind |-> req[r].kind, id |-> req[r].id, row |-> req[r].row,
                 key |-> req[r].key, tries |-> req[r].tries, conn |-> req[r].conn]
  BY <1>1 DEF CacheMiss, Request
<1>3. req'[r] \in Request /\ Shaped(req'[r]) /\ req[r].conn = None /\ req[r].row \in Row
  BY <1>1, <1>2 DEF Request, Shaped
<1>4. \A x \in Reqs \ {r} : req'[x] = req[x]
  BY <1>1 DEF CacheMiss
<1>5. req' \in [Reqs -> Request]
  BY <1>1, <1>3 DEF CacheMiss
<1> QED
  BY <1>1, <1>2, <1>3, <1>4, <1>5 DEF Moves, Keeps

LEMMA ConnectMoves ==
  ASSUME TypeInv, NEW r \in Reqs, Connect(r)
  PROVE  \E c \in Conns :
         /\ Moves(r) /\ Keeps(r) /\ req[r].pc = "connect" /\ req'[r].pc = "prepare"
         /\ req'[r].conn = c /\ client[c] = None
         /\ req[r].row \in Row /\ req[r].id \in Ids
         /\ client' = [client EXCEPT ![c] = [account |-> req[r].row.account, id |-> req[r].id,
                                             alive |-> TRUE]]
<1>1. /\ req \in [Reqs -> Request] /\ Shaped(req[r]) /\ req[r].pc = "connect"
      /\ req[r].row \in Row /\ req[r].id \in Ids
  BY DEF TypeInv, TypeOK, Connect, At, Shaped, Request
<1> DEFINE chosen == CHOOSE c \in Unused : TRUE
<1>2. PICK c \in Unused : c = chosen
  <2>1. Unused # {}
    BY DEF Connect
  <2>2. chosen \in Unused
    BY <2>1
  <2> QED
    BY <2>2
<1>3. c \in Conns /\ client[c] = None
  BY DEF Unused
<1>4. req' = [req EXCEPT ![r].pc = "prepare", ![r].conn = c]
  BY <1>2 DEF Connect
<1>5. req'[r] = [pc |-> "prepare", kind |-> req[r].kind, id |-> req[r].id, row |-> req[r].row,
                 key |-> req[r].key, tries |-> req[r].tries, conn |-> c]
  BY <1>1, <1>4 DEF Request
<1>6. req'[r] \in Request /\ Shaped(req'[r])
  BY <1>1, <1>3, <1>5, SshAssumption DEF Request, Shaped
<1>7. req' \in [Reqs -> Request] /\ \A x \in Reqs \ {r} : req'[x] = req[x]
  BY <1>1, <1>4, <1>6
<1>8. client' = [client EXCEPT ![c] = [account |-> req[r].row.account, id |-> req[r].id,
                                       alive |-> TRUE]]
  BY <1>2 DEF Connect
<1>9. /\ Moves(r) /\ Keeps(r) /\ req'[r].pc = "prepare" /\ req'[r].conn = c
  BY <1>5, <1>6, <1>7 DEF Moves, Keeps
<1> HIDE DEF chosen
<1> QED
  BY <1>1, <1>3, <1>8, <1>9

LEMMA PreparedMoves ==
  ASSUME TypeInv, NEW r \in Reqs, Prepared(r)
  PROVE  /\ Moves(r) /\ Keeps(r) /\ req[r].pc = "prepare" /\ req'[r].pc = Served(r)
         /\ req'[r].conn = req[r].conn /\ req[r].conn \in Conns
         /\ req[r].row \in Row /\ req[r].id \in Ids
<1>1. /\ req \in [Reqs -> Request] /\ Shaped(req[r]) /\ req[r].pc = "prepare"
      /\ req[r].row \in Row /\ req[r].id \in Ids /\ req[r].conn \in Conns
  BY DEF TypeInv, TypeOK, Prepared, At, Shaped, Request
<1>2. Served(r) \in {"using", "commit"} /\ (Served(r) = "using" <=> req[r].kind = "use")
  BY DEF Served
<1>3. PICK s : s = Served(r)
  OBVIOUS
<1>4. req' = [req EXCEPT ![r].pc = s, ![r].tries = 0]
  BY <1>3 DEF Prepared
<1>5. req'[r] = [pc |-> s, kind |-> req[r].kind, id |-> req[r].id, row |-> req[r].row,
                 key |-> req[r].key, tries |-> 0, conn |-> req[r].conn]
  BY <1>1, <1>4 DEF Request
<1>6. req'[r] \in Request /\ Shaped(req'[r])
  BY <1>1, <1>2, <1>3, <1>5, SshAssumption DEF Request, Shaped
<1>7. req' \in [Reqs -> Request] /\ \A x \in Reqs \ {r} : req'[x] = req[x]
  BY <1>1, <1>4, <1>6
<1> QED
  BY <1>1, <1>3, <1>5, <1>6, <1>7 DEF Moves, Keeps

LEMMA RetryMoves ==
  ASSUME TypeInv, NEW r \in Reqs, Retry(r)
  PROVE  /\ Moves(r) /\ Keeps(r) /\ req[r].pc \in {"connect", "prepare"}
         /\ req'[r].pc = "connect" /\ req'[r].conn = None
<1>1. /\ req \in [Reqs -> Request] /\ Shaped(req[r]) /\ req[r].pc \in {"connect", "prepare"}
      /\ req[r].tries < ErrCnt
  BY DEF TypeInv, TypeOK, Retry, MayFail, At
<1>2. req'[r] = [pc |-> "connect", kind |-> req[r].kind, id |-> req[r].id, row |-> req[r].row,
                 key |-> req[r].key, tries |-> req[r].tries + 1, conn |-> None]
  BY <1>1 DEF Retry, Request
<1>3. req[r].tries \in 0..ErrCnt
  BY <1>1 DEF Request
<1>4. req[r].tries + 1 \in 0..ErrCnt
  BY <1>1, <1>3, SshAssumption
<1>5. req'[r] \in Request /\ Shaped(req'[r])
  BY <1>1, <1>2, <1>4 DEF Request, Shaped
<1>6. \A x \in Reqs \ {r} : req'[x] = req[x]
  BY <1>1 DEF Retry
<1>7. req' \in [Reqs -> Request]
  BY <1>1, <1>5 DEF Retry
<1> QED
  BY <1>1, <1>2, <1>5, <1>6, <1>7 DEF Moves, Keeps

LEMMA GiveUpMoves == ASSUME TypeInv, NEW r \in Reqs, GiveUp(r) PROVE Ends(r)
BY EndsIdle DEF GiveUp
LEMMA CommitMoves == ASSUME TypeInv, NEW r \in Reqs, Commit(r) PROVE Ends(r)
BY EndsIdle DEF Commit
LEMMA FailsMoves == ASSUME TypeInv, NEW r \in Reqs, Fails(r) PROVE Ends(r)
BY EndsIdle DEF Fails
LEMMA EndUseMoves == ASSUME TypeInv, NEW r \in Reqs, EndUse(r) PROVE Ends(r)
BY EndsIdle DEF EndUse

-----------------------------------------------------------------------------
(* The types are kept. *)

LEMMA TypeInit == Init => TypeInv
<1> SUFFICES ASSUME Init PROVE TypeInv
  OBVIOUS
<1>1. req \in [Reqs -> Request] /\ \A r \in Reqs : Shaped(req[r])
  BY IdleShape DEF Init
<1> QED
  BY <1>1, SshAssumption DEF Init, TypeInv, TypeOK

LEMMA MovesType ==
  ASSUME TypeInv, NEW r \in Reqs, Moves(r)
  PROVE  req' \in [Reqs -> Request] /\ \A x \in Reqs : Shaped(req'[x])
<1>1. \A x \in Reqs : x = r \/ req'[x] = req[x]
  BY DEF Moves
<1> QED
  BY <1>1 DEF Moves, TypeInv

RequestType == req' \in [Reqs -> Request] /\ \A x \in Reqs : Shaped(req'[x])

\* What the tables, files, clients and histories hold, without the requests.
StoresType ==
  /\ rows \in [Ids -> Row \union {None}]
  /\ fresh \subseteq Ids
  /\ keyFile \in [Ids -> KeyFiles \union {None}]
  /\ connections \in [Accounts -> Cached \union {None}]
  /\ client \in [Conns -> Client \union {None}]
  /\ sshd \in [Accounts -> Ports \union {None}]
  /\ now \in Nat /\ faults \in 0..MaxFaults
  /\ reached \subseteq Ids \X Ports
  /\ rolledBack \subseteq Accounts /\ doubled \subseteq Accounts

LEMMA TypeParts == /\ TypeInv => StoresType
                   /\ StoresType' /\ RequestType => TypeInv'
BY DEF TypeInv, TypeOK, StoresType, RequestType

LEMMA BusyFields ==
  ASSUME TypeInv, NEW r \in Reqs, req[r].pc \notin {"idle", "save"}
  PROVE  /\ req[r].id \in Ids /\ req[r].row \in Row
         /\ req[r].row.account \in Accounts /\ req[r].row.port \in Ports
<1>1. req[r].id \in Ids /\ req[r].row \in Row
  BY DEF TypeInv, TypeOK, Shaped, Request
<1> QED
  BY <1>1 DEF Row

LEMMA TypeStep == TypeInv /\ [Next]_vars => TypeInv'
<1> SUFFICES ASSUME TypeInv, [Next]_vars PROVE StoresType' /\ RequestType
  BY TypeParts
<1> USE TypeParts
<1>1. ASSUME NEW r \in Reqs, CheckDuplicate(r) PROVE StoresType' /\ RequestType
  <2>1. StoresType'
    BY <1>1 DEF CheckDuplicate, StoresType, history
  <2> QED
    BY <1>1, <2>1, CheckDuplicateMoves, MovesType DEF RequestType
<1>2. ASSUME NEW r \in Reqs, SaveRow(r) PROVE StoresType' /\ RequestType
  <2>1. Moves(r) /\ fresh' \subseteq fresh
    BY <1>2, SaveRowMoves, EndMoves
  <2>2. StoresType'
    BY <1>2, <2>1 DEF SaveRow, StoresType, history
  <2> QED
    BY <2>1, <2>2, MovesType DEF RequestType
<1>3. ASSUME NEW r \in Reqs, WriteKey(r) PROVE StoresType' /\ RequestType
  <2>1. req[r].key \in KeyFiles
    BY <1>3 DEF WriteKey, At, TypeInv, Shaped
  <2>2. StoresType'
    BY <1>3, <2>1 DEF WriteKey, StoresType, history
  <2> QED
    BY <1>3, <2>2, WriteKeyMoves, MovesType DEF RequestType
<1>4. ASSUME NEW r \in Reqs, BeginUpdate(r) PROVE StoresType' /\ RequestType
  <2>1. StoresType'
    BY <1>4 DEF BeginUpdate, StoresType, history
  <2> QED
    BY <1>4, <2>1, BeginUpdateMoves, MovesType DEF RequestType
<1>5. ASSUME NEW r \in Reqs, BeginUse(r) PROVE StoresType' /\ RequestType
  <2>1. StoresType'
    BY <1>5 DEF BeginUse, StoresType, history
  <2> QED
    BY <1>5, <2>1, BeginUseMoves, MovesType DEF RequestType
<1>6. ASSUME NEW r \in Reqs, Commit(r) PROVE StoresType' /\ RequestType
  <2>1. req[r].row \in Row
    BY <1>6, BusyFields DEF Commit, At
  <2>2. StoresType'
    BY <1>6, <2>1 DEF Commit, StoresType, history
  <2> QED
    BY <1>6, <2>2, CommitMoves, EndMoves, MovesType DEF RequestType
<1>7. ASSUME NEW r \in Reqs, Fails(r) PROVE StoresType' /\ RequestType
  <2>1. req[r].row.account \in Accounts
    BY <1>7, BusyFields DEF Fails
  <2>2. rolledBack' \subseteq Accounts
    BY <1>7, <2>1 DEF Fails, StoresType
  <2>3. faults' \in 0..MaxFaults
    BY <1>7, SshAssumption DEF Fails, StoresType
  <2>4. StoresType'
    BY <1>7, <2>2, <2>3 DEF Fails, StoresType
  <2> QED
    BY <1>7, <2>4, FailsMoves, EndMoves, MovesType DEF RequestType
<1>8. ASSUME NEW r \in Reqs, CacheHit(r) PROVE StoresType' /\ RequestType
  <2>1. StoresType'
    BY <1>8 DEF CacheHit, StoresType, history
  <2> QED
    BY <1>8, <2>1, CacheHitMoves, MovesType DEF RequestType
<1>9. ASSUME NEW r \in Reqs, CacheMiss(r) PROVE StoresType' /\ RequestType
  <2>1. req[r].row.account \in Accounts
    BY <1>9, BusyFields DEF CacheMiss, At
  <2>2. doubled' \subseteq Accounts
    BY <1>9, <2>1 DEF CacheMiss, StoresType
  <2>3. StoresType'
    BY <1>9, <2>2 DEF CacheMiss, StoresType
  <2> QED
    BY <1>9, <2>3, CacheMissMoves, MovesType DEF RequestType
<1>10. ASSUME NEW r \in Reqs, Connect(r) PROVE StoresType' /\ RequestType
  <2>1. PICK c \in Conns :
         /\ Moves(r)
         /\ client' = [client EXCEPT ![c] = [account |-> req[r].row.account, id |-> req[r].id,
                                             alive |-> TRUE]]
    BY <1>10, ConnectMoves
  <2>2. /\ req[r].id \in Ids /\ req[r].row.account \in Accounts
    BY <1>10, BusyFields DEF Connect, At
  <2>3. [account |-> req[r].row.account, id |-> req[r].id, alive |-> TRUE] \in Client
    BY <2>2 DEF Client
  <2>4. client' \in [Conns -> Client \union {None}]
    BY <2>1, <2>3 DEF StoresType
  <2>5. StoresType'
    BY <1>10, <2>4 DEF Connect, StoresType, history
  <2> QED
    BY <2>1, <2>5, MovesType DEF RequestType
<1>22. ASSUME NEW r \in Reqs, Prepared(r) PROVE StoresType' /\ RequestType
  <2>1. Moves(r) /\ req[r].conn \in Conns
    BY <1>22, PreparedMoves
  <2>2. /\ req[r].id \in Ids /\ req[r].row.account \in Accounts /\ req[r].row.port \in Ports
    BY <1>22, BusyFields DEF Prepared, At
  <2>3. now + SSH_CACHE \in Nat
    BY DEF StoresType, SSH_CACHE
  <2>4. [conn |-> req[r].conn, expire |-> now + SSH_CACHE] \in Cached
    BY <2>1, <2>3 DEF Cached
  <2>5. connections' \in [Accounts -> Cached \union {None}]
    BY <1>22, <2>4 DEF Prepared, StoresType
  <2>6. reached' \subseteq Ids \X Ports
    BY <1>22, <2>2 DEF Prepared, StoresType
  <2>7. StoresType'
    BY <1>22, <2>5, <2>6 DEF Prepared, StoresType
  <2> QED
    BY <2>1, <2>7, MovesType DEF RequestType
<1>23. ASSUME NEW r \in Reqs, LeavesOpen(r), req[r].pc \notin {"idle", "save"}
       PROVE  doubled' \subseteq Accounts
  <2>1. req[r].row.account \in Accounts
    BY <1>23, BusyFields
  <2> QED
    BY <1>23, <2>1 DEF LeavesOpen, StoresType
<1>11. ASSUME NEW r \in Reqs, Retry(r) PROVE StoresType' /\ RequestType
  <2>1. doubled' \subseteq Accounts
    BY <1>11, <1>23, RetryMoves DEF Retry
  <2>2. StoresType'
    BY <1>11, <2>1 DEF Retry, StoresType
  <2> QED
    BY <1>11, <2>2, RetryMoves, MovesType DEF RequestType
<1>12. ASSUME NEW r \in Reqs, GiveUp(r) PROVE StoresType' /\ RequestType
  <2>1. req[r].pc \in {"connect", "prepare"}
    BY <1>12 DEF GiveUp, MayFail, At
  <2>2. doubled' \subseteq Accounts
    BY <1>12, <1>23, <2>1 DEF GiveUp
  <2>3. keyFile' \in [Ids -> KeyFiles \union {None}]
    BY <1>12 DEF GiveUp, StoresType
  <2>4. StoresType'
    BY <1>12, <2>2, <2>3 DEF GiveUp, StoresType
  <2> QED
    BY <1>12, <2>4, GiveUpMoves, EndMoves, MovesType DEF RequestType
<1>13. ASSUME NEW r \in Reqs, EndUse(r) PROVE StoresType' /\ RequestType
  <2>1. StoresType'
    BY <1>13 DEF EndUse, StoresType, history
  <2> QED
    BY <1>13, <2>1, EndUseMoves, EndMoves, MovesType DEF RequestType
<1>14. ASSUME req' = req PROVE RequestType
  BY <1>14 DEF RequestType, TypeInv, TypeOK
<1>15. ASSUME NEW i \in Ids, Delete(i) PROVE StoresType' /\ RequestType
  <2>1. rows[i] \in Row
    BY <1>15 DEF Delete, StoresType
  <2>2. \A w \in Row : [w EXCEPT !.deleted = TRUE] \in Row
    BY DEF Row
  <2>3. [rows[i] EXCEPT !.deleted = TRUE] \in Row
    BY <2>1, <2>2
  <2>4. rows' = [rows EXCEPT ![i] = [rows[i] EXCEPT !.deleted = TRUE]]
    BY <1>15 DEF Delete
  <2>5. rows' \in [Ids -> Row \union {None}]
    BY <2>3, <2>4 DEF StoresType
  <2> QED
    BY <1>14, <1>15, <2>5 DEF Delete, StoresType, history
<1>16. ASSUME NEW a \in Accounts, HostChanges(a) PROVE StoresType' /\ RequestType
  BY <1>14, <1>16 DEF HostChanges, StoresType, history
<1>17. ASSUME NEW c \in Conns, ConnectionDies(c) PROVE StoresType' /\ RequestType
  <2>1. client[c] \in Client
    BY <1>17 DEF ConnectionDies, StoresType
  <2>2. \A k \in Client : [k EXCEPT !.alive = FALSE] \in Client
    BY DEF Client
  <2>3. [client[c] EXCEPT !.alive = FALSE] \in Client
    BY <2>1, <2>2
  <2>4. client' = [client EXCEPT ![c] = [client[c] EXCEPT !.alive = FALSE]]
    BY <1>17 DEF ConnectionDies
  <2>5. client' \in [Conns -> Client \union {None}]
    BY <2>3, <2>4 DEF StoresType
  <2> QED
    BY <1>14, <1>17, <2>5 DEF ConnectionDies, StoresType, history
<1>18. ASSUME NEW c \in Conns, Collect(c) PROVE StoresType' /\ RequestType
  BY <1>14, <1>18 DEF Collect, StoresType, history
<1>19. CASE TimePasses
  BY <1>14, <1>19, SshAssumption DEF TimePasses, StoresType, history
<1>20. CASE Restart
  <2>1. RequestType
    BY <1>20, IdleShape DEF Restart, RequestType
  <2>2. faults' \in 0..MaxFaults
    BY <1>20, SshAssumption DEF Restart, StoresType
  <2> QED
    BY <1>20, <2>1, <2>2 DEF Restart, StoresType, history
<1>21. CASE UNCHANGED vars
  BY <1>14, <1>21 DEF vars, StoresType, history
<1> QED
  BY <1>1, <1>2, <1>3, <1>4, <1>5, <1>6, <1>7, <1>8, <1>9, <1>10, <1>11, <1>12, <1>13,
     <1>15, <1>16, <1>17, <1>18, <1>19, <1>20, <1>21, <1>22 DEF Next, Begin, Work, Environment

LEMMA Typed == Spec => []TypeInv
BY TypeInit, TypeStep, PTL DEF Spec

\* Types are kept; no request retries a connection more than ErrCnt times.
THEOREM TypeCorrect == Spec => []TypeOK
<1>1. TypeInv => TypeOK
  BY DEF TypeInv
<1> QED
  BY <1>1, Typed, PTL

-----------------------------------------------------------------------------
(* The steps of a request, and the others. *)

\* The fields of a request under TypeInv.
LEMMA ReqFields ==
  ASSUME TypeInv, NEW r \in Reqs
  PROVE  /\ req[r].id \in Ids \union {None}
         /\ req[r].id = None <=> req[r].pc \in {"idle", "save"}
         /\ req[r].pc = "idle" => req[r].kind = "none"
         /\ req[r].kind \in {"update", "use"} => req[r].id \in Ids
         /\ req[r].pc \in {"idle", "save", "key", "lookup", "connect", "prepare", "commit", "using"}
         /\ req[r].kind \in {"none", "create", "update", "use"}
         /\ req[r].pc = "using" => req[r].kind = "use"
         /\ req[r].pc = "commit" => req[r].kind # "use"
         /\ req[r].conn # None => req[r].conn \in Conns
BY DEF TypeInv, TypeOK, Shaped, Request

LEMMA IdleFields == Idle.kind = "none" /\ Idle.id = None /\ Idle.conn = None /\ Idle.pc = "idle"
BY DEF Idle

\* The steps nobody's request takes, and what they leave alone.
Quiet == \/ \E i \in Ids : Delete(i)
         \/ \E a \in Accounts : HostChanges(a)
         \/ \E c \in Conns : ConnectionDies(c) \/ Collect(c)
         \/ TimePasses \/ UNCHANGED vars

RowsLike == \A i \in Ids : /\ rows'[i] = None <=> rows[i] = None
                           /\ rows[i] # None => /\ rows'[i].account = rows[i].account
                                                /\ rows'[i].port = rows[i].port
ClientsLike == \A c \in Conns : client'[c] # None =>
                 /\ client[c] # None /\ client'[c].id = client[c].id
                 /\ client'[c].account = client[c].account
                 /\ client'[c].alive => client[c].alive
Collected == \A c \in Conns : client[c] # None /\ client'[c] = None => ~Referred(c)
Frame == /\ UNCHANGED <<req, fresh, keyFile, connections, faults, history>>
         /\ RowsLike /\ ClientsLike /\ Collected

LEMMA QuietFrame == ASSUME TypeInv, Quiet PROVE Frame
<1> USE DEF Frame
<1>0. rows \in [Ids -> Row \union {None}] /\ client \in [Conns -> Client \union {None}]
  BY DEF TypeInv, TypeOK
<1>a. rows' = rows => RowsLike
  BY DEF RowsLike
<1>b. client' = client => ClientsLike /\ Collected
  BY DEF ClientsLike, Collected
<1>1. ASSUME NEW i \in Ids, Delete(i) PROVE Frame
  <2>1. rows[i] \in Row
    BY <1>0, <1>1 DEF Delete
  <2>2. \A w \in Row : LET n == [w EXCEPT !.deleted = TRUE] IN
          n \in Row /\ n.account = w.account /\ n.port = w.port
    BY DEF Row
  <2>3. PICK w \in Row : /\ w = [rows[i] EXCEPT !.deleted = TRUE]
                         /\ w.account = rows[i].account /\ w.port = rows[i].port
    BY <2>1, <2>2
  <2>4. rows' = [rows EXCEPT ![i] = w]
    BY <1>1, <2>3 DEF Delete
  <2>5. RowsLike
    BY <1>0, <2>1, <2>3, <2>4, SshAssumption DEF RowsLike
  <2> QED
    BY <1>1, <1>b, <2>5 DEF Delete
<1>2. ASSUME NEW a \in Accounts, HostChanges(a) PROVE Frame
  BY <1>2, <1>a, <1>b DEF HostChanges
<1>3. ASSUME NEW c \in Conns, ConnectionDies(c) PROVE Frame
  <2>1. client[c] \in Client
    BY <1>0, <1>3 DEF ConnectionDies
  <2>2. \A k \in Client : LET n == [k EXCEPT !.alive = FALSE] IN
          n \in Client /\ n.id = k.id /\ n.account = k.account /\ ~n.alive
    BY DEF Client
  <2>3. PICK k \in Client : /\ k = [client[c] EXCEPT !.alive = FALSE]
                            /\ k.id = client[c].id /\ k.account = client[c].account
                            /\ ~k.alive
    BY <2>1, <2>2
  <2>4. client' = [client EXCEPT ![c] = k]
    BY <1>3, <2>3 DEF ConnectionDies
  <2>5. \A d \in Conns : client'[d] = IF d = c THEN k ELSE client[d]
    BY <1>0, <2>4
  <2>6. k # None /\ client[c] # None
    BY <2>1, SshAssumption
  <2>7. ClientsLike /\ Collected
    BY <2>3, <2>5, <2>6 DEF ClientsLike, Collected
  <2> QED
    BY <1>3, <1>a, <2>7 DEF ConnectionDies
<1>4. ASSUME NEW c \in Conns, Collect(c) PROVE Frame
  <2>1. \A d \in Conns : client'[d] = IF d = c THEN None ELSE client[d]
    BY <1>0, <1>4 DEF Collect
  <2>2. ~Referred(c)
    BY <1>4 DEF Collect
  <2>3. ClientsLike /\ Collected
    BY <2>1, <2>2 DEF ClientsLike, Collected
  <2> QED
    BY <1>4, <1>a, <2>3 DEF Collect
<1>5. CASE TimePasses
  BY <1>5, <1>a, <1>b DEF TimePasses
<1>6. CASE UNCHANGED vars
  BY <1>6, <1>a, <1>b DEF vars
<1> QED
  BY <1>1, <1>2, <1>3, <1>4, <1>5, <1>6 DEF Quiet

LEMMA StepCases ==
  ASSUME [Next]_vars
  PROVE  \/ \E r \in Reqs : \/ CheckDuplicate(r) \/ BeginUpdate(r) \/ BeginUse(r)
                            \/ SaveRow(r) \/ WriteKey(r) \/ Commit(r) \/ CacheHit(r)
                            \/ CacheMiss(r) \/ Connect(r) \/ Prepared(r) \/ Retry(r)
                            \/ GiveUp(r) \/ EndUse(r) \/ Fails(r)
         \/ Quiet \/ Restart
BY DEF Next, Begin, Work, Environment, Quiet

-----------------------------------------------------------------------------
(* Connections: the cache and the requests hold on to connections of their account. *)

CacheHolds ==
  \A a \in Accounts : connections[a] # None =>
    /\ client[connections[a].conn] # None
    /\ client[connections[a].conn].account = a

Held(r) ==
  req[r].conn # None =>
    /\ client[req[r].conn] # None
    /\ client[req[r].conn].account = req[r].row.account
    /\ req[r].pc = "prepare" => client[req[r].conn].id = req[r].id

ConnInv == CacheHolds /\ \A r \in Reqs : Held(r)

LEMMA CacheFields ==
  ASSUME TypeInv, NEW a \in Accounts, connections[a] # None
  PROVE  connections[a] \in Cached /\ connections[a].conn \in Conns
BY DEF TypeInv, TypeOK, Cached

\* The cache stays, and so does what is referred to.
LEMMA ConnGoes ==
  ASSUME TypeInv, ConnInv, connections' = connections,
         \A c \in Conns : client[c] # None /\ Referred(c) =>
            /\ client'[c] # None /\ client'[c].id = client[c].id
            /\ client'[c].account = client[c].account,
         \A x \in Reqs : \/ Held(x)'
                         \/ /\ req'[x].conn = req[x].conn /\ req'[x].id = req[x].id
                            /\ req'[x].row = req[x].row /\ req'[x].pc = req[x].pc
  PROVE  ConnInv'
<1>1. CacheHolds'
  <2> SUFFICES ASSUME NEW a \in Accounts, connections[a] # None
               PROVE  /\ client'[connections[a].conn] # None
                      /\ client'[connections[a].conn].account = a
    BY DEF CacheHolds
  <2>1. PICK c \in Conns : c = connections[a].conn
    BY CacheFields
  <2>2. Referred(c) /\ client[c] # None /\ client[c].account = a
    BY <2>1 DEF Referred, ConnInv, CacheHolds
  <2> QED
    BY <2>1, <2>2
<1>2. ASSUME NEW x \in Reqs, req'[x].conn = req[x].conn, req'[x].id = req[x].id,
             req'[x].row = req[x].row, req'[x].pc = req[x].pc, req'[x].conn # None
      PROVE  Held(x)'
  <2>1. PICK c \in Conns : c = req[x].conn
    BY <1>2, ReqFields
  <2>2. Referred(c) /\ client[c] # None
    BY <1>2, <2>1 DEF Referred, ConnInv, Held
  <2>3. /\ client'[c] # None /\ client'[c].id = client[c].id
        /\ client'[c].account = client[c].account
    BY <2>2
  <2> QED
    BY <1>2, <2>1, <2>3 DEF ConnInv, Held
<1>3. \A x \in Reqs : Held(x)'
  BY <1>2 DEF Held
<1> QED
  BY <1>1, <1>3 DEF ConnInv

LEMMA ConnStep == TypeInv /\ ConnInv /\ [Next]_vars => ConnInv'
<1> SUFFICES ASSUME TypeInv, ConnInv, [Next]_vars PROVE ConnInv'
  OBVIOUS
<1>1. ASSUME NEW r \in Reqs, Moves(r), Held(r)', UNCHANGED <<connections, client>>
      PROVE  ConnInv'
  <2>1. \A x \in Reqs : x = r \/ req'[x] = req[x]
    BY <1>1 DEF Moves
  <2> QED
    BY <1>1, <2>1, ConnGoes
<1>2. ASSUME NEW r \in Reqs,
             CheckDuplicate(r) \/ BeginUpdate(r) \/ BeginUse(r) \/ SaveRow(r) \/ WriteKey(r)
               \/ CacheMiss(r) \/ Retry(r)
      PROVE  ConnInv'
  <2>1. Moves(r) /\ req'[r].conn = None
    BY <1>2, CheckDuplicateMoves, BeginUpdateMoves, BeginUseMoves, SaveRowMoves,
       WriteKeyMoves, CacheMissMoves, RetryMoves, EndMoves, IdleFields DEF Ends
  <2>2. UNCHANGED <<connections, client>>
    BY <1>2 DEF CheckDuplicate, BeginUpdate, BeginUse, SaveRow, WriteKey, CacheMiss, Retry
  <2> QED
    BY <1>1, <2>1, <2>2 DEF Held
<1>3. ASSUME NEW r \in Reqs, Commit(r) \/ GiveUp(r) \/ EndUse(r) \/ Fails(r) PROVE ConnInv'
  <2>1. Ends(r) /\ Moves(r)
    BY <1>3, CommitMoves, GiveUpMoves, EndUseMoves, FailsMoves, EndMoves
  <2>2. UNCHANGED <<connections, client>>
    BY <1>3 DEF Commit, GiveUp, EndUse, Fails
  <2> QED
    BY <1>1, <2>1, <2>2, IdleFields DEF Held, Ends
<1>4. ASSUME NEW r \in Reqs, CacheHit(r) PROVE ConnInv'
  <2>1. /\ Moves(r) /\ Keeps(r) /\ req[r].row \in Row /\ req'[r].pc # "prepare"
        /\ connections[req[r].row.account] \in Cached
        /\ req'[r].conn = connections[req[r].row.account].conn
    BY <1>4, CacheHitMoves DEF Served
  <2>2. UNCHANGED <<connections, client>>
    BY <1>4 DEF CacheHit
  <2>3. req[r].row.account \in Accounts /\ connections[req[r].row.account] # None
    BY <2>1, SshAssumption DEF Row
  <2>4. Held(r)'
    BY <2>1, <2>2, <2>3 DEF Held, Keeps, ConnInv, CacheHolds
  <2> QED
    BY <1>1, <2>1, <2>2, <2>4
<1>5. ASSUME NEW r \in Reqs, Connect(r) PROVE ConnInv'
  <2>1. PICK c \in Conns :
         /\ Moves(r) /\ Keeps(r) /\ req'[r].conn = c /\ client[c] = None
         /\ req[r].row \in Row /\ req[r].id \in Ids
         /\ client' = [client EXCEPT ![c] = [account |-> req[r].row.account, id |-> req[r].id,
                                             alive |-> TRUE]]
    BY <1>5, ConnectMoves
  <2>2. PICK k : k = [account |-> req[r].row.account, id |-> req[r].id, alive |-> TRUE]
    OBVIOUS
  <2>3. k \in Client /\ k.account = req[r].row.account /\ k.id = req[r].id
    BY <2>1, <2>2 DEF Client, Row
  <2>4. \A d \in Conns : client'[d] = IF d = c THEN k ELSE client[d]
    BY <2>1, <2>2 DEF TypeInv, TypeOK
  <2>5. k # None
    BY <2>3, SshAssumption
  <2>6. Held(r)'
    BY <2>1, <2>3, <2>4, <2>5 DEF Held, Keeps
  <2>7. \A x \in Reqs : x = r \/ req'[x] = req[x]
    BY <2>1 DEF Moves
  <2>8. connections' = connections
    BY <1>5 DEF Connect
  <2>9. \A d \in Conns : client[d] # None => client'[d] = client[d]
    BY <2>1, <2>4
  <2> QED
    BY <2>6, <2>7, <2>8, <2>9, ConnGoes
<1>6. ASSUME NEW r \in Reqs, Prepared(r) PROVE ConnInv'
  <2>1. /\ Moves(r) /\ Keeps(r) /\ req'[r].conn = req[r].conn /\ req[r].conn \in Conns
        /\ req'[r].pc # "prepare"
    BY <1>6, PreparedMoves DEF Served
  <2>2. /\ connections' = [connections EXCEPT ![req[r].row.account] =
                             [conn |-> req[r].conn, expire |-> now + SSH_CACHE]]
        /\ client' = client
    BY <1>6 DEF Prepared
  <2>3. /\ client[req[r].conn] # None
        /\ client[req[r].conn].account = req[r].row.account
    BY <2>1, SshAssumption DEF ConnInv, Held
  <2>4. CacheHolds'
    <3> SUFFICES ASSUME NEW a \in Accounts, connections'[a] # None
                 PROVE  /\ client[connections'[a].conn] # None
                        /\ client[connections'[a].conn].account = a
      BY <2>2 DEF CacheHolds
    <3>1. CASE a = req[r].row.account
      <4>1. connections'[a].conn = req[r].conn
        BY <2>2, <3>1 DEF TypeInv, TypeOK
      <4> QED
        BY <2>3, <3>1, <4>1
    <3>2. CASE a # req[r].row.account
      <4>1. connections'[a] = connections[a]
        BY <2>2, <3>2 DEF TypeInv, TypeOK
      <4> QED
        BY <4>1 DEF ConnInv, CacheHolds
    <3> QED
      BY <3>1, <3>2
  <2>5. \A x \in Reqs : x = r \/ req'[x] = req[x]
    BY <2>1 DEF Moves
  <2>6. ASSUME NEW x \in Reqs PROVE Held(x)'
    <3>1. CASE x = r
      BY <2>1, <2>2, <2>3, <3>1 DEF Held, Keeps
    <3>2. CASE x # r
      BY <2>2, <2>5, <3>2 DEF ConnInv, Held
    <3> QED
      BY <3>1, <3>2
  <2> QED
    BY <2>4, <2>6 DEF ConnInv
<1>7. CASE Quiet
  <2>1. UNCHANGED <<req, connections>> /\ ClientsLike /\ Collected
    BY <1>7, QuietFrame DEF Frame
  <2>2. \A c \in Conns : client[c] # None /\ Referred(c) =>
            /\ client'[c] # None /\ client'[c].id = client[c].id
            /\ client'[c].account = client[c].account
    BY <2>1 DEF ClientsLike, Collected
  <2> QED
    BY <2>1, <2>2, ConnGoes
<1>8. CASE Restart
  <2>1. /\ \A a \in Accounts : connections'[a] = None
        /\ \A r \in Reqs : req'[r].conn = None
    BY <1>8, IdleFields DEF Restart
  <2> QED
    BY <2>1 DEF ConnInv, CacheHolds, Held
<1> QED
  BY <1>2, <1>3, <1>4, <1>5, <1>6, <1>7, <1>8, StepCases

LEMMA ConnStays == Spec => [](TypeInv /\ ConnInv)
<1>1. Init => ConnInv
  BY IdleFields DEF Init, ConnInv, CacheHolds, Held
<1> QED
  BY <1>1, Typed, ConnStep, PTL DEF Spec

-----------------------------------------------------------------------------
(* The registry: who may have a row, a key file or a client under an id. *)

\* Nothing has an id that AUTO_INCREMENT has not given yet.
Untouched ==
  \A i \in fresh : /\ rows[i] = None /\ keyFile[i] = None
                   /\ \A r \in Reqs : req[r].id # i
                   /\ \A c \in Conns : client[c] # None => client[c].id # i

\* The cache has a client of this id.
CachedFor(i) == \E a \in Accounts : connections[a] # None /\ client[connections[a].conn].id = i

\* A creation is alone with its id and, thanks to the unique index, with its account.
Creates(r) == req[r].kind = "create" /\ req[r].id # None
Alone(r) ==
  /\ rows[req[r].id] = None
  /\ \A q \in Reqs : req[q].id = req[r].id => q = r
  /\ req[r].pc # "key" => keyFile[req[r].id] # None
  /\ req[r].pc # "commit" => ~CachedFor(req[r].id)
  /\ \A i \in Ids : rows[i] # None => rows[i].account # req[r].row.account
  /\ \A q \in Reqs : Creates(q) /\ req[q].row.account = req[r].row.account => q = r
CreatorsAlone == \A r \in Reqs : Creates(r) => Alone(r)

\* The others work for a row that exists.
Owned(r) == /\ rows[req[r].id] # None
            /\ rows[req[r].id].account = req[r].row.account
            /\ rows[req[r].id].port = req[r].row.port
OthersOwn == \A r \in Reqs : req[r].kind \in {"update", "use"} => Owned(r)

UniqueRows == \A i, j \in Ids : rows[i] # None /\ rows[j] # None
                                  /\ rows[i].account = rows[j].account => i = j

RowsKeyed == \A i \in Ids : rows[i] # None => keyFile[i] # None

RegInv == Untouched /\ CreatorsAlone /\ OthersOwn /\ UniqueRows /\ RowsKeyed

LEMMA FreshUncached ==
  ASSUME TypeInv, ConnInv, RegInv, NEW i \in fresh PROVE ~CachedFor(i)
BY CacheFields DEF CachedFor, ConnInv, CacheHolds, RegInv, Untouched

LEMMA RegInit == Init => RegInv
<1> SUFFICES ASSUME Init PROVE RegInv
  OBVIOUS
<1>1. /\ \A i \in Ids : rows[i] = None /\ keyFile[i] = None
      /\ \A r \in Reqs : req[r] = Idle
      /\ \A c \in Conns : client[c] = None
      /\ fresh \subseteq Ids
  BY DEF Init
<1>2. \A i \in Ids : i # None
  BY SshAssumption
<1>3. Untouched
  BY <1>1, <1>2, IdleFields DEF Untouched
<1>4. CreatorsAlone /\ OthersOwn
  BY <1>1, IdleFields DEF CreatorsAlone, Creates, OthersOwn
<1> QED
  BY <1>1, <1>3, <1>4 DEF RegInv, UniqueRows, RowsKeyed

\* A request goes from one step to the next: rows, ids and key files stay.
LEMMA RegGoes ==
  ASSUME TypeInv, RegInv, NEW r \in Reqs, Moves(r), Keeps(r),
         UNCHANGED <<rows, fresh, keyFile>>,
         req[r].pc \in {"lookup", "connect", "prepare"},
         req'[r].pc \in {"connect", "prepare", "using", "commit"},
         \A c \in Conns : client'[c] # None =>
            \/ client[c] # None /\ client'[c].id = client[c].id
            \/ client'[c].id = req[r].id,
         \A i : CachedFor(i)' => \/ CachedFor(i)
                                 \/ i = req[r].id /\ req'[r].pc \in {"using", "commit"}
  PROVE  RegInv'
<1>1. \A x \in Reqs : /\ req'[x].id = req[x].id /\ req'[x].kind = req[x].kind
                      /\ req'[x].row = req[x].row
                      /\ x = r \/ req'[x].pc = req[x].pc
  BY DEF Moves, Keeps
<1>2. UniqueRows' /\ RowsKeyed' /\ OthersOwn'
  BY <1>1 DEF RegInv, UniqueRows, RowsKeyed, OthersOwn, Owned
<1>3. Untouched'
  BY <1>1, ReqFields DEF RegInv, Untouched
<1>4. ASSUME NEW x \in Reqs, Creates(x)' PROVE Alone(x)'
  <2>1. Creates(x) /\ Alone(x)
    BY <1>1, <1>4 DEF RegInv, CreatorsAlone, Creates
  <2>2. req[x].id = req[r].id => x = r
    BY <2>1 DEF Alone
  <2>3. ASSUME req'[x].pc # "commit", NEW i, i = req[x].id, CachedFor(i)' PROVE FALSE
    <3>1. req[x].pc # "commit"
      BY <1>1, <2>3
    <3>2. ~CachedFor(i)
      BY <2>1, <2>3, <3>1 DEF Alone
    <3>3. x = r /\ req'[r].pc \in {"using", "commit"}
      BY <2>2, <2>3, <3>2
    <3>4. req'[r].kind = "create"
      BY <1>1, <2>1, <3>3 DEF Creates
    <3> QED
      BY <2>3, <3>3, <3>4 DEF Moves, Shaped
  <2>4. \A q \in Reqs : Creates(q)' => Creates(q)
    BY <1>1 DEF Creates
  <2>5. req'[x].pc # "key" => keyFile[req[x].id] # None
    BY <1>1, <2>1 DEF Alone
  <2> QED
    BY <1>1, <2>1, <2>3, <2>4, <2>5 DEF Alone, CachedFor
<1> QED
  BY <1>2, <1>3, <1>4 DEF RegInv, CreatorsAlone

\* A request ends and leaves rows and ids alone.
LEMMA RegEnds ==
  ASSUME TypeInv, RegInv, NEW r \in Reqs, Ends(r),
         UNCHANGED <<rows, fresh, client, connections>>,
         \A i \in Ids : keyFile'[i] = keyFile[i] \/ (Creates(r) /\ i = req[r].id)
  PROVE  RegInv'
<1>1. \A x \in Reqs : x = r \/ req'[x] = req[x]
  BY DEF Ends
<1>2. req'[r].kind = "none" /\ req'[r].id = None
  BY IdleFields DEF Ends
<1>3. fresh \subseteq Ids /\ \A i \in Ids : i # None
  BY SshAssumption DEF TypeInv, TypeOK
<1>4. \A i \in Ids : rows[i] # None \/ i \in fresh => keyFile'[i] = keyFile[i]
  BY DEF RegInv, CreatorsAlone, Alone, Untouched
<1>5. UniqueRows' /\ RowsKeyed'
  BY <1>4 DEF RegInv, UniqueRows, RowsKeyed
<1>6. OthersOwn'
  BY <1>1, <1>2 DEF RegInv, OthersOwn, Owned
<1>7. Untouched'
  BY <1>1, <1>2, <1>3, <1>4 DEF RegInv, Untouched
<1>8. ASSUME NEW x \in Reqs, Creates(x)' PROVE Alone(x)'
  <2>1. x # r /\ req'[x] = req[x] /\ Creates(x) /\ Alone(x)
    BY <1>1, <1>2, <1>8 DEF RegInv, CreatorsAlone, Creates
  <2>2. \A q \in Reqs : req'[q].id = req[x].id => q = x
    BY <1>1, <1>2, <2>1 DEF Alone, Creates
  <2>3. \A q \in Reqs : Creates(q)' => Creates(q) /\ req'[q] = req[q]
    BY <1>1, <1>2 DEF Creates
  <2>4. req[x].id \in Ids
    BY <2>1, ReqFields DEF Creates
  <2>5. keyFile'[req[x].id] = keyFile[req[x].id]
    BY <2>1, <2>4 DEF Alone
  <2> QED
    BY <2>1, <2>2, <2>3, <2>5 DEF Alone, CachedFor
<1> QED
  BY <1>5, <1>6, <1>7, <1>8 DEF RegInv, CreatorsAlone

\* A request begins, or is saved under an id of its own.
LEMMA RegBegins ==
  ASSUME TypeInv, ConnInv, RegInv, NEW r \in Reqs, Moves(r),
         UNCHANGED <<rows, keyFile, client, connections>>, fresh' \subseteq fresh,
         \/ req'[r].id = None /\ req'[r].kind = "create"
         \/ /\ req'[r].id \in Ids \ fresh /\ req'[r].kind \in {"update", "use"}
            /\ rows[req'[r].id] # None /\ rows[req'[r].id] = req'[r].row
         \/ /\ req'[r].id \in fresh /\ fresh' = fresh \ {req'[r].id}
            /\ req'[r].pc = "key" /\ req'[r].kind = "create"
            /\ \A i \in Ids : rows[i] # None => rows[i].account # req'[r].row.account
            /\ \A q \in Reqs \ {r} : Creates(q) => req[q].row.account # req'[r].row.account
  PROVE  RegInv'
<1>1. \A x \in Reqs : x = r \/ req'[x] = req[x]
  BY DEF Moves
<1>2. fresh \subseteq Ids /\ \A i \in Ids : i # None
  BY SshAssumption DEF TypeInv, TypeOK
<1>3. UniqueRows' /\ RowsKeyed'
  BY DEF RegInv, UniqueRows, RowsKeyed
<1>4. OthersOwn'
  BY <1>1 DEF RegInv, OthersOwn, Owned
<1>5. Untouched'
  <2>1. \A i \in fresh' : i \in fresh /\ req'[r].id # i
    BY <1>2
  <2> QED
    BY <1>1, <2>1 DEF RegInv, Untouched
<1>6. ASSUME NEW x \in Reqs \ {r}, Creates(x)' PROVE Alone(x)'
  <2>1. req'[x] = req[x] /\ Creates(x) /\ Alone(x)
    BY <1>1, <1>6 DEF RegInv, CreatorsAlone, Creates
  <2>2. req[x].id # None /\ req[x].id \notin fresh
    BY <2>1 DEF Creates, RegInv, Untouched
  <2>3. req'[r].id # req[x].id
    BY <2>1, <2>2 DEF Alone
  <2>4. \A q \in Reqs : req'[q].id = req[x].id => q = x
    BY <1>1, <2>1, <2>3 DEF Alone
  <2>5. Creates(r)' => req'[r].row.account # req[x].row.account
    BY <1>2, <2>1 DEF Creates
  <2>6. \A q \in Reqs : Creates(q)' /\ req'[q].row.account = req[x].row.account => q = x
    <3>1. \A q \in Reqs : q # r /\ Creates(q)' => Creates(q)
      BY <1>1 DEF Creates
    <3> QED
      BY <1>1, <2>1, <2>5, <3>1 DEF Alone
  <2> QED
    BY <2>1, <2>4, <2>6 DEF Alone, CachedFor
<1>7. ASSUME Creates(r)' PROVE Alone(r)'
  <2>1. /\ req'[r].id \in fresh /\ req'[r].pc = "key"
        /\ \A i \in Ids : rows[i] # None => rows[i].account # req'[r].row.account
        /\ \A q \in Reqs \ {r} : Creates(q) => req[q].row.account # req'[r].row.account
    BY <1>2, <1>7 DEF Creates
  <2>2. /\ rows[req'[r].id] = None
        /\ \A q \in Reqs : q # r => req'[q].id # req'[r].id
        /\ ~CachedFor(req'[r].id)
    BY <1>1, <2>1, FreshUncached DEF RegInv, Untouched
  <2>3. \A q \in Reqs : Creates(q)' /\ req'[q].row.account = req'[r].row.account => q = r
    <3>1. \A q \in Reqs : q # r /\ Creates(q)' => Creates(q)
      BY <1>1 DEF Creates
    <3> QED
      BY <1>1, <2>1, <3>1
  <2> QED
    BY <2>1, <2>2, <2>3 DEF Alone, CachedFor
<1> QED
  BY <1>3, <1>4, <1>5, <1>6, <1>7 DEF RegInv, CreatorsAlone

\* A creation writes its key file.
LEMMA RegWritesKey ==
  ASSUME TypeInv, RegInv, NEW r \in Reqs, WriteKey(r)
  PROVE  RegInv'
<1>1. /\ Moves(r) /\ Keeps(r) /\ req'[r].pc = "lookup" /\ req[r].pc = "key"
      /\ req[r].kind = "create" /\ req[r].key # None /\ req[r].id \in Ids
      /\ keyFile' = [keyFile EXCEPT ![req[r].id] = req[r].key]
      /\ UNCHANGED <<rows, fresh, client, connections>>
  BY WriteKeyMoves, BusyFields, SshAssumption DEF WriteKey, At, TypeInv, Shaped
<1>2. \A x \in Reqs : /\ req'[x].id = req[x].id /\ req'[x].kind = req[x].kind
                      /\ req'[x].row = req[x].row
                      /\ x = r \/ req'[x].pc = req[x].pc
  BY <1>1 DEF Moves, Keeps
<1>3. keyFile'[req[r].id] # None /\ \A i \in Ids : i # req[r].id => keyFile'[i] = keyFile[i]
  BY <1>1 DEF TypeInv, TypeOK
<1>4. \A i \in Ids : keyFile[i] # None => keyFile'[i] # None
  BY <1>3
<1>5. UniqueRows' /\ RowsKeyed' /\ OthersOwn'
  BY <1>1, <1>2, <1>4 DEF RegInv, UniqueRows, RowsKeyed, OthersOwn, Owned
<1>6. Untouched'
  <2>1. fresh \subseteq Ids
    BY DEF TypeInv, TypeOK
  <2> QED
    BY <1>1, <1>2, <1>3, <2>1 DEF RegInv, Untouched
<1>7. ASSUME NEW x \in Reqs, Creates(x)' PROVE Alone(x)'
  <2>1. Creates(x) /\ Alone(x) /\ req[x].id \in Ids
    BY <1>2, <1>7, ReqFields DEF RegInv, CreatorsAlone, Creates
  <2>2. req'[x].pc # "key" => keyFile'[req[x].id] # None
    BY <1>2, <1>3, <1>4, <2>1 DEF Alone
  <2>3. req'[x].pc # "commit" => req[x].pc # "commit"
    BY <1>1, <1>2
  <2>4. \A q \in Reqs : Creates(q)' => Creates(q)
    BY <1>2 DEF Creates
  <2> QED
    BY <1>1, <1>2, <2>1, <2>2, <2>3, <2>4 DEF Alone, CachedFor
<1> QED
  BY <1>5, <1>6, <1>7 DEF RegInv, CreatorsAlone

\* A row is committed by a creation, or again by an update.
LEMMA RegCommits ==
  ASSUME TypeInv, RegInv, NEW r \in Reqs, Commit(r)
  PROVE  RegInv'
<1> DEFINE k == req[r].id
<1>1. /\ Ends(r) /\ req[r].pc = "commit" /\ k \in Ids /\ req[r].row \in Row
      /\ req[r].kind \in {"create", "update"}
      /\ rows' = [rows EXCEPT ![k] = req[r].row] /\ UNCHANGED <<fresh, keyFile, client, connections>>
  <2>1. req[r].pc = "commit"
    BY DEF Commit, At
  <2>2. req[r].kind # "none"
    BY <2>1 DEF TypeInv, Shaped
  <2> QED
    BY <2>1, <2>2, CommitMoves, BusyFields, ReqFields DEF Commit
<1>2. \A x \in Reqs : x = r \/ req'[x] = req[x]
  BY <1>1 DEF Ends
<1>3. req'[r].kind = "none" /\ req'[r].id = None
  BY <1>1, IdleFields DEF Ends
<1>4. rows'[k] = req[r].row /\ req[r].row # None /\ \A i \in Ids : i # k => rows'[i] = rows[i]
  BY <1>1, SshAssumption DEF TypeInv, TypeOK
<1>5. Creates(r) => Alone(r)
  BY DEF RegInv, CreatorsAlone
<1>6. req[r].kind = "update" => Owned(r)
  BY DEF RegInv, OthersOwn
<1>7. k # None
  BY <1>1, SshAssumption
<1>8. \A i \in Ids : rows[i] # None /\ rows[i].account = req[r].row.account => i = k
  BY <1>1, <1>5, <1>6, <1>7 DEF Creates, Alone, Owned, RegInv, UniqueRows
<1>9. UniqueRows'
  BY <1>4, <1>8 DEF RegInv, UniqueRows
<1>10. keyFile[k] # None
  BY <1>1, <1>5, <1>6, <1>7 DEF Creates, Alone, Owned, RegInv, RowsKeyed
<1>11. RowsKeyed'
  BY <1>1, <1>4, <1>10 DEF RegInv, RowsKeyed
<1>12. OthersOwn'
  <2> SUFFICES ASSUME NEW x \in Reqs, req'[x].kind \in {"update", "use"} PROVE Owned(x)'
    BY DEF OthersOwn
  <2>1. x # r /\ req'[x] = req[x] /\ Owned(x) /\ req[x].id \in Ids
    BY <1>2, <1>3, ReqFields DEF RegInv, OthersOwn
  <2>2. req[x].id = k => /\ req[x].row.account = req[r].row.account
                         /\ req[x].row.port = req[r].row.port
    BY <1>1, <1>5, <1>6, <1>7, <2>1 DEF Creates, Alone, Owned
  <2> QED
    BY <1>4, <2>1, <2>2 DEF Owned
<1>13. Untouched'
  <2>1. fresh \subseteq Ids /\ k \notin fresh /\ \A i \in Ids : i # None
    BY SshAssumption DEF RegInv, Untouched, TypeInv, TypeOK
  <2> QED
    BY <1>1, <1>2, <1>3, <1>4, <2>1 DEF RegInv, Untouched
<1>14. ASSUME NEW x \in Reqs, Creates(x)' PROVE Alone(x)'
  <2>1. x # r /\ req'[x] = req[x] /\ Creates(x) /\ Alone(x) /\ req[x].id \in Ids
    BY <1>2, <1>3, <1>14, ReqFields DEF RegInv, CreatorsAlone, Creates
  <2>2. k # req[x].id
    BY <2>1 DEF Alone
  <2>3. req[r].row.account # req[x].row.account
    BY <1>1, <1>6, <1>7, <2>1 DEF Alone, Creates, Owned
  <2>4. \A i \in Ids : rows'[i] # None => rows'[i].account # req[x].row.account
    BY <1>4, <2>1, <2>3 DEF Alone
  <2>5. \A q \in Reqs : req'[q].id = req[x].id => q = x
    BY <1>2, <1>3, <2>1 DEF Alone, Creates
  <2>6. \A q \in Reqs : Creates(q)' => Creates(q) /\ req'[q] = req[q]
    BY <1>2, <1>3 DEF Creates
  <2>7. rows'[req[x].id] = None
    BY <1>4, <2>1, <2>2 DEF Alone
  <2> QED
    BY <1>1, <2>1, <2>4, <2>5, <2>6, <2>7 DEF Alone, CachedFor
<1> QED
  BY <1>9, <1>11, <1>12, <1>13, <1>14 DEF RegInv, CreatorsAlone

\* Requests and files stay; rows keep their accounts, clients their ids.
LEMMA RegRests ==
  ASSUME RegInv, UNCHANGED <<req, fresh, keyFile>>,
         \A i \in Ids : /\ rows'[i] = None <=> rows[i] = None
                        /\ rows[i] # None => /\ rows'[i].account = rows[i].account
                                             /\ rows'[i].port = rows[i].port,
         \A c \in Conns : client'[c] # None => client[c] # None /\ client'[c].id = client[c].id,
         \A i : CachedFor(i)' => CachedFor(i),
         TypeInv
  PROVE  RegInv'
<1>1. UniqueRows' /\ RowsKeyed'
  BY DEF RegInv, UniqueRows, RowsKeyed
<1>2. OthersOwn'
  BY ReqFields DEF RegInv, OthersOwn, Owned
<1>3. fresh \subseteq Ids
  BY DEF TypeInv, TypeOK
<1>4. Untouched'
  BY <1>3 DEF RegInv, Untouched
<1>5. ASSUME NEW x \in Reqs, Creates(x)' PROVE Alone(x)'
  <2>1. Creates(x) /\ Alone(x) /\ req[x].id \in Ids
    BY <1>5, ReqFields DEF RegInv, CreatorsAlone, Creates
  <2> QED
    BY <2>1 DEF Alone, Creates
<1> QED
  BY <1>1, <1>2, <1>4, <1>5 DEF RegInv, CreatorsAlone

LEMMA RegEndsPlain ==
  ASSUME TypeInv, RegInv, NEW r \in Reqs, Ends(r),
         UNCHANGED <<rows, fresh, keyFile, client, connections>>
  PROVE  RegInv'
<1>1. \A i \in Ids : keyFile'[i] = keyFile[i] \/ (Creates(r) /\ i = req[r].id)
  OBVIOUS
<1> QED
  BY <1>1, RegEnds

LEMMA RegStep == TypeInv /\ ConnInv /\ RegInv /\ [Next]_vars => RegInv'
<1> SUFFICES ASSUME TypeInv, ConnInv, RegInv, [Next]_vars PROVE RegInv'
  OBVIOUS
<1>0. fresh \subseteq Ids /\ \A i \in Ids : i # None
  BY SshAssumption DEF TypeInv, TypeOK
<1>1. ASSUME NEW r \in Reqs, CheckDuplicate(r) PROVE RegInv'
  <2>1. req'[r].pc = "save" /\ req'[r].id = None /\ Moves(r)
    BY <1>1, CheckDuplicateMoves
  <2>2. req'[r].kind = "create"
    BY <2>1 DEF Moves, Shaped
  <2>3. UNCHANGED <<rows, keyFile, client, connections>> /\ fresh' \subseteq fresh
    BY <1>1 DEF CheckDuplicate
  <2> QED
    BY <2>1, <2>2, <2>3, RegBegins
<1>2. ASSUME NEW r \in Reqs, SaveRow(r) PROVE RegInv'
  <2>1. UNCHANGED <<rows, keyFile, client, connections>>
    BY <1>2 DEF SaveRow
  <2>2. CASE Ends(r) /\ fresh' = fresh
    BY <2>1, <2>2, RegEndsPlain
  <2>3. ASSUME NEW i \in fresh,
               Moves(r), fresh' = fresh \ {i},
               req'[r].pc = "key", req'[r].kind = "create",
               req'[r].id = i, req'[r].row = req[r].row,
               \A j \in Ids : rows[j] # None => rows[j].account # req[r].row.account,
               \A q \in Writing(r) : req[q].row.account # req[r].row.account
        PROVE  RegInv'
    <3>1. \A q \in Reqs \ {r} : Creates(q) => q \in Writing(r)
      BY ReqFields DEF Creates, Writing
    <3> QED
      BY <2>1, <2>3, <3>1, RegBegins
  <2> QED
    BY <1>2, <2>2, <2>3, SaveRowMoves
<1>3. ASSUME NEW r \in Reqs, WriteKey(r) PROVE RegInv'
  BY <1>3, RegWritesKey
<1>4. ASSUME NEW r \in Reqs, BeginUpdate(r) PROVE RegInv'
  <2>1. UNCHANGED <<rows, keyFile, client, connections>> /\ fresh' \subseteq fresh
    BY <1>4 DEF BeginUpdate
  <2>2. /\ Moves(r) /\ req'[r].kind = "update" /\ req'[r].id \in Ids
        /\ rows[req'[r].id] # None /\ req'[r].row = rows[req'[r].id]
    BY <1>4, BeginUpdateMoves
  <2>3. req'[r].id \notin fresh
    BY <2>2 DEF RegInv, Untouched
  <2> QED
    BY <2>1, <2>2, <2>3, RegBegins
<1>5. ASSUME NEW r \in Reqs, BeginUse(r) PROVE RegInv'
  <2>1. UNCHANGED <<rows, keyFile, client, connections>> /\ fresh' \subseteq fresh
    BY <1>5 DEF BeginUse
  <2>2. /\ Moves(r) /\ req'[r].kind = "use" /\ req'[r].id \in Ids
        /\ rows[req'[r].id] # None /\ req'[r].row = rows[req'[r].id]
    BY <1>5, BeginUseMoves
  <2>3. req'[r].id \notin fresh
    BY <2>2 DEF RegInv, Untouched
  <2> QED
    BY <2>1, <2>2, <2>3, RegBegins
<1>6. ASSUME NEW r \in Reqs, Commit(r) PROVE RegInv'
  BY <1>6, RegCommits
<1>7. ASSUME NEW r \in Reqs, CacheHit(r) PROVE RegInv'
  <2>1. /\ Moves(r) /\ Keeps(r) /\ req[r].pc = "lookup" /\ req'[r].pc \in {"using", "commit"}
    BY <1>7, CacheHitMoves DEF Served
  <2>2. UNCHANGED <<rows, fresh, keyFile, client, connections>>
    BY <1>7 DEF CacheHit
  <2> QED
    BY <2>1, <2>2, RegGoes DEF CachedFor
<1>8. ASSUME NEW r \in Reqs, CacheMiss(r) PROVE RegInv'
  <2>1. UNCHANGED <<rows, fresh, keyFile, client, connections>>
    BY <1>8 DEF CacheMiss
  <2> QED
    BY <1>8, <2>1, CacheMissMoves, RegGoes DEF CachedFor
<1>9. ASSUME NEW r \in Reqs, Connect(r) PROVE RegInv'
  <2>1. PICK c \in Conns :
         /\ Moves(r) /\ Keeps(r) /\ req[r].pc = "connect" /\ req'[r].pc = "prepare"
         /\ client[c] = None
         /\ client' = [client EXCEPT ![c] = [account |-> req[r].row.account, id |-> req[r].id,
                                             alive |-> TRUE]]
    BY <1>9, ConnectMoves
  <2>2. UNCHANGED <<rows, fresh, keyFile, connections>>
    BY <1>9 DEF Connect
  <2>3. PICK k : k = [account |-> req[r].row.account, id |-> req[r].id, alive |-> TRUE]
    OBVIOUS
  <2>4. /\ k.id = req[r].id
        /\ \A d \in Conns : client'[d] = IF d = c THEN k ELSE client[d]
    BY <2>1, <2>3 DEF TypeInv, TypeOK
  <2>5. \A i : CachedFor(i)' => CachedFor(i)
    <3> SUFFICES ASSUME NEW i, NEW a \in Accounts, connections[a] # None,
                        client'[connections[a].conn].id = i
                 PROVE  CachedFor(i)
      BY <2>2 DEF CachedFor
    <3>1. connections[a].conn \in Conns /\ client[connections[a].conn] # None
      BY CacheFields DEF ConnInv, CacheHolds
    <3>2. client'[connections[a].conn] = client[connections[a].conn]
      BY <2>1, <2>4, <3>1
    <3> QED
      BY <3>2 DEF CachedFor
  <2> QED
    BY <2>1, <2>2, <2>4, <2>5, RegGoes
<1>16. ASSUME NEW r \in Reqs, Prepared(r) PROVE RegInv'
  <2>1. /\ Moves(r) /\ Keeps(r) /\ req[r].pc = "prepare" /\ req'[r].pc \in {"using", "commit"}
        /\ req[r].conn \in Conns
    BY <1>16, PreparedMoves DEF Served
  <2>2. /\ UNCHANGED <<rows, fresh, keyFile, client>>
        /\ connections' = [connections EXCEPT ![req[r].row.account] =
                             [conn |-> req[r].conn, expire |-> now + SSH_CACHE]]
    BY <1>16 DEF Prepared
  <2>3. client[req[r].conn].id = req[r].id
    BY <2>1, SshAssumption DEF ConnInv, Held
  <2>4. \A a \in Accounts : \/ connections'[a] = connections[a]
                            \/ connections'[a].conn = req[r].conn
    BY <2>2 DEF TypeInv, TypeOK
  <2>5. \A i : CachedFor(i)' => CachedFor(i) \/ i = req[r].id
    BY <2>2, <2>3, <2>4 DEF CachedFor
  <2> QED
    BY <2>1, <2>2, <2>5, RegGoes
<1>10. ASSUME NEW r \in Reqs, Retry(r) PROVE RegInv'
  <2>1. UNCHANGED <<rows, fresh, keyFile, client, connections>>
    BY <1>10 DEF Retry
  <2> QED
    BY <1>10, <2>1, RetryMoves, RegGoes DEF CachedFor
<1>11. ASSUME NEW r \in Reqs, GiveUp(r) PROVE RegInv'
  <2>1. /\ UNCHANGED <<rows, fresh, client, connections>>
        /\ req[r].pc \in {"connect", "prepare"} /\ Ends(r)
    BY <1>11, GiveUpMoves DEF GiveUp, MayFail, At
  <2>2. req[r].id # None /\ req[r].id \in Ids
    BY <2>1, ReqFields
  <2>3. \A i \in Ids : keyFile'[i] = keyFile[i] \/ (Creates(r) /\ i = req[r].id)
    <3>1. keyFile \in [Ids -> KeyFiles \union {None}]
      BY DEF TypeInv, TypeOK
    <3>2. keyFile' = IF req[r].kind = "create" THEN [keyFile EXCEPT ![req[r].id] = None] ELSE keyFile
      BY <1>11 DEF GiveUp
    <3>3. CASE req[r].kind = "create"
      BY <2>2, <3>1, <3>2, <3>3 DEF Creates
    <3>4. CASE req[r].kind # "create"
      BY <3>2, <3>4
    <3> QED
      BY <3>3, <3>4
  <2> QED
    BY <2>1, <2>3, RegEnds
<1>12. ASSUME NEW r \in Reqs, EndUse(r) PROVE RegInv'
  <2>1. UNCHANGED <<rows, fresh, keyFile, client, connections>>
    BY <1>12 DEF EndUse
  <2> QED
    BY <1>12, <2>1, EndUseMoves, RegEndsPlain
<1>13. ASSUME NEW r \in Reqs, Fails(r) PROVE RegInv'
  <2>1. UNCHANGED <<rows, fresh, keyFile, client, connections>>
    BY <1>13 DEF Fails
  <2> QED
    BY <1>13, <2>1, FailsMoves, RegEndsPlain
<1>14. CASE Quiet
  <2>1. /\ UNCHANGED <<req, fresh, keyFile>>
        /\ \A i \in Ids : /\ rows'[i] = None <=> rows[i] = None
                          /\ rows[i] # None => /\ rows'[i].account = rows[i].account
                                               /\ rows'[i].port = rows[i].port
        /\ \A c \in Conns : client'[c] # None => client[c] # None /\ client'[c].id = client[c].id
        /\ connections' = connections
    BY <1>14, QuietFrame DEF Frame, RowsLike, ClientsLike
  <2>2. \A i : CachedFor(i)' => CachedFor(i)
    <3>1. ConnInv'
      BY ConnStep
    <3>2. \A a \in Accounts : connections[a] # None =>
            /\ connections[a].conn \in Conns
            /\ client'[connections[a].conn] # None
      BY <2>1, <3>1, CacheFields DEF ConnInv, CacheHolds
    <3> QED
      BY <2>1, <3>2 DEF CachedFor
  <2> QED
    BY <2>1, <2>2, RegRests
<1>15. CASE Restart
  <2>1. /\ \A r \in Reqs : req'[r].id = None /\ req'[r].kind = "none"
        /\ \A c \in Conns : client'[c] = None
        /\ UNCHANGED <<rows, fresh, keyFile>>
    BY <1>15, IdleFields DEF Restart
  <2> QED
    BY <1>0, <2>1 DEF RegInv, Untouched, CreatorsAlone, Creates, OthersOwn, UniqueRows, RowsKeyed
<1> QED
  BY <1>1, <1>2, <1>3, <1>4, <1>5, <1>6, <1>7, <1>8, <1>9, <1>10, <1>11, <1>12, <1>13,
     <1>14, <1>15, <1>16, StepCases

LEMMA RegStays == Spec => [](TypeInv /\ ConnInv /\ RegInv)
<1>1. Init => RegInv
  BY RegInit
<1> QED
  BY <1>1, ConnStays, RegStep, PTL DEF Spec

-----------------------------------------------------------------------------
(* Key files. *)

NoStray == faults = 0 => \A i \in Ids : keyFile[i] # None => rows[i] # None \/ Creating(i)

\* A step of requests that are not creations past their key file takes none of them away.
LEMMA CreatingStays ==
  ASSUME NEW i, Creating(i), NEW r \in Reqs,
         \A x \in Reqs \ {r} : req'[x] = req[x],
         \/ req[r].id # i \/ req[r].kind # "create"
         \/ req[r].pc \notin {"lookup", "connect", "prepare", "commit"}
         \/ /\ req'[r].id = req[r].id /\ req'[r].kind = req[r].kind
            /\ req'[r].pc \in {"lookup", "connect", "prepare", "commit"}
  PROVE  Creating(i)'
BY DEF Creating

LEMMA StrayStep == TypeInv /\ RegInv /\ NoStray /\ [Next]_vars => NoStray'
<1> SUFFICES ASSUME TypeInv, RegInv, NoStray, [Next]_vars, faults' = 0,
                    NEW i \in Ids, keyFile'[i] # None, rows'[i] = None
             PROVE  Creating(i)'
  BY DEF NoStray
<1>0. /\ keyFile \in [Ids -> KeyFiles \union {None}] /\ rows \in [Ids -> Row \union {None}]
      /\ faults \in Nat
  BY SshAssumption DEF TypeInv, TypeOK
<1>1. ASSUME NEW r \in Reqs, CheckDuplicate(r) PROVE Creating(i)'
  <2>1. Creating(i) /\ req[r].pc = "idle"
    BY <1>1 DEF CheckDuplicate, At, NoStray
  <2> QED
    BY <1>1, <2>1, CheckDuplicateMoves, CreatingStays DEF Moves
<1>2. ASSUME NEW r \in Reqs, SaveRow(r) PROVE Creating(i)'
  <2>1. Creating(i) /\ req[r].pc = "save"
    BY <1>2 DEF SaveRow, At, NoStray
  <2>2. \A x \in Reqs \ {r} : req'[x] = req[x]
    BY <1>2, SaveRowMoves DEF Moves, Ends
  <2> QED
    BY <2>1, <2>2, CreatingStays
<1>3. ASSUME NEW r \in Reqs, WriteKey(r) PROVE Creating(i)'
  <2>1. /\ Moves(r) /\ Keeps(r) /\ req'[r].pc = "lookup" /\ req[r].pc = "key"
        /\ req[r].kind = "create"
    BY <1>3, WriteKeyMoves DEF WriteKey, At, TypeInv, Shaped
  <2>2. CASE i = req[r].id
    BY <2>1, <2>2 DEF Creating, Keeps
  <2>3. CASE i # req[r].id
    <3>1. keyFile[i] # None /\ rows[i] = None
      BY <1>0, <1>3, <2>3 DEF WriteKey
    <3>2. Creating(i)
      BY <1>3, <3>1 DEF WriteKey, NoStray
    <3> QED
      BY <2>1, <2>3, <3>2, CreatingStays DEF Moves
  <2> QED
    BY <2>2, <2>3
<1>4. ASSUME NEW r \in Reqs, BeginUpdate(r) PROVE Creating(i)'
  <2>1. Creating(i) /\ req[r].pc = "idle"
    BY <1>4 DEF BeginUpdate, At, NoStray
  <2> QED
    BY <1>4, <2>1, BeginUpdateMoves, CreatingStays DEF Moves
<1>5. ASSUME NEW r \in Reqs, BeginUse(r) PROVE Creating(i)'
  <2>1. Creating(i) /\ req[r].pc = "idle"
    BY <1>5 DEF BeginUse, At, NoStray
  <2> QED
    BY <1>5, <2>1, BeginUseMoves, CreatingStays DEF Moves
<1>6. ASSUME NEW r \in Reqs, Commit(r) PROVE Creating(i)'
  <2>1. Ends(r) /\ req[r].pc = "commit"
    BY <1>6, CommitMoves DEF Commit, At
  <2>2. req[r].row # None
    BY <2>1, BusyFields, SshAssumption
  <2>3. i # req[r].id
    BY <1>0, <1>6, <2>2 DEF Commit
  <2>4. keyFile[i] # None /\ rows[i] = None
    BY <1>0, <1>6, <2>3 DEF Commit
  <2>5. Creating(i)
    BY <1>6, <2>4 DEF Commit, NoStray
  <2> QED
    BY <2>1, <2>3, <2>5, CreatingStays DEF Ends
<1>7. ASSUME NEW r \in Reqs, CacheHit(r) PROVE Creating(i)'
  <2>1. Moves(r) /\ Keeps(r) /\ req[r].pc = "lookup" /\ req'[r].pc = Served(r)
    BY <1>7, CacheHitMoves
  <2>2. Creating(i)
    BY <1>7 DEF CacheHit, NoStray
  <2> QED
    BY <2>1, <2>2, CreatingStays DEF Moves, Keeps, Served
<1>8. ASSUME NEW r \in Reqs, CacheMiss(r) PROVE Creating(i)'
  <2>1. Creating(i)
    BY <1>8 DEF CacheMiss, NoStray
  <2> QED
    BY <1>8, <2>1, CacheMissMoves, CreatingStays DEF Moves, Keeps
<1>9. ASSUME NEW r \in Reqs, Connect(r) PROVE Creating(i)'
  <2>1. Moves(r) /\ Keeps(r) /\ req[r].pc = "connect" /\ req'[r].pc = "prepare"
    BY <1>9, ConnectMoves
  <2>2. Creating(i)
    BY <1>9 DEF Connect, NoStray
  <2> QED
    BY <2>1, <2>2, CreatingStays DEF Moves, Keeps
<1>16. ASSUME NEW r \in Reqs, Prepared(r) PROVE Creating(i)'
  <2>1. Moves(r) /\ Keeps(r) /\ req[r].pc = "prepare" /\ req'[r].pc = Served(r)
    BY <1>16, PreparedMoves
  <2>2. Creating(i)
    BY <1>16 DEF Prepared, NoStray
  <2> QED
    BY <2>1, <2>2, CreatingStays DEF Moves, Keeps, Served
<1>10. ASSUME NEW r \in Reqs, Retry(r) PROVE Creating(i)'
  <2>1. Creating(i)
    BY <1>10 DEF Retry, NoStray
  <2> QED
    BY <1>10, <2>1, RetryMoves, CreatingStays DEF Moves, Keeps
<1>11. ASSUME NEW r \in Reqs, GiveUp(r) PROVE Creating(i)'
  <2>1. Ends(r)
    BY <1>11, GiveUpMoves
  <2>2. CASE req[r].kind = "create"
    <3>1. keyFile' = [keyFile EXCEPT ![req[r].id] = None]
      BY <1>11, <2>2 DEF GiveUp
    <3>2. i # req[r].id /\ keyFile[i] # None
      BY <1>0, <3>1
    <3>3. Creating(i)
      BY <1>11, <3>2 DEF GiveUp, NoStray
    <3> QED
      BY <2>1, <3>2, <3>3, CreatingStays DEF Ends
  <2>3. CASE req[r].kind # "create"
    <3>1. Creating(i)
      BY <1>11, <2>3 DEF GiveUp, NoStray
    <3> QED
      BY <2>1, <2>3, <3>1, CreatingStays DEF Ends
  <2> QED
    BY <2>2, <2>3
<1>12. ASSUME NEW r \in Reqs, EndUse(r) PROVE Creating(i)'
  <2>1. Creating(i) /\ req[r].pc = "using"
    BY <1>12 DEF EndUse, At, NoStray
  <2> QED
    BY <1>12, <2>1, EndUseMoves, CreatingStays DEF Ends
<1>13. ASSUME NEW r \in Reqs, Fails(r) PROVE FALSE
  BY <1>0, <1>13 DEF Fails
<1>14. CASE Quiet
  <2>1. UNCHANGED <<req, keyFile, faults>> /\ rows[i] = None
    BY <1>14, QuietFrame DEF Frame, RowsLike
  <2> QED
    BY <2>1 DEF NoStray, Creating
<1>15. CASE Restart
  BY <1>0, <1>15 DEF Restart
<1> QED
  BY <1>1, <1>2, <1>3, <1>4, <1>5, <1>6, <1>7, <1>8, <1>9, <1>10, <1>11, <1>12, <1>13,
     <1>14, <1>15, <1>16, StepCases

\* Every row has its key file and, when nothing has failed, every key file its row or a
\* creation under way (SshService.create writes it before the commit).
THEOREM KeysMatch == Spec => []KeysMatchRows
<1>1. Init => NoStray
  BY DEF Init, NoStray
<1>2. Spec => [](TypeInv /\ RegInv /\ NoStray)
  BY <1>1, RegStays, StrayStep, PTL DEF Spec
<1>3. RegInv /\ NoStray => KeysMatchRows
  BY DEF RegInv, RowsKeyed, NoStray, KeysMatchRows
<1> QED
  BY <1>2, <1>3, PTL

-----------------------------------------------------------------------------
(* Clients. *)

\* A cached client is that of a row, or of a creation about to commit, or one of a
\* creation of its account that failed after it connected.
Stands(id, a) ==
  \/ a \in rolledBack
  \/ rows[id] # None /\ rows[id].account = a
  \/ \E r \in Reqs : Creates(r) /\ req[r].id = id /\ req[r].row.account = a
CacheStands ==
  \A a \in Accounts : connections[a] # None => Stands(client[connections[a].conn].id, a)

ClientInv == CacheStands /\ ClientOfRow

\* The id of the client an entry holds.
LEMMA CachedId ==
  ASSUME TypeInv, ConnInv, NEW a \in Accounts, connections[a] # None
  PROVE  /\ connections[a].conn \in Conns /\ client[connections[a].conn] # None
         /\ client[connections[a].conn].account = a
         /\ client[connections[a].conn].id \in Ids
         /\ CachedFor(client[connections[a].conn].id)
<1>1. connections[a].conn \in Conns /\ client[connections[a].conn] # None
  BY CacheFields DEF ConnInv, CacheHolds
<1>2. client[connections[a].conn] \in Client
  BY <1>1 DEF TypeInv, TypeOK
<1> QED
  BY <1>1, <1>2 DEF Client, CachedFor, ConnInv, CacheHolds

\* A request that takes a client of its account takes that of its row.
LEMMA TakesOwn ==
  ASSUME TypeInv, RegInv, NEW r \in Reqs, req[r].pc = "lookup",
         NEW c \in Conns, client[c] # None, client[c].account = req[r].row.account,
         Stands(client[c].id, client[c].account)
  PROVE  client[c].id = req[r].id \/ req[r].row.account \in rolledBack
<1>1. client[c].id \in Ids /\ req[r].id \in Ids
  BY BusyFields DEF TypeInv, TypeOK, Client
<1>2. req[r].id # None /\ req[r].kind \in {"create", "update", "use"}
  BY ReqFields DEF TypeInv, Shaped
<1>3. CASE req[r].kind = "create"
  <2>1. Creates(r) /\ Alone(r)
    BY <1>2, <1>3 DEF Creates, RegInv, CreatorsAlone
  <2> QED
    BY <1>1, <2>1 DEF Alone, Stands
<1>4. CASE req[r].kind \in {"update", "use"}
  <2>1. Owned(r)
    BY <1>4 DEF RegInv, OthersOwn
  <2>2. \A q \in Reqs : Creates(q) => req[q].row.account # req[r].row.account
    BY <1>1, <2>1 DEF RegInv, CreatorsAlone, Alone, Owned
  <2> QED
    BY <1>1, <2>1, <2>2 DEF RegInv, UniqueRows, Owned, Stands
<1> QED
  BY <1>2, <1>3, <1>4

\* Clients and cache stay, and what stands still does.
LEMMA ClientsKept ==
  ASSUME ClientInv, UNCHANGED <<connections, client>>, rolledBack \subseteq rolledBack',
         CacheStands',
         \A x \in Reqs : \/ req'[x].conn = None
                         \/ /\ req'[x].conn = req[x].conn /\ req'[x].id = req[x].id
                            /\ req'[x].row = req[x].row
  PROVE  ClientInv'
BY DEF ClientInv, ClientOfRow

LEMMA StandsKept ==
  ASSUME NEW id \in Ids, NEW a, Stands(id, a), rolledBack \subseteq rolledBack',
         rows'[id] = rows[id],
         \A x \in Reqs : Creates(x) => Creates(x)' /\ req'[x].id = req[x].id
                                         /\ req'[x].row = req[x].row
  PROVE  Stands(id, a)'
BY DEF Stands

\* The entries stay, their clients keep their ids, and no creation ends.
LEMMA CacheKept ==
  ASSUME TypeInv, ConnInv, ClientInv, UNCHANGED <<rows, connections>>,
         rolledBack \subseteq rolledBack',
         \A c \in Conns : client[c] # None /\ Referred(c) => client'[c].id = client[c].id,
         \A x \in Reqs : Creates(x) => Creates(x)' /\ req'[x].id = req[x].id
                                         /\ req'[x].row = req[x].row
  PROVE  CacheStands'
<1> SUFFICES ASSUME NEW a \in Accounts, connections[a] # None
             PROVE  Stands(client[connections[a].conn].id, a)'
  BY DEF CacheStands
<1>1. PICK c \in Conns, id \in Ids :
        c = connections[a].conn /\ client[c] # None /\ id = client[c].id
  BY CachedId
<1>2. client'[connections'[a].conn].id = id
  BY <1>1 DEF Referred
<1>3. Stands(id, a)
  BY <1>1 DEF ClientInv, CacheStands
<1>4. Stands(id, a)'
  BY <1>3, StandsKept
<1> QED
  BY <1>2, <1>4 DEF Stands

LEMMA ClientInit == Init => ClientInv
<1>1. ASSUME Init PROVE /\ \A a \in Accounts : connections[a] = None
                        /\ \A r \in Reqs : req[r].conn = None
  BY <1>1, IdleFields DEF Init
<1> QED
  BY <1>1 DEF ClientInv, CacheStands, ClientOfRow

\* A request other than a creation past its INSERT goes elsewhere.
LEMMA ClientBegins ==
  ASSUME TypeInv, ConnInv, ClientInv, NEW r \in Reqs, Moves(r), ~Creates(r),
         UNCHANGED <<rows, connections, client>>, rolledBack \subseteq rolledBack',
         req'[r].conn = None
  PROVE  ClientInv'
<1>1. \A x \in Reqs : x = r \/ req'[x] = req[x]
  BY DEF Moves
<1>2. \A x \in Reqs : Creates(x) => Creates(x)' /\ req'[x].id = req[x].id /\ req'[x].row = req[x].row
  BY <1>1 DEF Creates
<1>3. CacheStands'
  BY <1>2, CacheKept
<1> QED
  BY <1>1, <1>3, ClientsKept

\* A request that keeps what it works for and has no client.
LEMMA ClientGoes ==
  ASSUME TypeInv, ConnInv, ClientInv, NEW r \in Reqs, Moves(r), Keeps(r),
         UNCHANGED <<rows, connections, client, rolledBack>>, req'[r].conn = None
  PROVE  ClientInv'
<1>1. \A x \in Reqs : x = r \/ req'[x] = req[x]
  BY DEF Moves
<1>2. \A x \in Reqs : Creates(x) => Creates(x)' /\ req'[x].id = req[x].id /\ req'[x].row = req[x].row
  BY <1>1 DEF Creates, Keeps
<1>3. CacheStands'
  BY <1>2, CacheKept
<1> QED
  BY <1>1, <1>3, ClientsKept

LEMMA ClientHit ==
  ASSUME TypeInv, ConnInv, RegInv, ClientInv, NEW r \in Reqs, CacheHit(r)
  PROVE  ClientInv'
<1>1. /\ Moves(r) /\ Keeps(r) /\ req[r].pc = "lookup" /\ req[r].row \in Row
      /\ connections[req[r].row.account] \in Cached
      /\ req'[r].conn = connections[req[r].row.account].conn
  BY CacheHitMoves
<1>2. UNCHANGED <<rows, connections, client, rolledBack>>
  BY DEF CacheHit, history
<1>3. \A x \in Reqs : x = r \/ req'[x] = req[x]
  BY <1>1 DEF Moves
<1>4. \A x \in Reqs : /\ req'[x].id = req[x].id /\ req'[x].row = req[x].row
                      /\ req'[x].kind = req[x].kind
  BY <1>1, <1>3 DEF Keeps
<1>5. CacheStands'
  BY <1>2, <1>4, CacheKept DEF Creates
<1>6. req[r].row.account \in Accounts /\ connections[req[r].row.account] # None
  BY <1>1, SshAssumption DEF Row
<1>7. PICK c \in Conns : /\ c = connections[req[r].row.account].conn
                         /\ client[c] # None /\ client[c].account = req[r].row.account
                         /\ Stands(client[c].id, client[c].account)
  BY <1>6, CachedId DEF ClientInv, CacheStands
<1>8. client[c].id = req[r].id \/ req[r].row.account \in rolledBack
  BY <1>1, <1>7, TakesOwn
<1>9. ClientOfRow'
  BY <1>1, <1>2, <1>3, <1>4, <1>7, <1>8 DEF ClientInv, ClientOfRow
<1> QED
  BY <1>5, <1>9 DEF ClientInv

LEMMA ClientConnects ==
  ASSUME TypeInv, ConnInv, ClientInv, NEW r \in Reqs, Connect(r)
  PROVE  ClientInv'
<1>1. PICK c \in Conns :
         /\ Moves(r) /\ Keeps(r) /\ req'[r].conn = c /\ client[c] = None
         /\ req[r].row \in Row /\ req[r].id \in Ids
         /\ client' = [client EXCEPT ![c] = [account |-> req[r].row.account, id |-> req[r].id,
                                             alive |-> TRUE]]
  BY ConnectMoves
<1>2. UNCHANGED <<rows, connections, rolledBack>>
  BY DEF Connect, history
<1>3. PICK k : k = [account |-> req[r].row.account, id |-> req[r].id, alive |-> TRUE]
  OBVIOUS
<1>4. k \in Client /\ k.account = req[r].row.account /\ k.id = req[r].id
  BY <1>1, <1>3 DEF Client, Row
<1>5. \A d \in Conns : client'[d] = IF d = c THEN k ELSE client[d]
  BY <1>1, <1>3 DEF TypeInv, TypeOK
<1>6. k # None
  BY <1>4, SshAssumption
<1>7. \A x \in Reqs : x = r \/ req'[x] = req[x]
  BY <1>1 DEF Moves
<1>8. \A x \in Reqs : /\ req'[x].id = req[x].id /\ req'[x].row = req[x].row
                      /\ req'[x].kind = req[x].kind
  BY <1>1, <1>7 DEF Keeps
<1>9. CacheStands'
  <2>1. \A d \in Conns : client[d] # None => client'[d].id = client[d].id
    BY <1>1, <1>5
  <2> QED
    BY <1>2, <1>8, <2>1, CacheKept DEF Creates
<1>10. ClientOfRow'
  <2> SUFFICES ASSUME NEW x \in Reqs, req'[x].conn # None
               PROVE  /\ client'[req'[x].conn] # None
                      /\ client'[req'[x].conn].account = req'[x].row.account
                      /\ \/ client'[req'[x].conn].id = req'[x].id
                         \/ req'[x].row.account \in rolledBack'
    BY DEF ClientOfRow
  <2>1. CASE x = r
    BY <1>1, <1>4, <1>5, <1>6, <1>8, <2>1
  <2>2. CASE x # r
    <3>1. req'[x] = req[x] /\ client[req[x].conn] # None
      BY <1>7, <2>2 DEF ClientInv, ClientOfRow
    <3>2. req[x].conn \in Conns /\ req[x].conn # c
      BY <1>1, <2>2, <3>1, ReqFields
    <3>3. client'[req[x].conn] = client[req[x].conn]
      BY <1>5, <3>2
    <3> QED
      BY <1>2, <2>2, <3>1, <3>3 DEF ClientInv, ClientOfRow
  <2> QED
    BY <2>1, <2>2
<1> QED
  BY <1>9, <1>10 DEF ClientInv

LEMMA ClientPrepared ==
  ASSUME TypeInv, ConnInv, RegInv, ClientInv, NEW r \in Reqs, Prepared(r)
  PROVE  ClientInv'
<1>1. /\ Moves(r) /\ Keeps(r) /\ req[r].pc = "prepare" /\ req'[r].conn = req[r].conn
      /\ req[r].conn \in Conns /\ req[r].row \in Row /\ req[r].id \in Ids
  BY PreparedMoves
<1>2. /\ UNCHANGED <<rows, client, rolledBack>>
      /\ connections' = [connections EXCEPT ![req[r].row.account] =
                           [conn |-> req[r].conn, expire |-> now + SSH_CACHE]]
  BY DEF Prepared
<1>3. client[req[r].conn].id = req[r].id
  BY <1>1, SshAssumption DEF ConnInv, Held
<1>4. \A x \in Reqs : x = r \/ req'[x] = req[x]
  BY <1>1 DEF Moves
<1>5. \A x \in Reqs : /\ req'[x].id = req[x].id /\ req'[x].row = req[x].row
                      /\ req'[x].kind = req[x].kind /\ req'[x].conn = req[x].conn
  BY <1>1, <1>4 DEF Keeps
<1>6. Stands(req[r].id, req[r].row.account)
  <2>1. req[r].kind \in {"create", "update", "use"} /\ req[r].id # None
    BY <1>1, ReqFields DEF TypeInv, Shaped
  <2>2. CASE req[r].kind = "create"
    BY <2>1, <2>2 DEF Stands, Creates
  <2>3. CASE req[r].kind # "create"
    <3>1. Owned(r)
      BY <2>1, <2>3 DEF RegInv, OthersOwn
    <3> QED
      BY <3>1 DEF Stands, Owned
  <2> QED
    BY <2>2, <2>3
<1>7. ASSUME NEW a \in Accounts, connections'[a] # None
      PROVE  Stands(client[connections'[a].conn].id, a)
  <2>1. CASE a = req[r].row.account
    <3>1. connections'[a].conn = req[r].conn
      BY <1>2, <2>1 DEF TypeInv, TypeOK
    <3> QED
      BY <1>3, <1>6, <2>1, <3>1
  <2>2. CASE a # req[r].row.account
    <3>1. connections'[a] = connections[a]
      BY <1>2, <2>2 DEF TypeInv, TypeOK
    <3> QED
      BY <1>7, <3>1 DEF ClientInv, CacheStands
  <2> QED
    BY <2>1, <2>2
<1>8. CacheStands'
  BY <1>2, <1>5, <1>7 DEF CacheStands, Stands, Creates
<1>9. ClientOfRow'
  BY <1>2, <1>5 DEF ClientInv, ClientOfRow
<1> QED
  BY <1>8, <1>9 DEF ClientInv

\* A creation that ends has a row now, or nothing in the cache, or is one that failed.
LEMMA ClientEnds ==
  ASSUME TypeInv, ConnInv, ClientInv, NEW r \in Reqs, Ends(r),
         UNCHANGED <<connections, client>>, rolledBack \subseteq rolledBack',
         \A i \in Ids : \/ rows'[i] = rows[i]
                        \/ i = req[r].id /\ rows'[i] = req[r].row /\ rows'[i] # None,
         Creates(r) => \/ rows'[req[r].id] = req[r].row /\ req[r].row # None
                       \/ req[r].row.account \in rolledBack'
                       \/ ~CachedFor(req[r].id),
         rows[req[r].id] # None => rows[req[r].id].account = req[r].row.account
  PROVE  ClientInv'
<1>1. \A x \in Reqs : x = r \/ req'[x] = req[x]
  BY DEF Ends
<1>2. req'[r].conn = None
  BY IdleFields DEF Ends
<1>3. ASSUME NEW a \in Accounts, connections[a] # None
      PROVE  Stands(client[connections[a].conn].id, a)'
  <2>1. PICK id \in Ids : id = client[connections[a].conn].id /\ CachedFor(id)
    BY <1>3, CachedId
  <2>2. client'[connections'[a].conn].id = id
    BY <2>1
  <2>3. Stands(id, a)
    BY <1>3, <2>1 DEF ClientInv, CacheStands
  <2>4. CASE a \in rolledBack
    BY <2>4, <2>1 DEF Stands
  <2>5. CASE rows[id] # None /\ rows[id].account = a
    <3>1. rows'[id] # None /\ rows'[id].account = a
      BY <2>5
    <3> QED
      BY <3>1, <2>1 DEF Stands
  <2>6. CASE \E x \in Reqs : Creates(x) /\ req[x].id = id /\ req[x].row.account = a
    <3>1. PICK x \in Reqs : Creates(x) /\ req[x].id = id /\ req[x].row.account = a
      BY <2>6
    <3>2. CASE x = r
      BY <2>1, <3>1, <3>2 DEF Stands
    <3>3. CASE x # r
      <4>1. Creates(x)' /\ req'[x].id = id /\ req'[x].row.account = a
        BY <1>1, <3>1, <3>3 DEF Creates
      <4> QED
        BY <2>1, <4>1 DEF Stands
    <3> QED
      BY <3>2, <3>3
  <2> QED
    BY <2>3, <2>4, <2>5, <2>6 DEF Stands
<1>4. CacheStands'
  BY <1>3 DEF CacheStands
<1> QED
  BY <1>1, <1>2, <1>4, ClientsKept

LEMMA ClientRests ==
  ASSUME TypeInv, ConnInv, ClientInv, Frame
  PROVE  ClientInv'
<1>0. UNCHANGED <<req, connections, rolledBack>> /\ RowsLike /\ ClientsLike /\ Collected
  BY DEF Frame, history
<1>1. ASSUME NEW c \in Conns, Referred(c), client[c] # None
      PROVE  /\ client'[c] # None /\ client'[c].id = client[c].id
             /\ client'[c].account = client[c].account
  BY <1>0, <1>1 DEF ClientsLike, Collected
<1>2. CacheStands'
  <2> SUFFICES ASSUME NEW a \in Accounts, connections[a] # None
               PROVE  Stands(client[connections[a].conn].id, a)'
    BY <1>0 DEF CacheStands
  <2>1. PICK c \in Conns, id \in Ids :
          c = connections[a].conn /\ client[c] # None /\ id = client[c].id
    BY CachedId
  <2>2. client'[connections'[a].conn].id = id
    BY <1>0, <1>1, <2>1 DEF Referred
  <2>3. Stands(id, a)
    BY <2>1 DEF ClientInv, CacheStands
  <2>4. Stands(id, a)'
    BY <1>0, <2>3 DEF Stands, Creates, RowsLike
  <2> QED
    BY <2>2, <2>4 DEF Stands
<1>3. ClientOfRow'
  <2> SUFFICES ASSUME NEW r \in Reqs, req[r].conn # None
               PROVE  /\ client'[req[r].conn] # None
                      /\ client'[req[r].conn].account = req[r].row.account
                      /\ \/ client'[req[r].conn].id = req[r].id
                         \/ req[r].row.account \in rolledBack
    BY <1>0 DEF ClientOfRow
  <2>1. PICK c \in Conns : c = req[r].conn
    BY ReqFields
  <2>2. Referred(c) /\ client[c] # None
    BY <2>1 DEF Referred, ClientInv, ClientOfRow
  <2> QED
    BY <1>1, <2>1, <2>2 DEF ClientInv, ClientOfRow
<1> QED
  BY <1>2, <1>3 DEF ClientInv

LEMMA ClientStep == TypeInv /\ ConnInv /\ RegInv /\ ClientInv /\ [Next]_vars => ClientInv'
<1> SUFFICES ASSUME TypeInv, ConnInv, RegInv, ClientInv, [Next]_vars PROVE ClientInv'
  OBVIOUS
<1>0. \A r \in Reqs : req[r].pc \in {"idle", "save", "using"} => ~Creates(r)
  BY ReqFields DEF Creates
<1>1. ASSUME NEW r \in Reqs, CheckDuplicate(r) PROVE ClientInv'
  <2>1. UNCHANGED <<rows, connections, client, rolledBack>> /\ req[r].pc = "idle"
    BY <1>1 DEF CheckDuplicate, At, history
  <2> QED
    BY <1>0, <1>1, <2>1, CheckDuplicateMoves, ClientBegins
<1>2. ASSUME NEW r \in Reqs, SaveRow(r) PROVE ClientInv'
  <2>1. UNCHANGED <<rows, connections, client, rolledBack>> /\ req[r].pc = "save"
    BY <1>2 DEF SaveRow, At, history
  <2>2. Moves(r) /\ req'[r].conn = None
    BY <1>2, SaveRowMoves, EndMoves, IdleFields DEF Ends
  <2> QED
    BY <1>0, <2>1, <2>2, ClientBegins
<1>3. ASSUME NEW r \in Reqs, WriteKey(r) PROVE ClientInv'
  <2>1. UNCHANGED <<rows, connections, client, rolledBack>>
    BY <1>3 DEF WriteKey, history
  <2> QED
    BY <1>3, <2>1, WriteKeyMoves, ClientGoes
<1>4. ASSUME NEW r \in Reqs, BeginUpdate(r) PROVE ClientInv'
  <2>1. UNCHANGED <<rows, connections, client, rolledBack>> /\ req[r].pc = "idle"
    BY <1>4 DEF BeginUpdate, At, history
  <2> QED
    BY <1>0, <1>4, <2>1, BeginUpdateMoves, ClientBegins
<1>5. ASSUME NEW r \in Reqs, BeginUse(r) PROVE ClientInv'
  <2>1. UNCHANGED <<rows, connections, client, rolledBack>> /\ req[r].pc = "idle"
    BY <1>5 DEF BeginUse, At, history
  <2> QED
    BY <1>0, <1>5, <2>1, BeginUseMoves, ClientBegins
<1>6. ASSUME NEW r \in Reqs, Commit(r) PROVE ClientInv'
  <2>1. req[r].pc = "commit" /\ req[r].id \in Ids /\ req[r].row # None
    BY <1>6, BusyFields, SshAssumption DEF Commit, At
  <2>2. /\ UNCHANGED <<connections, client, rolledBack>>
        /\ rows' = [rows EXCEPT ![req[r].id] = req[r].row]
    BY <1>6 DEF Commit, history
  <2>3. \A i \in Ids : rows'[i] = IF i = req[r].id THEN req[r].row ELSE rows[i]
    BY <2>2 DEF TypeInv, TypeOK
  <2>4. rows[req[r].id] # None => rows[req[r].id].account = req[r].row.account
    BY <2>1, ReqFields DEF RegInv, CreatorsAlone, Alone, Creates, OthersOwn, Owned, TypeInv, Shaped
  <2> QED
    BY <1>6, <2>1, <2>2, <2>3, <2>4, CommitMoves, ClientEnds
<1>7. ASSUME NEW r \in Reqs, CacheHit(r) PROVE ClientInv'
  BY <1>7, ClientHit
<1>8. ASSUME NEW r \in Reqs, CacheMiss(r) PROVE ClientInv'
  <2>1. UNCHANGED <<rows, connections, client, rolledBack>>
    BY <1>8 DEF CacheMiss, history
  <2> QED
    BY <1>8, <2>1, CacheMissMoves, ClientGoes
<1>9. ASSUME NEW r \in Reqs, Connect(r) PROVE ClientInv'
  BY <1>9, ClientConnects
<1>17. ASSUME NEW r \in Reqs, Prepared(r) PROVE ClientInv'
  BY <1>17, ClientPrepared
<1>10. ASSUME NEW r \in Reqs, Retry(r) PROVE ClientInv'
  <2>1. UNCHANGED <<rows, connections, client, rolledBack>>
    BY <1>10 DEF Retry
  <2> QED
    BY <1>10, <2>1, RetryMoves, ClientGoes
<1>11. ASSUME NEW r \in Reqs, req[r].pc \in {"key", "lookup", "connect", "prepare", "commit"}, Ends(r),
              UNCHANGED <<rows, connections, client>>, rolledBack \subseteq rolledBack',
              req[r].pc = "commit" /\ req[r].kind = "create" =>
                req[r].row.account \in rolledBack'
       PROVE  ClientInv'
  <2>1. rows[req[r].id] # None => rows[req[r].id].account = req[r].row.account
    BY <1>11, ReqFields DEF RegInv, CreatorsAlone, Alone, Creates, OthersOwn, Owned, TypeInv, Shaped
  <2>2. Creates(r) => \/ req[r].row.account \in rolledBack'
                      \/ ~CachedFor(req[r].id)
    BY <1>11 DEF RegInv, CreatorsAlone, Alone, Creates
  <2>3. \A i \in Ids : rows'[i] = rows[i]
    BY <1>11
  <2> QED
    BY <1>11, <2>1, <2>2, <2>3, ClientEnds
<1>12. ASSUME NEW r \in Reqs, GiveUp(r) PROVE ClientInv'
  <2>1. UNCHANGED <<rows, connections, client, rolledBack>> /\ req[r].pc \in {"connect", "prepare"}
    BY <1>12 DEF GiveUp, MayFail, At
  <2> QED
    BY <1>11, <1>12, <2>1, GiveUpMoves
<1>13. ASSUME NEW r \in Reqs, EndUse(r) PROVE ClientInv'
  <2>1. UNCHANGED <<rows, connections, client, rolledBack>> /\ req[r].pc = "using"
    BY <1>13 DEF EndUse, At, history
  <2> QED
    BY <1>0, <1>13, <2>1, EndUseMoves, EndMoves, IdleFields, ClientBegins DEF Ends
<1>14. ASSUME NEW r \in Reqs, Fails(r) PROVE ClientInv'
  <2>1. /\ UNCHANGED <<rows, connections, client>> /\ req[r].pc \in {"key", "lookup", "commit"}
        /\ rolledBack' = IF req[r].pc = "commit" /\ req[r].kind = "create"
                         THEN rolledBack \union {req[r].row.account} ELSE rolledBack
    BY <1>14 DEF Fails, At
  <2> QED
    BY <1>11, <1>14, <2>1, FailsMoves
<1>15. CASE Quiet
  BY <1>15, QuietFrame, ClientRests
<1>16. CASE Restart
  <2>1. /\ \A a \in Accounts : connections'[a] = None
        /\ \A r \in Reqs : req'[r].conn = None
    BY <1>16, IdleFields DEF Restart
  <2> QED
    BY <2>1 DEF ClientInv, CacheStands, ClientOfRow
<1> QED
  BY <1>1, <1>2, <1>3, <1>4, <1>5, <1>6, <1>7, <1>8, <1>9, <1>10, <1>12, <1>13,
     <1>14, <1>15, <1>16, <1>17, StepCases

LEMMA ClientStays == Spec => [](TypeInv /\ ConnInv /\ RegInv /\ ClientInv)
BY RegStays, ClientInit, ClientStep, PTL DEF Spec

\* A request gets a client of its account and, unless a creation of the account failed after
\* it connected, of its own row: upsertLogs stores logs under the id of the client.
THEOREM ClientsOwn == Spec => []ClientOfRow
<1>1. ClientInv => ClientOfRow
  BY DEF ClientInv
<1> QED
  BY <1>1, ClientStays, PTL

-----------------------------------------------------------------------------
(* Verified ports. *)

Verified(i, w) == <<i, w.port>> \in reached \/ w.account \in rolledBack
VerifiedInv ==
  /\ \A i \in Ids : rows[i] # None => Verified(i, rows[i])
  /\ \A r \in Reqs : req[r].pc = "commit" => Verified(req[r].id, req[r].row)

\* The cache has no client of a creation's own: what it gives is a failed creation's.
LEMMA CreationHits ==
  ASSUME TypeInv, ConnInv, RegInv, ClientInv, NEW r \in Reqs, CacheHit(r),
         req[r].kind = "create"
  PROVE  req[r].row.account \in rolledBack
<1>1. /\ req[r].pc = "lookup" /\ req[r].row \in Row
      /\ connections[req[r].row.account] \in Cached
  BY CacheHitMoves
<1>2. req[r].row.account \in Accounts /\ connections[req[r].row.account] # None
  BY <1>1, SshAssumption DEF Row
<1>3. PICK c \in Conns : /\ c = connections[req[r].row.account].conn
                         /\ client[c] # None /\ client[c].account = req[r].row.account
                         /\ Stands(client[c].id, client[c].account)
                         /\ CachedFor(client[c].id)
  BY <1>2, CachedId DEF ClientInv, CacheStands
<1>4. client[c].id = req[r].id \/ req[r].row.account \in rolledBack
  BY <1>1, <1>3, TakesOwn
<1>5. Alone(r)
  BY <1>1, ReqFields DEF RegInv, CreatorsAlone, Creates
<1>6. ~CachedFor(req[r].id)
  BY <1>1, <1>5 DEF Alone
<1> QED
  BY <1>3, <1>4, <1>6

LEMMA VerifiedStep ==
  TypeInv /\ ConnInv /\ RegInv /\ ClientInv /\ VerifiedInv /\ [Next]_vars => VerifiedInv'
<1> SUFFICES ASSUME TypeInv, ConnInv, RegInv, ClientInv, VerifiedInv, [Next]_vars
             PROVE  VerifiedInv'
  OBVIOUS
<1>1. ASSUME NEW r \in Reqs, \A x \in Reqs \ {r} : req'[x] = req[x],
             UNCHANGED rows, reached \subseteq reached', rolledBack \subseteq rolledBack',
             req'[r].pc = "commit" => \/ <<req'[r].id, req'[r].row.port>> \in reached'
                                     \/ req'[r].row.account \in rolledBack'
      PROVE  VerifiedInv'
  <2>1. \A i \in Ids : rows[i] # None => \/ <<i, rows[i].port>> \in reached'
                                         \/ rows[i].account \in rolledBack'
    BY <1>1 DEF VerifiedInv, Verified
  <2>2. \A x \in Reqs \ {r} : req[x].pc = "commit" =>
            <<req[x].id, req[x].row.port>> \in reached \/ req[x].row.account \in rolledBack
    BY DEF VerifiedInv, Verified
  <2>3. ASSUME NEW x \in Reqs, req'[x].pc = "commit"
        PROVE  \/ <<req'[x].id, req'[x].row.port>> \in reached'
               \/ req'[x].row.account \in rolledBack'
    <3>1. CASE x = r
      BY <1>1, <2>3, <3>1
    <3>2. CASE x # r
      BY <1>1, <2>2, <2>3, <3>2
    <3> QED
      BY <3>1, <3>2
  <2> QED
    BY <1>1, <2>1, <2>3 DEF VerifiedInv, Verified
<1>2. ASSUME NEW x \in Reqs,
             CheckDuplicate(x) \/ BeginUpdate(x) \/ BeginUse(x) \/ SaveRow(x) \/ WriteKey(x)
               \/ CacheMiss(x) \/ Retry(x)
      PROVE  VerifiedInv'
  <2>1. Moves(x) /\ req'[x].conn = None
    BY <1>2, CheckDuplicateMoves, BeginUpdateMoves, BeginUseMoves, SaveRowMoves,
       WriteKeyMoves, CacheMissMoves, RetryMoves, EndMoves, IdleFields DEF Ends
  <2>2. req'[x].pc # "commit"
    BY <2>1 DEF Moves, Shaped
  <2>3. UNCHANGED <<rows, reached, rolledBack>>
    BY <1>2 DEF CheckDuplicate, BeginUpdate, BeginUse, SaveRow, WriteKey, CacheMiss, Retry, history
  <2> QED
    BY <1>1, <2>1, <2>2, <2>3 DEF Moves
<1>3. ASSUME NEW x \in Reqs, GiveUp(x) \/ EndUse(x) \/ Fails(x) PROVE VerifiedInv'
  <2>1. Ends(x)
    BY <1>3, GiveUpMoves, EndUseMoves, FailsMoves
  <2>2. UNCHANGED <<rows, reached>> /\ rolledBack \subseteq rolledBack'
    BY <1>3 DEF GiveUp, EndUse, Fails, history
  <2> QED
    BY <1>1, <2>1, <2>2, IdleFields DEF Ends
<1>4. ASSUME NEW r \in Reqs, Commit(r) PROVE VerifiedInv'
  <2>1. Ends(r) /\ req[r].pc = "commit"
    BY <1>4, CommitMoves DEF Commit, At
  <2>2. rows' = [rows EXCEPT ![req[r].id] = req[r].row] /\ UNCHANGED <<reached, rolledBack>>
    BY <1>4 DEF Commit, history
  <2>3. \A i \in Ids : rows'[i] = IF i = req[r].id THEN req[r].row ELSE rows[i]
    BY <2>2 DEF TypeInv, TypeOK
  <2>4. \A i \in Ids : rows'[i] # None => Verified(i, rows'[i])
    BY <2>1, <2>3 DEF VerifiedInv
  <2>5. \A x \in Reqs : req'[x].pc = "commit" => Verified(req'[x].id, req'[x].row)
    BY <2>1, IdleFields DEF Ends, VerifiedInv
  <2> QED
    BY <2>2, <2>4, <2>5 DEF VerifiedInv, Verified
<1>5. ASSUME NEW r \in Reqs, req[r].kind = "update" PROVE Verified(req[r].id, req[r].row)
  <2>1. Owned(r) /\ req[r].id \in Ids
    BY <1>5, ReqFields DEF RegInv, OthersOwn
  <2> QED
    BY <2>1 DEF Owned, VerifiedInv, Verified
<1>6. ASSUME NEW r \in Reqs, CacheHit(r) PROVE VerifiedInv'
  <2>1. Moves(r) /\ Keeps(r) /\ req'[r].pc = Served(r)
    BY <1>6, CacheHitMoves
  <2>2. UNCHANGED <<rows, reached, rolledBack>>
    BY <1>6 DEF CacheHit, history
  <2>3. ASSUME req'[r].pc = "commit" PROVE Verified(req[r].id, req[r].row)
    <3>1. req[r].kind \in {"create", "update"}
      BY <2>1, <2>3, ReqFields DEF Served, Moves, Shaped, Keeps
    <3>2. CASE req[r].kind = "create"
      BY <1>6, <3>2, CreationHits DEF Verified
    <3> QED
      BY <1>5, <3>1, <3>2
  <2> QED
    BY <1>1, <2>1, <2>2, <2>3 DEF Moves, Keeps, Verified
<1>7. ASSUME NEW r \in Reqs, Prepared(r) PROVE VerifiedInv'
  <2>1. Moves(r) /\ Keeps(r)
    BY <1>7, PreparedMoves
  <2>2. /\ UNCHANGED <<rows, rolledBack>>
        /\ reached' = reached \union {<<req[r].id, req[r].row.port>>}
    BY <1>7 DEF Prepared
  <2>3. <<req'[r].id, req'[r].row.port>> \in reached'
    BY <2>1, <2>2 DEF Keeps
  <2> QED
    BY <1>1, <2>1, <2>2, <2>3 DEF Moves
<1>8. ASSUME NEW r \in Reqs, Connect(r) PROVE VerifiedInv'
  <2>1. Moves(r) /\ req'[r].pc = "prepare"
    BY <1>8, ConnectMoves
  <2>2. UNCHANGED <<rows, reached, rolledBack>>
    BY <1>8 DEF Connect, history
  <2> QED
    BY <1>1, <2>1, <2>2 DEF Moves
<1>9. CASE Quiet
  <2>1. /\ UNCHANGED <<req, reached, rolledBack>>
        /\ \A i \in Ids : /\ rows'[i] = None <=> rows[i] = None
                          /\ rows[i] # None => /\ rows'[i].port = rows[i].port
                                               /\ rows'[i].account = rows[i].account
    BY <1>9, QuietFrame DEF Frame, RowsLike, history
  <2> QED
    BY <2>1 DEF VerifiedInv, Verified
<1>10. CASE Restart
  <2>1. \A r \in Reqs : req'[r].pc # "commit"
    BY <1>10, IdleFields DEF Restart
  <2>2. UNCHANGED <<rows, reached, rolledBack>>
    BY <1>10 DEF Restart, history
  <2> QED
    BY <2>1, <2>2 DEF VerifiedInv, Verified
<1> QED
  BY <1>2, <1>3, <1>4, <1>6, <1>7, <1>8, <1>9, <1>10, StepCases

\* Every row was committed after a client had been made with its own key, on its own port,
\* unless a creation of its account had been rolled back after it connected.
THEOREM RowsVerified == Spec => []RowReached
<1>1. Init => VerifiedInv
  BY IdleFields DEF Init, VerifiedInv
<1>2. Spec => [](TypeInv /\ VerifiedInv)
  BY <1>1, ClientStays, VerifiedStep, PTL DEF Spec
<1>3. VerifiedInv => RowReached
  BY DEF VerifiedInv, Verified, RowReached
<1> QED
  BY <1>2, <1>3, PTL

-----------------------------------------------------------------------------
(* One open connection. *)

\* Outside doubled, an open connection of an account is that of its entry or of the request
\* that is in waitConnection, and such a request finds no entry and nobody else there.
Open(c, a) == client[c] # None /\ client[c].account = a /\ client[c].alive
OneOpen ==
  \A a \in Accounts \ doubled :
    /\ \A c \in Conns : Open(c, a) => \/ connections[a] # None /\ connections[a].conn = c
                                      \/ \E r \in Connecting(a) : req[r].conn = c
    /\ \A r \in Connecting(a) : connections[a] = None /\ \A q \in Connecting(a) : q = r

Waits(r) == req[r].pc \in {"connect", "prepare"}

\* Whoever waits outside doubled has the only connection of its account.
LEMMA AloneOpen ==
  ASSUME OneOpen, NEW a \in Accounts \ doubled, NEW r \in Connecting(a), NEW c \in Conns,
         Open(c, a)
  PROVE  req[r].conn = c
BY DEF OneOpen

LEMMA OneStep == TypeInv /\ ConnInv /\ OneOpen /\ [Next]_vars => OneOpen'
<1> SUFFICES ASSUME TypeInv, ConnInv, OneOpen, [Next]_vars PROVE OneOpen'
  OBVIOUS
<1>1. ASSUME UNCHANGED <<connections, doubled>>, ClientsLike,
             \A x \in Reqs : req'[x] = req[x] \/ (~Waits(x) /\ ~Waits(x)')
      PROVE  OneOpen'
  <2>1. \A a \in Accounts : Connecting(a)' = Connecting(a)
    BY <1>1 DEF Connecting, At, Waits
  <2>2. \A a \in Accounts : \A x \in Connecting(a) : req'[x].conn = req[x].conn
    BY <1>1 DEF Connecting, At, Waits
  <2>3. \A a, c : c \in Conns /\ Open(c, a)' => Open(c, a)
    BY <1>1 DEF Open, ClientsLike
  <2> QED
    BY <1>1, <2>1, <2>2, <2>3 DEF OneOpen
<1>2. ASSUME client' = client PROVE ClientsLike
  BY <1>2 DEF ClientsLike
<1>3. ASSUME NEW x \in Reqs,
             CheckDuplicate(x) \/ BeginUpdate(x) \/ BeginUse(x) \/ SaveRow(x) \/ WriteKey(x)
      PROVE  OneOpen'
  <2>1. /\ Moves(x) /\ ~Waits(x) /\ ~Waits(x)'
    BY <1>3, CheckDuplicateMoves, BeginUpdateMoves, BeginUseMoves, SaveRowMoves,
       WriteKeyMoves, EndMoves, IdleFields
       DEF Ends, Waits, At, CheckDuplicate, BeginUpdate, BeginUse, SaveRow, WriteKey
  <2>2. UNCHANGED <<connections, client, doubled>>
    BY <1>3 DEF CheckDuplicate, BeginUpdate, BeginUse, SaveRow, WriteKey, history
  <2> QED
    BY <1>1, <1>2, <2>1, <2>2 DEF Moves
<1>4. ASSUME NEW x \in Reqs, Commit(x) \/ EndUse(x) \/ Fails(x) PROVE OneOpen'
  <2>1. Ends(x) /\ ~Waits(x)
    BY <1>4, CommitMoves, EndUseMoves, FailsMoves DEF Waits, At, Commit, EndUse, Fails
  <2>2. UNCHANGED <<connections, client, doubled>>
    BY <1>4 DEF Commit, EndUse, Fails, history
  <2> QED
    BY <1>1, <1>2, <2>1, <2>2, IdleFields DEF Ends, Waits
<1>5. ASSUME NEW r \in Reqs, CacheHit(r) PROVE OneOpen'
  <2>1. Moves(r) /\ ~Waits(r) /\ ~Waits(r)'
    BY <1>5, CacheHitMoves DEF Served, Waits
  <2>2. UNCHANGED <<connections, client, doubled>>
    BY <1>5 DEF CacheHit, history
  <2> QED
    BY <1>1, <1>2, <2>1, <2>2 DEF Moves
<1>6. ASSUME NEW r \in Reqs, Waits(r), Moves(r), UNCHANGED <<connections, client>>, LeavesOpen(r),
             \/ ~Waits(r)'
             \/ Keeps(r) /\ req'[r].conn = None
      PROVE  OneOpen'
  <2> DEFINE b == req[r].row.account
  <2>1. \A x \in Reqs : x = r \/ req'[x] = req[x]
    BY <1>6 DEF Moves
  <2>2. doubled \subseteq doubled' /\ r \in Connecting(b)
    BY <1>6 DEF LeavesOpen, Connecting, Waits
  <2>3. \A a \in Accounts : Connecting(a)' \subseteq Connecting(a)
    BY <1>6, <2>1 DEF Connecting, Waits, Keeps
  <2> SUFFICES ASSUME NEW a \in Accounts, a \notin doubled'
               PROVE  /\ \A c \in Conns : Open(c, a) =>
                           \/ connections[a] # None /\ connections[a].conn = c
                           \/ \E q \in Connecting(a)' : req'[q].conn = c
                      /\ \A q \in Connecting(a)' : /\ connections[a] = None
                                                   /\ \A p \in Connecting(a)' : p = q
    BY <1>6 DEF OneOpen, Open
  <2>4. a \in Accounts \ doubled
    BY <2>2
  <2>5. \A q \in Connecting(a)' : connections[a] = None /\ \A p \in Connecting(a)' : p = q
    BY <2>3, <2>4 DEF OneOpen
  <2>6. CASE a = b
    <3>1. ASSUME NEW c \in Conns, Open(c, a) PROVE FALSE
      <4>1. req[r].conn = c
        BY <2>2, <2>4, <2>6, <3>1, AloneOpen
      <4>2. req[r].conn # None
        BY <4>1, SshAssumption
      <4>3. req[r].pc = "prepare"
        BY <1>6, <4>2 DEF TypeInv, Shaped, Waits
      <4> QED
        BY <1>6, <2>6, <3>1, <4>1, <4>3 DEF LeavesOpen, Open, At
    <3> QED
      BY <2>5, <3>1
  <2>7. CASE a # b
    <3>1. \A q \in Connecting(a) : q # r
      BY <2>7 DEF Connecting
    <3>2. \A q \in Connecting(a) : q \in Connecting(a)' /\ req'[q].conn = req[q].conn
      BY <2>1, <3>1 DEF Connecting
    <3> QED
      BY <2>4, <2>5, <3>2 DEF OneOpen
  <2> QED
    BY <2>6, <2>7
<1>7. ASSUME NEW r \in Reqs, Retry(r) PROVE OneOpen'
  <2>1. Moves(r) /\ Keeps(r) /\ Waits(r) /\ req'[r].conn = None
    BY <1>7, RetryMoves DEF Waits
  <2>2. UNCHANGED <<connections, client>> /\ LeavesOpen(r)
    BY <1>7 DEF Retry
  <2> QED
    BY <1>6, <2>1, <2>2
<1>8. ASSUME NEW r \in Reqs, GiveUp(r) PROVE OneOpen'
  <2>1. Moves(r) /\ Waits(r) /\ ~Waits(r)'
    BY <1>8, GiveUpMoves, EndMoves, IdleFields DEF Waits, GiveUp, MayFail, At, Ends
  <2>2. UNCHANGED <<connections, client>> /\ LeavesOpen(r)
    BY <1>8 DEF GiveUp
  <2> QED
    BY <1>6, <2>1, <2>2
<1>9. ASSUME NEW r \in Reqs, CacheMiss(r) PROVE OneOpen'
  <2> DEFINE b == req[r].row.account
  <2>1. Moves(r) /\ Keeps(r) /\ req[r].pc = "lookup"
    BY <1>9, CacheMissMoves
  <2>2. /\ UNCHANGED <<connections, client>>
        /\ doubled' = IF connections[b] # None \/ Connecting(b) # {}
                      THEN doubled \union {b} ELSE doubled
    BY <1>9 DEF CacheMiss
  <2>3. \A x \in Reqs : x = r \/ req'[x] = req[x]
    BY <2>1 DEF Moves
  <2> SUFFICES ASSUME NEW a \in Accounts, a \notin doubled'
               PROVE  /\ \A c \in Conns : Open(c, a) =>
                           \/ connections[a] # None /\ connections[a].conn = c
                           \/ \E q \in Connecting(a)' : req'[q].conn = c
                      /\ \A q \in Connecting(a)' : /\ connections[a] = None
                                                   /\ \A p \in Connecting(a)' : p = q
    BY <2>2 DEF OneOpen, Open
  <2>4. a \in Accounts \ doubled
    BY <2>2
  <2>5. \A q \in Connecting(a) : q \in Connecting(a)' /\ req'[q].conn = req[q].conn
    BY <2>1, <2>3 DEF Connecting
  <2>6. CASE a = b
    <3>1. connections[a] = None /\ Connecting(a) = {}
      BY <2>2, <2>6
    <3>2. \A q \in Connecting(a)' : q = r
      BY <2>3, <3>1 DEF Connecting
    <3> QED
      BY <2>4, <3>1, <3>2 DEF OneOpen
  <2>7. CASE a # b
    <3>1. \A q \in Connecting(a)' : q \in Connecting(a)
      BY <2>1, <2>3, <2>7 DEF Connecting, Keeps
    <3> QED
      BY <2>4, <2>5, <3>1 DEF OneOpen
  <2> QED
    BY <2>6, <2>7
<1>10. ASSUME NEW r \in Reqs, Connect(r) PROVE OneOpen'
  <2> DEFINE b == req[r].row.account
  <2>1. PICK c \in Conns :
         /\ Moves(r) /\ Keeps(r) /\ req[r].pc = "connect" /\ req'[r].pc = "prepare"
         /\ req'[r].conn = c /\ client[c] = None
         /\ client' = [client EXCEPT ![c] = [account |-> b, id |-> req[r].id, alive |-> TRUE]]
    BY <1>10, ConnectMoves
  <2>2. UNCHANGED <<connections, doubled>>
    BY <1>10 DEF Connect, history
  <2>3. \A x \in Reqs : x = r \/ req'[x] = req[x]
    BY <2>1 DEF Moves
  <2>4. r \in Connecting(b) /\ req[r].conn = None
    BY <2>1 DEF Connecting, TypeInv, Shaped
  <2>5. /\ \A d \in Conns : d # c => client'[d] = client[d]
        /\ client'[c].account = b
    BY <2>1 DEF TypeInv, TypeOK
  <2>6. \A a : Connecting(a)' = Connecting(a)
    BY <2>1, <2>3 DEF Connecting, Keeps
  <2>7. ASSUME NEW a \in Accounts, a \notin doubled, NEW d \in Conns, Open(d, a)'
        PROVE  \/ connections[a] # None /\ connections[a].conn = d
               \/ \E q \in Connecting(a) : req'[q].conn = d
    <3>1. CASE d = c
      <4>1. a = b
        BY <2>5, <2>7, <3>1 DEF Open
      <4> QED
        BY <2>1, <2>4, <3>1, <4>1
    <3>2. CASE d # c
      <4>1. Open(d, a)
        BY <2>5, <2>7, <3>2 DEF Open
      <4>2. a # b
        BY <2>4, <2>7, <4>1, AloneOpen, SshAssumption
      <4>3. \A q \in Connecting(a) : req'[q].conn = req[q].conn
        BY <2>3, <4>2 DEF Connecting
      <4> QED
        BY <2>7, <4>1, <4>3 DEF OneOpen
    <3> QED
      BY <3>1, <3>2
  <2> QED
    BY <2>2, <2>6, <2>7 DEF OneOpen
<1>11. ASSUME NEW r \in Reqs, Prepared(r) PROVE OneOpen'
  <2> DEFINE b == req[r].row.account
  <2>1. /\ Moves(r) /\ Keeps(r) /\ req[r].pc = "prepare" /\ ~Waits(r)'
        /\ req[r].conn \in Conns /\ req[r].row \in Row
    BY <1>11, PreparedMoves DEF Served, Waits
  <2>2. /\ UNCHANGED <<client, doubled>>
        /\ connections' = [connections EXCEPT ![b] =
                             [conn |-> req[r].conn, expire |-> now + SSH_CACHE]]
    BY <1>11 DEF Prepared
  <2>3. \A x \in Reqs : x = r \/ req'[x] = req[x]
    BY <2>1 DEF Moves
  <2>4. b \in Accounts /\ r \in Connecting(b)
    BY <2>1 DEF Row, Connecting
  <2>5. /\ connections'[b] # None /\ connections'[b].conn = req[r].conn
        /\ \A a \in Accounts : a # b => connections'[a] = connections[a]
    <3>1. now + SSH_CACHE \in Nat
      BY DEF TypeInv, TypeOK, SSH_CACHE
    <3>2. PICK e : e = [conn |-> req[r].conn, expire |-> now + SSH_CACHE]
      OBVIOUS
    <3>3. e \in Cached /\ e.conn = req[r].conn
      BY <2>1, <3>1, <3>2 DEF Cached
    <3>4. e # None
      BY <3>3, SshAssumption
    <3> QED
      BY <2>2, <2>4, <3>2, <3>3, <3>4 DEF TypeInv, TypeOK
  <2> SUFFICES ASSUME NEW a \in Accounts, a \notin doubled
               PROVE  /\ \A d \in Conns : Open(d, a) =>
                           \/ connections'[a] # None /\ connections'[a].conn = d
                           \/ \E q \in Connecting(a)' : req'[q].conn = d
                      /\ \A q \in Connecting(a)' : /\ connections'[a] = None
                                                   /\ \A p \in Connecting(a)' : p = q
    BY <2>2 DEF OneOpen, Open
  <2>6. \A q \in Connecting(a)' : q \in Connecting(a) /\ q # r
    BY <2>1, <2>3 DEF Connecting, Waits
  <2>7. CASE a = b
    <3>1. \A q \in Connecting(a) : q = r
      BY <2>4, <2>7 DEF OneOpen
    <3>2. \A d \in Conns : Open(d, a) => req[r].conn = d
      BY <2>4, <2>7, AloneOpen
    <3> QED
      BY <2>5, <2>6, <2>7, <3>1, <3>2
  <2>8. CASE a # b
    <3>1. \A q \in Connecting(a) : q \in Connecting(a)' /\ req'[q].conn = req[q].conn
      BY <2>3, <2>8 DEF Connecting
    <3> QED
      BY <2>5, <2>6, <2>8, <3>1 DEF OneOpen
  <2> QED
    BY <2>7, <2>8
<1>12. CASE Quiet
  BY <1>1, <1>12, QuietFrame DEF Frame, history
<1>13. CASE Restart
  <2>1. /\ \A c \in Conns : client'[c] = None
        /\ \A r \in Reqs : ~Waits(r)'
    BY <1>13, IdleFields DEF Restart, Waits
  <2> QED
    BY <2>1 DEF OneOpen, Open, Connecting, Waits
<1> QED
  BY <1>3, <1>4, <1>5, <1>7, <1>8, <1>9, <1>10, <1>11, <1>12, <1>13, StepCases

\* More than one open connection of an account only if an entry had expired, if two requests
\* were connecting at a time, or if a command failed on a connection just opened.
THEOREM OneConnectionEach == Spec => []OneConnection
<1>1. Init => OneOpen
  BY IdleFields DEF Init, OneOpen, Open, Connecting
<1>2. Spec => [](TypeInv /\ OneOpen)
  BY <1>1, ConnStays, OneStep, PTL DEF Spec
<1>3. ASSUME OneOpen PROVE OneConnection
  <2> SUFFICES ASSUME NEW a \in Accounts \ doubled
               PROVE  Cardinality({c \in Conns : client[c] # None /\ client[c].account = a
                                                   /\ client[c].alive}) <= 1
    BY DEF OneConnection
  <2> DEFINE S == {c \in Conns : client[c] # None /\ client[c].account = a /\ client[c].alive}
  <2>1. \A c \in S : Open(c, a)
    BY DEF Open
  <2>2. \A c, d \in S : c = d
    <3>1. CASE Connecting(a) = {}
      BY <1>3, <2>1, <3>1 DEF OneOpen
    <3>2. ASSUME NEW r \in Connecting(a) PROVE \A c, d \in S : c = d
      BY <1>3, <2>1, <3>2, AloneOpen
    <3> QED
      BY <3>1, <3>2
  <2>3. S = {} \/ \E c : S = {c}
    BY <2>2
  <2>4. Cardinality(S) = 0 \/ Cardinality(S) = 1
    BY <2>3, FS_EmptySet, FS_Singleton
  <2> QED
    BY <2>4
<1> QED
  BY <1>2, <1>3, PTL

=============================================================================
