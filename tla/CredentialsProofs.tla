-------------------------- MODULE CredentialsProofs --------------------------
(***************************************************************************)
(* Proofs about Credentials, for any users, e-mails, keys, codes and       *)
(* requests, and any number of wrong passwords that ban.                   *)
(***************************************************************************)
EXTENDS Credentials, TLAPS

-----------------------------------------------------------------------------
(* Types, and what a request carries at each of its steps. *)

SignUpSteps == {"sign_check", "sign_create", "sign_del"}
ResetSteps == {"reset_del", "reset_find", "reset_save"}

Shaped(q) ==
  /\ q.pc \in {"code_find", "code_set", "ask_code"} \union SignUpSteps \union ResetSteps =>
       q.email \in Emails
  /\ q.pc \in {"code_set"} \union SignUpSteps => q.key \in Keys
  /\ q.pc \in ResetSteps => q.key \in Codes
  /\ q.pc \in {"login", "reset_save", "change"} => q.user \in Users
  /\ q.pc = "login" => q.seen \in Account /\ q.seen.cnt <= MaxLogins /\ ~q.seen.banned

\* The rows requests are about to write are there, and a password is reset for the e-mail
\* the code was sent to.
RowsThere ==
  \A r \in Reqs :
    /\ req[r].pc \in {"login", "reset_save", "change"} => user[req[r].user] # None
    /\ req[r].pc = "reset_save" => user[req[r].user].email = req[r].email

TypeInv == TypeOK /\ (\A r \in Reqs : Shaped(req[r])) /\ RowsThere

\* The request r goes on, or ends, and the others stay as they are.
Moves(r) == /\ req' \in [Reqs -> Request] /\ Shaped(req'[r])
            /\ \A x \in Reqs \ {r} : req'[x] = req[x]
Ends(r) == /\ req' \in [Reqs -> Request] /\ req'[r] = Idle
           /\ \A x \in Reqs \ {r} : req'[x] = req[x]

\* It keeps what it works for.
Keeps(r) == req'[r].email = req[r].email /\ req'[r].key = req[r].key

LEMMA IdleShape == Idle \in Request /\ Shaped(Idle) /\ Idle.pc = "idle"
BY DEF Idle, Request, Shaped, SignUpSteps, ResetSteps

LEMMA EndMoves == ASSUME NEW r, Ends(r) PROVE Moves(r) /\ req'[r].pc = "idle"
BY IdleShape DEF Ends, Moves

LEMMA EndEnds == ASSUME TypeInv, NEW r \in Reqs, End(r) PROVE Ends(r)
BY IdleShape DEF TypeInv, TypeOK, End, Ends

LEMMA ReqFields ==
  ASSUME TypeInv, NEW r \in Reqs
  PROVE  req \in [Reqs -> Request] /\ req[r] \in Request /\ Shaped(req[r])
BY DEF TypeInv, TypeOK

-----------------------------------------------------------------------------
(* What each action does to the request that takes it. *)

LEMMA StartSendCodeMoves ==
  ASSUME TypeInv, NEW r \in Reqs, StartSendCode(r)
  PROVE  Moves(r) /\ req'[r].pc = "code_find"
<1>1. PICK e \in Emails : req' = [req EXCEPT ![r] = [Idle EXCEPT !.pc = "code_find", !.email = e]]
  BY DEF StartSendCode
<1>2. req'[r] = [pc |-> "code_find", email |-> e, key |-> None, user |-> None, seen |-> None,
                 right |-> FALSE]
  BY <1>1 DEF TypeInv, TypeOK, Idle
<1>3. req'[r] \in Request /\ Shaped(req'[r])
  BY <1>2 DEF Request, Shaped, SignUpSteps, ResetSteps
<1> QED
  BY <1>1, <1>2, <1>3 DEF Moves, TypeInv, TypeOK

LEMMA CodeFindMoves ==
  ASSUME TypeInv, NEW r \in Reqs, CodeFind(r)
  PROVE  \/ Ends(r) /\ UNCHANGED <<keyByEmail, freshKeys>>
         \/ \E k \in freshKeys :
              /\ Moves(r) /\ req'[r].pc = "code_set" /\ req'[r].key = k
              /\ req'[r].email = req[r].email /\ req[r].email \in Emails
              /\ freshKeys' = freshKeys \ {k}
              /\ keyByEmail' = [keyByEmail EXCEPT ![req[r].email] = k]
<1>1. req[r] \in Request /\ req[r].email \in Emails /\ freshKeys \subseteq Keys
  BY ReqFields DEF CodeFind, At, Shaped, SignUpSteps, TypeInv, TypeOK
<1>2. ASSUME NEW k \in freshKeys, req' = [req EXCEPT ![r].pc = "code_set", ![r].key = k]
      PROVE  Moves(r) /\ req'[r].pc = "code_set" /\ req'[r].key = k /\ req'[r].email = req[r].email
  <2>1. req'[r] = [pc |-> "code_set", email |-> req[r].email, key |-> k, user |-> req[r].user,
                   seen |-> req[r].seen, right |-> req[r].right]
    BY <1>1, <1>2 DEF TypeInv, TypeOK, Request
  <2>2. req'[r] \in Request /\ Shaped(req'[r])
    BY <1>1, <2>1 DEF Request, Shaped, SignUpSteps, ResetSteps
  <2> QED
    BY <1>2, <2>1, <2>2 DEF Moves, TypeInv, TypeOK
<1> QED
  BY <1>1, <1>2, EndEnds DEF CodeFind

LEMMA StartSignUpMoves ==
  ASSUME TypeInv, NEW r \in Reqs, StartSignUp(r)
  PROVE  \E e \in Emails, k \in Keys :
           /\ Moves(r) /\ req'[r].pc = "sign_check" /\ req'[r].email = e /\ req'[r].key = k
           /\ Received(k) /\ keyByEmail[e] = k
<1>1. PICK e \in Emails, k \in Keys :
        /\ Received(k) /\ keyByEmail[e] = k
        /\ req' = [req EXCEPT ![r] = [Idle EXCEPT !.pc = "sign_check", !.email = e, !.key = k]]
  BY DEF StartSignUp
<1>2. req'[r] = [pc |-> "sign_check", email |-> e, key |-> k, user |-> None, seen |-> None,
                 right |-> FALSE]
  BY <1>1 DEF TypeInv, TypeOK, Idle
<1>3. req'[r] \in Request /\ Shaped(req'[r])
  BY <1>2 DEF Request, Shaped, SignUpSteps, ResetSteps
<1>4. Moves(r)
  BY <1>1, <1>3 DEF Moves, TypeInv, TypeOK
<1> QED
  BY <1>1, <1>2, <1>4

\* A step of sign-up or of a reset goes on to the next one.
LEMMA NextStepMoves ==
  ASSUME TypeInv, NEW r \in Reqs, NEW pc, Step(r, pc),
         \/ req[r].pc \in SignUpSteps /\ pc \in SignUpSteps
         \/ req[r].pc \in ResetSteps /\ pc = "reset_find"
  PROVE  Moves(r) /\ Keeps(r) /\ req'[r].pc = pc
<1>1. req[r] \in Request /\ Shaped(req[r])
  BY ReqFields
<1>2. req'[r] = [pc |-> pc, email |-> req[r].email, key |-> req[r].key, user |-> req[r].user,
                 seen |-> req[r].seen, right |-> req[r].right]
  BY <1>1 DEF Step, TypeInv, TypeOK, Request
<1>3. req'[r] \in Request /\ Shaped(req'[r])
  BY <1>1, <1>2 DEF Request, Shaped, SignUpSteps, ResetSteps
<1> QED
  BY <1>2, <1>3 DEF Moves, Keeps, Step, TypeInv, TypeOK

LEMMA CheckDuplicateMoves ==
  ASSUME TypeInv, NEW r \in Reqs, CheckDuplicate(r)
  PROVE  \/ Ends(r)
         \/ Moves(r) /\ Keeps(r) /\ req[r].pc \in SignUpSteps /\ req'[r].pc = "sign_create"
BY EndEnds, NextStepMoves DEF CheckDuplicate, At, SignUpSteps

LEMMA CreateMoves ==
  ASSUME TypeInv, NEW r \in Reqs, Create(r)
  PROVE  \/ Ends(r) /\ UNCHANGED <<user, passes, via, known>>
         \/ /\ Moves(r) /\ Keeps(r) /\ req'[r].pc = "sign_del"
            /\ req[r].pc = "sign_create" /\ req[r].email \in Emails /\ req[r].key \in Keys
            /\ ~Exists(req[r].email) /\ passes < MaxPass /\ passes' = passes + 1
            /\ \E u \in Users : /\ user[u] = None
                                /\ user' = [user EXCEPT ![u] = NewAccount(req[r].email)]
                                /\ via' = [via EXCEPT ![u] = req[r].key]
                                /\ known' = [known EXCEPT ![u] = {passes + 1}]
<1>1. req[r].pc = "sign_create" /\ req[r].email \in Emails /\ req[r].key \in Keys
  BY ReqFields DEF Create, At, Shaped, SignUpSteps
<1>2. Step(r, "sign_del") => Moves(r) /\ Keeps(r) /\ req'[r].pc = "sign_del"
  BY <1>1, NextStepMoves DEF SignUpSteps
<1> QED
  BY <1>1, <1>2, EndEnds DEF Create

LEMMA StartLoginMoves ==
  ASSUME TypeInv, NEW r \in Reqs, StartLogin(r)
  PROVE  \E u \in Users :
           /\ Found(u) /\ user[u].cnt <= MaxLogins /\ req[r].pc = "idle"
           /\ Moves(r) /\ req'[r].pc = "login" /\ req'[r].user = u /\ req'[r].seen = user[u]
           /\ raced' = IF Attempts(u) # {} THEN raced \union {u} ELSE raced
<1>1. PICK u \in Users, right \in BOOLEAN :
        /\ Found(u) /\ user[u].cnt <= MaxLogins
        /\ req' = [req EXCEPT ![r] = [Idle EXCEPT !.pc = "login", !.user = u,
                                       !.seen = user[u], !.right = right]]
        /\ raced' = IF Attempts(u) # {} THEN raced \union {u} ELSE raced
  BY DEF StartLogin
<1>2. PICK w \in Account : w = user[u]
  BY <1>1 DEF Found, TypeInv, TypeOK
<1>3. req'[r] = [pc |-> "login", email |-> None, key |-> None, user |-> u, seen |-> w,
                 right |-> right]
  BY <1>1, <1>2 DEF TypeInv, TypeOK, Idle
<1>4. w.cnt <= MaxLogins /\ ~w.banned
  BY <1>1, <1>2 DEF Found
<1>5. req'[r] \in Request
  BY <1>3 DEF Request
<1>6. Shaped(req'[r])
  BY <1>3, <1>4 DEF Shaped, SignUpSteps, ResetSteps
<1>7. Moves(r)
  BY <1>1, <1>5, <1>6 DEF Moves, TypeInv, TypeOK
<1>8. req'[r].pc = "login" /\ req'[r].user = u /\ req'[r].seen = user[u]
  BY <1>2, <1>3
<1>9. req[r].pc = "idle"
  BY DEF StartLogin, At
<1> QED
  BY <1>1, <1>7, <1>8, <1>9

LEMMA StartAskMoves ==
  ASSUME TypeInv, NEW r \in Reqs, StartAsk(r)
  PROVE  Moves(r) /\ req'[r].pc = "ask_code"
<1>1. PICK e \in Emails : req' = [req EXCEPT ![r] = [Idle EXCEPT !.pc = "ask_code", !.email = e]]
  BY DEF StartAsk
<1>2. req'[r] = [pc |-> "ask_code", email |-> e, key |-> None, user |-> None, seen |-> None,
                 right |-> FALSE]
  BY <1>1 DEF TypeInv, TypeOK, Idle
<1>3. req'[r] \in Request /\ Shaped(req'[r])
  BY <1>2 DEF Request, Shaped, SignUpSteps, ResetSteps
<1> QED
  BY <1>1, <1>2, <1>3 DEF Moves, TypeInv, TypeOK

LEMMA StartResetMoves ==
  ASSUME TypeInv, NEW r \in Reqs, StartReset(r)
  PROVE  \E c \in Codes :
           /\ reset[c] # None /\ req[r].pc = "idle"
           /\ Moves(r) /\ req'[r].pc = "reset_del" /\ req'[r].key = c
           /\ contended' = IF Readers(c) # {} THEN contended \union {c} ELSE contended
<1>1. PICK c \in Codes :
        /\ reset[c] # None
        /\ req' = [req EXCEPT ![r] = [Idle EXCEPT !.pc = "reset_del", !.key = c,
                                       !.email = reset[c]]]
        /\ contended' = IF Readers(c) # {} THEN contended \union {c} ELSE contended
  BY DEF StartReset
<1>2. PICK e \in Emails : e = reset[c]
  BY <1>1 DEF TypeInv, TypeOK
<1>3. req'[r] = [pc |-> "reset_del", email |-> e, key |-> c, user |-> None, seen |-> None,
                 right |-> FALSE]
  BY <1>1, <1>2 DEF TypeInv, TypeOK, Idle
<1>4. req'[r] \in Request /\ Shaped(req'[r])
  BY <1>3 DEF Request, Shaped, SignUpSteps, ResetSteps
<1>5. Moves(r)
  BY <1>1, <1>4 DEF Moves, TypeInv, TypeOK
<1>6. req[r].pc = "idle"
  BY DEF StartReset, At
<1>7. req'[r].pc = "reset_del" /\ req'[r].key = c
  BY <1>3
<1> QED
  BY <1>1, <1>5, <1>6, <1>7

LEMMA DelResetMoves ==
  ASSUME TypeInv, NEW r \in Reqs, DelReset(r)
  PROVE  /\ Moves(r) /\ Keeps(r) /\ req[r].pc = "reset_del" /\ req'[r].pc = "reset_find"
         /\ req[r].key \in Codes
BY NextStepMoves, ReqFields DEF DelReset, At, ResetSteps, Shaped

LEMMA ResetFindMoves ==
  ASSUME TypeInv, NEW r \in Reqs, ResetFind(r)
  PROVE  \/ Ends(r)
         \/ /\ Moves(r) /\ Keeps(r) /\ req[r].pc = "reset_find" /\ req'[r].pc = "reset_save"
            /\ req[r].key \in Codes
            /\ \E u \in Users :
                 req'[r].user = u /\ user[u] # None /\ user[u].email = req[r].email
<1>1. req[r] \in Request /\ Shaped(req[r]) /\ req[r].pc = "reset_find"
  BY ReqFields DEF ResetFind, At
<1>2. ASSUME NEW u \in Users, Found(u), user[u].email = req[r].email,
             req' = [req EXCEPT ![r].pc = "reset_save", ![r].user = u]
      PROVE  /\ Moves(r) /\ Keeps(r) /\ req'[r].pc = "reset_save"
             /\ req'[r].user = u /\ user[u] # None /\ user[u].email = req[r].email
  <2>1. req'[r] = [pc |-> "reset_save", email |-> req[r].email, key |-> req[r].key, user |-> u,
                   seen |-> req[r].seen, right |-> req[r].right]
    BY <1>1, <1>2 DEF TypeInv, TypeOK, Request
  <2>2. req'[r] \in Request /\ Shaped(req'[r])
    BY <1>1, <2>1 DEF Request, Shaped, SignUpSteps, ResetSteps
  <2>3. Moves(r)
    BY <1>2, <2>2 DEF Moves, TypeInv, TypeOK
  <2> QED
    BY <1>2, <2>1, <2>3 DEF Keeps, Found
<1>3. req[r].key \in Codes
  BY <1>1 DEF Shaped, ResetSteps
<1> QED
  BY <1>1, <1>2, <1>3, EndEnds DEF ResetFind

LEMMA StartChangeMoves ==
  ASSUME TypeInv, NEW r \in Reqs, StartChange(r)
  PROVE  \E u \in Users :
           Moves(r) /\ req'[r].pc = "change" /\ req'[r].user = u /\ user[u] # None
<1>1. PICK u \in Users :
        /\ Found(u)
        /\ req' = [req EXCEPT ![r] = [Idle EXCEPT !.pc = "change", !.user = u]]
  BY DEF StartChange
<1>2. req'[r] = [pc |-> "change", email |-> None, key |-> None, user |-> u, seen |-> None,
                 right |-> FALSE]
  BY <1>1 DEF TypeInv, TypeOK, Idle
<1>3. req'[r] \in Request /\ Shaped(req'[r])
  BY <1>2 DEF Request, Shaped, SignUpSteps, ResetSteps
<1>4. Moves(r)
  BY <1>1, <1>3 DEF Moves, TypeInv, TypeOK
<1> QED
  BY <1>1, <1>2, <1>4 DEF Found

-----------------------------------------------------------------------------
(* What a login writes. *)

LEMMA AttemptRow ==
  ASSUME NEW row \in Account, NEW seen \in Account, seen.cnt <= MaxLogins,
         NEW right \in BOOLEAN
  PROVE  /\ Attempt(row, seen, right) \in Account
         /\ Attempt(row, seen, right).email = row.email
         /\ Attempt(row, seen, right).pass = row.pass
         /\ right => /\ Attempt(row, seen, right).cnt = 0
                     /\ ~Attempt(row, seen, right).banned
         /\ ~right => /\ Attempt(row, seen, right).cnt = seen.cnt + 1
                      /\ Attempt(row, seen, right).banned <=>
                           (row.banned \/ seen.cnt + 1 >= MaxLogins)
<1>1. /\ MaxLogins \in Nat /\ seen.cnt \in 0..MaxLogins + 1
      /\ row.banned \in BOOLEAN /\ row.cnt \in 0..MaxLogins + 1
      /\ row.email \in Emails /\ row.pass \in Passwords
  BY CredentialsAssumption DEF Account
<1>2. CASE right
  <2>1. PICK q : q = Attempt(row, seen, right)
    OBVIOUS
  <2>2. q = [row EXCEPT !.cnt = 0, !.banned = FALSE]
    BY <1>2, <2>1 DEF Attempt
  <2>3. q = [email |-> row.email, pass |-> row.pass, cnt |-> 0, banned |-> FALSE]
    BY <2>2 DEF Account
  <2>4. q \in Account
    BY <1>1, <2>3 DEF Account
  <2>5. q.email = row.email /\ q.pass = row.pass /\ q.cnt = 0 /\ ~q.banned
    BY <2>3
  <2> QED
    BY <1>2, <2>1, <2>4, <2>5
<1>3. CASE ~right
  <2>1. PICK q : q = Attempt(row, seen, right)
    OBVIOUS
  <2>2. PICK b \in BOOLEAN : b = (row.banned \/ seen.cnt + 1 >= MaxLogins)
    OBVIOUS
  <2>3. q = [row EXCEPT !.cnt = seen.cnt + 1, !.banned = b]
    BY <1>3, <2>1, <2>2 DEF Attempt
  <2>4. q = [email |-> row.email, pass |-> row.pass, cnt |-> seen.cnt + 1, banned |-> b]
    BY <2>3 DEF Account
  <2>5. q \in Account
    BY <1>1, <2>4 DEF Account
  <2>6. /\ q.email = row.email /\ q.pass = row.pass /\ q.cnt = seen.cnt + 1
        /\ q.banned = b
    BY <2>4
  <2>7. q.banned <=> (row.banned \/ seen.cnt + 1 >= MaxLogins)
    BY <2>2, <2>6
  <2> QED
    BY <1>3, <2>1, <2>5, <2>6, <2>7
<1> QED
  BY <1>2, <1>3

LEMMA PasswordRow ==
  ASSUME NEW p \in Passwords
  PROVE  \A w \in Account : /\ [w EXCEPT !.pass = p] \in Account
                            /\ [w EXCEPT !.pass = p].email = w.email
                            /\ [w EXCEPT !.pass = p].pass = p
                            /\ [w EXCEPT !.pass = p].cnt = w.cnt
                            /\ [w EXCEPT !.pass = p].banned = w.banned
BY DEF Account

LEMMA FreeRow ==
  \A w \in Account : /\ [w EXCEPT !.banned = FALSE] \in Account
                     /\ [w EXCEPT !.banned = FALSE].email = w.email
                     /\ [w EXCEPT !.banned = FALSE].pass = w.pass
                     /\ [w EXCEPT !.banned = FALSE].cnt = w.cnt
                     /\ ~[w EXCEPT !.banned = FALSE].banned
BY DEF Account

LEMMA NewRow ==
  ASSUME TypeInv, NEW e \in Emails, passes < MaxPass
  PROVE  /\ NewAccount(e) \in Account /\ NewAccount(e) # None
         /\ NewAccount(e).email = e /\ NewAccount(e).pass = passes + 1
         /\ NewAccount(e).cnt = 0 /\ ~NewAccount(e).banned /\ passes + 1 \in Passwords
<1>1. passes + 1 \in Passwords /\ MaxLogins \in Nat
  BY CredentialsAssumption DEF TypeInv, TypeOK, Passwords
<1>2. NewAccount(e) \in Account
  BY <1>1 DEF NewAccount, Account
<1> QED
  BY <1>1, <1>2, CredentialsAssumption DEF NewAccount

-----------------------------------------------------------------------------
(* Rows: a step writes at most one, and never another e-mail over it. *)

Writes(u, w) == /\ user' = [user EXCEPT ![u] = w]
                /\ user[u] # None => w.email = user[u].email

LEMMA SaveLoginWrites ==
  ASSUME TypeInv, NEW r \in Reqs, SaveLogin(r)
  PROVE  LET u == req[r].user IN
         /\ u \in Users /\ user[u] \in Account
         /\ req[r].seen \in Account /\ req[r].seen.cnt <= MaxLogins /\ req[r].right \in BOOLEAN
         /\ ~req[r].seen.banned /\ req[r].pc = "login"
         /\ user' = [user EXCEPT ![u] = Attempt(user[u], req[r].seen, req[r].right)]
         /\ Attempt(user[u], req[r].seen, req[r].right) \in Account
         /\ Attempt(user[u], req[r].seen, req[r].right).email = user[u].email
         /\ Attempt(user[u], req[r].seen, req[r].right).pass = user[u].pass
<1> DEFINE u == req[r].user
           w == Attempt(user[u], req[r].seen, req[r].right)
<1>1. req[r] \in Request /\ Shaped(req[r]) /\ req[r].pc = "login"
  BY ReqFields DEF SaveLogin, At
<1>2. /\ u \in Users /\ req[r].seen \in Account /\ req[r].seen.cnt <= MaxLogins
      /\ ~req[r].seen.banned
  BY <1>1 DEF Shaped
<1>3. user[u] \in Account
  BY <1>1, <1>2 DEF TypeInv, TypeOK, RowsThere
<1>4. req[r].right \in BOOLEAN
  BY <1>1 DEF Request
<1>5. w \in Account /\ w.email = user[u].email /\ w.pass = user[u].pass
  BY <1>2, <1>3, <1>4, AttemptRow
<1>6. user' = [user EXCEPT ![u] = w]
  BY DEF SaveLogin
<1> QED
  BY <1>1, <1>2, <1>3, <1>4, <1>5, <1>6

LEMMA BanEndsWrites ==
  ASSUME TypeInv, NEW u \in Users, BanEnds(u)
  PROVE  \E w \in Account : /\ user[u] \in Account /\ user' = [user EXCEPT ![u] = w]
                            /\ w.email = user[u].email /\ w.pass = user[u].pass
                            /\ w.cnt = user[u].cnt /\ ~w.banned
<1>1. user[u] \in Account
  BY DEF BanEnds, TypeInv, TypeOK
<1>2. PICK w \in Account : /\ w = [user[u] EXCEPT !.banned = FALSE]
                           /\ w.email = user[u].email /\ w.pass = user[u].pass
                           /\ w.cnt = user[u].cnt /\ ~w.banned
  BY <1>1, FreeRow
<1>3. user' = [user EXCEPT ![u] = w]
  BY <1>1, <1>2 DEF BanEnds, TypeInv, TypeOK
<1> QED
  BY <1>1, <1>2, <1>3

\* A new password.
NewPass(u, w) ==
  /\ user[u] \in Account /\ user' = [user EXCEPT ![u] = w]
  /\ w.email = user[u].email /\ w.pass = passes + 1
  /\ w.cnt = user[u].cnt /\ w.banned = user[u].banned
  /\ passes < MaxPass /\ passes' = passes + 1 /\ passes + 1 \in Passwords
  /\ past' = [past EXCEPT ![u] = @ \union {user[u].pass}]

LEMMA NewPassWrites ==
  ASSUME TypeInv, NEW r \in Reqs, ResetSave(r) \/ ChangeSave(r)
  PROVE  /\ req[r].user \in Users
         /\ \E w \in Account : NewPass(req[r].user, w)
<1> DEFINE u == req[r].user
<1>1. req[r] \in Request /\ Shaped(req[r]) /\ req[r].pc \in {"reset_save", "change"}
  BY ReqFields DEF ResetSave, ChangeSave, At
<1>2. u \in Users
  BY <1>1 DEF Shaped
<1>3. user[u] \in Account
  BY <1>1, <1>2 DEF TypeInv, TypeOK, RowsThere
<1>4. /\ passes < MaxPass /\ passes' = passes + 1
      /\ user' = [user EXCEPT ![u].pass = passes + 1]
      /\ past' = [past EXCEPT ![u] = @ \union {user[u].pass}]
  BY DEF ResetSave, ChangeSave
<1>5. passes + 1 \in Passwords
  BY <1>4, CredentialsAssumption DEF TypeInv, TypeOK, Passwords
<1>6. PICK w \in Account : /\ w = [user[u] EXCEPT !.pass = passes + 1]
                           /\ w.email = user[u].email /\ w.pass = passes + 1
                           /\ w.cnt = user[u].cnt /\ w.banned = user[u].banned
  <2>1. PICK p \in Passwords : p = passes + 1
    BY <1>5
  <2>2. \A w \in Account : /\ [w EXCEPT !.pass = p] \in Account
                            /\ [w EXCEPT !.pass = p].email = w.email
                            /\ [w EXCEPT !.pass = p].pass = p
                            /\ [w EXCEPT !.pass = p].cnt = w.cnt
                            /\ [w EXCEPT !.pass = p].banned = w.banned
    BY PasswordRow
  <2> HIDE DEF u
  <2> QED
    BY <1>3, <2>1, <2>2
<1>7. user' = [user EXCEPT ![u] = w]
  BY <1>2, <1>4, <1>6 DEF TypeInv, TypeOK
<1>8. NewPass(u, w)
  BY <1>3, <1>4, <1>5, <1>6, <1>7 DEF NewPass
<1> QED
  BY <1>2, <1>8

LEMMA RowsWritten ==
  ASSUME TypeInv, [Next]_vars
  PROVE  UNCHANGED user \/ \E u \in Users, w \in Account : Writes(u, w)
<1>1. ASSUME NEW r \in Reqs, Create(r)
      PROVE  UNCHANGED user \/ \E u \in Users, w \in Account : Writes(u, w)
  <2>1. CASE Ends(r) /\ UNCHANGED <<user, passes, via, known>>
    BY <2>1
  <2>2. ASSUME req[r].email \in Emails, passes < MaxPass, NEW u \in Users, user[u] = None,
               user' = [user EXCEPT ![u] = NewAccount(req[r].email)]
        PROVE  \E v \in Users, w \in Account : Writes(v, w)
    <3>1. NewAccount(req[r].email) \in Account
      BY <2>2, NewRow
    <3>2. Writes(u, NewAccount(req[r].email))
      BY <2>2 DEF Writes
    <3> QED
      BY <3>1, <3>2
  <2> QED
    BY <1>1, <2>1, <2>2, CreateMoves
<1>2. CASE CreateMember
  <2>1. PICK u \in Users, e \in Emails :
          user[u] = None /\ user' = [user EXCEPT ![u] = NewAccount(e)]
    BY <1>2 DEF CreateMember
  <2>2. NewAccount(e) \in Account
    BY <1>2, NewRow DEF CreateMember
  <2>3. Writes(u, NewAccount(e))
    BY <2>1 DEF Writes
  <2> QED
    BY <2>2, <2>3
<1>3. ASSUME NEW r \in Reqs, SaveLogin(r) PROVE \E u \in Users, w \in Account : Writes(u, w)
  <2> DEFINE u == req[r].user
             w == Attempt(user[u], req[r].seen, req[r].right)
  <2>1. u \in Users /\ w \in Account /\ Writes(u, w)
    BY <1>3, SaveLoginWrites DEF Writes
  <2> HIDE DEF u, w
  <2> QED
    BY <2>1
<1>4. ASSUME NEW u \in Users, BanEnds(u) PROVE \E v \in Users, w \in Account : Writes(v, w)
  BY <1>4, BanEndsWrites DEF Writes
<1>5. ASSUME NEW r \in Reqs, ResetSave(r) \/ ChangeSave(r)
      PROVE  \E u \in Users, w \in Account : Writes(u, w)
  BY <1>5, NewPassWrites DEF Writes, NewPass
<1>6. CASE UNCHANGED vars
  BY <1>6 DEF vars
<1>7. ASSUME NEW r \in Reqs,
             SendCode(r) \/ StartSignUp(r) \/ CheckDuplicate(r) \/ DelKey(r) \/ StartLogin(r)
               \/ StartAsk(r) \/ AskSetCode(r) \/ StartReset(r) \/ DelReset(r) \/ ResetFind(r)
               \/ StartChange(r) \/ Fails(r)
      PROVE  UNCHANGED user
  BY <1>7 DEF SendCode, StartSendCode, CodeFind, SetCode, StartSignUp, CheckDuplicate, DelKey,
              StartLogin, StartAsk, AskSetCode, StartReset, DelReset, ResetFind, StartChange, Fails
<1>8. ASSUME NEW m \in outbox, SendEmail(m) \/ LoseEmail(m) PROVE UNCHANGED user
  BY <1>8 DEF SendEmail, LoseEmail
<1>9. CASE Expire \/ Restart
  BY <1>9 DEF Expire, Restart
<1> DEFINE Wrote == UNCHANGED user \/ \E u \in Users, w \in Account : Writes(u, w)
<1>10. ASSUME NEW r \in Reqs, SendCode(r) \/ SignUp(r) \/ Login(r) \/ ResetPass(r)
                                \/ ChangePass(r) \/ Fails(r)
       PROVE  Wrote
  <2>1. Create(r) \/ SaveLogin(r) \/ ResetSave(r) \/ ChangeSave(r)
          \/ SendCode(r) \/ StartSignUp(r) \/ CheckDuplicate(r) \/ DelKey(r) \/ StartLogin(r)
          \/ StartAsk(r) \/ AskSetCode(r) \/ StartReset(r) \/ DelReset(r) \/ ResetFind(r)
          \/ StartChange(r) \/ Fails(r)
    BY <1>10 DEF SignUp, Login, ResetPass, ChangePass
  <2>2. CASE Create(r)
    BY <2>2, <1>1
  <2>3. CASE SaveLogin(r) \/ ResetSave(r) \/ ChangeSave(r)
    BY <2>3, <1>3, <1>5
  <2> QED
    BY <2>1, <2>2, <2>3, <1>7
<1>11. CASE CreateMember \/ Expire \/ Restart \/ UNCHANGED vars
  BY <1>11, <1>2, <1>6, <1>9
<1>12. ASSUME NEW u \in Users, BanEnds(u) PROVE Wrote
  BY <1>4, <1>12
<1>13. ASSUME NEW m \in outbox, SendEmail(m) \/ LoseEmail(m) PROVE Wrote
  BY <1>8, <1>13
<1> HIDE DEF Wrote
<1>14. CASE Next
  BY <1>10, <1>11, <1>12, <1>13, <1>14 DEF Next, Wrote
<1> QED
  BY <1>11, <1>14

EmailsKept == \A u \in Users : user[u] # None => /\ user'[u] # None
                                                 /\ user'[u].email = user[u].email

LEMMA RowsKept ==
  ASSUME TypeInv, [Next]_vars
  PROVE  user' \in [Users -> Account \union {None}] /\ EmailsKept
<1>1. CASE UNCHANGED user
  BY <1>1 DEF TypeInv, TypeOK, EmailsKept
<1>2. ASSUME NEW u \in Users, NEW w \in Account, Writes(u, w)
      PROVE  user' \in [Users -> Account \union {None}] /\ EmailsKept
  <2>1. w # None
    BY CredentialsAssumption
  <2> QED
    BY <1>2, <2>1 DEF Writes, TypeInv, TypeOK, EmailsKept
<1> QED
  BY <1>1, <1>2, RowsWritten

-----------------------------------------------------------------------------
(* The types are kept. *)

OtherTypes ==
  /\ keyByEmail \in [Emails -> Keys \union {None}]
  /\ verify \subseteq Keys
  /\ reset \in [Codes -> Emails \union {None}]
  /\ freshKeys \subseteq Keys /\ freshCodes \subseteq Codes
  /\ passes \in 0..MaxPass
  /\ outbox \subseteq Mail /\ inbox \subseteq Mail
  /\ faults \in 0..MaxFaults
  /\ via \in [Users -> Keys \union {None}]
  /\ fails \in [Users -> 0..MaxLogins + 1]
  /\ raced \subseteq Users /\ lifted \subseteq Users /\ lost \subseteq Passwords
  /\ known \in [Users -> SUBSET Passwords] /\ given \subseteq Passwords
  /\ past \in [Users -> SUBSET Passwords]
  /\ uses \in [Codes -> Nat] /\ contended \subseteq Codes

LEMMA TypeParts ==
  TypeOK <=> /\ user \in [Users -> Account \union {None}]
             /\ req \in [Reqs -> Request]
             /\ OtherTypes
BY DEF TypeOK, OtherTypes

LEMMA MailTypes ==
  ASSUME NEW e \in Emails
  PROVE  /\ \A k \in Keys : [to |-> e, about |-> "code", key |-> k] \in Mail
         /\ \A c \in Codes : [to |-> e, about |-> "link", key |-> c] \in Mail
         /\ \A p \in Passwords : [to |-> e, about |-> "password", key |-> p] \in Mail
BY DEF Mail

LEMMA TypeInit == Init => TypeInv
<1> SUFFICES ASSUME Init PROVE TypeInv
  OBVIOUS
<1>1. req \in [Reqs -> Request] /\ \A r \in Reqs : Shaped(req[r]) /\ req[r].pc = "idle"
  BY IdleShape DEF Init
<1>2. OtherTypes
  BY CredentialsAssumption DEF Init, OtherTypes
<1>3. user \in [Users -> Account \union {None}]
  BY DEF Init
<1>4. RowsThere
  BY <1>1 DEF RowsThere
<1> QED
  BY <1>1, <1>2, <1>3, <1>4, TypeParts DEF TypeInv

LEMMA SignUpTypes ==
  ASSUME TypeInv, NEW r \in Reqs, SendCode(r) \/ SignUp(r) PROVE OtherTypes'
<1>1. OtherTypes /\ req[r] \in Request /\ Shaped(req[r])
  BY TypeParts, ReqFields DEF TypeInv
<1>2. CASE StartSendCode(r) \/ StartSignUp(r) \/ CheckDuplicate(r)
  BY <1>1, <1>2 DEF StartSendCode, StartSignUp, CheckDuplicate, OtherTypes, redis, mails, history
<1>3. CASE CodeFind(r)
  <2>1. req[r].email \in Emails
    BY <1>1, <1>3 DEF CodeFind, At, Shaped
  <2> QED
    BY <1>1, <1>3, <2>1 DEF CodeFind, OtherTypes, mails, history
<1>4. CASE SetCode(r)
  <2>1. req[r].email \in Emails /\ req[r].key \in Keys
    BY <1>1, <1>4 DEF SetCode, At, Shaped
  <2>2. [to |-> req[r].email, about |-> "code", key |-> req[r].key] \in Mail
    BY <2>1, MailTypes
  <2> QED
    BY <1>1, <1>4, <2>1, <2>2 DEF SetCode, OtherTypes, history
<1>5. CASE Create(r)
  <2>1. req[r].key \in Keys
    BY <1>1, <1>5 DEF Create, At, Shaped, SignUpSteps
  <2>2. passes < MaxPass /\ passes + 1 \in Passwords /\ passes + 1 \in 0..MaxPass
    BY <1>1, <1>5, CredentialsAssumption DEF Create, OtherTypes, Passwords
  <2>3. UNCHANGED <<passes, via, known>> \/
          (/\ passes' = passes + 1
           /\ \E u \in Users : /\ via' = [via EXCEPT ![u] = req[r].key]
                               /\ known' = [known EXCEPT ![u] = {passes + 1}])
    BY <1>5, CreateMoves
  <2>4. UNCHANGED <<keyByEmail, redis, mails, faults, fails, raced, lifted, lost, given,
                    past, uses, contended>>
    BY <1>5 DEF Create
  <2>5. /\ passes' \in 0..MaxPass /\ via' \in [Users -> Keys \union {None}]
        /\ known' \in [Users -> SUBSET Passwords]
    BY <1>1, <2>1, <2>2, <2>3 DEF OtherTypes
  <2> QED
    BY <1>1, <2>4, <2>5 DEF OtherTypes, redis, mails
<1>6. CASE DelKey(r)
  BY <1>1, <1>6 DEF DelKey, OtherTypes, mails, history
<1> QED
  BY <1>2, <1>3, <1>4, <1>5, <1>6 DEF SendCode, SignUp

LEMMA LoginTypes ==
  ASSUME TypeInv, NEW r \in Reqs, Login(r) PROVE OtherTypes'
<1>1. OtherTypes
  BY TypeParts DEF TypeInv
<1>2. CASE StartLogin(r)
  BY <1>1, <1>2 DEF StartLogin, OtherTypes, redis, mails
<1>3. CASE SaveLogin(r)
  <2>1. req[r].user \in Users /\ MaxLogins \in Nat
    BY <1>3, SaveLoginWrites, CredentialsAssumption
  <2>2. fails' \in [Users -> 0..MaxLogins + 1]
    BY <1>1, <1>3, <2>1 DEF SaveLogin, OtherTypes
  <2>3. raced' \subseteq Users /\ lifted' \subseteq Users
    BY <1>1, <1>3 DEF SaveLogin, OtherTypes
  <2>4. UNCHANGED <<keyByEmail, redis, passes, mails, faults, via, lost, known, given,
                    past, uses, contended>>
    BY <1>3 DEF SaveLogin
  <2> QED
    BY <1>1, <2>2, <2>3, <2>4 DEF OtherTypes, redis, mails
<1> QED
  BY <1>2, <1>3 DEF Login

LEMMA PasswordTypes ==
  ASSUME TypeInv, NEW r \in Reqs, ResetPass(r) \/ ChangePass(r) PROVE OtherTypes'
<1>1. OtherTypes /\ req[r] \in Request /\ Shaped(req[r])
  BY TypeParts, ReqFields DEF TypeInv
<1>2. CASE StartAsk(r) \/ StartReset(r) \/ ResetFind(r) \/ StartChange(r)
  BY <1>1, <1>2 DEF StartAsk, StartReset, ResetFind, StartChange, OtherTypes, redis, mails, history
<1>3. CASE AskSetCode(r)
  <2>1. req[r].email \in Emails
    BY <1>1, <1>3 DEF AskSetCode, At, Shaped
  <2>2. \A c \in Codes : [to |-> req[r].email, about |-> "link", key |-> c] \in Mail
    BY <2>1, MailTypes
  <2> QED
    BY <1>1, <1>3, <2>1, <2>2 DEF AskSetCode, OtherTypes, history
<1>4. CASE DelReset(r)
  BY <1>1, <1>4 DEF DelReset, OtherTypes, mails, history
<1>5. CASE ResetSave(r)
  <2>1. req[r].email \in Emails /\ req[r].key \in Codes /\ req[r].user \in Users
    BY <1>1, <1>5 DEF ResetSave, At, Shaped, ResetSteps
  <2>2. PICK w \in Account : NewPass(req[r].user, w)
    BY <1>5, NewPassWrites
  <2>3. /\ passes' \in 0..MaxPass /\ past' \in [Users -> SUBSET Passwords]
    BY <1>1, <2>1, <2>2, CredentialsAssumption DEF OtherTypes, NewPass, Account
  <2>4. [to |-> req[r].email, about |-> "password", key |-> passes + 1] \in Mail
    BY <2>1, <2>2, MailTypes DEF NewPass
  <2>5. outbox' \subseteq Mail /\ uses' \in [Codes -> Nat]
    BY <1>1, <1>5, <2>1, <2>4 DEF ResetSave, OtherTypes
  <2>6. UNCHANGED <<keyByEmail, redis, inbox, faults, via, fails, raced, lifted, lost,
                    known, given, contended>>
    BY <1>5 DEF ResetSave
  <2> QED
    BY <1>1, <2>3, <2>5, <2>6 DEF OtherTypes, redis
<1>6. CASE ChangeSave(r)
  <2>1. req[r].user \in Users
    BY <1>1, <1>6 DEF ChangeSave, At, Shaped
  <2>2. PICK w \in Account : NewPass(req[r].user, w)
    BY <1>6, NewPassWrites
  <2>3. /\ passes' \in 0..MaxPass /\ past' \in [Users -> SUBSET Passwords]
    BY <1>1, <2>1, <2>2, CredentialsAssumption DEF OtherTypes, NewPass, Account
  <2>4. known' \in [Users -> SUBSET Passwords]
    BY <1>1, <1>6, <2>1, <2>2 DEF ChangeSave, OtherTypes, NewPass
  <2>5. UNCHANGED <<keyByEmail, redis, mails, faults, via, fails, raced, lifted, lost,
                    given, uses, contended>>
    BY <1>6 DEF ChangeSave
  <2> QED
    BY <1>1, <2>3, <2>4, <2>5 DEF OtherTypes, redis, mails
<1> QED
  BY <1>2, <1>3, <1>4, <1>5, <1>6 DEF ResetPass, ChangePass

LEMMA WorldTypes ==
  ASSUME TypeInv,
         \/ \E r \in Reqs : Fails(r)
         \/ CreateMember
         \/ \E u \in Users : BanEnds(u)
         \/ \E m \in outbox : SendEmail(m) \/ LoseEmail(m)
         \/ Expire \/ Restart
         \/ UNCHANGED vars
  PROVE  OtherTypes'
<1>1. OtherTypes
  BY TypeParts DEF TypeInv
<1>2. faults < MaxFaults /\ faults' = faults + 1 => faults' \in 0..MaxFaults
  BY <1>1, CredentialsAssumption DEF OtherTypes
<1>3. ASSUME NEW r \in Reqs, Fails(r) PROVE OtherTypes'
  BY <1>1, <1>2, <1>3 DEF Fails, OtherTypes, redis, mails, history
<1>4. CASE CreateMember
  <2>1. passes < MaxPass /\ passes + 1 \in Passwords /\ passes + 1 \in 0..MaxPass
    BY <1>1, <1>4, CredentialsAssumption DEF CreateMember, OtherTypes, Passwords
  <2>2. given' \subseteq Passwords
    BY <1>1, <1>4, <2>1 DEF CreateMember, OtherTypes
  <2> QED
    BY <1>1, <1>4, <2>1, <2>2 DEF CreateMember, OtherTypes, redis, mails
<1>5. ASSUME NEW u \in Users, BanEnds(u) PROVE OtherTypes'
  BY <1>1, <1>5 DEF BanEnds, OtherTypes, redis, mails
<1>6. ASSUME NEW m \in outbox, SendEmail(m) PROVE OtherTypes'
  BY <1>1, <1>6 DEF SendEmail, OtherTypes, redis, history
<1>7. ASSUME NEW m \in outbox, LoseEmail(m) PROVE OtherTypes'
  BY <1>1, <1>2, <1>7 DEF LoseEmail, OtherTypes, redis
<1>8. CASE Expire
  BY <1>1, <1>8 DEF Expire, OtherTypes, mails, history
<1>9. CASE Restart
  BY <1>1, <1>2, <1>9 DEF Restart, OtherTypes, redis
<1>10. CASE UNCHANGED vars
  BY <1>1, <1>10 DEF vars, OtherTypes, redis, mails, history
<1> QED
  BY <1>3, <1>4, <1>5, <1>6, <1>7, <1>8, <1>9, <1>10

\* Nothing is about to write a row but the requests that have read it.
LEMMA RowsThereStay ==
  ASSUME TypeInv, EmailsKept, NEW r \in Reqs, Moves(r),
         req'[r].pc \in {"login", "reset_save", "change"} => user[req'[r].user] # None,
         req'[r].pc = "reset_save" => user[req'[r].user].email = req'[r].email
  PROVE  (\A x \in Reqs : Shaped(req'[x])) /\ RowsThere' /\ req' \in [Reqs -> Request]
<1>1. \A x \in Reqs : Shaped(req'[x])
  BY DEF Moves, TypeInv
<1>2. \A x \in Reqs : /\ req'[x].pc \in {"login", "reset_save", "change"} =>
                           user[req'[x].user] # None /\ req'[x].user \in Users
                      /\ req'[x].pc = "reset_save" =>
                           user[req'[x].user].email = req'[x].email
  BY <1>1 DEF Moves, TypeInv, RowsThere, Shaped
<1>3. RowsThere'
  BY <1>2 DEF RowsThere, EmailsKept
<1> QED
  BY <1>1, <1>3 DEF Moves

RequestStep(r) == \/ SendCode(r) \/ SignUp(r) \/ Login(r) \/ ResetPass(r)
               \/ ChangePass(r) \/ Fails(r)
World == \/ CreateMember \/ (\E u \in Users : BanEnds(u))
         \/ (\E m \in outbox : SendEmail(m) \/ LoseEmail(m))
         \/ Expire \/ Restart

LEMMA StepCases == [Next]_vars => (\E r \in Reqs : RequestStep(r)) \/ World \/ UNCHANGED vars
BY DEF Next, RequestStep, World

LEMMA RequestMoves ==
  ASSUME TypeInv, NEW r \in Reqs, RequestStep(r)
  PROVE  /\ Moves(r)
         /\ req'[r].pc \in {"login", "reset_save", "change"} => user[req'[r].user] # None
         /\ req'[r].pc = "reset_save" => user[req'[r].user].email = req'[r].email
<1> DEFINE Good == /\ Moves(r)
                   /\ req'[r].pc \in {"login", "reset_save", "change"} => user[req'[r].user] # None
                   /\ req'[r].pc = "reset_save" => user[req'[r].user].email = req'[r].email
<1>1. Ends(r) => Good
  BY EndMoves
<1>2. Moves(r) /\ req'[r].pc \notin {"login", "reset_save", "change"} => Good
  OBVIOUS
<1>3. CASE SendCode(r)
  BY <1>1, <1>2, <1>3, StartSendCodeMoves, CodeFindMoves, EndEnds DEF SendCode, SetCode
<1>4. CASE SignUp(r)
  BY <1>1, <1>2, <1>4, StartSignUpMoves, CheckDuplicateMoves, CreateMoves, EndEnds
     DEF SignUp, DelKey
<1>5. CASE Login(r)
  <2>1. CASE StartLogin(r)
    <3>1. PICK u \in Users : /\ Found(u) /\ Moves(r)
                             /\ req'[r].pc = "login" /\ req'[r].user = u
      BY <2>1, StartLoginMoves
    <3> QED
      BY <3>1 DEF Found
  <2>2. CASE SaveLogin(r)
    BY <1>1, <2>2, EndEnds DEF SaveLogin
  <2> QED
    BY <1>5, <2>1, <2>2 DEF Login
<1>6. CASE ResetPass(r)
  <2>1. CASE StartAsk(r) \/ StartReset(r) \/ DelReset(r)
    BY <1>2, <2>1, StartAskMoves, StartResetMoves, DelResetMoves
  <2>2. CASE AskSetCode(r) \/ ResetSave(r)
    BY <1>1, <2>2, EndEnds DEF AskSetCode, ResetSave
  <2>3. CASE ResetFind(r)
    BY <1>1, <2>3, ResetFindMoves DEF Keeps
  <2> QED
    BY <1>6, <2>1, <2>2, <2>3 DEF ResetPass
<1>7. CASE ChangePass(r)
  <2>1. CASE StartChange(r)
    BY <2>1, StartChangeMoves
  <2>2. CASE ChangeSave(r)
    BY <1>1, <2>2, EndEnds DEF ChangeSave
  <2> QED
    BY <1>7, <2>1, <2>2 DEF ChangePass
<1>8. CASE Fails(r)
  BY <1>1, <1>8, EndEnds DEF Fails
<1> QED
  BY <1>3, <1>4, <1>5, <1>6, <1>7, <1>8 DEF RequestStep

\* A step of the world leaves the requests alone or ends them all.
LEMMA WorldMoves ==
  ASSUME TypeInv, World \/ UNCHANGED vars
  PROVE  UNCHANGED req \/ req' = [r \in Reqs |-> Idle]
BY DEF World, CreateMember, BanEnds, SendEmail, LoseEmail, Expire, Restart, vars

LEMMA TypeStep == TypeInv /\ [Next]_vars => TypeInv'
<1> SUFFICES ASSUME TypeInv, [Next]_vars PROVE TypeInv'
  OBVIOUS
<1>1. user' \in [Users -> Account \union {None}] /\ EmailsKept
  BY RowsKept
<1>2. ASSUME NEW r \in Reqs, RequestStep(r) PROVE TypeInv'
  <2>1. OtherTypes'
    BY <1>2, SignUpTypes, LoginTypes, PasswordTypes, WorldTypes DEF RequestStep
  <2>2. (\A x \in Reqs : Shaped(req'[x])) /\ RowsThere' /\ req' \in [Reqs -> Request]
    BY <1>1, <1>2, RequestMoves, RowsThereStay
  <2> QED
    BY <1>1, <2>1, <2>2 DEF TypeInv, TypeOK, OtherTypes
<1>3. CASE World \/ UNCHANGED vars
  <2>1. OtherTypes'
    BY <1>3, WorldTypes DEF World
  <2>2. req' \in [Reqs -> Request] /\ (\A x \in Reqs : Shaped(req'[x])) /\ RowsThere'
    <3>1. CASE UNCHANGED req
      <4>1. \A x \in Reqs : req[x].pc \in {"login", "reset_save", "change"} => req[x].user \in Users
        BY DEF TypeInv, Shaped
      <4> QED
        BY <1>1, <3>1, <4>1 DEF TypeInv, TypeOK, RowsThere, EmailsKept
    <3>2. CASE req' = [r \in Reqs |-> Idle]
      BY <3>2, IdleShape DEF RowsThere
    <3> QED
      BY <1>3, <3>1, <3>2, WorldMoves
  <2> QED
    BY <1>1, <2>1, <2>2 DEF TypeInv, TypeOK, OtherTypes
<1> QED
  BY <1>2, <1>3, StepCases

LEMMA Typed == Spec => []TypeInv
BY TypeInit, TypeStep, PTL DEF Spec

\* Every variable keeps its type, whatever requests, mails and failures do.
THEOREM TypeCorrect == Spec => []TypeOK
<1>1. TypeInv => TypeOK
  BY DEF TypeInv
<1> QED
  BY <1>1, Typed, PTL

-----------------------------------------------------------------------------
(* Passwords: each is newer than the ones before it. *)

\* A row is inserted.
Joins(u, e) ==
  /\ user[u] = None /\ user' = [user EXCEPT ![u] = NewAccount(e)]
  /\ \/ known' = [known EXCEPT ![u] = {passes + 1}] /\ given' = given
     \/ known' = known /\ given' = given \union {passes + 1}
  /\ passes < MaxPass /\ passes' = passes + 1
  /\ UNCHANGED <<past, lost, mails, fails, raced, lifted>>

\* What may happen to rows and passwords.
LEMMA RowChange ==
  ASSUME TypeInv, [Next]_vars
  PROVE  \/ UNCHANGED <<user, passes, past, known, given, fails>>
         \/ \E u \in Users, e \in Emails : Joins(u, e)
         \/ \E r \in Reqs : ResetSave(r) \/ ChangeSave(r) \/ SaveLogin(r)
         \/ \E u \in Users : BanEnds(u)
<1>1. ASSUME NEW r \in Reqs, RequestStep(r), ~(ResetSave(r) \/ ChangeSave(r) \/ SaveLogin(r))
      PROVE  \/ UNCHANGED <<user, passes, past, known, given, fails>>
             \/ \E u \in Users, e \in Emails : Joins(u, e)
  <2>1. CASE Create(r)
    <3>1. UNCHANGED <<past, lost, given, mails, fails, raced, lifted>>
      BY <2>1 DEF Create
    <3>2. CASE UNCHANGED <<user, passes, via, known>>
      BY <3>1, <3>2
    <3>3. CASE ~UNCHANGED <<user, passes, via, known>>
      <4>1. PICK u \in Users :
              /\ user[u] = None /\ user' = [user EXCEPT ![u] = NewAccount(req[r].email)]
              /\ known' = [known EXCEPT ![u] = {passes + 1}]
              /\ passes < MaxPass /\ passes' = passes + 1 /\ req[r].email \in Emails
        BY <2>1, <3>3, CreateMoves
      <4> QED
        BY <3>1, <4>1 DEF Joins
    <3> QED
      BY <3>2, <3>3
  <2>2. CASE SendCode(r) \/ StartSignUp(r) \/ CheckDuplicate(r) \/ DelKey(r)
    BY <2>2 DEF SendCode, StartSendCode, CodeFind, SetCode, StartSignUp, CheckDuplicate, DelKey,
                history
  <2>3. CASE StartLogin(r) \/ StartAsk(r) \/ AskSetCode(r) \/ StartReset(r)
    BY <2>3 DEF StartLogin, StartAsk, AskSetCode, StartReset, history
  <2>4. CASE DelReset(r) \/ ResetFind(r) \/ StartChange(r) \/ Fails(r)
    BY <2>4 DEF DelReset, ResetFind, StartChange, Fails, history
  <2> QED
    BY <1>1, <2>1, <2>2, <2>3, <2>4 DEF RequestStep, SignUp, Login, ResetPass, ChangePass
<1>2. CASE CreateMember
  <2>1. PICK u \in Users, e \in Emails :
          /\ user[u] = None /\ user' = [user EXCEPT ![u] = NewAccount(e)]
          /\ given' = given \union {passes + 1}
    BY <1>2 DEF CreateMember
  <2>2. Joins(u, e)
    BY <1>2, <2>1 DEF CreateMember, Joins
  <2> QED
    BY <2>2
<1>3. ASSUME NEW m \in outbox, SendEmail(m) \/ LoseEmail(m)
      PROVE  UNCHANGED <<user, passes, past, known, given, fails>>
  BY <1>3 DEF SendEmail, LoseEmail, history
<1>4. CASE Expire \/ Restart \/ UNCHANGED vars
  BY <1>4 DEF Expire, Restart, vars, history
<1> QED
  BY <1>1, <1>2, <1>3, <1>4, StepCases DEF World

LEMMA BanEndsKeeps ==
  ASSUME NEW u, BanEnds(u)
  PROVE  UNCHANGED <<keyByEmail, redis, passes, mails, req, via, fails, raced, lost,
                     known, given, past, uses, contended>>
BY DEF BanEnds

LEMMA SaveLoginKeeps ==
  ASSUME NEW r, SaveLogin(r)
  PROVE  UNCHANGED <<keyByEmail, redis, passes, mails, via, lost, known, given, past, uses,
                     contended>>
BY DEF SaveLogin

PassInv ==
  \A u \in Users :
    /\ user[u] = None => past[u] = {}
    /\ \A p \in past[u] : p <= passes
    /\ user[u] # None => user[u].pass <= passes /\ user[u].pass \notin past[u]

LEMMA PassInit == Init => PassInv
BY DEF Init, PassInv

LEMMA PassStep == TypeInv /\ PassInv /\ [Next]_vars => PassInv'
<1> SUFFICES ASSUME TypeInv, PassInv, [Next]_vars PROVE PassInv'
  OBVIOUS
<1>1. /\ passes \in Nat /\ user \in [Users -> Account \union {None}]
      /\ past \in [Users -> SUBSET Passwords] /\ None \notin Account /\ Passwords \subseteq Nat
  BY CredentialsAssumption DEF TypeInv, TypeOK, Passwords
<1>2. \A w \in Account : w.pass \in Nat
  BY <1>1 DEF Account
<1>3. CASE UNCHANGED <<user, passes, past, known, given, fails>>
  BY <1>3 DEF PassInv
<1>4. ASSUME NEW u \in Users, NEW e \in Emails, Joins(u, e) PROVE PassInv'
  <2>1. PICK w \in Account : w = NewAccount(e) /\ w.pass = passes + 1 /\ w # None
    BY <1>4, NewRow DEF Joins
  <2>2. user' = [user EXCEPT ![u] = w] /\ past' = past /\ passes' = passes + 1 /\ user[u] = None
    BY <1>4, <2>1 DEF Joins
  <2> QED
    BY <1>1, <1>2, <2>1, <2>2 DEF PassInv
<1>5. ASSUME NEW r \in Reqs, ResetSave(r) \/ ChangeSave(r) PROVE PassInv'
  <2>1. PICK u \in Users, w \in Account : NewPass(u, w)
    BY <1>5, NewPassWrites
  <2>2. /\ user[u] # None /\ w # None /\ w.pass = passes + 1
        /\ user' = [user EXCEPT ![u] = w] /\ passes' = passes + 1
        /\ past' = [past EXCEPT ![u] = @ \union {user[u].pass}]
    BY <1>1, <2>1 DEF NewPass
  <2> QED
    BY <1>1, <1>2, <2>1, <2>2 DEF PassInv
<1>6. ASSUME NEW u \in Users, NEW w \in Account, user[u] \in Account, w.pass = user[u].pass,
             user' = [user EXCEPT ![u] = w], UNCHANGED <<passes, past>>
      PROVE  PassInv'
  BY <1>1, <1>6 DEF PassInv
<1>7. ASSUME NEW r \in Reqs, SaveLogin(r) PROVE PassInv'
  BY <1>6, <1>7, SaveLoginWrites, SaveLoginKeeps
<1>8. ASSUME NEW u \in Users, BanEnds(u) PROVE PassInv'
  BY <1>6, <1>8, BanEndsWrites, BanEndsKeeps
<1> QED
  BY <1>3, <1>4, <1>5, <1>7, <1>8, RowChange

\* A password that has been changed never comes back, whatever had read the row before.
THEOREM OldPasswordsGone == Spec => PasswordNotRestored
<1> DEFINE Gone == \A u \in Users : user'[u] # None => user'[u].pass \notin past'[u]
<1>1. ASSUME TypeInv, PassInv, [Next]_vars PROVE [Gone]_vars
  BY <1>1, PassStep DEF PassInv
<1>2. Spec => [](TypeInv /\ PassInv)
  BY Typed, PassInit, PassStep, PTL DEF Spec
<1> QED
  BY <1>1, <1>2, PTL DEF Spec, PasswordNotRestored

-----------------------------------------------------------------------------
(* Bans. *)

\* A ban ends with its time, by unban, or by a right password whose request had read the row
\* before the ban was written (login).
THEOREM BansHold == Spec => BanLifted
<1> DEFINE Excused(u) ==
             \/ u \in lifted'
             \/ \E r \in Attempts(u) : req[r].right /\ ~req[r].seen.banned /\ req'[r] = Idle
<1> DEFINE Hold == \A u \in Users : user[u] # None /\ user[u].banned /\ ~user'[u].banned => Excused(u)
<1>1. ASSUME TypeInv, [Next]_vars PROVE Hold
  <2> SUFFICES ASSUME NEW u \in Users, user[u] # None, user[u].banned, ~user'[u].banned
               PROVE  Excused(u)
    OBVIOUS
  <2>1. user \in [Users -> Account \union {None}]
    BY <1>1 DEF TypeInv, TypeOK
  <2>2. user' # user
    OBVIOUS
  <2>3. ASSUME NEW v \in Users, NEW e \in Emails, Joins(v, e) PROVE FALSE
    BY <2>1, <2>3 DEF Joins
  <2>4. ASSUME NEW r \in Reqs, ResetSave(r) \/ ChangeSave(r) PROVE FALSE
    <3>1. PICK v \in Users, w \in Account : NewPass(v, w)
      BY <1>1, <2>4, NewPassWrites
    <3> QED
      BY <2>1, <3>1 DEF NewPass
  <2>5. ASSUME NEW r \in Reqs, SaveLogin(r) PROVE Excused(u)
    <3> DEFINE v == req[r].user
               w == Attempt(user[v], req[r].seen, req[r].right)
    <3>1. /\ v \in Users /\ user[v] \in Account /\ user' = [user EXCEPT ![v] = w]
          /\ req[r].seen \in Account /\ req[r].seen.cnt <= MaxLogins
          /\ req[r].right \in BOOLEAN /\ ~req[r].seen.banned /\ req[r].pc = "login"
      BY <1>1, <2>5, SaveLoginWrites
    <3>2. ~req[r].right => (w.banned <=> (user[v].banned \/ req[r].seen.cnt + 1 >= MaxLogins))
      BY <3>1, AttemptRow
    <3> HIDE DEF w
    <3>3. u = v /\ ~w.banned
      BY <2>1, <3>1
    <3>4. req[r].right
      BY <3>1, <3>2, <3>3
    <3>5. req'[r] = Idle
      BY <1>1, <2>5, EndEnds DEF SaveLogin, Ends
    <3>6. r \in Attempts(u)
      BY <3>1, <3>3 DEF Attempts, At
    <3> QED
      BY <3>1, <3>4, <3>5, <3>6
  <2>6. ASSUME NEW v \in Users, BanEnds(v) PROVE Excused(u)
    <3>1. u = v
      BY <2>1, <2>6 DEF BanEnds
    <3> QED
      BY <2>6, <3>1 DEF BanEnds
  <2> HIDE DEF Excused
  <2> QED
    BY <1>1, <2>2, <2>3, <2>4, <2>5, <2>6, RowChange
<1>2. ASSUME TypeInv, [Next]_vars PROVE [Hold]_vars
  BY <1>1, <1>2
<1> QED
  BY <1>2, Typed, PTL DEF Spec, BanLifted

-----------------------------------------------------------------------------
(* Passwords and mails. *)

\* Mails stay, or their passwords are lost.
MailsStay == /\ lost \subseteq lost'
             /\ \A m \in outbox \union inbox :
                  \/ m \in outbox' \union inbox'
                  \/ m.key \in Passwords => m.key \in lost'

LEMMA MailsKept == ASSUME TypeInv, [Next]_vars PROVE MailsStay
<1>1. UNCHANGED <<mails, lost>> => MailsStay
  BY DEF MailsStay, mails
<1>2. ASSUME NEW r \in Reqs, RequestStep(r) PROVE MailsStay
  <2>1. CASE SetCode(r) \/ AskSetCode(r) \/ ResetSave(r)
    BY <2>1 DEF MailsStay, SetCode, AskSetCode, ResetSave, history
  <2>2. CASE StartSendCode(r) \/ CodeFind(r) \/ SignUp(r) \/ Login(r)
    <3>1. UNCHANGED <<mails, lost>>
      BY <2>2 DEF MailsStay, StartSendCode, CodeFind, SignUp, Login, StartSignUp, CheckDuplicate, Create, DelKey,
                  StartLogin, SaveLogin, history
    <3> QED
      BY <1>1, <3>1
  <2>3. CASE StartAsk(r) \/ StartReset(r) \/ DelReset(r) \/ ResetFind(r) \/ ChangePass(r) \/ Fails(r)
    <3>1. UNCHANGED <<mails, lost>>
      BY <2>3 DEF MailsStay, StartAsk, StartReset, DelReset, ResetFind, ChangePass, StartChange, ChangeSave,
                  Fails, history
    <3> QED
      BY <1>1, <3>1
  <2> QED
    BY <1>2, <2>1, <2>2, <2>3 DEF MailsStay, RequestStep, SendCode, ResetPass
<1>3. CASE CreateMember \/ Expire \/ UNCHANGED vars
  <2>1. UNCHANGED <<mails, lost>>
    BY <1>3 DEF MailsStay, CreateMember, Expire, vars, history
  <2> QED
    BY <1>1, <2>1
<1>4. ASSUME NEW u \in Users, BanEnds(u) PROVE MailsStay
  BY <1>1, <1>4, BanEndsKeeps
<1>5. ASSUME NEW m \in outbox, SendEmail(m) PROVE MailsStay
  BY <1>5 DEF MailsStay, SendEmail, history
<1>6. ASSUME NEW m \in outbox, LoseEmail(m) PROVE MailsStay
  BY <1>6 DEF MailsStay, LoseEmail
<1>7. CASE Restart
  <2>1. lost' = lost \union (Passwords \intersect {m.key : m \in outbox}) /\ inbox' = inbox
    BY <1>7 DEF MailsStay, Restart
  <2>2. \A m \in outbox : m.key \in {n.key : n \in outbox}
    OBVIOUS
  <2> QED
    BY <2>1, <2>2 DEF MailsStay
<1>8. CASE World
  BY <1>3, <1>4, <1>5, <1>6, <1>7, <1>8 DEF World
<1>9. (\E r \in Reqs : RequestStep(r)) \/ World \/ UNCHANGED vars
  BY StepCases
<1> QED
  BY <1>2, <1>3, <1>8, <1>9

LEMMA KnownInit == Init => PasswordKnown
BY DEF Init, PasswordKnown

LEMMA KnownStep == TypeInv /\ PasswordKnown /\ [Next]_vars => PasswordKnown'
<1> SUFFICES ASSUME TypeInv, PasswordKnown, [Next]_vars PROVE PasswordKnown'
  OBVIOUS
<1> DEFINE Covered(u) ==
             \/ user'[u].pass \in known'[u] \union given' \union lost'
             \/ [to |-> user'[u].email, about |-> "password", key |-> user'[u].pass]
                  \in outbox' \union inbox'
<1>1. /\ user \in [Users -> Account \union {None}] /\ known \in [Users -> SUBSET Passwords]
      /\ None \notin Account
  BY CredentialsAssumption DEF TypeInv, TypeOK
<1>2. /\ lost \subseteq lost'
      /\ \A m \in outbox \union inbox :
           \/ m \in outbox' \union inbox'
           \/ m.key \in Passwords => m.key \in lost'
  BY MailsKept DEF MailsStay
<1>3. ASSUME NEW u \in Users, user[u] # None, known[u] \subseteq known'[u], given \subseteq given',
             user'[u].pass = user[u].pass, user'[u].email = user[u].email
      PROVE  Covered(u)
  <2> DEFINE m == [to |-> user[u].email, about |-> "password", key |-> user[u].pass]
  <2>1. CASE user[u].pass \in known[u] \union given \union lost
    BY <1>2, <1>3, <2>1
  <2>2. CASE m \in outbox \union inbox
    <3>1. m.key = user[u].pass /\ user[u].pass \in Passwords
      BY <1>1, <1>3 DEF Account
    <3>2. m \in outbox' \union inbox' \/ user[u].pass \in lost'
      BY <1>2, <2>2, <3>1
    <3> QED
      BY <1>3, <3>2
  <2> QED
    BY <1>3, <2>1, <2>2 DEF PasswordKnown
<1>4. SUFFICES ASSUME NEW u \in Users, user'[u] # None PROVE Covered(u)
  BY DEF PasswordKnown
<1>5. CASE UNCHANGED <<user, passes, past, known, given, fails>>
  BY <1>3, <1>4, <1>5
<1>6. ASSUME NEW v \in Users, NEW e \in Emails, Joins(v, e) PROVE Covered(u)
  <2>1. PICK w \in Account : w = NewAccount(e) /\ w.pass = passes + 1
    BY <1>6, NewRow DEF Joins
  <2>2. /\ user' = [user EXCEPT ![v] = w]
        /\ \/ known' = [known EXCEPT ![v] = {passes + 1}] /\ given' = given
           \/ known' = known /\ given' = given \union {passes + 1}
    BY <1>6, <2>1 DEF Joins
  <2>3. CASE u = v
    BY <1>1, <2>1, <2>2, <2>3
  <2>4. CASE u # v
    BY <1>1, <1>3, <1>4, <2>2, <2>4
  <2> QED
    BY <2>3, <2>4
<1>7. ASSUME NEW r \in Reqs, ResetSave(r) \/ ChangeSave(r) PROVE Covered(u)
  <2> DEFINE v == req[r].user
  <2>1. PICK w \in Account : NewPass(v, w)
    BY <1>7, NewPassWrites
  <2>2. v \in Users
    BY <1>7, NewPassWrites
  <2>3. /\ user' = [user EXCEPT ![v] = w] /\ w.pass = passes + 1
        /\ w.email = user[v].email
    BY <2>1 DEF NewPass
  <2>4. known[u] \subseteq known'[u] /\ given' = given
    BY <1>1, <1>7, <2>2 DEF ResetSave, ChangeSave
  <2>5. CASE u # v
    BY <1>1, <1>3, <1>4, <2>2, <2>3, <2>4, <2>5
  <2>6. CASE u = v /\ ChangeSave(r)
    <3>1. passes + 1 \in known'[u]
      BY <1>1, <2>2, <2>6 DEF ChangeSave
    <3> QED
      BY <1>1, <2>3, <2>6, <3>1
  <2>7. CASE u = v /\ ResetSave(r)
    <3>1. req[r].email = user[v].email
      BY <2>7 DEF ResetSave, At, TypeInv, RowsThere
    <3>2. [to |-> req[r].email, about |-> "password", key |-> passes + 1] \in outbox'
      BY <2>7 DEF ResetSave
    <3>3. user'[u].email = req[r].email /\ user'[u].pass = passes + 1
      BY <1>1, <2>3, <2>7, <3>1
    <3> QED
      BY <3>2, <3>3
  <2> QED
    BY <1>7, <2>5, <2>6, <2>7
<1>8. ASSUME NEW v \in Users, NEW w \in Account, user[v] \in Account, w.pass = user[v].pass,
             w.email = user[v].email, user' = [user EXCEPT ![v] = w], UNCHANGED <<known, given>>
      PROVE  Covered(u)
  <2>1. user[u] # None /\ user'[u].pass = user[u].pass /\ user'[u].email = user[u].email
    BY <1>1, <1>4, <1>8
  <2> QED
    BY <1>3, <1>8, <2>1
<1>9. ASSUME NEW r \in Reqs, SaveLogin(r) PROVE Covered(u)
  BY <1>8, <1>9, SaveLoginWrites, SaveLoginKeeps
<1>10. ASSUME NEW v \in Users, BanEnds(v) PROVE Covered(u)
  BY <1>8, <1>10, BanEndsWrites, BanEndsKeeps
<1> HIDE DEF Covered
<1> QED
  BY <1>5, <1>6, <1>7, <1>9, <1>10, RowChange

\* The user or whoever created the member chose the password of the row, or a mail brings it,
\* unless it could not be sent.
THEOREM PasswordsReachTheirUsers == Spec => []PasswordKnown
BY Typed, KnownInit, KnownStep, PTL DEF Spec

-----------------------------------------------------------------------------
(* The counter of failed logins. *)

CountInv ==
  \A u \in Users :
    /\ user[u] = None => fails[u] = 0
    /\ u \notin raced => \A q, x \in Attempts(u) : q = x
    /\ u \notin raced => \A q \in Attempts(u) : req[q].seen.cnt = user[u].cnt
    /\ user[u] # None /\ u \notin raced =>
         /\ user[u].cnt = fails[u]
         /\ user[u].banned => fails[u] >= MaxLogins
         /\ fails[u] >= MaxLogins => user[u].banned \/ u \in lifted

LEMMA CountInit == Init => CountInv
<1> SUFFICES ASSUME Init PROVE CountInv
  OBVIOUS
<1>1. \A u \in Users : Attempts(u) = {}
  BY IdleShape DEF Init, Attempts, At
<1>2. \A u \in Users : user[u] = None /\ fails[u] = 0
  BY DEF Init
<1> QED
  BY <1>1, <1>2 DEF CountInv

LEMMA AttemptsThere ==
  ASSUME TypeInv, NEW u \in Users, NEW r \in Attempts(u)
  PROVE  r \in Reqs /\ req[r].pc = "login" /\ req[r].user = u /\ user[u] # None
BY DEF Attempts, At, TypeInv, RowsThere

\* No attempt starts or is saved.
NoNewAttempt == \A r \in Reqs : req'[r].pc = "login" => req'[r] = req[r]

LEMMA OthersAttempt ==
  ASSUME TypeInv, [Next]_vars
  PROVE  \/ \E r \in Reqs : StartLogin(r) \/ SaveLogin(r)
         \/ NoNewAttempt /\ UNCHANGED raced /\ lifted \subseteq lifted'
<1>1. ASSUME NEW r \in Reqs, RequestStep(r), ~StartLogin(r), ~SaveLogin(r)
      PROVE  NoNewAttempt /\ UNCHANGED raced /\ lifted \subseteq lifted'
  <2>1. UNCHANGED <<raced, lifted>>
    <3>1. CASE SendCode(r) \/ SignUp(r)
      BY <3>1 DEF SendCode, StartSendCode, CodeFind, SetCode, SignUp, StartSignUp, CheckDuplicate,
                  Create, DelKey, history
    <3>2. CASE ResetPass(r) \/ ChangePass(r) \/ Fails(r)
      BY <3>2 DEF ResetPass, StartAsk, AskSetCode, StartReset, DelReset, ResetFind, ResetSave,
                  ChangePass, StartChange, ChangeSave, Fails, history
    <3> QED
      BY <1>1, <3>1, <3>2 DEF RequestStep, Login
  <2>2. Moves(r) /\ req'[r].pc # "login"
    <3>1. Ends(r) => Moves(r) /\ req'[r].pc # "login"
      BY EndMoves
    <3>2. CASE SendCode(r)
      BY <3>1, <3>2, StartSendCodeMoves, CodeFindMoves, EndEnds DEF SendCode, SetCode
    <3>3. CASE SignUp(r)
      BY <3>1, <3>3, StartSignUpMoves, CheckDuplicateMoves, CreateMoves, EndEnds
         DEF SignUp, DelKey
    <3>4. CASE ResetPass(r)
      BY <3>1, <3>4, StartAskMoves, StartResetMoves, DelResetMoves, ResetFindMoves, EndEnds
         DEF ResetPass, AskSetCode, ResetSave
    <3>5. CASE ChangePass(r) \/ Fails(r)
      BY <3>1, <3>5, StartChangeMoves, EndEnds DEF ChangePass, ChangeSave, Fails
    <3> QED
      BY <1>1, <3>2, <3>3, <3>4, <3>5 DEF RequestStep, Login
  <2> QED
    BY <2>1, <2>2 DEF Moves, NoNewAttempt
<1>2. CASE World \/ UNCHANGED vars
  <2>1. UNCHANGED raced /\ lifted \subseteq lifted'
    BY <1>2 DEF World, CreateMember, BanEnds, SendEmail, LoseEmail, Expire, Restart, vars, history
  <2>2. NoNewAttempt
    BY <1>2, WorldMoves, IdleShape DEF NoNewAttempt
  <2> QED
    BY <2>1, <2>2
<1> QED
  BY <1>1, <1>2, StepCases

LEMMA CountStep == TypeInv /\ CountInv /\ [Next]_vars => CountInv'
<1> SUFFICES ASSUME TypeInv, CountInv, [Next]_vars PROVE CountInv'
  OBVIOUS
<1>1. /\ user \in [Users -> Account \union {None}] /\ fails \in [Users -> 0..MaxLogins + 1]
      /\ None \notin Account /\ MaxLogins \in Nat \ {0}
  BY CredentialsAssumption DEF TypeInv, TypeOK
<1>2. \A w \in Account : w.cnt \in 0..MaxLogins + 1 /\ w.banned \in BOOLEAN
  BY DEF Account
\* Nothing about the attempts of u changes but that some end.
<1> DEFINE Counted(u) ==
      /\ user'[u] = None => fails'[u] = 0
      /\ u \notin raced' => \A q, x \in Attempts(u)' : q = x
      /\ u \notin raced' => \A q \in Attempts(u)' : req'[q].seen.cnt = user'[u].cnt
      /\ user'[u] # None /\ u \notin raced' =>
           /\ user'[u].cnt = fails'[u]
           /\ user'[u].banned => fails'[u] >= MaxLogins
           /\ fails'[u] >= MaxLogins => user'[u].banned \/ u \in lifted'
<1>3. ASSUME NEW u \in Users, user'[u] = user[u], fails'[u] = fails[u],
             u \notin raced' => u \notin raced,
             u \in lifted => u \in lifted',
             \A q \in Attempts(u)' : q \in Attempts(u) /\ req'[q] = req[q]
      PROVE  Counted(u)
  BY <1>3 DEF CountInv
<1>4. CASE /\ NoNewAttempt /\ UNCHANGED raced /\ lifted \subseteq lifted'
           /\ ~\E r \in Reqs : SaveLogin(r)
  <2>1. \A u \in Users : \A q \in Attempts(u)' : q \in Attempts(u) /\ req'[q] = req[q]
    BY <1>4 DEF NoNewAttempt, Attempts, At
  <2>2. CASE UNCHANGED <<user, passes, past, known, given, fails>>
    <3>1. ASSUME NEW u \in Users PROVE Counted(u)
      BY <1>3, <1>4, <2>1, <2>2
    <3> QED
      BY <3>1 DEF CountInv
  <2>3. ASSUME NEW v \in Users, NEW e \in Emails, Joins(v, e) PROVE CountInv'
    <3>1. PICK w \in Account : w = NewAccount(e) /\ w.cnt = 0 /\ ~w.banned
      BY <2>3, NewRow DEF Joins
    <3>2. /\ user' = [user EXCEPT ![v] = w] /\ user[v] = None
          /\ fails' = fails /\ lifted' = lifted
      BY <2>3, <3>1 DEF Joins
    <3>3. Attempts(v)' = {}
      BY <2>1, <3>2, AttemptsThere
    <3>4. ASSUME NEW u \in Users PROVE Counted(u)
      <4>1. CASE u # v
        BY <1>1, <1>3, <1>4, <2>1, <3>2, <4>1
      <4>2. CASE u = v
        <5>1. user'[u] = w /\ w # None /\ fails'[u] = 0
          BY <1>1, <3>2, <4>2 DEF CountInv
        <5> QED
          BY <1>1, <3>1, <3>3, <4>2, <5>1
      <4> QED
        BY <4>1, <4>2
    <3> QED
      BY <3>4 DEF CountInv
  <2>4. ASSUME NEW v \in Users, NEW w \in Account, user[v] \in Account,
               user' = [user EXCEPT ![v] = w], w.cnt = user[v].cnt, fails' = fails,
               (w.banned <=> user[v].banned) \/ (~w.banned /\ v \in lifted')
        PROVE  CountInv'
    <3>1. ASSUME NEW u \in Users PROVE Counted(u)
      <4>1. CASE u # v
        BY <1>1, <1>3, <1>4, <2>1, <2>4, <4>1
      <4>2. CASE u = v
        <5>1. user'[u] = w /\ w # None /\ user[u] # None
          BY <1>1, <2>4, <4>2
        <5> QED
          BY <1>4, <2>1, <2>4, <4>2, <5>1 DEF CountInv
      <4> QED
        BY <4>1, <4>2
    <3> QED
      BY <3>1 DEF CountInv
  <2>5. ASSUME NEW r \in Reqs, ResetSave(r) \/ ChangeSave(r) PROVE CountInv'
    <3>1. PICK v \in Users, w \in Account : NewPass(v, w)
      BY <2>5, NewPassWrites
    <3>2. fails' = fails
      BY <2>5 DEF ResetSave, ChangeSave
    <3> QED
      BY <2>4, <3>1, <3>2 DEF NewPass
  <2>6. ASSUME NEW v \in Users, BanEnds(v) PROVE CountInv'
    <3>1. PICK w \in Account : /\ user[v] \in Account /\ user' = [user EXCEPT ![v] = w]
                               /\ w.cnt = user[v].cnt /\ ~w.banned
      BY <2>6, BanEndsWrites
    <3>2. fails' = fails /\ v \in lifted'
      BY <2>6 DEF BanEnds
    <3> QED
      BY <2>4, <3>1, <3>2
  <2> QED
    BY <1>4, <2>2, <2>3, <2>5, <2>6, RowChange
<1>5. ASSUME NEW r \in Reqs, StartLogin(r) PROVE CountInv'
  <2>1. PICK v \in Users :
          /\ Found(v) /\ req[r].pc = "idle"
          /\ Moves(r) /\ req'[r].pc = "login" /\ req'[r].user = v /\ req'[r].seen = user[v]
          /\ raced' = IF Attempts(v) # {} THEN raced \union {v} ELSE raced
    BY <1>5, StartLoginMoves
  <2>2. user' = user /\ fails' = fails /\ lifted' = lifted
    BY <1>5 DEF StartLogin
  <2>3. \A u \in Users : \A q \in Attempts(u)' :
          q # r => q \in Attempts(u) /\ req'[q] = req[q]
    BY <2>1 DEF Moves, Attempts, At
  <2>4. \A u \in Users : r \in Attempts(u)' => u = v
    BY <2>1 DEF Attempts, At
  <2>5. ASSUME NEW u \in Users PROVE Counted(u)
    <3>1. CASE u # v
      BY <1>3, <2>1, <2>2, <2>3, <2>4, <3>1
    <3>2. CASE u = v
      <4>1. u \notin raced' => Attempts(u)' \subseteq {r} /\ u \notin raced
        BY <2>1, <2>3, <3>2
      <4> QED
        BY <2>1, <2>2, <3>2, <4>1 DEF CountInv
    <3> QED
      BY <3>1, <3>2
  <2> QED
    BY <2>5 DEF CountInv
<1>6. ASSUME NEW r \in Reqs, SaveLogin(r) PROVE CountInv'
  <2> DEFINE v == req[r].user
             seen == req[r].seen
  <2>1. /\ v \in Users /\ user[v] \in Account /\ seen \in Account /\ seen.cnt <= MaxLogins
        /\ req[r].right \in BOOLEAN /\ req[r].pc = "login"
        /\ user' = [user EXCEPT ![v] = Attempt(user[v], seen, req[r].right)]
        /\ Attempt(user[v], seen, req[r].right) \in Account
    BY <1>6, SaveLoginWrites
  <2>2. PICK w \in Account : w = Attempt(user[v], seen, req[r].right)
    BY <2>1
  <2>3. /\ req[r].right => w.cnt = 0 /\ ~w.banned
        /\ ~req[r].right => /\ w.cnt = seen.cnt + 1
                            /\ w.banned <=> (user[v].banned \/ seen.cnt + 1 >= MaxLogins)
    BY <2>1, <2>2, AttemptRow
  <2>4. /\ user' = [user EXCEPT ![v] = w]
        /\ fails' = [fails EXCEPT ![v] = IF req[r].right THEN 0
                                         ELSE IF @ > MaxLogins THEN @ ELSE @ + 1]
        /\ raced' = IF req[r].right /\ Attempts(v) = {r} THEN raced \ {v} ELSE raced
        /\ lifted' = lifted \ {v}
    BY <1>6, <2>1, <2>2 DEF SaveLogin
  <2>5. Ends(r)
    BY <1>6, EndEnds DEF SaveLogin
  <2>6. \A u \in Users : \A q \in Attempts(u)' :
          q # r /\ q \in Attempts(u) /\ req'[q] = req[q]
    BY <2>5, IdleShape DEF Ends, Attempts, At
  <2>7. r \in Attempts(v)
    BY <2>1 DEF Attempts, At
  <2>8. \A u \in Users : u # v => (u \in raced' <=> u \in raced) /\ (u \in lifted' <=> u \in lifted)
    BY <2>4
  <2> HIDE DEF v, seen
  <2>9. ASSUME NEW u \in Users PROVE Counted(u)
    <3>1. CASE u # v
      BY <1>1, <1>3, <2>1, <2>4, <2>6, <2>8, <3>1
    <3>2. CASE u = v
      <4>1. user'[u] = w /\ w # None /\ user[u] # None
        BY <1>1, <2>1, <2>4, <3>2
      <4>2. u \notin raced' => Attempts(u)' = {}
        <5>1. CASE u \notin raced
          BY <2>6, <2>7, <3>2, <5>1 DEF CountInv
        <5>2. CASE Attempts(v) = {r}
          BY <2>6, <3>2, <5>2
        <5>3. CASE u \in raced /\ Attempts(v) # {r}
          BY <2>4, <3>2, <5>3
        <5> QED
          BY <5>1, <5>2, <5>3
      <4>3. CASE req[r].right
        <5>1. fails'[u] = 0
          BY <1>1, <2>1, <2>4, <3>2, <4>3
        <5>2. w.cnt = 0 /\ ~w.banned /\ ~(0 >= MaxLogins)
          BY <1>1, <2>3, <4>3
        <5> QED
          BY <4>1, <4>2, <5>1, <5>2
      <4>4. CASE ~req[r].right
        <5>1. ASSUME u \notin raced'
              PROVE  /\ w.cnt = fails'[u]
                     /\ w.banned => fails'[u] >= MaxLogins
                     /\ fails'[u] >= MaxLogins => w.banned
          <6>1. /\ seen.cnt = user[u].cnt /\ user[u].cnt = fails[u]
                /\ user[u].banned => fails[u] >= MaxLogins
            BY <2>4, <2>7, <3>2, <4>1, <4>4, <5>1 DEF CountInv, seen
          <6>2. fails[u] \in Nat /\ fails[u] <= MaxLogins
            BY <1>1, <2>1, <6>1
          <6>3. fails'[u] = fails[u] + 1
            BY <1>1, <2>4, <3>2, <4>4, <6>2
          <6> QED
            BY <1>1, <2>3, <3>2, <4>4, <6>1, <6>2, <6>3
        <5> QED
          BY <4>1, <4>2, <5>1
      <4> QED
        BY <4>3, <4>4
    <3> QED
      BY <3>1, <3>2
  <2> QED
    BY <2>9 DEF CountInv
<1> QED
  BY <1>4, <1>5, <1>6, OthersAttempt

\* Without overlapping attempts the counter is the number of wrong passwords since the last
\* right one, and the ban stands for MaxLogins of them (login).
THEOREM WrongPasswordsCounted == Spec => []AttemptsCounted
<1>1. CountInv => AttemptsCounted
  BY DEF CountInv, AttemptsCounted
<1>2. Spec => [](TypeInv /\ CountInv)
  BY Typed, CountInit, CountStep, PTL DEF Spec
<1> QED
  BY <1>1, <1>2, PTL

-----------------------------------------------------------------------------
(* Codes of resets. *)

Holders(c) == {r \in Reqs : req[r].pc \in ResetSteps /\ req[r].key = c}

SpentInv ==
  \A c \in Codes :
    /\ c \in freshCodes => reset[c] = None /\ uses[c] = 0 /\ Holders(c) = {}
    /\ \A r \in Holders(c) : req[r].pc # "reset_del" => reset[c] = None
    /\ uses[c] > 0 => reset[c] = None
    /\ c \notin contended => /\ uses[c] <= 1
                             /\ \A r, q \in Holders(c) : r = q
                             /\ Holders(c) # {} => uses[c] = 0

LEMMA SpentInit == Init => SpentInv
<1> SUFFICES ASSUME Init PROVE SpentInv
  OBVIOUS
<1>1. \A c \in Codes : Holders(c) = {} /\ reset[c] = None /\ uses[c] = 0
  BY IdleShape DEF Init, Holders, ResetSteps
<1> QED
  BY <1>1 DEF SpentInv

\* No request starts or goes on with a reset.
NoNewHolder == \A r \in Reqs : req'[r].pc \in ResetSteps => req'[r] = req[r]

LEMMA OthersReset ==
  ASSUME TypeInv, [Next]_vars
  PROVE  \/ \E r \in Reqs : \/ AskSetCode(r) \/ StartReset(r) \/ DelReset(r) \/ ResetFind(r)
                            \/ ResetSave(r)
         \/ NoNewHolder /\ Expire
         \/ NoNewHolder /\ UNCHANGED <<reset, freshCodes, uses, contended>>
<1>1. ASSUME NEW r \in Reqs, RequestStep(r), ~AskSetCode(r), ~StartReset(r), ~DelReset(r),
             ~ResetFind(r), ~ResetSave(r)
      PROVE  NoNewHolder /\ UNCHANGED <<reset, freshCodes, uses, contended>>
  <2>1. UNCHANGED <<reset, freshCodes, uses, contended>>
    <3>1. CASE SendCode(r) \/ SignUp(r)
      BY <3>1 DEF SendCode, StartSendCode, CodeFind, SetCode, SignUp, StartSignUp, CheckDuplicate,
                  Create, DelKey, history, redis
    <3>2. CASE Login(r) \/ StartAsk(r) \/ ChangePass(r) \/ Fails(r)
      BY <3>2 DEF Login, StartLogin, SaveLogin, StartAsk, ChangePass, StartChange, ChangeSave,
                  Fails, history, redis
    <3> QED
      BY <1>1, <3>1, <3>2 DEF RequestStep, ResetPass
  <2>2. Moves(r) /\ req'[r].pc \notin ResetSteps
    <3>1. Ends(r) => Moves(r) /\ req'[r].pc \notin ResetSteps
      BY EndMoves DEF ResetSteps
    <3>2. CASE SendCode(r)
      BY <3>1, <3>2, StartSendCodeMoves, CodeFindMoves, EndEnds DEF SendCode, SetCode, ResetSteps
    <3>3. CASE SignUp(r)
      BY <3>1, <3>3, StartSignUpMoves, CheckDuplicateMoves, CreateMoves, EndEnds
         DEF SignUp, DelKey, ResetSteps
    <3>4. CASE StartLogin(r)
      BY <3>4, StartLoginMoves DEF ResetSteps
    <3>5. CASE SaveLogin(r) \/ Fails(r) \/ ChangeSave(r)
      BY <3>1, <3>5, EndEnds DEF SaveLogin, Fails, ChangeSave
    <3>6. CASE StartAsk(r) \/ StartChange(r)
      BY <3>6, StartAskMoves, StartChangeMoves DEF ResetSteps
    <3> QED
      BY <1>1, <3>2, <3>3, <3>4, <3>5, <3>6 DEF RequestStep, Login, ChangePass, ResetPass
  <2> QED
    BY <2>1, <2>2 DEF Moves, NoNewHolder
<1>2. World \/ UNCHANGED vars => NoNewHolder
  BY WorldMoves, IdleShape DEF NoNewHolder, ResetSteps
<1>3. CASE (World /\ ~Expire) \/ UNCHANGED vars
  BY <1>2, <1>3 DEF World, CreateMember, BanEnds, SendEmail, LoseEmail, Restart, vars, history, redis
<1> QED
  BY <1>1, <1>2, <1>3, StepCases DEF World

LEMMA SpentStep == TypeInv /\ SpentInv /\ [Next]_vars => SpentInv'
<1> SUFFICES ASSUME TypeInv, SpentInv, [Next]_vars PROVE SpentInv'
  OBVIOUS
<1>1. /\ reset \in [Codes -> Emails \union {None}] /\ uses \in [Codes -> Nat]
      /\ freshCodes \subseteq Codes /\ None \notin Emails
  BY CredentialsAssumption DEF TypeInv, TypeOK
<1>2. CASE NoNewHolder /\ (Expire \/ UNCHANGED <<reset, freshCodes, uses, contended>>)
  <2>1. \A c \in Codes : \A r \in Holders(c)' : r \in Holders(c) /\ req'[r] = req[r]
    BY <1>2 DEF NoNewHolder, Holders
  <2>2. UNCHANGED <<freshCodes, uses, contended>>
    BY <1>2 DEF Expire, history
  <2>3. \A c \in Codes : reset[c] = None => reset'[c] = None
    BY <1>1, <1>2 DEF Expire
  <2> QED
    BY <2>1, <2>2, <2>3 DEF SpentInv
<1>3. ASSUME NEW r \in Reqs, AskSetCode(r) PROVE SpentInv'
  <2>1. PICK c \in freshCodes : /\ freshCodes' = freshCodes \ {c}
                                /\ reset' = [reset EXCEPT ![c] = req[r].email]
    BY <1>3 DEF AskSetCode
  <2>2. UNCHANGED <<uses, contended>>
    BY <1>3 DEF AskSetCode, history
  <2>3. Ends(r)
    BY <1>3, EndEnds DEF AskSetCode
  <2>4. \A d \in Codes : \A q \in Holders(d)' : q \in Holders(d) /\ req'[q] = req[q]
    BY <2>3, IdleShape DEF Ends, Holders, ResetSteps
  <2>5. c \in Codes /\ Holders(c) = {} /\ uses[c] = 0
    BY <1>1, <2>1 DEF SpentInv
  <2>6. \A d \in Codes : d # c => reset'[d] = reset[d] /\ (d \in freshCodes' => d \in freshCodes)
    BY <1>1, <2>1
  <2>7. c \notin freshCodes'
    BY <2>1
  <2> QED
    BY <2>2, <2>4, <2>5, <2>6, <2>7 DEF SpentInv
<1>4. ASSUME NEW r \in Reqs, StartReset(r) PROVE SpentInv'
  <2>1. PICK c \in Codes :
          /\ reset[c] # None
          /\ Moves(r) /\ req'[r].pc = "reset_del" /\ req'[r].key = c
          /\ contended' = IF Readers(c) # {} THEN contended \union {c} ELSE contended
    BY <1>4, StartResetMoves
  <2>2. UNCHANGED <<reset, freshCodes, uses>>
    BY <1>4 DEF StartReset, redis
  <2>3. \A d \in Codes : \A q \in Holders(d)' :
          IF q = r THEN d = c ELSE q \in Holders(d) /\ req'[q] = req[q]
    BY <2>1 DEF Moves, Holders
  <2>4. c \notin freshCodes /\ uses[c] = 0 /\ \A q \in Holders(c) : req[q].pc = "reset_del"
    BY <1>1, <2>1 DEF SpentInv
  <2>5. \A q \in Holders(c) : q \in Readers(c)
    BY <2>4 DEF Holders, Readers, At
  <2>6. c \notin contended' => Holders(c) = {}
    BY <2>1, <2>5
  <2>7. \A d \in Codes : d \notin contended' => d \notin contended
    BY <2>1
  <2>8. ASSUME NEW d \in Codes
        PROVE  /\ d \in freshCodes' => reset'[d] = None /\ uses'[d] = 0 /\ Holders(d)' = {}
               /\ \A q \in Holders(d)' : req'[q].pc # "reset_del" => reset'[d] = None
               /\ uses'[d] > 0 => reset'[d] = None
               /\ d \notin contended' => /\ uses'[d] <= 1
                                         /\ \A x, q \in Holders(d)' : x = q
                                         /\ Holders(d)' # {} => uses'[d] = 0
    <3>1. CASE d = c
      BY <1>1, <2>1, <2>2, <2>3, <2>4, <2>6, <3>1
    <3>2. CASE d # c
      BY <2>2, <2>3, <2>7, <3>2 DEF SpentInv
    <3> QED
      BY <3>1, <3>2
  <2> QED
    BY <2>8 DEF SpentInv
<1>5. ASSUME NEW r \in Reqs, DelReset(r) PROVE SpentInv'
  <2>1. /\ Moves(r) /\ Keeps(r) /\ req[r].pc = "reset_del" /\ req'[r].pc = "reset_find"
        /\ req[r].key \in Codes
    BY <1>5, DelResetMoves
  <2>2. UNCHANGED <<freshCodes, uses, contended>> /\ reset' = [reset EXCEPT ![req[r].key] = None]
    BY <1>5 DEF DelReset, history
  <2>3. \A d \in Codes : \A q \in Holders(d)' :
          /\ q \in Holders(d) /\ (q # r => req'[q] = req[q])
          /\ q = r => d = req[r].key
    BY <2>1 DEF Moves, Keeps, Holders, ResetSteps
  <2>4. \A d \in Codes : (reset[d] = None => reset'[d] = None) /\ reset'[req[r].key] = None
    BY <1>1, <2>1, <2>2
  <2> QED
    BY <2>2, <2>3, <2>4 DEF SpentInv
<1>6. ASSUME NEW r \in Reqs, ResetFind(r) PROVE SpentInv'
  <2>1. UNCHANGED <<reset, freshCodes, uses, contended>>
    BY <1>6 DEF ResetFind, redis, history
  <2>2. \/ Ends(r)
        \/ Moves(r) /\ Keeps(r) /\ req[r].pc = "reset_find"
    BY <1>6, ResetFindMoves
  <2>3. \A d \in Codes : \A q \in Holders(d)' :
          q \in Holders(d) /\ (req'[q] = req[q] \/ req[q].pc # "reset_del")
    BY <2>2, IdleShape DEF Ends, Moves, Keeps, Holders, ResetSteps
  <2> QED
    BY <2>1, <2>3 DEF SpentInv
<1>7. ASSUME NEW r \in Reqs, ResetSave(r) PROVE SpentInv'
  <2>1. req[r].pc = "reset_save" /\ req[r].key \in Codes
    BY <1>7, ReqFields DEF ResetSave, At, Shaped, ResetSteps
  <2>2. UNCHANGED <<reset, freshCodes, contended>> /\ uses' = [uses EXCEPT ![req[r].key] = @ + 1]
    BY <1>7 DEF ResetSave, redis
  <2>3. Ends(r)
    BY <1>7, EndEnds DEF ResetSave
  <2>4. \A d \in Codes : \A q \in Holders(d)' : q # r /\ q \in Holders(d) /\ req'[q] = req[q]
    BY <2>3, IdleShape DEF Ends, Holders, ResetSteps
  <2>0. PICK c \in Codes : c = req[r].key
    BY <2>1
  <2>5. r \in Holders(c)
    BY <2>1, <2>0 DEF Holders, ResetSteps
  <2>6. c \notin freshCodes /\ reset[c] = None
    BY <2>1, <2>5 DEF SpentInv
  <2>7. c \notin contended => uses[c] = 0 /\ Holders(c)' = {}
    BY <2>1, <2>4, <2>5 DEF SpentInv
  <2>8. ASSUME NEW d \in Codes
        PROVE  /\ d \in freshCodes' => reset'[d] = None /\ uses'[d] = 0 /\ Holders(d)' = {}
               /\ \A q \in Holders(d)' : req'[q].pc # "reset_del" => reset'[d] = None
               /\ uses'[d] > 0 => reset'[d] = None
               /\ d \notin contended' => /\ uses'[d] <= 1
                                         /\ \A x, q \in Holders(d)' : x = q
                                         /\ Holders(d)' # {} => uses'[d] = 0
    <3>1. CASE d = c
      <4>1. uses'[d] = uses[d] + 1
        BY <1>1, <2>2, <2>0, <3>1
      <4> QED
        BY <1>1, <2>2, <2>6, <2>7, <3>1, <4>1
    <3>2. CASE d # c
      <4>1. uses'[d] = uses[d]
        BY <1>1, <2>2, <2>0, <3>2
      <4> QED
        BY <2>2, <2>4, <4>1 DEF SpentInv
    <3> QED
      BY <3>1, <3>2
  <2> QED
    BY <2>8 DEF SpentInv
<1> QED
  BY <1>2, <1>3, <1>4, <1>5, <1>6, <1>7, OthersReset

\* A reset code sets one password unless two requests had read it at once, and is gone once it
\* has set one (resetPass).
THEOREM CodesSpent == Spec => []ResetCodesSpent
<1>1. SpentInv => ResetCodesSpent
  BY DEF SpentInv, ResetCodesSpent
<1>2. Spec => [](TypeInv /\ SpentInv)
  BY Typed, SpentInit, SpentStep, PTL DEF Spec
<1> QED
  BY <1>1, <1>2, PTL

-----------------------------------------------------------------------------
(* Verification keys: each belongs to one e-mail. *)

Mails == outbox \union inbox
CodeMail(e, k) == [to |-> e, about |-> "code", key |-> k]

KeyInv ==
  /\ \A e \in Emails : keyByEmail[e] \notin freshKeys
  /\ \A m \in Mails : m.key \in Keys =>
       /\ m.key \notin freshKeys
       /\ \A e \in Emails : keyByEmail[e] = m.key => m.to = e
       /\ \A n \in Mails : n.key = m.key => n.to = m.to
  /\ \A r \in Reqs : req[r].pc = "code_set" =>
       /\ req[r].key \notin freshKeys
       /\ \A e \in Emails : keyByEmail[e] = req[r].key => req[r].email = e
       /\ \A m \in Mails : m.key # req[r].key
       /\ \A q \in Reqs : req[q].pc = "code_set" /\ req[q].key = req[r].key => q = r
  /\ \A r \in Reqs : req[r].pc \in SignUpSteps => CodeMail(req[r].email, req[r].key) \in inbox

\* Whoever signed up got the mail, with a key of its own.
SignedUp ==
  /\ \A u \in Users : via[u] # None =>
       user[u] # None /\ CodeMail(user[u].email, via[u]) \in inbox
  /\ \A u, v \in Users : via[u] # None /\ via[u] = via[v] => u = v

LEMMA KeyInit == Init => KeyInv /\ SignedUp
<1> SUFFICES ASSUME Init PROVE KeyInv /\ SignedUp
  OBVIOUS
<1>1. Mails = {} /\ None \notin Keys
  BY CredentialsAssumption DEF Init, Mails
<1>2. \A r \in Reqs : req[r].pc \notin SignUpSteps \union {"code_set"}
  BY IdleShape DEF Init, SignUpSteps
<1> QED
  BY <1>1, <1>2 DEF Init, KeyInv, SignedUp

LEMMA MailFields ==
  ASSUME TypeInv, NEW m \in Mails, m.key \in Keys
  PROVE  m = CodeMail(m.to, m.key)
<1>1. m \in Mail
  BY DEF TypeInv, TypeOK, Mails
<1> QED
  BY <1>1, CredentialsAssumption DEF Mail, CodeMail

\* No code is mailed, no key made and no sign-up begun.
NoNewKey ==
  \A r \in Reqs :
    /\ req'[r].pc = "code_set" => req'[r] = req[r]
    /\ req'[r].pc \in SignUpSteps => req[r].pc \in SignUpSteps /\ Keeps(r)

KeysRest ==
  /\ freshKeys' = freshKeys
  /\ \A e \in Emails : keyByEmail'[e] = keyByEmail[e] \/ keyByEmail'[e] = None
  /\ \A m \in outbox' \union inbox' : m.key \in Keys => m \in Mails
  /\ inbox \subseteq inbox'

LEMMA KeyRests == ASSUME TypeInv, KeyInv, NoNewKey, KeysRest PROVE KeyInv'
<1>1. None \notin Keys /\ freshKeys \subseteq Keys
  BY CredentialsAssumption DEF TypeInv, TypeOK
<1>2. \A e \in Emails : keyByEmail'[e] \notin freshKeys'
  BY <1>1 DEF KeyInv, KeysRest
<1>3. \A m \in outbox' \union inbox' : m.key \in Keys =>
       /\ m.key \notin freshKeys'
       /\ \A e \in Emails : keyByEmail'[e] = m.key => m.to = e
       /\ \A n \in outbox' \union inbox' : n.key = m.key => n.to = m.to
  BY <1>1 DEF KeyInv, KeysRest
<1>4. \A r \in Reqs : req[r].pc = "code_set" => req[r].key \in Keys
  BY DEF TypeInv, Shaped
<1>5. \A r \in Reqs : req'[r].pc = "code_set" =>
       /\ req'[r].key \notin freshKeys'
       /\ \A e \in Emails : keyByEmail'[e] = req'[r].key => req'[r].email = e
       /\ \A m \in outbox' \union inbox' : m.key # req'[r].key
       /\ \A q \in Reqs : req'[q].pc = "code_set" /\ req'[q].key = req'[r].key => q = r
  BY <1>1, <1>4 DEF KeyInv, KeysRest, NoNewKey
<1>6. \A r \in Reqs : req'[r].pc \in SignUpSteps => CodeMail(req'[r].email, req'[r].key) \in inbox'
  BY DEF KeyInv, KeysRest, NoNewKey, Keeps
<1> QED
  BY <1>2, <1>3, <1>5, <1>6 DEF KeyInv, Mails

Settled(r) == /\ Moves(r)
              /\ req'[r].pc # "code_set"
              /\ req'[r].pc \in SignUpSteps => req[r].pc \in SignUpSteps /\ Keeps(r)

LEMMA SettledNoNewKey == ASSUME NEW r \in Reqs, Settled(r) PROVE NoNewKey
BY DEF Settled, NoNewKey, Moves, Keeps

LEMMA OthersKeys ==
  ASSUME TypeInv, [Next]_vars
  PROVE  \/ \E r \in Reqs : CodeFind(r) \/ SetCode(r) \/ StartSignUp(r)
         \/ NoNewKey /\ KeysRest
<1>1. UNCHANGED <<freshKeys, keyByEmail, mails>> => KeysRest
  BY DEF KeysRest, mails, Mails
<1>2. ASSUME NEW r \in Reqs, RequestStep(r), ~CodeFind(r), ~SetCode(r), ~StartSignUp(r)
      PROVE  NoNewKey /\ KeysRest
  <2>1. Ends(r) => Settled(r)
    BY EndMoves DEF Settled, SignUpSteps
  <2>2. CASE StartSendCode(r)
    <3>1. Settled(r)
      BY <2>2, StartSendCodeMoves DEF Settled, SignUpSteps
    <3>2. KeysRest
      BY <1>1, <2>2 DEF StartSendCode, redis
    <3> QED
      BY <3>1, <3>2, SettledNoNewKey
  <2>3. CASE SignUp(r)
    <3>1. ASSUME CheckDuplicate(r) PROVE Settled(r)
      BY <2>1, <3>1, CheckDuplicateMoves DEF Settled, SignUpSteps
    <3>2. ASSUME Create(r) PROVE Settled(r)
      BY <2>1, <3>2, CreateMoves DEF Settled, SignUpSteps
    <3>3. ASSUME DelKey(r) PROVE Settled(r)
      BY <2>1, <3>3, EndEnds DEF Settled, DelKey
    <3>4. Settled(r)
      BY <1>2, <2>3, <3>1, <3>2, <3>3 DEF SignUp
    <3>5. KeysRest
      BY <1>1, <1>2, <2>3 DEF SignUp, CheckDuplicate, Create, DelKey, redis
    <3> QED
      BY <3>4, <3>5, SettledNoNewKey
  <2>4. CASE Login(r) \/ ChangePass(r) \/ Fails(r)
    <3>1. ASSUME StartLogin(r) PROVE Settled(r)
      BY <3>1, StartLoginMoves DEF Settled, SignUpSteps
    <3>2. ASSUME StartChange(r) PROVE Settled(r)
      BY <3>2, StartChangeMoves DEF Settled, SignUpSteps
    <3>3. ASSUME SaveLogin(r) \/ ChangeSave(r) \/ Fails(r) PROVE Settled(r)
      BY <2>1, <3>3, EndEnds DEF Settled, SaveLogin, ChangeSave, Fails
    <3>4. Settled(r)
      BY <2>4, <3>1, <3>2, <3>3 DEF Login, ChangePass
    <3>5. KeysRest
      BY <1>1, <2>4 DEF Login, StartLogin, SaveLogin, ChangePass, StartChange, ChangeSave, Fails, redis
    <3> QED
      BY <3>4, <3>5, SettledNoNewKey
  <2>5. CASE ResetPass(r)
    <3>1. CASE StartAsk(r) \/ StartReset(r) \/ DelReset(r) \/ ResetFind(r)
      <4>1. Settled(r)
        BY <2>1, <3>1, StartAskMoves, StartResetMoves, DelResetMoves, ResetFindMoves
           DEF Settled, SignUpSteps
      <4>2. KeysRest
        BY <1>1, <3>1 DEF StartAsk, StartReset, DelReset, ResetFind, redis
      <4> QED
        BY <4>1, <4>2, SettledNoNewKey
    <3>2. CASE AskSetCode(r)
      <4>1. Settled(r)
        BY <2>1, <3>2, EndEnds DEF Settled, AskSetCode
      <4>2. PICK c \in freshCodes :
              outbox' = outbox \union {[to |-> req[r].email, about |-> "link", key |-> c]}
        BY <3>2 DEF AskSetCode
      <4>3. c \notin Keys
        BY <4>2, CredentialsAssumption DEF TypeInv, TypeOK
      <4>4. UNCHANGED <<freshKeys, keyByEmail, inbox>>
        BY <3>2 DEF AskSetCode
      <4>5. KeysRest
        BY <4>2, <4>3, <4>4 DEF KeysRest, Mails
      <4> QED
        BY <4>1, <4>5, SettledNoNewKey
    <3>3. CASE ResetSave(r)
      <4>1. Settled(r)
        BY <2>1, <3>3, EndEnds DEF Settled, ResetSave
      <4>2. outbox' = outbox \union {[to |-> req[r].email, about |-> "password", key |-> passes + 1]}
        BY <3>3 DEF ResetSave
      <4>3. passes + 1 \notin Keys
        BY <3>3, NewPassWrites, CredentialsAssumption DEF NewPass
      <4>4. UNCHANGED <<freshKeys, keyByEmail, inbox>>
        BY <3>3 DEF ResetSave, redis
      <4>5. KeysRest
        BY <4>2, <4>3, <4>4 DEF KeysRest, Mails
      <4> QED
        BY <4>1, <4>5, SettledNoNewKey
    <3> QED
      BY <2>5, <3>1, <3>2, <3>3 DEF ResetPass
  <2> QED
    BY <1>2, <2>2, <2>3, <2>4, <2>5 DEF RequestStep, SendCode
<1>3. World \/ UNCHANGED vars => NoNewKey
  BY WorldMoves, IdleShape DEF NoNewKey, SignUpSteps, Keeps
<1>4. CASE CreateMember \/ Expire \/ UNCHANGED vars
  BY <1>1, <1>3, <1>4 DEF World, CreateMember, Expire, vars, redis
<1>5. ASSUME NEW u \in Users, BanEnds(u) PROVE KeysRest
  BY <1>1, <1>5, BanEndsKeeps DEF redis
<1>6. ASSUME NEW m \in outbox, SendEmail(m) \/ LoseEmail(m) PROVE KeysRest
  BY <1>6 DEF SendEmail, LoseEmail, redis, KeysRest, Mails
<1>7. ASSUME Restart PROVE KeysRest
  BY <1>7 DEF Restart, redis, KeysRest, Mails
<1>8. CASE World
  BY <1>3, <1>4, <1>5, <1>6, <1>7, <1>8 DEF World
<1> QED
  BY <1>2, <1>4, <1>8, StepCases

LEMMA KeyStep == TypeInv /\ KeyInv /\ [Next]_vars => KeyInv'
<1> SUFFICES ASSUME TypeInv, KeyInv, [Next]_vars PROVE KeyInv'
  OBVIOUS
<1>1. /\ freshKeys \subseteq Keys /\ None \notin Keys
      /\ keyByEmail \in [Emails -> Keys \union {None}]
  BY CredentialsAssumption DEF TypeInv, TypeOK
<1>2. \A q \in Reqs : req[q].pc = "code_set" => req[q].key \in Keys
  BY DEF TypeInv, Shaped
<1>3. ASSUME NEW r \in Reqs, CodeFind(r) PROVE KeyInv'
  <2>1. CASE Ends(r) /\ UNCHANGED <<keyByEmail, freshKeys>>
    <3>1. KeysRest
      BY <1>3, <2>1 DEF CodeFind, KeysRest, mails, Mails
    <3>2. Settled(r)
      BY <2>1, EndMoves DEF Settled, SignUpSteps
    <3> QED
      BY <3>1, <3>2, SettledNoNewKey, KeyRests
  <2>2. ASSUME NEW k \in freshKeys, Moves(r), req'[r].pc = "code_set", req'[r].key = k,
               req'[r].email = req[r].email, req[r].email \in Emails,
               freshKeys' = freshKeys \ {k},
               keyByEmail' = [keyByEmail EXCEPT ![req[r].email] = k]
        PROVE  KeyInv'
    <3>1. outbox' = outbox /\ inbox' = inbox
      BY <1>3 DEF CodeFind, mails
    <3>2. \A e \in Emails : keyByEmail'[e] = IF e = req[r].email THEN k ELSE keyByEmail[e]
      BY <1>1, <2>2
    <3>3. \A q \in Reqs \ {r} : req'[q] = req[q]
      BY <2>2 DEF Moves
    <3>4. \A e \in Emails : keyByEmail'[e] \notin freshKeys'
      BY <2>2, <3>2 DEF KeyInv
    <3>5. \A m \in Mails : m.key \in Keys =>
           /\ m.key \notin freshKeys'
           /\ \A e \in Emails : keyByEmail'[e] = m.key => m.to = e
           /\ \A n \in Mails : n.key = m.key => n.to = m.to
      BY <2>2, <3>2 DEF KeyInv
    <3>6. ASSUME NEW q \in Reqs, req'[q].pc = "code_set"
          PROVE  /\ req'[q].key \notin freshKeys'
                 /\ \A e \in Emails : keyByEmail'[e] = req'[q].key => req'[q].email = e
                 /\ \A m \in Mails : m.key # req'[q].key
                 /\ \A x \in Reqs : req'[x].pc = "code_set" /\ req'[x].key = req'[q].key => x = q
      <4>1. CASE q = r
        <5>1. \A e \in Emails : keyByEmail'[e] = k => req'[q].email = e
          BY <2>2, <3>2, <4>1 DEF KeyInv
        <5>2. \A m \in Mails : m.key # k
          BY <1>1, <2>2 DEF KeyInv
        <5>3. \A x \in Reqs : req'[x].pc = "code_set" /\ req'[x].key = k => x = q
          BY <2>2, <3>3, <4>1 DEF KeyInv
        <5> QED
          BY <2>2, <4>1, <5>1, <5>2, <5>3
      <4>2. CASE q # r
        <5>1. req'[q] = req[q] /\ req[q].pc = "code_set" /\ req[q].key # k
          BY <2>2, <3>3, <3>6, <4>2 DEF KeyInv
        <5> QED
          BY <2>2, <3>2, <3>3, <4>2, <5>1 DEF KeyInv
      <4> QED
        BY <4>1, <4>2
    <3>7. \A q \in Reqs : req'[q].pc \in SignUpSteps => CodeMail(req'[q].email, req'[q].key) \in inbox
      BY <2>2, <3>3 DEF KeyInv, SignUpSteps
    <3> QED
      BY <3>1, <3>4, <3>5, <3>6, <3>7 DEF KeyInv, Mails
  <2> QED
    BY <1>3, <2>1, <2>2, CodeFindMoves
<1>4. ASSUME NEW r \in Reqs, SetCode(r) PROVE KeyInv'
  <2>1. req[r].pc = "code_set" /\ req[r].email \in Emails /\ req[r].key \in Keys
    BY <1>4, ReqFields DEF SetCode, At, Shaped
  <2>2. PICK m : /\ m = [to |-> req[r].email, about |-> "code", key |-> req[r].key]
                 /\ outbox' = outbox \union {m}
    BY <1>4 DEF SetCode
  <2>3. m.to = req[r].email /\ m.key = req[r].key
    BY <2>2
  <2>4. UNCHANGED <<keyByEmail, freshKeys, inbox>>
    BY <1>4 DEF SetCode
  <2>5. Ends(r)
    BY <1>4, EndEnds DEF SetCode
  <2>6. \A q \in Reqs : req'[q].pc # "idle" => q # r /\ req'[q] = req[q]
    BY <2>5, IdleShape DEF Ends
  <2>7. \A n \in outbox' \union inbox' : n \in Mails \/ n = m
    BY <2>2, <2>4 DEF Mails
  <2>8. \A n \in outbox' \union inbox' : n.key \in Keys =>
         /\ n.key \notin freshKeys
         /\ \A e \in Emails : keyByEmail[e] = n.key => n.to = e
         /\ \A x \in outbox' \union inbox' : x.key = n.key => x.to = n.to
    BY <2>1, <2>3, <2>7 DEF KeyInv
  <2>9. \A q \in Reqs : req'[q].pc = "code_set" =>
         /\ req'[q].key \notin freshKeys
         /\ \A e \in Emails : keyByEmail[e] = req'[q].key => req'[q].email = e
         /\ \A n \in outbox' \union inbox' : n.key # req'[q].key
         /\ \A x \in Reqs : req'[x].pc = "code_set" /\ req'[x].key = req'[q].key => x = q
    BY <2>1, <2>3, <2>6, <2>7 DEF KeyInv
  <2>10. \A q \in Reqs : req'[q].pc \in SignUpSteps =>
           CodeMail(req'[q].email, req'[q].key) \in inbox'
    BY <2>4, <2>6 DEF KeyInv, SignUpSteps
  <2> QED
    BY <2>4, <2>8, <2>9, <2>10 DEF KeyInv, Mails
<1>5. ASSUME NEW r \in Reqs, StartSignUp(r) PROVE KeyInv'
  <2>1. PICK e \in Emails, k \in Keys :
          /\ Moves(r) /\ req'[r].pc = "sign_check" /\ req'[r].email = e /\ req'[r].key = k
          /\ Received(k) /\ keyByEmail[e] = k
    BY <1>5, StartSignUpMoves
  <2>2. UNCHANGED <<keyByEmail, freshKeys, outbox, inbox>>
    BY <1>5 DEF StartSignUp, redis, mails
  <2>3. CodeMail(e, k) \in inbox
    <3>1. PICK m \in inbox : m.key = k
      BY <2>1 DEF Received
    <3>2. m \in Mails
      BY DEF Mails
    <3>3. m.to = e
      BY <2>1, <3>1, <3>2 DEF KeyInv
    <3>4. m = CodeMail(m.to, m.key)
      BY <3>1, <3>2, MailFields
    <3> QED
      BY <3>1, <3>3, <3>4
  <2>4. \A q \in Reqs \ {r} : req'[q] = req[q]
    BY <2>1 DEF Moves
  <2>5. \A q \in Reqs : req'[q].pc = "code_set" => q # r
    BY <2>1
  <2>6. \A q \in Reqs : req'[q].pc \in SignUpSteps =>
          CodeMail(req'[q].email, req'[q].key) \in inbox
    BY <2>1, <2>3, <2>4 DEF KeyInv
  <2> QED
    BY <2>2, <2>4, <2>5, <2>6 DEF KeyInv, Mails
<1> QED
  BY <1>3, <1>4, <1>5, OthersKeys, KeyRests

\* Rows of users who signed up are written by Create alone.
LEMMA ViaKept ==
  ASSUME TypeInv, [Next]_vars
  PROVE  \/ \E r \in Reqs : Create(r)
         \/ via' = via
<1>1. ASSUME NEW r \in Reqs, RequestStep(r), ~Create(r) PROVE via' = via
  <2>1. CASE SendCode(r) \/ SignUp(r)
    BY <1>1, <2>1 DEF SendCode, StartSendCode, CodeFind, SetCode, SignUp, StartSignUp,
                      CheckDuplicate, DelKey, history
  <2>2. CASE Login(r) \/ ResetPass(r) \/ ChangePass(r) \/ Fails(r)
    BY <2>2 DEF Login, StartLogin, SaveLogin, ResetPass, StartAsk, AskSetCode, StartReset, DelReset,
                ResetFind, ResetSave, ChangePass, StartChange, ChangeSave, Fails, history
  <2> QED
    BY <1>1, <2>1, <2>2 DEF RequestStep
<1>2. World \/ UNCHANGED vars => via' = via
  BY DEF World, CreateMember, BanEnds, SendEmail, LoseEmail, Expire, Restart, vars, history
<1> QED
  BY <1>1, <1>2, StepCases

LEMMA SignedUpStep == TypeInv /\ KeyInv /\ SignedUp /\ [Next]_vars => SignedUp'
<1> SUFFICES ASSUME TypeInv, KeyInv, SignedUp, [Next]_vars PROVE SignedUp'
  OBVIOUS
<1>1. EmailsKept /\ inbox \subseteq inbox'
  <2>1. inbox \subseteq inbox'
    <3>1. ASSUME NEW r \in Reqs, CodeFind(r) \/ SetCode(r) \/ StartSignUp(r)
          PROVE  inbox' = inbox
      BY <3>1 DEF CodeFind, SetCode, StartSignUp, mails
    <3> QED
      BY <3>1, OthersKeys DEF KeysRest
  <2> QED
    BY <2>1, RowsKept
<1>2. CASE via' = via
  BY <1>1, <1>2 DEF SignedUp, EmailsKept
<1>3. ASSUME NEW r \in Reqs, Create(r), via' # via PROVE SignedUp'
  <2>1. /\ req[r].pc = "sign_create" /\ req[r].email \in Emails /\ req[r].key \in Keys
        /\ ~Exists(req[r].email) /\ passes < MaxPass
        /\ \E u \in Users : /\ user[u] = None
                            /\ user' = [user EXCEPT ![u] = NewAccount(req[r].email)]
                            /\ via' = [via EXCEPT ![u] = req[r].key]
    BY <1>3, CreateMoves
  <2>2. PICK e \in Emails, k \in Keys : e = req[r].email /\ k = req[r].key
    BY <2>1
  <2>3. PICK u \in Users : /\ user[u] = None
                           /\ user' = [user EXCEPT ![u] = NewAccount(e)]
                           /\ via' = [via EXCEPT ![u] = k]
    BY <2>1, <2>2
  <2>4. PICK w \in Account : w = NewAccount(e) /\ w # None /\ w.email = e
    BY <2>1, NewRow
  <2>5. user' = [user EXCEPT ![u] = w] /\ user'[u] = w
    BY <2>3, <2>4 DEF TypeInv, TypeOK
  <2>6. CodeMail(e, k) \in inbox
    BY <2>1, <2>2 DEF KeyInv, SignUpSteps
  <2>7. /\ \A v \in Users \ {u} : via'[v] = via[v]
        /\ via'[u] = k
    BY <2>3 DEF TypeInv, TypeOK
  <2>8. ASSUME NEW v \in Users, via[v] = k PROVE FALSE
    <3>1. k # None
      BY CredentialsAssumption
    <3>2. user[v] # None /\ CodeMail(user[v].email, k) \in inbox
      BY <2>8, <3>1 DEF SignedUp
    <3>3. /\ CodeMail(e, k) \in Mails /\ CodeMail(user[v].email, k) \in Mails
          /\ CodeMail(e, k).key = k /\ CodeMail(user[v].email, k).key = k
          /\ CodeMail(e, k).to = e /\ CodeMail(user[v].email, k).to = user[v].email
      BY <2>6, <3>2 DEF Mails, CodeMail
    <3>4. user[v].email = e
      BY <3>3 DEF KeyInv
    <3> QED
      BY <2>1, <2>2, <3>2, <3>4 DEF Exists
  <2>9. \A v \in Users : via'[v] # None =>
          user'[v] # None /\ CodeMail(user'[v].email, via'[v]) \in inbox'
    BY <1>1, <2>4, <2>5, <2>6, <2>7 DEF SignedUp, EmailsKept
  <2>10. \A v, x \in Users : via'[v] # None /\ via'[v] = via'[x] => v = x
    BY <2>7, <2>8 DEF SignedUp
  <2> QED
    BY <2>9, <2>10 DEF SignedUp
<1> QED
  BY <1>2, <1>3, ViaKept

\* Whoever signed up with an e-mail got the code sent to it, and no key opens two accounts
\* (sendCode, signUp).
THEOREM EmailsVerified == Spec => []VerifiedEmail
<1>1. SignedUp => VerifiedEmail
  BY DEF SignedUp, VerifiedEmail, CodeMail
<1>2. Spec => [](TypeInv /\ KeyInv /\ SignedUp)
  BY Typed, KeyInit, KeyStep, SignedUpStep, PTL DEF Spec
<1> QED
  BY <1>1, <1>2, PTL
=============================================================================
