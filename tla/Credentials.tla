----------------------------- MODULE Credentials ------------------------------
(***************************************************************************)
(* Accounts and what opens them (AuthService, UserService.create): codes   *)
(* that verify an e-mail, sign-up, the counter of failed logins and the    *)
(* ban, resetting and changing a password, and the mails these send        *)
(* (MailerService.sendEmail).  Rows are in MariaDB, codes in Redis with a  *)
(* time to live, the last verification key of an e-mail in memory.         *)
(* Requests interleave at every `await`.  E-mail and phone are one unique  *)
(* attribute here; sessions and memberships are in Access.  Of the mails,  *)
(* those that carry a code, a link or a generated password are kept: the   *)
(* others tell their reader nothing this module depends on.  The key       *)
(* <email>_retry, which refuses a second mail within a minute, may expire  *)
(* at any time and so only cuts requests short, as a failure does (Fails). *)
(* A user deactivated everywhere is not found either: the branch of nobody *)
(* found is open to any request that looks for an account.                 *)
(***************************************************************************)
EXTENDS Naturals

CONSTANTS Users,       \* ids of rows of the table user
          Emails,
          Keys,        \* verification keys, md5 of the e-mail and the time
          Codes,       \* codes of password resets
          Reqs,        \* requests that may be in flight at once
          None,        \* no row, no value
          MaxLogins,   \* wrong passwords that ban: 5
          MaxPass,     \* bound: passwords chosen or generated
          MaxFaults    \* bound: failed queries and restarts

Passwords == 1..MaxPass
Account == [email : Emails, pass : Passwords, cnt : 0..MaxLogins + 1, banned : BOOLEAN]
Mail == [to : Emails, about : {"code"}, key : Keys]
          \union [to : Emails, about : {"link"}, key : Codes]
          \union [to : Emails, about : {"password"}, key : Passwords]

ASSUME CredentialsAssumption ==
  /\ MaxLogins \in Nat \ {0} /\ MaxPass \in Nat /\ MaxFaults \in Nat
  /\ None \notin Account \union Users \union Emails \union Keys \union Codes \union Passwords
  /\ Keys \intersect Codes = {} /\ Passwords \intersect (Keys \union Codes) = {}

VARIABLES
  user,     \* committed rows
  keyByEmail, \* AuthService.VerifyKeyByEmail
  verify,   \* verification keys Redis holds a code for
  reset,    \* reset code: the e-mail Redis holds for it
  freshKeys, freshCodes, \* values md5 has not returned yet
  passes,   \* passwords so far
  outbox,   \* mails sendEmail is sending
  inbox,    \* mails that have arrived
  req,      \* the requests
  faults,   \* failures so far
  via,      \* history: the key a user signed up with
  fails,    \* history: wrong passwords saved since the last right one
  raced,    \* history: users two of whose attempts overlapped since then
  lifted,   \* history: users whose ban ended after the last attempt
  lost,     \* history: passwords whose mail was not sent
  known,    \* history: passwords a user has chosen
  given,    \* history: passwords chosen by whoever created the member
  past,     \* history: passwords a user had before
  uses,     \* history: passwords a reset code has set
  contended \* history: reset codes two requests have read

history == <<via, fails, raced, lifted, lost, known, given, past, uses, contended>>
redis == <<verify, reset, freshKeys, freshCodes>>
mails == <<outbox, inbox>>
vars == <<user, keyByEmail, redis, passes, mails, req, faults, history>>

Request == [pc    : {"idle", "code_find", "code_set",
                     "sign_check", "sign_create", "sign_del", "login",
                     "ask_code",
                     "reset_del", "reset_find", "reset_save", "change"},
            email : Emails \union {None},
            key   : Keys \union Codes \union {None},
            user  : Users \union {None},
            seen  : Account \union {None},  \* the row it has read
            right : BOOLEAN]                \* the password was right
Idle == [pc |-> "idle", email |-> None, key |-> None, user |-> None, seen |-> None,
         right |-> FALSE]

Init ==
  /\ user = [u \in Users |-> None]
  /\ keyByEmail = [e \in Emails |-> None]
  /\ verify = {}
  /\ reset = [c \in Codes |-> None]
  /\ freshKeys = Keys /\ freshCodes = Codes
  /\ passes = 0
  /\ outbox = {} /\ inbox = {}
  /\ req = [r \in Reqs |-> Idle]
  /\ faults = 0
  /\ via = [u \in Users |-> None]
  /\ fails = [u \in Users |-> 0]
  /\ raced = {} /\ lifted = {} /\ lost = {}
  /\ known = [u \in Users |-> {}] /\ given = {}
  /\ past = [u \in Users |-> {}]
  /\ uses = [c \in Codes |-> 0]
  /\ contended = {}

-----------------------------------------------------------------------------
At(r, pc) == req[r].pc = pc
Step(r, pc) == req' = [req EXCEPT ![r].pc = pc]
End(r) == req' = [req EXCEPT ![r] = Idle]

\* Mutant: bans are not looked at.
FoundEvenBanned(u) == user[u] # None

\* UserService.findOne as its callers here use it: users whose ban is over.
Found(u) == user[u] # None /\ ~user[u].banned
FoundEmail(e) == \E u \in Users : Found(u) /\ user[u].email = e

\* UserService.findOne with onlyActive null: the duplicate check.
Exists(e) == \E u \in Users : user[u] # None /\ user[u].email = e

-----------------------------------------------------------------------------
(* AuthService.sendCode. *)

StartSendCode(r) ==
  /\ At(r, "idle") /\ freshKeys # {}
  /\ \E e \in Emails : req' = [req EXCEPT ![r] = [Idle EXCEPT !.pc = "code_find", !.email = e]]
  /\ UNCHANGED <<user, keyByEmail, redis, passes, mails, faults, history>>

\* The e-mail of somebody who can log in is refused.
CodeFind(r) ==
  /\ At(r, "code_find")
  /\ \/ /\ FoundEmail(req[r].email)
        /\ End(r)
        /\ UNCHANGED <<keyByEmail, freshKeys>>
     \/ \E k \in freshKeys :
          /\ freshKeys' = freshKeys \ {k}
          /\ keyByEmail' = [keyByEmail EXCEPT ![req[r].email] = k]
          /\ req' = [req EXCEPT ![r].pc = "code_set", ![r].key = k]
  /\ UNCHANGED <<user, verify, reset, freshCodes, passes, mails, faults, history>>

SetCode(r) ==
  /\ At(r, "code_set")
  /\ verify' = verify \union {req[r].key}
  /\ outbox' = outbox \union {[to |-> req[r].email, about |-> "code", key |-> req[r].key]}
  /\ End(r)
  /\ UNCHANGED <<user, keyByEmail, reset, freshKeys, freshCodes, passes, inbox,
                 faults, history>>

-----------------------------------------------------------------------------
(* AuthService.signUp and UserService.create. *)

\* Whoever has got a mail knows its code; without it the code is not guessed.
Received(k) == \E m \in inbox : m.key = k

\* Mutant: the key is not compared with the one of the e-mail.
StartSignUpAnyKey(r) ==
  /\ At(r, "idle")
  /\ \E e \in Emails, k \in Keys :
       /\ k \in verify /\ Received(k)
       /\ req' = [req EXCEPT ![r] = [Idle EXCEPT !.pc = "sign_check", !.email = e, !.key = k]]
  /\ UNCHANGED <<user, keyByEmail, redis, passes, mails, faults, history>>

\* GET: the code of the key is read, then the key is compared with the last one of the e-mail.
StartSignUp(r) ==
  /\ At(r, "idle")
  /\ \E e \in Emails, k \in Keys :
       /\ k \in verify /\ Received(k) /\ keyByEmail[e] = k
       /\ req' = [req EXCEPT ![r] = [Idle EXCEPT !.pc = "sign_check", !.email = e, !.key = k]]
  /\ UNCHANGED <<user, keyByEmail, redis, passes, mails, faults, history>>

CheckDuplicate(r) ==
  /\ At(r, "sign_check")
  /\ IF Exists(req[r].email) THEN End(r) ELSE Step(r, "sign_create")
  /\ UNCHANGED <<user, keyByEmail, redis, passes, mails, faults, history>>

\* Mutant: toEntity of the dto leaves the e-mail out.
NewAccountNoEmail(e) == [email |-> None, pass |-> passes + 1, cnt |-> 0, banned |-> FALSE]

NewAccount(e) == [email |-> e, pass |-> passes + 1, cnt |-> 0, banned |-> FALSE]

\* The inserts and the commit: the unique index refuses a second row of the e-mail.
Create(r) ==
  /\ At(r, "sign_create") /\ passes < MaxPass
  /\ \/ /\ Exists(req[r].email)
        /\ End(r)
        /\ UNCHANGED <<user, passes, via, known>>
     \/ /\ ~Exists(req[r].email)
        /\ \E u \in Users :
             /\ user[u] = None
             /\ user' = [user EXCEPT ![u] = NewAccount(req[r].email)]
             /\ via' = [via EXCEPT ![u] = req[r].key]
             /\ known' = [known EXCEPT ![u] = {passes + 1}]
        /\ passes' = passes + 1
        /\ Step(r, "sign_del")
  /\ UNCHANGED <<keyByEmail, redis, mails, faults, fails, raced, lifted, lost, given, past,
                 uses, contended>>

DelKey(r) ==
  /\ At(r, "sign_del")
  /\ verify' = verify \ {req[r].key}
  /\ End(r)
  /\ UNCHANGED <<user, keyByEmail, reset, freshKeys, freshCodes, passes, mails,
                 faults, history>>

\* UserService.create for a new member, by somebody with the right to, who chooses the
\* password and is alone in knowing it: no code, and the only mail is to the owner of the
\* organization, without the password.  The check and the insert are the same as above
\* (here one step; sign-up has them apart).
CreateMember ==
  /\ passes < MaxPass
  /\ \E u \in Users, e \in Emails :
       /\ user[u] = None /\ ~Exists(e)
       /\ user' = [user EXCEPT ![u] = NewAccount(e)]
  /\ given' = given \union {passes + 1}
  /\ passes' = passes + 1
  /\ UNCHANGED <<keyByEmail, redis, mails, req, faults, via, fails, raced, lifted, lost,
                 known, past, uses, contended>>

-----------------------------------------------------------------------------
(* AuthService.login: read the row, write the counter back. *)

Attempts(u) == {r \in Reqs : At(r, "login") /\ req[r].user = u}

StartLogin(r) ==
  /\ At(r, "idle")
  /\ \E u \in Users, right \in BOOLEAN :
       /\ Found(u)
       /\ user[u].cnt <= MaxLogins   \* bound
       /\ req' = [req EXCEPT ![r] = [Idle EXCEPT !.pc = "login", !.user = u,
                                       !.seen = user[u], !.right = right]]
       /\ raced' = IF Attempts(u) # {} THEN raced \union {u} ELSE raced
  /\ UNCHANGED <<user, keyByEmail, redis, passes, mails, faults, via, fails, lifted, lost,
                 known, given, past, uses, contended>>

\* Mutant: a right password leaves the counter.
AttemptKeepsCount(row, seen, right) ==
  IF right THEN [row EXCEPT !.cnt = seen.cnt, !.banned = FALSE]
  ELSE [row EXCEPT !.cnt = seen.cnt + 1, !.banned = @ \/ seen.cnt + 1 >= MaxLogins]

\* Mutant: the whole entity that was read is saved.
AttemptSavesAll(row, seen, right) ==
  IF right THEN [seen EXCEPT !.cnt = 0, !.banned = FALSE]
  ELSE [seen EXCEPT !.cnt = @ + 1, !.banned = @ \/ seen.cnt + 1 >= MaxLogins]

\* userToUpd carries the counter and, when it changes, the ban: nothing else is written.
Attempt(row, seen, right) ==
  IF right THEN [row EXCEPT !.cnt = 0, !.banned = FALSE]
  ELSE [row EXCEPT !.cnt = seen.cnt + 1, !.banned = @ \/ seen.cnt + 1 >= MaxLogins]

SaveLogin(r) ==
  LET u == req[r].user
      right == req[r].right
  IN  /\ At(r, "login")
      /\ user' = [user EXCEPT ![u] = Attempt(@, req[r].seen, right)]
      /\ fails' = [fails EXCEPT ![u] = IF right THEN 0
                                       ELSE IF @ > MaxLogins THEN @ ELSE @ + 1]
      /\ raced' = IF right /\ Attempts(u) = {r} THEN raced \ {u} ELSE raced
      /\ lifted' = lifted \ {u}
      /\ End(r)
      /\ UNCHANGED <<keyByEmail, redis, passes, mails, faults, via, lost, known, given,
                     past, uses, contended>>

\* banned_to is over; UserService.unban leaves login_cnt as it is.
BanEnds(u) ==
  /\ user[u] # None /\ user[u].banned
  /\ user' = [user EXCEPT ![u].banned = FALSE]
  /\ lifted' = lifted \union {u}
  /\ UNCHANGED <<keyByEmail, redis, passes, mails, req, faults, via, fails, raced, lost,
                 known, given, past, uses, contended>>

-----------------------------------------------------------------------------
(* AuthService.resetPass, with an e-mail. *)

StartAsk(r) ==
  /\ At(r, "idle") /\ freshCodes # {}
  /\ \E e \in Emails :
       /\ FoundEmail(e)
       /\ req' = [req EXCEPT ![r] = [Idle EXCEPT !.pc = "ask_code", !.email = e]]
  /\ UNCHANGED <<user, keyByEmail, redis, passes, mails, faults, history>>

AskSetCode(r) ==
  /\ At(r, "ask_code")
  /\ \E c \in freshCodes :
       /\ freshCodes' = freshCodes \ {c}
       /\ reset' = [reset EXCEPT ![c] = req[r].email]
       /\ outbox' = outbox \union {[to |-> req[r].email, about |-> "link", key |-> c]}
  /\ End(r)
  /\ UNCHANGED <<user, keyByEmail, verify, freshKeys, passes, inbox, faults, history>>

-----------------------------------------------------------------------------
(* AuthService.resetPass, with a code; changePass. *)

Readers(c) == {r \in Reqs : req[r].key = c /\ At(r, "reset_del")}

StartReset(r) ==
  /\ At(r, "idle")
  /\ \E c \in Codes :
       /\ reset[c] # None /\ Received(c)
       /\ req' = [req EXCEPT ![r] = [Idle EXCEPT !.pc = "reset_del", !.key = c,
                                       !.email = reset[c]]]
       /\ contended' = IF Readers(c) # {} THEN contended \union {c} ELSE contended
  /\ UNCHANGED <<user, keyByEmail, redis, passes, mails, faults, via, fails, raced, lifted,
                 lost, known, given, past, uses>>

\* Mutant: the code is left to expire.
DelResetNever(r) ==
  /\ At(r, "reset_del")
  /\ Step(r, "reset_find")
  /\ UNCHANGED <<user, keyByEmail, redis, passes, mails, faults, history>>

DelReset(r) ==
  /\ At(r, "reset_del")
  /\ reset' = [reset EXCEPT ![req[r].key] = None]
  /\ Step(r, "reset_find")
  /\ UNCHANGED <<user, keyByEmail, verify, freshKeys, freshCodes, passes, mails,
                 faults, history>>

\* A user who cannot log in by now is not found: the code is gone for nothing.
ResetFind(r) ==
  /\ At(r, "reset_find")
  /\ \/ End(r)
     \/ \E u \in Users :
          /\ Found(u) /\ user[u].email = req[r].email
          /\ req' = [req EXCEPT ![r].pc = "reset_save", ![r].user = u]
  /\ UNCHANGED <<user, keyByEmail, redis, passes, mails, faults, history>>

\* Mutant: the mail is sent only when there is a page to redirect to.
ResetSaveNoMail(r) ==
  LET u == req[r].user
  IN  /\ At(r, "reset_save") /\ passes < MaxPass
      /\ user' = [user EXCEPT ![u].pass = passes + 1]
      /\ past' = [past EXCEPT ![u] = @ \union {user[u].pass}]
      /\ uses' = [uses EXCEPT ![req[r].key] = @ + 1]
      /\ passes' = passes + 1
      /\ End(r)
      /\ UNCHANGED <<keyByEmail, redis, mails, faults, via, fails, raced, lifted, lost,
                     known, given, contended>>

ResetSave(r) ==
  LET u == req[r].user
  IN  /\ At(r, "reset_save") /\ passes < MaxPass
      /\ user' = [user EXCEPT ![u].pass = passes + 1]
      /\ past' = [past EXCEPT ![u] = @ \union {user[u].pass}]
      /\ uses' = [uses EXCEPT ![req[r].key] = @ + 1]
      /\ passes' = passes + 1
      /\ outbox' = outbox \union {[to |-> req[r].email, about |-> "password",
                                   key |-> passes + 1]}
      /\ End(r)
      /\ UNCHANGED <<keyByEmail, redis, inbox, faults, via, fails, raced, lifted, lost,
                     known, given, contended>>

\* changePass of a logged-in user who gave the current password and the new one twice.
StartChange(r) ==
  /\ At(r, "idle")
  /\ \E u \in Users :
       /\ Found(u)
       /\ req' = [req EXCEPT ![r] = [Idle EXCEPT !.pc = "change", !.user = u]]
  /\ UNCHANGED <<user, keyByEmail, redis, passes, mails, faults, history>>

ChangeSave(r) ==
  LET u == req[r].user
  IN  /\ At(r, "change") /\ passes < MaxPass
      /\ user' = [user EXCEPT ![u].pass = passes + 1]
      /\ past' = [past EXCEPT ![u] = @ \union {user[u].pass}]
      /\ known' = [known EXCEPT ![u] = @ \union {passes + 1}]
      /\ passes' = passes + 1
      /\ End(r)
      /\ UNCHANGED <<keyByEmail, redis, mails, faults, via, fails, raced, lifted, lost,
                     given, uses, contended>>

-----------------------------------------------------------------------------
(* Mail, times to live, failures. *)

\* sendEmail resolves false when the mail cannot be sent: nobody looks.
SendEmail(m) ==
  /\ outbox' = outbox \ {m}
  /\ inbox' = inbox \union {m}
  /\ UNCHANGED <<user, keyByEmail, redis, passes, req, faults, history>>

LoseEmail(m) ==
  /\ faults < MaxFaults /\ faults' = faults + 1
  /\ outbox' = outbox \ {m}
  /\ lost' = lost \union (Passwords \intersect {m.key})
  /\ UNCHANGED <<user, keyByEmail, redis, passes, inbox, req, via, fails, raced, lifted, known,
                 given, past, uses, contended>>

Expire ==
  /\ \/ \E k \in verify : verify' = verify \ {k} /\ UNCHANGED reset
     \/ \E c \in Codes : reset[c] # None /\ reset' = [reset EXCEPT ![c] = None] /\ UNCHANGED verify
  /\ UNCHANGED <<user, keyByEmail, freshKeys, freshCodes, passes, mails, req, faults, history>>

Fails(r) ==
  /\ ~At(r, "idle") /\ faults < MaxFaults
  /\ faults' = faults + 1
  /\ End(r)
  /\ UNCHANGED <<user, keyByEmail, redis, passes, mails, history>>

Restart ==
  /\ faults < MaxFaults
  /\ faults' = faults + 1
  /\ keyByEmail' = [e \in Emails |-> None]
  /\ outbox' = {}
  /\ lost' = lost \union (Passwords \intersect {m.key : m \in outbox})
  /\ req' = [r \in Reqs |-> Idle]
  /\ UNCHANGED <<user, redis, passes, inbox, via, fails, raced, lifted, known, given,
                 past, uses, contended>>

-----------------------------------------------------------------------------
SendCode(r) == StartSendCode(r) \/ CodeFind(r) \/ SetCode(r)
SignUp(r) == StartSignUp(r) \/ CheckDuplicate(r) \/ Create(r) \/ DelKey(r)
Login(r) == StartLogin(r) \/ SaveLogin(r)
ResetPass(r) == \/ StartAsk(r) \/ AskSetCode(r)
                \/ StartReset(r) \/ DelReset(r) \/ ResetFind(r) \/ ResetSave(r)
ChangePass(r) == StartChange(r) \/ ChangeSave(r)

Next ==
  \/ \E r \in Reqs : \/ SendCode(r) \/ SignUp(r) \/ Login(r) \/ ResetPass(r)
                     \/ ChangePass(r) \/ Fails(r)
  \/ CreateMember
  \/ \E u \in Users : BanEnds(u)
  \/ \E m \in outbox : SendEmail(m) \/ LoseEmail(m)
  \/ Expire \/ Restart

Spec == Init /\ [][Next]_vars

-----------------------------------------------------------------------------
(* Properties. *)

\* Types.
TypeOK ==
  /\ user \in [Users -> Account \union {None}]
  /\ keyByEmail \in [Emails -> Keys \union {None}]
  /\ verify \subseteq Keys
  /\ reset \in [Codes -> Emails \union {None}]
  /\ freshKeys \subseteq Keys /\ freshCodes \subseteq Codes
  /\ passes \in 0..MaxPass
  /\ outbox \subseteq Mail /\ inbox \subseteq Mail
  /\ req \in [Reqs -> Request]
  /\ faults \in 0..MaxFaults
  /\ via \in [Users -> Keys \union {None}]
  /\ fails \in [Users -> 0..MaxLogins + 1]
  /\ raced \subseteq Users /\ lifted \subseteq Users /\ lost \subseteq Passwords
  /\ known \in [Users -> SUBSET Passwords] /\ given \subseteq Passwords
  /\ past \in [Users -> SUBSET Passwords]
  /\ uses \in [Codes -> Nat] /\ contended \subseteq Codes

\* Whoever signed up with an e-mail has got the mail with the code that was sent to it, and no
\* key opens two accounts (sendCode, signUp: the last key of an e-mail, the code of the key),
\* whatever requests, keys that expire and restarts come between.
VerifiedEmail ==
  /\ \A u \in Users : via[u] # None =>
       [to |-> user[u].email, about |-> "code", key |-> via[u]] \in inbox
  /\ \A u, v \in Users : via[u] # None /\ via[u] = via[v] => u = v

\* Of a user whose attempts did not overlap, the counter is the number of wrong passwords
\* since the last right one, and a ban stands for MaxLogins of them (login: login_cnt read
\* and written back in two statements).
AttemptsCounted ==
  \A u \in Users : user[u] # None /\ u \notin raced =>
    /\ user[u].cnt = fails[u]
    /\ user[u].banned => fails[u] >= MaxLogins
    /\ fails[u] >= MaxLogins => user[u].banned \/ u \in lifted

\* Somebody who can tell the user has chosen the password of the row - the user, or whoever
\* created the member - or a mail with it has been sent to the user and arrives, unless it
\* could not be sent (create mails a member nothing; resetPass mails the password it has
\* generated after the update, unawaited: a failed mail leaves a password nobody knows).
PasswordKnown ==
  \A u \in Users : user[u] # None =>
    \/ user[u].pass \in known[u] \union given \union lost
    \/ [to |-> user[u].email, about |-> "password", key |-> user[u].pass] \in outbox \union inbox

\* A reset code sets one password, unless two requests had read it before it was deleted, and
\* a code that has set a password is gone (resetPass: GET, DEL, findOne, save).
ResetCodesSpent ==
  \A c \in Codes : /\ c \notin contended => uses[c] <= 1
                   /\ uses[c] > 0 => reset[c] = None

\* A ban ends with its time, by unban, or by a right password whose request had read the row
\* before the ban was written (findOne, then updateInternal in login).
BanLifted ==
  [][\A u \in Users : user[u] # None /\ user[u].banned /\ ~user'[u].banned =>
       \/ u \in lifted'
       \/ \E r \in Attempts(u) : req[r].right /\ ~req[r].seen.banned /\ req'[r] = Idle]_vars

\* No request that read a row before its password was changed brings the old one back
\* (login and resetPass save an entity of a few columns).
PasswordNotRestored == [][\A u \in Users : user'[u] # None => user'[u].pass \notin past'[u]]_vars

===============================================================================
