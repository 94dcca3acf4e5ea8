-------------------------------- MODULE Access --------------------------------
(***************************************************************************)
(* Who may do what in which organization: memberships (UserService,        *)
(* OrganizationService), sessions (express-session over Redis, passport),  *)
(* the guards of every controller, invitations, logging in and out, and    *)
(* the sweep that deletes the sessions of a user.  A session holds a copy  *)
(* of the user: a request loads it, works with it across its awaits and    *)
(* stores it again when it ends (resave: true), whatever became of the     *)
(* stored one.  An e-mail stands for its user: a user exists once it has a *)
(* row in some organization.  Passwords, bans and codes of sign-up and     *)
(* reset are in Credentials: here those actions may happen at any time.    *)
(***************************************************************************)
EXTENDS Naturals

CONSTANTS Users,
          Orgs,
          Sids,         \* session ids
          Codes,        \* invitation codes
          Reqs,         \* requests that may be in flight at once
          None,
          Stores,       \* rows and sessions a server that starts may find
          RightsInputs, \* rights an update may carry
          Routes,       \* the rights asked for by handlers that change nothing here
          MaxRequests,  \* bound: requests
          MaxFaults     \* bound: failed requests and restarts

Entities == {"logs", "jobs", "users", "ssh", "organization"}
read == 1
write == 2
Levels == 0..write
Rights == [Entities -> Levels]
defaultRights == [e \in Entities |-> 0]
ownerRights == [e \in Entities |-> write]
Route == [entity : Entities, level : Levels]
Needs(entity, level) == [entity |-> entity, level |-> level]

\* The decorators of the controllers: the right each handler needs.
LogRights == [list |-> Needs("logs", read), listBySrv |-> Needs("logs", read),
              listBySrvAndJob |-> Needs("logs", read), delete |-> Needs("logs", write),
              getById |-> Needs("logs", read)]
JobsRights == [list |-> Needs("jobs", read), create |-> Needs("jobs", write),
               update |-> Needs("jobs", write), activate |-> Needs("jobs", write),
               deactivate |-> Needs("jobs", write), delete |-> Needs("jobs", write)]
SshRights == [getAll |-> Needs("ssh", read), getById |-> Needs("ssh", read),
              create |-> Needs("ssh", write), update |-> Needs("ssh", write),
              delete |-> Needs("ssh", write)]
UserRights == [create |-> Needs("users", write), findAll |-> Needs("users", read),
               findOne |-> Needs("users", read), update |-> Needs("users", write),
               deactivate |-> Needs("users", write), activate |-> Needs("users", write),
               unban |-> Needs("users", write)]
OrganizationRights == [getOrgInfo |-> Needs("organization", read),
                       updateOrgName |-> Needs("organization", write),
                       invite |-> Needs("organization", write)]

\* The handlers that change nothing here.
OtherRoutes ==
  {LogRights[h] : h \in DOMAIN LogRights} \union {JobsRights[h] : h \in DOMAIN JobsRights}
    \union {SshRights[h] : h \in DOMAIN SshRights}
    \union {UserRights[h] : h \in {"findAll", "findOne", "unban"}}
    \union {OrganizationRights[h] : h \in {"getOrgInfo", "updateOrgName"}}

Member == [active : BOOLEAN, rights : Rights]
Session == [user : Users, org : Orgs, orgs : SUBSET Orgs, rights : Rights]
Invitation == [user : Users, org : Orgs]

ASSUME AccessAssumption ==
  /\ Stores \subseteq [member : [Users -> [Orgs -> Member \union {None}]],
                       sess : [Sids -> Session \union {None}]]
  /\ \A d \in Stores, s \in Sids : d.sess[s] # None =>
       /\ d.sess[s].org \in d.sess[s].orgs
       /\ \A o \in d.sess[s].orgs : d.member[d.sess[s].user][o] # None
  /\ RightsInputs \subseteq Rights /\ Routes \subseteq OtherRoutes
  /\ MaxRequests \in Nat /\ MaxFaults \in Nat
  /\ None \notin Users \union Orgs \union Sids \union Codes
  /\ None \notin Member /\ None \notin Session /\ None \notin Invitation /\ None \notin Route

VARIABLES
  member,   \* rows of users_in_organization_entity; never deleted
  sess,     \* sessions in Redis
  freshSids, \* ids no session has had
  invites,  \* code: the invitation Redis holds for it
  freshCodes,
  sweeps,   \* running deleteAllRedisSessionByUserId
  req,      \* the requests
  started,  \* how many there have been
  faults,   \* how many failures
  held,     \* history: rights a user has had in some organization
  ended,    \* history: sessions a logout or a sweep has deleted
  carried,  \* history: of these, the ones a request still carried
  spent,    \* history: how often a code has admitted somebody
  contended, \* history: codes two logins held at once, or whose deletion failed
  issued    \* history: invitations sent

history == <<held, ended, carried, spent, contended, issued>>
sessions == <<sess, freshSids>>
codes == <<invites, freshCodes>>
counts == <<started, faults>>
vars == <<member, sessions, codes, sweeps, req, started, faults, history>>

Request == [pc    : {"idle", "finish", "update", "deactivate", "deactivate_save", "activate",
                     "activate_save", "create", "invite", "invite_set", "check",
                     "change_rights", "logout", "login_code", "login_accept", "login_del",
                     "login_session"},
            sid   : Sids \union {None},
            sess  : Session \union {None},  \* req.user, a copy
            need  : Route \union {None},    \* what its guard has checked
            user  : Users \union {None},    \* whom it is about
            found : Session \union {None},  \* what login has read
            code  : Codes \union {None},    \* the invitation it has read
            org   : Orgs \union {None}]     \* and its organization
Idle == [pc |-> "idle", sid |-> None, sess |-> None, need |-> None, user |-> None,
         found |-> None, code |-> None, org |-> None]

Sweep == [user : Users, phase : {"get", "del"}, sids : SUBSET Sids]

Init ==
  /\ \E d \in Stores : member = d.member /\ sess = d.sess
  /\ freshSids = {s \in Sids : sess[s] = None}
  /\ invites = [c \in Codes |-> None] /\ freshCodes = Codes
  /\ sweeps = {}
  /\ req = [r \in Reqs |-> Idle]
  /\ started = 0 /\ faults = 0
  /\ held = [u \in Users |->
       {member[u][o].rights : o \in {p \in Orgs : member[u][p] # None}}
         \union {sess[s].rights : s \in {t \in Sids : sess[t] # None /\ sess[t].user = u}}]
  /\ ended = {} /\ carried = {}
  /\ spent = [c \in Codes |-> 0]
  /\ contended = {} /\ issued = {}

-----------------------------------------------------------------------------
At(r, pc) == req[r].pc = pc
Step(r, pc) == req' = [req EXCEPT ![r].pc = pc]

Exists(u) == \E o \in Orgs : member[u][o] # None
IsActive(u, o) == member[u][o] # None /\ member[u][o].active
ActiveOrgs(u) == {o \in Orgs : IsActive(u, o)}

\* UserService.findOne without an organization: orgEntities are the active ones,
\* orgSelectedId is the first of them and rights are those of the first active row;
\* the query orders neither.
FindOne(u) == {[user |-> u, org |-> o, orgs |-> ActiveOrgs(u), rights |-> member[u][p].rights] :
                 o, p \in ActiveOrgs(u)}

Save(u, o, row) ==
  /\ member' = [member EXCEPT ![u][o] = row]
  /\ held' = [held EXCEPT ![u] = @ \union {row.rights}]

\* Mutant: somebody logged in may do it.
AllowedLoggedIn(s, route) == route.entity \in DOMAIN s.rights

\* RightsGuard, of the rights in the session.
Allowed(s, route) == s.rights[route.entity] >= route.level

Arrives(r) ==
  /\ At(r, "idle") /\ started < MaxRequests
  /\ started' = started + 1 /\ UNCHANGED faults

\* A request with session sid reaches its handler, which starts at pc.
Handle(r, sid, pc, u) ==
  /\ Arrives(r) /\ sess[sid] # None
  /\ req' = [req EXCEPT ![r] = [Idle EXCEPT !.pc = pc, !.sid = sid, !.sess = sess[sid],
                                  !.user = u]]

HandleGuarded(r, route, pc, u) ==
  /\ Arrives(r)
  /\ \E sid \in Sids :
       /\ sess[sid] # None /\ Allowed(sess[sid], route)
       /\ req' = [req EXCEPT ![r] = [Idle EXCEPT !.pc = pc, !.sid = sid, !.sess = sess[sid],
                                       !.need = route, !.user = u]]
  /\ UNCHANGED <<member, sessions, codes, sweeps, history>>

\* Refused by its guard or its validation, or changing nothing here (changePass).
StartOther(r) ==
  /\ \E sid \in Sids : Handle(r, sid, "finish", None)
  /\ UNCHANGED <<member, sessions, codes, sweeps, history>>

StartRoute(r) == \E route \in Routes : HandleGuarded(r, route, "finish", None)

\* The response is sent and express-session stores the session again.
Finish(r) ==
  /\ At(r, "finish")
  /\ sess' = [s \in Sids |-> IF s = req[r].sid THEN req[r].sess ELSE sess[s]]
  /\ req' = [req EXCEPT ![r] = Idle]
  /\ UNCHANGED <<member, freshSids, codes, sweeps, counts, history>>

-----------------------------------------------------------------------------
(* UserService: create, update, deactivate, activate (unban: Credentials). *)

StartUpdate(r) == \E u \in Users : HandleGuarded(r, UserRights.update, "update", u)

\* A member of the session's organization; a body without rights fails.
Update(r) ==
  LET u == req[r].user
      o == req[r].sess.org
  IN  /\ At(r, "update")
      /\ \/ UNCHANGED <<member, held>>
         \/ /\ member[u][o] # None
            /\ \E rights \in RightsInputs : Save(u, o, [member[u][o] EXCEPT !.rights = rights])
      /\ Step(r, "finish")
      /\ UNCHANGED <<sessions, codes, sweeps, counts, ended, carried, spent, contended, issued>>

StartDeactivate(r) == \E u \in Users : HandleGuarded(r, UserRights.deactivate, "deactivate", u)

DeactivateFind(r) ==
  /\ At(r, "deactivate")
  /\ Step(r, IF IsActive(req[r].user, req[r].sess.org) THEN "deactivate_save" ELSE "finish")
  /\ UNCHANGED <<member, sessions, codes, sweeps, counts, history>>

\* Mutant: the row is updated by its user alone.
DeactivateEverywhere(r) ==
  LET u == req[r].user
  IN  /\ At(r, "deactivate_save")
      /\ member' = [member EXCEPT ![u] = [o \in Orgs |->
                      IF member[u][o] = None THEN None
                      ELSE [active |-> FALSE, rights |-> defaultRights]]]
      /\ held' = [held EXCEPT ![u] = @ \union {defaultRights}]
      /\ Step(r, "finish")
      /\ UNCHANGED <<sessions, codes, sweeps, counts, ended, carried, spent, contended, issued>>

DeactivateSave(r) ==
  /\ At(r, "deactivate_save")
  /\ Save(req[r].user, req[r].sess.org, [active |-> FALSE, rights |-> defaultRights])
  /\ Step(r, "finish")
  /\ UNCHANGED <<sessions, codes, sweeps, counts, ended, carried, spent, contended, issued>>

StartActivate(r) == \E u \in Users : HandleGuarded(r, UserRights.activate, "activate", u)

ActivateFind(r) ==
  LET u == req[r].user
      o == req[r].sess.org
  IN  /\ At(r, "activate")
      /\ Step(r, IF member[u][o] # None /\ ~IsActive(u, o) THEN "activate_save" ELSE "finish")
      /\ UNCHANGED <<member, sessions, codes, sweeps, counts, history>>

\* The rights are left alone.
ActivateSave(r) ==
  LET u == req[r].user
      o == req[r].sess.org
  IN  /\ At(r, "activate_save")
      /\ Save(u, o, [member[u][o] EXCEPT !.active = TRUE])
      /\ Step(r, "finish")
      /\ UNCHANGED <<sessions, codes, sweeps, counts, ended, carried, spent, contended, issued>>

StartCreate(r) == \E u \in Users : HandleGuarded(r, UserRights.create, "create", u)

\* Nobody has the e-mail, in a transaction with the inserts.
Create(r) ==
  LET u == req[r].user
  IN  /\ At(r, "create")
      /\ IF Exists(u) THEN UNCHANGED <<member, held>>
         ELSE Save(u, req[r].sess.org, [active |-> TRUE, rights |-> defaultRights])
      /\ Step(r, "finish")
      /\ UNCHANGED <<sessions, codes, sweeps, counts, ended, carried, spent, contended, issued>>

\* AuthService.signUp: a new user in an organization of its own.
SignUp(u, o) ==
  /\ ~Exists(u)
  /\ \A v \in Users : member[v][o] = None
  /\ Save(u, o, [active |-> TRUE, rights |-> ownerRights])
  /\ UNCHANGED <<sessions, codes, sweeps, req, counts, ended, carried, spent, contended, issued>>

-----------------------------------------------------------------------------
(* OrganizationService.inviteUserByEmail. *)

StartInvite(r) ==
  \E u \in Users : freshCodes # {} /\ HandleGuarded(r, OrganizationRights.invite, "invite", u)

InviteFind(r) ==
  /\ At(r, "invite")
  /\ Step(r, IF IsActive(req[r].user, req[r].sess.org) THEN "finish" ELSE "invite_set")
  /\ UNCHANGED <<member, sessions, codes, sweeps, counts, history>>

InviteSet(r) ==
  /\ At(r, "invite_set")
  /\ \E c \in freshCodes :
       /\ freshCodes' = freshCodes \ {c}
       /\ invites' = [invites EXCEPT ![c] = [user |-> req[r].user, org |-> req[r].sess.org]]
  /\ issued' = issued \union {[user |-> req[r].user, org |-> req[r].sess.org]}
  /\ Step(r, "finish")
  /\ UNCHANGED <<member, sessions, sweeps, counts, held, ended, carried, spent, contended>>

-----------------------------------------------------------------------------
(* AuthService.checkLogin, UserService.changeOrg, AuthService.logout. *)

StartCheckLogin(r) ==
  /\ \E sid \in Sids : Handle(r, sid, "check", None)
  /\ UNCHANGED <<member, sessions, codes, sweeps, history>>

\* Mutant: the other organization is forgotten.
CheckLoginNoOrg(r) ==
  LET s == req[r].sess
  IN  /\ At(r, "check")
      /\ \/ /\ ActiveOrgs(s.user) = {}
            /\ Step(r, "finish")
         \/ \E f \in FindOne(s.user) :
              req' = [req EXCEPT ![r].pc = "finish",
                        ![r].sess = [f EXCEPT !.org = IF s.org \in f.orgs THEN s.org ELSE None]]
      /\ UNCHANGED <<member, sessions, codes, sweeps, counts, history>>

\* The organization is kept while it is active; the rights are those findOne returns.
CheckLogin(r) ==
  LET s == req[r].sess
  IN  /\ At(r, "check")
      /\ \/ /\ ActiveOrgs(s.user) = {}
            /\ Step(r, "finish")
         \/ \E f \in FindOne(s.user) :
              req' = [req EXCEPT ![r].pc = "finish",
                        ![r].sess = [f EXCEPT !.org = IF s.org \in f.orgs THEN s.org ELSE @]]
      /\ UNCHANGED <<member, sessions, codes, sweeps, counts, history>>

\* Mutant: any organization.
StartChangeOrgAny(r) ==
  /\ \E sid \in Sids, o \in Orgs :
       /\ Arrives(r) /\ sess[sid] # None
       /\ req' = [req EXCEPT ![r] = [Idle EXCEPT !.pc = "change_rights", !.sid = sid,
                                       !.sess = [sess[sid] EXCEPT !.org = o]]]
  /\ UNCHANGED <<member, sessions, codes, sweeps, history>>

\* The organization is set before the rights are awaited.
StartChangeOrg(r) ==
  /\ \E sid \in Sids, o \in Orgs :
       /\ Arrives(r) /\ sess[sid] # None
       /\ o \in sess[sid].orgs
       /\ req' = [req EXCEPT ![r] = [Idle EXCEPT !.pc = "change_rights", !.sid = sid,
                                       !.sess = [sess[sid] EXCEPT !.org = o]]]
  /\ UNCHANGED <<member, sessions, codes, sweeps, history>>

\* Mutant: the row is looked up by the organization alone.
ChangeRightsOfAnybody(r) ==
  /\ At(r, "change_rights")
  /\ \E u \in Users :
       /\ member[u][req[r].sess.org] # None
       /\ req' = [req EXCEPT ![r].pc = "finish",
                    ![r].sess.rights = member[u][req[r].sess.org].rights]
  /\ UNCHANGED <<member, sessions, codes, sweeps, counts, history>>

\* Whether the row is active is not looked at.
ChangeRights(r) ==
  LET s == req[r].sess
  IN  /\ At(r, "change_rights")
      /\ req' = [req EXCEPT ![r].pc = "finish", ![r].sess.rights = member[s.user][s.org].rights]
      /\ UNCHANGED <<member, sessions, codes, sweeps, counts, history>>

StartLogout(r) ==
  /\ \E sid \in Sids : Handle(r, sid, "logout", None)
  /\ UNCHANGED <<member, sessions, codes, sweeps, history>>

\* Sessions other requests than r carry: they store them again.
Carried(r) == {req[q].sid : q \in Reqs \ {r}} \ {None}

\* Mutant: the user is taken out of the request only.
LogoutOfRequest(r) ==
  /\ At(r, "logout")
  /\ ended' = ended \union {req[r].sid}
  /\ carried' = carried \union (Carried(r) \intersect {req[r].sid})
  /\ req' = [req EXCEPT ![r] = Idle]
  /\ UNCHANGED <<member, sessions, codes, sweeps, counts, held, spent, contended, issued>>

\* passport stores the session without its user and deletes it.
Logout(r) ==
  /\ At(r, "logout")
  /\ sess' = [sess EXCEPT ![req[r].sid] = None]
  /\ ended' = ended \union {req[r].sid}
  /\ carried' = carried \union (Carried(r) \intersect {req[r].sid})
  /\ req' = [req EXCEPT ![r] = Idle]
  /\ UNCHANGED <<member, freshSids, codes, sweeps, counts, held, spent, contended, issued>>

-----------------------------------------------------------------------------
(* AuthService.login with a right password, LocalAuthGuard. *)

\* With or without the cookie of an older session.
StartLogin(r) ==
  /\ Arrives(r) /\ freshSids # {}
  /\ \E u \in Users, sid \in Sids \union {None} :
       \E f \in FindOne(u) :
         /\ sid \in Sids => sess[sid] # None
         /\ req' = [req EXCEPT ![r] = [Idle EXCEPT !.pc = "login_code", !.sid = sid,
                      !.sess = IF sid = None THEN None ELSE sess[sid],
                      !.user = u, !.found = f]]
         /\ sweeps' = sweeps \union {[user |-> u, phase |-> "get", sids |-> {}]}
  /\ UNCHANGED <<member, sessions, codes, history>>

Holders(c) == {r \in Reqs : req[r].code = c}

\* GET: an invitation counts when it is for the e-mail of the user.
LoginCode(r) ==
  /\ At(r, "login_code")
  /\ \/ /\ Step(r, "login_session")
        /\ UNCHANGED contended
     \/ \E c \in Codes :
          /\ invites[c] # None /\ invites[c].user = req[r].user
          /\ req' = [req EXCEPT ![r].pc = "login_accept", ![r].code = c, ![r].org = invites[c].org]
          /\ contended' = IF Holders(c) # {} THEN contended \union {c} ELSE contended
  /\ UNCHANGED <<member, sessions, codes, sweeps, counts, held, ended, carried, spent, issued>>

\* UserService.acceptInviteCode: a row that is there is overwritten.
LoginAccept(r) ==
  /\ At(r, "login_accept")
  /\ Save(req[r].user, req[r].org, [active |-> TRUE, rights |-> defaultRights])
  /\ spent' = [spent EXCEPT ![req[r].code] = @ + 1]
  /\ Step(r, "login_del")
  /\ UNCHANGED <<sessions, codes, sweeps, counts, ended, carried, contended, issued>>

\* Mutant: the code is left to expire.
LoginDelNever(r) ==
  /\ At(r, "login_del")
  /\ req' = [req EXCEPT ![r].pc = "login_session", ![r].code = None, ![r].org = None]
  /\ UNCHANGED <<member, sessions, codes, sweeps, counts, history>>

LoginDel(r) ==
  /\ At(r, "login_del")
  /\ invites' = [invites EXCEPT ![req[r].code] = None]
  /\ req' = [req EXCEPT ![r].pc = "login_session", ![r].code = None, ![r].org = None]
  /\ UNCHANGED <<member, sessions, freshCodes, sweeps, counts, history>>

\* req.logIn: the session the request came with is deleted, a new one is stored.
LoginSession(r) ==
  LET old == {req[r].sid} \ {None}
  IN  /\ At(r, "login_session")
      /\ \E new \in freshSids :
           /\ freshSids' = freshSids \ {new}
           /\ sess' = [s \in Sids |-> IF s = new THEN req[r].found
                                     ELSE IF s \in old THEN None ELSE sess[s]]
           /\ req' = [req EXCEPT ![r] = [Idle EXCEPT !.pc = "finish", !.sid = new,
                                            !.sess = req[r].found]]
      /\ ended' = ended \union old
      /\ carried' = carried \union (Carried(r) \intersect old)
      /\ UNCHANGED <<member, codes, sweeps, counts, held, spent, contended, issued>>

-----------------------------------------------------------------------------
(* AuthService.deleteAllRedisSessionByUserId: nobody waits for it. *)

\* resetPass starts one, too.
PasswordReset(u) ==
  /\ ActiveOrgs(u) # {} /\ started < MaxRequests /\ started' = started + 1
  /\ sweeps' = sweeps \union {[user |-> u, phase |-> "get", sids |-> {}]}
  /\ UNCHANGED <<member, sessions, codes, req, faults, history>>

\* Mutant: no filter.
DueAnybody(u) == {s \in Sids : sess[s] # None}

Due(u) == {s \in Sids : sess[s] # None /\ sess[s].user = u}

\* KEYS and a GET of each, read as one: the user of a session never changes.
SweepGet(w) ==
  /\ w.phase = "get"
  /\ sweeps' = (sweeps \ {w}) \union {[w EXCEPT !.phase = "del", !.sids = Due(w.user)]}
  /\ UNCHANGED <<member, sessions, codes, req, counts, history>>

SweepDel(w) ==
  /\ w.phase = "del"
  /\ sess' = [s \in Sids |-> IF s \in w.sids THEN None ELSE sess[s]]
  /\ sweeps' = sweeps \ {w}
  /\ ended' = ended \union w.sids
  /\ carried' = carried \union ({req[q].sid : q \in Reqs} \intersect w.sids)
  /\ UNCHANGED <<member, freshSids, codes, req, counts, held, spent, contended, issued>>

-----------------------------------------------------------------------------
(* Failures.  Times to live need no action: a session or an invitation that *)
(* has expired is one that no request uses any more.                         *)

\* A query fails: the session is stored as the handler has left it.
Fails(r) ==
  /\ ~At(r, "idle") /\ ~At(r, "finish") /\ faults < MaxFaults
  /\ faults' = faults + 1 /\ UNCHANGED started
  /\ contended' = contended \union ({req[r].code} \ {None})
  /\ req' = [req EXCEPT ![r].pc = "finish", ![r].code = None, ![r].org = None]
  /\ UNCHANGED <<member, sessions, codes, sweeps, held, ended, carried, spent, issued>>

Restart ==
  /\ faults < MaxFaults
  /\ faults' = faults + 1 /\ UNCHANGED started
  /\ contended' = contended \union ({req[r].code : r \in Reqs} \ {None})
  /\ req' = [r \in Reqs |-> Idle]
  /\ sweeps' = {}
  /\ UNCHANGED <<member, sessions, codes, held, ended, carried, spent, issued>>

-----------------------------------------------------------------------------
UsersController(r) ==
  \/ StartUpdate(r) \/ Update(r)
  \/ StartDeactivate(r) \/ DeactivateFind(r) \/ DeactivateSave(r)
  \/ StartActivate(r) \/ ActivateFind(r) \/ ActivateSave(r)
  \/ StartCreate(r) \/ Create(r)
  \/ StartChangeOrg(r) \/ ChangeRights(r)
OrganizationController(r) == StartInvite(r) \/ InviteFind(r) \/ InviteSet(r)
AuthController(r) ==
  \/ StartCheckLogin(r) \/ CheckLogin(r)
  \/ StartLogout(r) \/ Logout(r)
  \/ StartLogin(r) \/ LoginCode(r) \/ LoginAccept(r) \/ LoginDel(r) \/ LoginSession(r)

Next ==
  \/ \E r \in Reqs : \/ UsersController(r) \/ OrganizationController(r) \/ AuthController(r)
                     \/ StartRoute(r) \/ StartOther(r) \/ Finish(r) \/ Fails(r)
  \/ \E u \in Users : PasswordReset(u) \/ \E o \in Orgs : SignUp(u, o)
  \/ \E w \in sweeps : SweepGet(w) \/ SweepDel(w)
  \/ Restart

Spec == Init /\ [][Next]_vars

-----------------------------------------------------------------------------
(* Properties. *)

\* Types.
TypeOK ==
  /\ member \in [Users -> [Orgs -> Member \union {None}]]
  /\ sess \in [Sids -> Session \union {None}] /\ freshSids \subseteq Sids
  /\ invites \in [Codes -> Invitation \union {None}] /\ freshCodes \subseteq Codes
  /\ sweeps \subseteq Sweep
  /\ req \in [Reqs -> Request]
  /\ started \in 0..MaxRequests /\ faults \in 0..MaxFaults
  /\ held \in [Users -> SUBSET Rights]
  /\ ended \subseteq Sids /\ carried \subseteq ended
  /\ spent \in [Codes -> Nat] /\ contended \subseteq Codes /\ issued \subseteq Invitation

\* The copies of a user there are: in Redis, in requests, read by logins.
Copies == ({sess[s] : s \in Sids} \union {req[r].sess : r \in Reqs}
             \union {req[r].found : r \in Reqs}) \ {None}

\* A copy of a user works in one of its organizations, and in each of them the user has a row,
\* active or not (login, checkLogin, changeOrg; sessions outlive what they were made from).
SessionOrgs ==
  \A s \in Copies : s.org \in s.orgs /\ \A o \in s.orgs : member[s.user][o] # None

\* The rights of a copy are rights its user has had in some organization: never somebody
\* else's, however requests, changes of rights and deactivations interleave.
RightsOnceHeld == \A s \in Copies : s.rights \in held[s.user]

\* A guarded handler runs for a user who has had the right it asks for (RightsGuard reads the
\* session, not the row).
HandlerRights ==
  \A r \in Reqs : req[r].need # None =>
    \E h \in held[req[r].sess.user] : h[req[r].need.entity] >= req[r].need.level

\* A session that a logout, a login over it or a sweep has deleted comes back only by the
\* hand of a request that carried it at that moment (resave: true).
EndedStaysGone == \A s \in ended \ carried : sess[s] = None

\* An invitation admits once, unless two logins held its code at once or the request failed
\* before the deletion (login: GET, save, DEL).
CodeAdmitsOnce == \A c \in Codes \ contended : spent[c] <= 1

\* A row changes by a request of somebody who works in its organization and has had the right
\* to write users, by a login of its user with an invitation to it, or it is the row of a new
\* user in a new organization.
ChangesAuthorised ==
  [][\A u \in Users, o \in Orgs : member'[u][o] # member[u][o] =>
       \/ \E r \in Reqs :
            /\ req'[r] # req[r] /\ req[r].user = u
            /\ \/ /\ req[r].sess # None /\ req[r].sess.org = o
                  /\ \E h \in held[req[r].sess.user] : h["users"] = write
               \/ At(r, "login_accept") /\ [user |-> u, org |-> o] \in issued
       \/ ~Exists(u) /\ \A v \in Users : member[v][o] = None]_vars

\* A sweep ends no session of another user.
OthersSessionsKept ==
  [][\A w \in sweeps \ sweeps', s \in Sids :
       sess[s] # None /\ sess'[s] = None => sess[s].user = w.user]_vars

===============================================================================
