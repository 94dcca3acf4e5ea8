----------------------------- MODULE AccessProofs -----------------------------
(***************************************************************************)
(* Proofs about Access, for any users, organizations, sessions, codes and  *)
(* requests, and any rows and sessions a server that starts may find.      *)
(***************************************************************************)
EXTENDS Access, TLAPS

-----------------------------------------------------------------------------
(* Types, and what a request carries at each of its steps. *)

UserSteps == {"update", "deactivate", "deactivate_save", "activate", "activate_save", "create"}
InviteSteps == {"invite", "invite_set"}
LoginSteps == {"login_code", "login_accept", "login_del", "login_session"}

Shaped(q) ==
  /\ q.sid = None <=> q.sess = None
  /\ q.sess = None => q.pc \in {"idle", "finish"} \union LoginSteps
  /\ q.pc \in UserSteps => q.need = Needs("users", write)
  /\ q.pc \in {"idle", "check", "change_rights", "logout"} \union LoginSteps => q.need = None
  /\ q.need # None => q.sess # None
  /\ q.pc \in UserSteps \union InviteSteps \union LoginSteps => q.user \in Users
  /\ q.pc \in LoginSteps => q.found \in Session
  /\ q.pc \in {"login_accept", "login_del"} => q.code \in Codes /\ q.org \in Orgs
  /\ q.pc \notin {"login_accept", "login_del"} => q.code = None

\* A copy of a user is as sound as the rows: SessionOrgs and RightsOnceHeld of one copy.
Sound(s) == /\ s.org \in s.orgs
            /\ \A o \in s.orgs : member[s.user][o] # None
            /\ s.rights \in held[s.user]

SoundReq(q) == /\ q.sess # None => Sound(q.sess)
               /\ q.found # None => Sound(q.found)

\* Rights of rows are rights their users have had, and a row to be activated is there.
RowsHeld == \A u \in Users, o \in Orgs : member[u][o] # None => member[u][o].rights \in held[u]
RowsThere == \A r \in Reqs : req[r].pc = "activate_save" => member[req[r].user][req[r].sess.org] # None

TypeInv ==
  /\ TypeOK
  /\ \A r \in Reqs : Shaped(req[r]) /\ SoundReq(req[r])
  /\ \A s \in Sids : sess[s] # None => Sound(sess[s])
  /\ RowsHeld /\ RowsThere

LEMMA Constants ==
  /\ None \notin Users /\ None \notin Orgs /\ None \notin Sids /\ None \notin Codes
  /\ None \notin Member /\ None \notin Session /\ None \notin Invitation /\ None \notin Route
  /\ MaxRequests \in Nat /\ MaxFaults \in Nat
  /\ defaultRights \in Rights /\ ownerRights \in Rights /\ RightsInputs \subseteq Rights
  /\ Needs("users", write) \in Route
  /\ UserRights.update = Needs("users", write) /\ UserRights.deactivate = Needs("users", write)
  /\ UserRights.activate = Needs("users", write) /\ UserRights.create = Needs("users", write)
  /\ OrganizationRights.invite \in Route /\ Routes \subseteq Route
<1>1. /\ None \notin Users /\ None \notin Orgs /\ None \notin Sids /\ None \notin Codes
      /\ None \notin Member /\ None \notin Session /\ None \notin Invitation /\ None \notin Route
      /\ MaxRequests \in Nat /\ MaxFaults \in Nat /\ RightsInputs \subseteq Rights
      /\ Routes \subseteq OtherRoutes
  BY AccessAssumption
<1>2. defaultRights \in Rights /\ ownerRights \in Rights
  BY DEF defaultRights, ownerRights, Rights, Levels, write
<1>3. ASSUME NEW e \in Entities, NEW l \in {read, write} PROVE Needs(e, l) \in Route
  BY <1>3 DEF Needs, Route, Levels, read, write
<1>4. /\ UserRights.update = Needs("users", write) /\ UserRights.deactivate = Needs("users", write)
      /\ UserRights.activate = Needs("users", write) /\ UserRights.create = Needs("users", write)
      /\ OrganizationRights.invite = Needs("organization", write)
  BY DEF UserRights, OrganizationRights
<1>5. \A h \in DOMAIN LogRights : LogRights[h] \in Route
  BY <1>3 DEF LogRights, Entities
<1>6. \A h \in DOMAIN JobsRights : JobsRights[h] \in Route
  BY <1>3 DEF JobsRights, Entities
<1>7. \A h \in DOMAIN SshRights : SshRights[h] \in Route
  BY <1>3 DEF SshRights, Entities
<1>8. \A h \in {"findAll", "findOne", "unban"} : UserRights[h] \in Route
  BY <1>3 DEF UserRights, Entities
<1>9. \A h \in {"getOrgInfo", "updateOrgName"} : OrganizationRights[h] \in Route
  BY <1>3 DEF OrganizationRights, Entities
<1>10. OtherRoutes \subseteq Route
  BY <1>5, <1>6, <1>7, <1>8, <1>9 DEF OtherRoutes
<1>11. Needs("users", write) \in Route /\ Needs("organization", write) \in Route
  BY <1>3 DEF Entities
<1> QED
  BY <1>1, <1>2, <1>4, <1>10, <1>11

\* The request r goes on, or ends, and the others stay as they are.
Moves(r) == /\ req' \in [Reqs -> Request] /\ Shaped(req'[r]) /\ SoundReq(req'[r])
            /\ \A x \in Reqs \ {r} : req'[x] = req[x]
Ends(r) == /\ req' \in [Reqs -> Request] /\ req'[r] = Idle
           /\ \A x \in Reqs \ {r} : req'[x] = req[x]

\* It keeps all but its step.
Keeps(r) == /\ req'[r].sid = req[r].sid /\ req'[r].sess = req[r].sess
            /\ req'[r].need = req[r].need /\ req'[r].user = req[r].user
            /\ req'[r].found = req[r].found
            /\ req'[r].code = req[r].code /\ req'[r].org = req[r].org

LEMMA IdleShape ==
  /\ Idle \in Request /\ Shaped(Idle) /\ SoundReq(Idle)
  /\ Idle.pc = "idle" /\ Idle.sid = None /\ Idle.sess = None /\ Idle.need = None
  /\ Idle.code = None /\ Idle.found = None
BY DEF Idle, Request, Shaped, SoundReq, UserSteps, InviteSteps, LoginSteps

LEMMA EndMoves == ASSUME NEW r, Ends(r) PROVE Moves(r)
BY IdleShape DEF Ends, Moves

LEMMA IdleEnds ==
  ASSUME TypeInv, NEW r \in Reqs, req' = [req EXCEPT ![r] = Idle] PROVE Ends(r)
BY IdleShape DEF TypeInv, TypeOK, Ends

LEMMA ReqFields ==
  ASSUME TypeInv, NEW r \in Reqs
  PROVE  /\ req \in [Reqs -> Request] /\ req[r] \in Request
         /\ Shaped(req[r]) /\ SoundReq(req[r])
BY DEF TypeInv, TypeOK

\* A step that only moves on.
LEMMA StepMoves ==
  ASSUME TypeInv, NEW r \in Reqs, NEW pc, Step(r, pc),
         \/ pc = "finish" /\ req[r].pc \notin LoginSteps
         \/ req[r].pc \in UserSteps /\ pc \in UserSteps
         \/ req[r].pc \in InviteSteps /\ pc \in InviteSteps
         \/ req[r].pc = "login_code" /\ pc = "login_session"
         \/ req[r].pc = "login_accept" /\ pc = "login_del"
  PROVE  Moves(r) /\ Keeps(r) /\ req'[r].pc = pc
<1>1. req[r] \in Request /\ Shaped(req[r]) /\ SoundReq(req[r])
  BY ReqFields
<1>2. req'[r] = [pc |-> pc, sid |-> req[r].sid, sess |-> req[r].sess, need |-> req[r].need,
                 user |-> req[r].user, found |-> req[r].found, code |-> req[r].code,
                 org |-> req[r].org]
  BY <1>1 DEF Step, TypeInv, TypeOK, Request
<1>3. req'[r] \in Request
  BY <1>1, <1>2 DEF Request, UserSteps, InviteSteps
<1>4. Shaped(req'[r])
  BY <1>1, <1>2 DEF Shaped, UserSteps, InviteSteps, LoginSteps
<1>5. SoundReq(req'[r])
  BY <1>1, <1>2 DEF SoundReq
<1>6. \A x \in Reqs \ {r} : req'[x] = req[x]
  BY DEF Step, TypeInv, TypeOK
<1>7. req' \in [Reqs -> Request]
  BY <1>3 DEF Step, TypeInv, TypeOK
<1> QED
  BY <1>2, <1>4, <1>5, <1>6, <1>7 DEF Moves, Keeps

-----------------------------------------------------------------------------
(* What each action does to the request that takes it. *)

\* The request comes with the session sid, and works with s, a copy of it.
Comes(r, sid, s, route) ==
  /\ req[r].pc = "idle" /\ sess[sid] # None /\ s.user = sess[sid].user
  /\ Moves(r) /\ req'[r].sid = sid /\ req'[r].sess = s /\ req'[r].code = None
  /\ req'[r].need = route

LEMMA ComesMoves ==
  ASSUME TypeInv, NEW r \in Reqs, req[r].pc = "idle", NEW pc, NEW sid \in Sids, sess[sid] # None,
         NEW s \in Session, Sound(s), s.user = sess[sid].user,
         NEW route, NEW u,
         \/ pc = "finish" /\ route \in Route \union {None} /\ u = None
         \/ pc \in UserSteps /\ route = Needs("users", write) /\ u \in Users
         \/ pc \in InviteSteps /\ route \in Route /\ u \in Users
         \/ pc \in {"check", "change_rights", "logout"} /\ route = None /\ u = None,
         req'[r] = [pc |-> pc, sid |-> sid, sess |-> s, need |-> route, user |-> u,
                    found |-> None, code |-> None, org |-> None],
         req' = [req EXCEPT ![r] = req'[r]]
  PROVE  Comes(r, sid, s, route) /\ req'[r].pc = pc
<1>1. req'[r] \in Request
  BY Constants DEF Request, UserSteps, InviteSteps
<1>2. Shaped(req'[r])
  BY Constants DEF Shaped, UserSteps, InviteSteps, LoginSteps
<1>3. SoundReq(req'[r])
  BY DEF SoundReq
<1>4. req' \in [Reqs -> Request] /\ \A x \in Reqs \ {r} : req'[x] = req[x]
  BY <1>1 DEF TypeInv, TypeOK
<1>5. Moves(r)
  BY <1>2, <1>3, <1>4 DEF Moves
<1> QED
  BY <1>5 DEF Comes

LEMMA HandleComes ==
  ASSUME TypeInv, NEW r \in Reqs, NEW sid \in Sids, NEW pc, Handle(r, sid, pc, None),
         pc \in {"finish", "check", "logout"}
  PROVE  Comes(r, sid, sess[sid], None) /\ req'[r].pc = pc
<1>1. req[r].pc = "idle" /\ sess[sid] # None
  BY DEF Handle, Arrives, At
<1>2. PICK s \in Session : s = sess[sid]
  BY <1>1 DEF TypeInv, TypeOK
<1>3. req'[r] = [pc |-> pc, sid |-> sid, sess |-> s, need |-> None, user |-> None,
                 found |-> None, code |-> None, org |-> None]
  BY <1>2 DEF Handle, Idle, TypeInv, TypeOK
<1>4. req' = [req EXCEPT ![r] = req'[r]]
  BY DEF Handle, TypeInv, TypeOK
<1>5. Sound(s)
  BY <1>1, <1>2 DEF TypeInv
<1> QED
  BY <1>1, <1>2, <1>3, <1>4, <1>5, ComesMoves

LEMMA GuardedComes ==
  ASSUME TypeInv, NEW r \in Reqs, NEW route, NEW pc, NEW u, HandleGuarded(r, route, pc, u),
         \/ pc = "finish" /\ route \in Route /\ u = None
         \/ pc \in UserSteps /\ route = Needs("users", write) /\ u \in Users
         \/ pc \in InviteSteps /\ route \in Route /\ u \in Users
  PROVE  /\ \E sid \in Sids : Comes(r, sid, sess[sid], route) /\ Allowed(sess[sid], route)
         /\ req'[r].pc = pc
<1>1. req[r].pc = "idle"
  BY DEF HandleGuarded, Arrives, At
<1>2. PICK sid \in Sids :
        /\ sess[sid] # None /\ Allowed(sess[sid], route)
        /\ req' = [req EXCEPT ![r] = [Idle EXCEPT !.pc = pc, !.sid = sid, !.sess = sess[sid],
                                        !.need = route, !.user = u]]
  BY DEF HandleGuarded
<1>3. PICK s \in Session : s = sess[sid]
  BY <1>2 DEF TypeInv, TypeOK
<1>4. req'[r] = [pc |-> pc, sid |-> sid, sess |-> s, need |-> route, user |-> u,
                 found |-> None, code |-> None, org |-> None]
  BY <1>2, <1>3 DEF Idle, TypeInv, TypeOK
<1>5. req' = [req EXCEPT ![r] = req'[r]]
  BY <1>2 DEF TypeInv, TypeOK
<1>6. Sound(s)
  BY <1>2, <1>3 DEF TypeInv
<1>7. sess[sid] # None /\ s.user = sess[sid].user
  BY <1>2, <1>3
<1>8. \/ pc = "finish" /\ route \in Route \union {None} /\ u = None
      \/ pc \in UserSteps /\ route = Needs("users", write) /\ u \in Users
      \/ pc \in InviteSteps /\ route \in Route /\ u \in Users
      \/ pc \in {"check", "change_rights", "logout"} /\ route = None /\ u = None
  OBVIOUS
<1>9. Comes(r, sid, s, route) /\ req'[r].pc = pc
  BY <1>1, <1>4, <1>5, <1>6, <1>7, <1>8, ComesMoves
<1> QED
  BY <1>2, <1>3, <1>9

LEMMA StartRouteComes ==
  ASSUME TypeInv, NEW r \in Reqs, StartRoute(r)
  PROVE  /\ \E sid \in Sids, route \in Route :
              Comes(r, sid, sess[sid], route) /\ Allowed(sess[sid], route)
         /\ req'[r].pc = "finish"
BY Constants, GuardedComes DEF StartRoute

LEMMA StartUserComes ==
  ASSUME TypeInv, NEW r \in Reqs,
         StartUpdate(r) \/ StartDeactivate(r) \/ StartActivate(r) \/ StartCreate(r)
  PROVE  /\ \E sid \in Sids, route \in Route :
              Comes(r, sid, sess[sid], route) /\ Allowed(sess[sid], route)
         /\ req'[r].pc # "activate_save"
<1>1. PICK u \in Users, pc \in {"update", "deactivate", "activate", "create"} :
        HandleGuarded(r, Needs("users", write), pc, u)
  BY Constants DEF StartUpdate, StartDeactivate, StartActivate, StartCreate
<1>2. /\ \E sid \in Sids : /\ Comes(r, sid, sess[sid], Needs("users", write))
                           /\ Allowed(sess[sid], Needs("users", write))
      /\ req'[r].pc = pc
  BY <1>1, GuardedComes DEF UserSteps
<1> QED
  BY <1>2, Constants

LEMMA StartInviteComes ==
  ASSUME TypeInv, NEW r \in Reqs, StartInvite(r)
  PROVE  /\ \E sid \in Sids, route \in Route :
              Comes(r, sid, sess[sid], route) /\ Allowed(sess[sid], route)
         /\ req'[r].pc = "invite"
<1>1. PICK u \in Users : HandleGuarded(r, OrganizationRights.invite, "invite", u)
  BY DEF StartInvite
<1>2. /\ \E sid \in Sids : /\ Comes(r, sid, sess[sid], OrganizationRights.invite)
                           /\ Allowed(sess[sid], OrganizationRights.invite)
      /\ req'[r].pc = "invite"
  BY <1>1, Constants, GuardedComes DEF InviteSteps
<1> QED
  BY <1>2, Constants

LEMMA OrgSession ==
  ASSUME NEW o \in Orgs
  PROVE  \A s \in Session : /\ [s EXCEPT !.org = o] \in Session
                            /\ [s EXCEPT !.org = o].user = s.user
                            /\ [s EXCEPT !.org = o].org = o
                            /\ [s EXCEPT !.org = o].orgs = s.orgs
                            /\ [s EXCEPT !.org = o].rights = s.rights
BY DEF Session

LEMMA RightsSession ==
  ASSUME NEW h \in Rights
  PROVE  \A s \in Session : /\ [s EXCEPT !.rights = h] \in Session
                            /\ [s EXCEPT !.rights = h].user = s.user
                            /\ [s EXCEPT !.rights = h].org = s.org
                            /\ [s EXCEPT !.rights = h].orgs = s.orgs
                            /\ [s EXCEPT !.rights = h].rights = h
BY DEF Session

LEMMA StartChangeOrgComes ==
  ASSUME TypeInv, NEW r \in Reqs, StartChangeOrg(r)
  PROVE  \E sid \in Sids, s \in Session :
           Comes(r, sid, s, None) /\ req'[r].pc = "change_rights"
<1>1. PICK sid \in Sids, o \in Orgs :
        /\ req[r].pc = "idle" /\ sess[sid] # None /\ o \in sess[sid].orgs
        /\ req' = [req EXCEPT ![r] = [Idle EXCEPT !.pc = "change_rights", !.sid = sid,
                                        !.sess = [sess[sid] EXCEPT !.org = o]]]
  BY DEF StartChangeOrg, Arrives, At
<1>2. sess[sid] \in Session /\ Sound(sess[sid])
  BY <1>1 DEF TypeInv, TypeOK
<1> DEFINE t == [sess[sid] EXCEPT !.org = o]
<1>8. /\ t \in Session /\ t.user = sess[sid].user /\ t.org = o /\ t.orgs = sess[sid].orgs
      /\ t.rights = sess[sid].rights
  BY <1>2, OrgSession
<1>3. PICK s \in Session : /\ s = t
                           /\ s.user = sess[sid].user /\ s.org = o /\ s.orgs = sess[sid].orgs
                           /\ s.rights = sess[sid].rights
  BY <1>8
<1>4. Sound(s)
  BY <1>1, <1>2, <1>3 DEF Sound
<1>5. req' = [req EXCEPT ![r] = [Idle EXCEPT !.pc = "change_rights", !.sid = sid, !.sess = s]]
  BY <1>1, <1>3
<1>6. req'[r] = [pc |-> "change_rights", sid |-> sid, sess |-> s, need |-> None, user |-> None,
                 found |-> None, code |-> None, org |-> None]
  BY <1>5 DEF Idle, TypeInv, TypeOK
<1>7. req' = [req EXCEPT ![r] = req'[r]]
  BY <1>5 DEF TypeInv, TypeOK
<1>10. req[r].pc = "idle" /\ sess[sid] # None /\ s.user = sess[sid].user
  BY <1>1, <1>3
<1>9. Comes(r, sid, s, None) /\ req'[r].pc = "change_rights"
  BY <1>10, <1>4, <1>6, <1>7, ComesMoves
<1> QED
  BY <1>9

-----------------------------------------------------------------------------
(* A request that renews its copy of the user: checkLogin and changeOrg. *)

Refreshes(r) ==
  /\ Moves(r) /\ req'[r].pc = "finish" /\ req'[r].sid = req[r].sid
  /\ req[r].sess # None /\ req'[r].sess # None /\ req'[r].sess.user = req[r].sess.user
  /\ req'[r].need = None /\ req[r].code = None /\ req'[r].code = None

LEMMA FindOneSound ==
  ASSUME TypeInv, NEW u \in Users, NEW f \in FindOne(u)
  PROVE  f \in Session /\ Sound(f) /\ f.user = u /\ f.org \in f.orgs
<1>1. PICK o \in ActiveOrgs(u), p \in ActiveOrgs(u) :
        f = [user |-> u, org |-> o, orgs |-> ActiveOrgs(u), rights |-> member[u][p].rights]
  BY DEF FindOne
<1>2. /\ \A i \in ActiveOrgs(u) : i \in Orgs /\ member[u][i] # None
      /\ ActiveOrgs(u) \subseteq Orgs
  BY DEF ActiveOrgs, IsActive
<1>3. member[u][p] \in Member /\ member[u][p].rights \in held[u]
  BY <1>2 DEF TypeInv, TypeOK, RowsHeld
<1>4. member[u][p].rights \in Rights
  BY <1>3 DEF Member
<1>5. f.user = u /\ f.org = o /\ f.orgs = ActiveOrgs(u) /\ f.rights = member[u][p].rights
  BY <1>1
<1>6. f \in Session
  BY <1>1, <1>2, <1>4 DEF Session
<1>7. Sound(f)
  BY <1>2, <1>3, <1>5 DEF Sound
<1> QED
  BY <1>5, <1>6, <1>7

LEMMA RenewMoves ==
  ASSUME TypeInv, NEW r \in Reqs, req[r].pc \in {"check", "change_rights"},
         NEW s \in Session, Sound(s), s.user = req[r].sess.user,
         req' = [req EXCEPT ![r].pc = "finish", ![r].sess = s]
  PROVE  Refreshes(r) /\ req'[r].sess = s
<1>1. req[r] \in Request /\ Shaped(req[r]) /\ SoundReq(req[r])
  BY ReqFields
<1>2. req'[r] = [pc |-> "finish", sid |-> req[r].sid, sess |-> s, need |-> req[r].need,
                 user |-> req[r].user, found |-> req[r].found, code |-> req[r].code,
                 org |-> req[r].org]
  BY <1>1 DEF TypeInv, TypeOK, Request
<1>3. req'[r] \in Request
  BY <1>1, <1>2 DEF Request
<1>4. s # None
  BY Constants
<1>5. req[r].sess # None /\ req[r].need = None /\ req[r].code = None
  BY <1>1 DEF Shaped, LoginSteps
<1>6. Shaped(req'[r])
  BY <1>1, <1>2, <1>4, <1>5 DEF Shaped, UserSteps, InviteSteps, LoginSteps
<1>7. SoundReq(req'[r])
  BY <1>1, <1>2 DEF SoundReq
<1>8. req' \in [Reqs -> Request] /\ \A x \in Reqs \ {r} : req'[x] = req[x]
  BY <1>3 DEF TypeInv, TypeOK
<1>9. Moves(r)
  BY <1>6, <1>7, <1>8 DEF Moves
<1> QED
  BY <1>2, <1>4, <1>5, <1>9 DEF Refreshes

LEMMA CopySound ==
  ASSUME TypeInv, NEW r \in Reqs, req[r].sess # None
  PROVE  /\ req[r].sess \in Session /\ Sound(req[r].sess)
         /\ req[r].sess.user \in Users /\ req[r].sess.org \in Orgs
         /\ req[r].sid \in Sids
<1>1. req[r] \in Request /\ Shaped(req[r]) /\ SoundReq(req[r])
  BY ReqFields
<1>2. req[r].sess \in Session /\ req[r].sid \in Sids
  BY <1>1 DEF Request, Shaped
<1> QED
  BY <1>1, <1>2 DEF Session, SoundReq

LEMMA CheckLoginMoves ==
  ASSUME TypeInv, NEW r \in Reqs, CheckLogin(r)
  PROVE  Refreshes(r)
<1>1. req[r].pc = "check"
  BY DEF CheckLogin, At
<1>2. req[r].sess # None /\ req[r].need = None /\ req[r].code = None
  BY <1>1, ReqFields DEF Shaped, LoginSteps
<1>3. CASE Step(r, "finish")
  <2>1. Moves(r) /\ Keeps(r) /\ req'[r].pc = "finish"
    BY <1>1, <1>3, StepMoves DEF LoginSteps
  <2> QED
    BY <1>2, <2>1 DEF Refreshes, Keeps
<1>4. ASSUME NEW f \in FindOne(req[r].sess.user),
             req' = [req EXCEPT ![r].pc = "finish",
                       ![r].sess = [f EXCEPT !.org = IF req[r].sess.org \in f.orgs
                                                    THEN req[r].sess.org ELSE @]]
      PROVE  Refreshes(r)
  <2>1. f \in Session /\ Sound(f) /\ f.user = req[r].sess.user /\ f.org \in f.orgs
    BY <1>2, CopySound, FindOneSound
  <2>2. PICK o \in Orgs : /\ o = IF req[r].sess.org \in f.orgs THEN req[r].sess.org ELSE f.org
                          /\ o \in f.orgs
    BY <1>2, <2>1, CopySound DEF Session
  <2> DEFINE t == [f EXCEPT !.org = o]
  <2>3. t \in Session /\ t.user = f.user /\ t.org = o /\ t.orgs = f.orgs /\ t.rights = f.rights
    BY <2>1, OrgSession
  <2>4. PICK s \in Session : /\ s = t /\ s.user = f.user /\ s.org = o /\ s.orgs = f.orgs
                             /\ s.rights = f.rights
    BY <2>3
  <2>5. Sound(s)
    BY <2>1, <2>2, <2>4 DEF Sound
  <2>6. req' = [req EXCEPT ![r].pc = "finish", ![r].sess = s]
    BY <1>4, <2>2, <2>4
  <2>7. s.user = req[r].sess.user
    BY <2>1, <2>4
  <2> QED
    BY <1>1, <2>5, <2>6, <2>7, RenewMoves
<1>5. Step(r, "finish") \/ \E f \in FindOne(req[r].sess.user) :
             req' = [req EXCEPT ![r].pc = "finish",
                       ![r].sess = [f EXCEPT !.org = IF req[r].sess.org \in f.orgs
                                                    THEN req[r].sess.org ELSE @]]
  BY DEF CheckLogin
<1> QED
  BY <1>3, <1>4, <1>5

LEMMA ChangeRightsMoves ==
  ASSUME TypeInv, NEW r \in Reqs, ChangeRights(r)
  PROVE  Refreshes(r)
<1>1. /\ req[r].pc = "change_rights"
      /\ req' = [req EXCEPT ![r].pc = "finish",
                   ![r].sess.rights = member[req[r].sess.user][req[r].sess.org].rights]
  BY DEF ChangeRights, At
<1>2. req[r].sess # None
  BY <1>1, ReqFields DEF Shaped, LoginSteps
<1>3. /\ req[r].sess \in Session /\ Sound(req[r].sess)
      /\ req[r].sess.user \in Users /\ req[r].sess.org \in Orgs
  BY <1>2, CopySound
<1>4. member[req[r].sess.user][req[r].sess.org] # None
  BY <1>3 DEF Sound
<1>5. PICK h \in Rights : /\ h = member[req[r].sess.user][req[r].sess.org].rights
                          /\ h \in held[req[r].sess.user]
  BY <1>3, <1>4 DEF TypeInv, TypeOK, RowsHeld, Member
<1> DEFINE t == [req[r].sess EXCEPT !.rights = h]
<1>6. /\ t \in Session /\ t.user = req[r].sess.user /\ t.org = req[r].sess.org
      /\ t.orgs = req[r].sess.orgs /\ t.rights = h
  BY <1>3, RightsSession
<1>7. PICK s \in Session : /\ s = t /\ s.user = req[r].sess.user /\ s.org = req[r].sess.org
                           /\ s.orgs = req[r].sess.orgs /\ s.rights = h
  BY <1>6
<1>8. Sound(s)
  BY <1>3, <1>5, <1>7 DEF Sound
<1>9. req' = [req EXCEPT ![r].pc = "finish", ![r].sess = s]
  BY <1>1, <1>5, <1>7, ReqFields DEF Request
<1> QED
  BY <1>1, <1>7, <1>8, <1>9, RenewMoves

-----------------------------------------------------------------------------
(* The steps of login, and failures. *)

\* A login comes, with or without a session.
LoginComes(r) ==
  /\ req[r].pc = "idle"
  /\ Moves(r) /\ req'[r].pc = "login_code" /\ req'[r].need = None /\ req'[r].code = None
  /\ req'[r].sid # None => sess[req'[r].sid] # None /\ req'[r].sess = sess[req'[r].sid]

\* The request gives up its code; or it has none.
Drops(r) ==
  /\ Moves(r) /\ req'[r].pc \in {"login_session", "finish"}
  /\ req'[r].sid = req[r].sid /\ req'[r].sess = req[r].sess
  /\ req'[r].need = req[r].need /\ req'[r].user = req[r].user /\ req'[r].found = req[r].found
  /\ req'[r].code = None

\* It takes the code c.
Takes(r, c) ==
  /\ req[r].pc = "login_code" /\ req[r].code = None
  /\ Moves(r) /\ req'[r].pc = "login_accept"
  /\ req'[r].sid = req[r].sid /\ req'[r].sess = req[r].sess
  /\ req'[r].need = req[r].need /\ req'[r].user = req[r].user /\ req'[r].found = req[r].found
  /\ req'[r].code = c /\ req'[r].org = invites[c].org
  /\ invites[c] # None /\ invites[c].user = req[r].user

\* It logs in: the session new is stored for it.
LogsIn(r, new) ==
  /\ req[r].pc = "login_session" /\ new \in freshSids
  /\ Moves(r) /\ req'[r].sid = new /\ req'[r].sess = req[r].found /\ req'[r].sess # None
  /\ req'[r].need = None /\ req[r].code = None /\ req'[r].code = None
  /\ req'[r].pc = "finish"

LEMMA FinishEnds ==
  ASSUME TypeInv, NEW r \in Reqs, Finish(r) \/ Logout(r)
  PROVE  Ends(r)
BY IdleEnds DEF Finish, Logout

LEMMA StartLoginComes ==
  ASSUME TypeInv, NEW r \in Reqs, StartLogin(r)
  PROVE  /\ LoginComes(r)
         /\ \E u \in Users : sweeps' = sweeps \union {[user |-> u, phase |-> "get", sids |-> {}]}
<1>1. PICK u \in Users, sid \in Sids \union {None} :
        \E f \in FindOne(u) :
          /\ sid \in Sids => sess[sid] # None
          /\ req' = [req EXCEPT ![r] = [Idle EXCEPT !.pc = "login_code", !.sid = sid,
                       !.sess = IF sid = None THEN None ELSE sess[sid],
                       !.user = u, !.found = f]]
          /\ sweeps' = sweeps \union {[user |-> u, phase |-> "get", sids |-> {}]}
  BY DEF StartLogin
<1>2. PICK f \in FindOne(u) :
          /\ sid \in Sids => sess[sid] # None
          /\ req' = [req EXCEPT ![r] = [Idle EXCEPT !.pc = "login_code", !.sid = sid,
                       !.sess = IF sid = None THEN None ELSE sess[sid],
                       !.user = u, !.found = f]]
          /\ sweeps' = sweeps \union {[user |-> u, phase |-> "get", sids |-> {}]}
  BY <1>1
<1>3. PICK s \in Session \union {None} :
        /\ s = IF sid = None THEN None ELSE sess[sid]
        /\ s = None <=> sid = None
        /\ sid # None => s = sess[sid] /\ sid \in Sids
  BY <1>2, Constants DEF TypeInv, TypeOK
<1>4. f \in Session /\ Sound(f)
  BY FindOneSound
<1>5. req' = [req EXCEPT ![r] = [Idle EXCEPT !.pc = "login_code", !.sid = sid,
                                   !.sess = s, !.user = u, !.found = f]]
  BY <1>2, <1>3
<1>6. req'[r] = [pc |-> "login_code", sid |-> sid, sess |-> s, need |-> None, user |-> u,
                 found |-> f, code |-> None, org |-> None]
  BY <1>5 DEF Idle, TypeInv, TypeOK
<1>7. req'[r] \in Request
  BY <1>4, <1>6 DEF Request
<1>8. Shaped(req'[r])
  BY <1>3, <1>4, <1>6 DEF Shaped, UserSteps, InviteSteps, LoginSteps
<1>9. s # None => Sound(s)
  BY <1>2, <1>3 DEF TypeInv
<1>10. SoundReq(req'[r])
  BY <1>4, <1>6, <1>9 DEF SoundReq
<1>11. req' \in [Reqs -> Request] /\ \A x \in Reqs \ {r} : req'[x] = req[x]
  BY <1>5, <1>7 DEF TypeInv, TypeOK
<1>12. Moves(r)
  BY <1>8, <1>10, <1>11 DEF Moves
<1>13. req[r].pc = "idle"
  BY DEF StartLogin, Arrives, At
<1>14. req'[r].sid # None => sess[req'[r].sid] # None /\ req'[r].sess = sess[req'[r].sid]
  BY <1>2, <1>3, <1>6
<1>15. LoginComes(r)
  BY <1>6, <1>12, <1>13, <1>14 DEF LoginComes
<1> QED
  BY <1>2, <1>15

LEMMA LoginCodeTakes ==
  ASSUME TypeInv, NEW r \in Reqs, LoginCode(r)
  PROVE  \/ /\ Moves(r) /\ Keeps(r) /\ req'[r].pc = "login_session" /\ req[r].pc = "login_code"
            /\ contended' = contended
         \/ \E c \in Codes :
              /\ Takes(r, c)
              /\ contended' = IF Holders(c) # {} THEN contended \union {c} ELSE contended
<1>1. req[r].pc = "login_code"
  BY DEF LoginCode, At
<1>2. CASE Step(r, "login_session") /\ contended' = contended
  BY <1>1, <1>2, StepMoves DEF LoginSteps
<1>3. ASSUME NEW c \in Codes, invites[c] # None, invites[c].user = req[r].user,
             req' = [req EXCEPT ![r].pc = "login_accept", ![r].code = c, ![r].org = invites[c].org]
      PROVE  Takes(r, c)
  <2>1. req[r] \in Request /\ Shaped(req[r]) /\ SoundReq(req[r])
    BY ReqFields
  <2>2. PICK o \in Orgs : o = invites[c].org
    BY <1>3 DEF TypeInv, TypeOK, Invitation
  <2>3. req'[r] = [pc |-> "login_accept", sid |-> req[r].sid, sess |-> req[r].sess,
                   need |-> req[r].need, user |-> req[r].user, found |-> req[r].found,
                   code |-> c, org |-> o]
    BY <1>3, <2>1, <2>2 DEF TypeInv, TypeOK, Request
  <2>4. req'[r] \in Request
    BY <2>1, <2>3 DEF Request
  <2>5. Shaped(req'[r])
    BY <1>1, <2>1, <2>3 DEF Shaped, UserSteps, InviteSteps, LoginSteps
  <2>6. SoundReq(req'[r])
    BY <2>1, <2>3 DEF SoundReq
  <2>7. req' \in [Reqs -> Request] /\ \A x \in Reqs \ {r} : req'[x] = req[x]
    BY <1>3, <2>4 DEF TypeInv, TypeOK
  <2>8. Moves(r)
    BY <2>5, <2>6, <2>7 DEF Moves
  <2>9. req[r].code = None
    BY <1>1, <2>1 DEF Shaped
  <2> QED
    BY <1>1, <1>3, <2>2, <2>3, <2>8, <2>9 DEF Takes
<1>4. \/ Step(r, "login_session") /\ contended' = contended
      \/ \E c \in Codes :
           /\ invites[c] # None /\ invites[c].user = req[r].user
           /\ req' = [req EXCEPT ![r].pc = "login_accept", ![r].code = c, ![r].org = invites[c].org]
           /\ contended' = IF Holders(c) # {} THEN contended \union {c} ELSE contended
  BY DEF LoginCode
<1> QED
  BY <1>2, <1>3, <1>4

LEMMA DropMoves ==
  ASSUME TypeInv, NEW r \in Reqs, NEW pc,
         \/ pc = "login_session" /\ req[r].pc \in LoginSteps
         \/ pc = "finish" /\ req[r].pc \notin {"idle", "finish"},
         req' = [req EXCEPT ![r].pc = pc, ![r].code = None, ![r].org = None]
  PROVE  Drops(r) /\ req'[r].pc = pc
<1>1. req[r] \in Request /\ Shaped(req[r]) /\ SoundReq(req[r])
  BY ReqFields
<1>2. req'[r] = [pc |-> pc, sid |-> req[r].sid, sess |-> req[r].sess,
                 need |-> req[r].need, user |-> req[r].user, found |-> req[r].found,
                 code |-> None, org |-> None]
  BY <1>1 DEF TypeInv, TypeOK, Request
<1>3. req'[r] \in Request
  BY <1>1, <1>2 DEF Request
<1>4. Shaped(req'[r])
  BY <1>1, <1>2 DEF Shaped, UserSteps, InviteSteps, LoginSteps
<1>5. SoundReq(req'[r])
  BY <1>1, <1>2 DEF SoundReq
<1>6. req' \in [Reqs -> Request] /\ \A x \in Reqs \ {r} : req'[x] = req[x]
  BY <1>3 DEF TypeInv, TypeOK
<1>7. Moves(r)
  BY <1>4, <1>5, <1>6 DEF Moves
<1> QED
  BY <1>2, <1>7 DEF Drops

LEMMA LoginDelDrops ==
  ASSUME TypeInv, NEW r \in Reqs, LoginDel(r)
  PROVE  Drops(r) /\ req'[r].pc = "login_session"
BY DropMoves DEF LoginDel, At, LoginSteps

LEMMA FailsDrops ==
  ASSUME TypeInv, NEW r \in Reqs, Fails(r)
  PROVE  Drops(r) /\ req'[r].pc = "finish"
BY DropMoves DEF Fails, At

LEMMA LoginSessionLogsIn ==
  ASSUME TypeInv, NEW r \in Reqs, LoginSession(r)
  PROVE  \E new \in freshSids :
           /\ LogsIn(r, new)
           /\ freshSids' = freshSids \ {new}
           /\ sess' = [s \in Sids |-> IF s = new THEN req[r].found
                                     ELSE IF s \in {req[r].sid} \ {None} THEN None ELSE sess[s]]
<1>1. req[r].pc = "login_session"
  BY DEF LoginSession, At
<1>2. PICK new \in freshSids :
           /\ freshSids' = freshSids \ {new}
           /\ sess' = [s \in Sids |-> IF s = new THEN req[r].found
                                     ELSE IF s \in {req[r].sid} \ {None} THEN None ELSE sess[s]]
           /\ req' = [req EXCEPT ![r] = [Idle EXCEPT !.pc = "finish", !.sid = new,
                                            !.sess = req[r].found]]
  BY DEF LoginSession
<1>3. req[r] \in Request /\ Shaped(req[r]) /\ SoundReq(req[r])
  BY ReqFields
<1>4. PICK f \in Session : f = req[r].found
  BY <1>1, <1>3 DEF Shaped, LoginSteps
<1>5. f # None /\ Sound(f) /\ req[r].code = None
  BY <1>1, <1>3, <1>4, Constants DEF SoundReq, Shaped
<1>6. req'[r] = [pc |-> "finish", sid |-> new, sess |-> f, need |-> None, user |-> None,
                 found |-> None, code |-> None, org |-> None]
  BY <1>2, <1>4 DEF Idle, TypeInv, TypeOK
<1>7. new \in Sids /\ new # None
  BY Constants DEF TypeInv, TypeOK
<1>8. req'[r] \in Request
  BY <1>6, <1>7 DEF Request
<1>9. Shaped(req'[r])
  BY <1>5, <1>6, <1>7 DEF Shaped, UserSteps, InviteSteps, LoginSteps
<1>10. SoundReq(req'[r])
  BY <1>5, <1>6 DEF SoundReq
<1>11. req' \in [Reqs -> Request] /\ \A x \in Reqs \ {r} : req'[x] = req[x]
  BY <1>2, <1>8 DEF TypeInv, TypeOK
<1>12. Moves(r)
  BY <1>9, <1>10, <1>11 DEF Moves
<1>13. LogsIn(r, new)
  BY <1>1, <1>4, <1>5, <1>6, <1>12 DEF LogsIn
<1> QED
  BY <1>2, <1>13

-----------------------------------------------------------------------------
(* The actions by what they change. *)

StartsGuarded(r) == \/ StartRoute(r) \/ StartUpdate(r) \/ StartDeactivate(r) \/ StartActivate(r)
                    \/ StartCreate(r) \/ StartInvite(r)
StartsPlain(r) == StartOther(r) \/ StartCheckLogin(r) \/ StartLogout(r) \/ StartChangeOrg(r)
Finds(r) == DeactivateFind(r) \/ ActivateFind(r) \/ InviteFind(r)
Writes(r) == Update(r) \/ DeactivateSave(r) \/ ActivateSave(r) \/ Create(r)
Renews(r) == CheckLogin(r) \/ ChangeRights(r)

RequestStep(r) ==
  \/ StartsGuarded(r) \/ StartsPlain(r) \/ Finds(r) \/ Writes(r) \/ Renews(r) \/ InviteSet(r)
  \/ Finish(r) \/ Logout(r) \/ StartLogin(r) \/ LoginCode(r) \/ LoginAccept(r) \/ LoginDel(r)
  \/ LoginSession(r) \/ Fails(r)

LEMMA StepCases ==
  ASSUME [Next]_vars
  PROVE  \/ \E r \in Reqs : RequestStep(r)
         \/ \E u \in Users : PasswordReset(u)
         \/ \E u \in Users, o \in Orgs : SignUp(u, o)
         \/ \E w \in sweeps : SweepGet(w)
         \/ \E w \in sweeps : SweepDel(w)
         \/ Restart
         \/ UNCHANGED vars
<1>1. ASSUME NEW r \in Reqs, UsersController(r) PROVE RequestStep(r)
  BY <1>1 DEF UsersController, RequestStep, StartsGuarded, StartsPlain, Finds, Writes, Renews
<1>2. ASSUME NEW r \in Reqs, OrganizationController(r) PROVE RequestStep(r)
  BY <1>2 DEF OrganizationController, RequestStep, StartsGuarded, Finds
<1>3. ASSUME NEW r \in Reqs, AuthController(r) PROVE RequestStep(r)
  BY <1>3 DEF AuthController, RequestStep, StartsPlain, Renews
<1>4. ASSUME NEW r \in Reqs, StartRoute(r) \/ StartOther(r) \/ Finish(r) \/ Fails(r)
      PROVE  RequestStep(r)
  BY <1>4 DEF RequestStep, StartsGuarded, StartsPlain
<1> QED
  BY <1>1, <1>2, <1>3, <1>4 DEF Next

\* Rows stay, and rights that have been held stay held.
Kept == /\ \A u \in Users, o \in Orgs : member[u][o] # None => member'[u][o] # None
        /\ \A u \in Users : held[u] \subseteq held'[u]

\* No row but that of u in o changes.
Saved(u, o) ==
  /\ member' \in [Users -> [Orgs -> Member \union {None}]]
  /\ held' \in [Users -> SUBSET Rights]
  /\ Kept /\ RowsHeld'
  /\ \A v \in Users, p \in Orgs : member'[v][p] # member[v][p] => v = u /\ p = o

LEMMA SaveSaves ==
  ASSUME TypeInv, NEW u \in Users, NEW o \in Orgs, NEW row \in Member, Save(u, o, row)
  PROVE  Saved(u, o)
<1>1. /\ member \in [Users -> [Orgs -> Member \union {None}]] /\ held \in [Users -> SUBSET Rights]
      /\ RowsHeld
  BY DEF TypeInv, TypeOK
<1>2. row # None /\ row.rights \in Rights
  BY Constants DEF Member
<1>3. member' \in [Users -> [Orgs -> Member \union {None}]]
  BY <1>1 DEF Save
<1>4. held' \in [Users -> SUBSET Rights]
  BY <1>1, <1>2 DEF Save
<1>5. \A v \in Users, p \in Orgs : member'[v][p] = IF v = u /\ p = o THEN row ELSE member[v][p]
  BY <1>1 DEF Save
<1>6. \A v \in Users : held[v] \subseteq held'[v] /\ (v = u => row.rights \in held'[v])
  BY <1>1 DEF Save
<1>7. Kept
  BY <1>2, <1>5, <1>6 DEF Kept
<1>8. RowsHeld'
  BY <1>1, <1>5, <1>6 DEF RowsHeld
<1> QED
  BY <1>3, <1>4, <1>5, <1>7, <1>8 DEF Saved

LEMMA QuietSaves ==
  ASSUME TypeInv, UNCHANGED <<member, held>>, NEW u, NEW o
  PROVE  Saved(u, o) /\ Kept
<1>1. Kept
  BY DEF Kept
<1>2. RowsHeld'
  BY DEF TypeInv, RowsHeld
<1> QED
  BY <1>1, <1>2 DEF Saved, TypeInv, TypeOK

LEMMA SoundKept ==
  ASSUME Kept, NEW s \in Session, Sound(s)
  PROVE  Sound(s)'
BY DEF Kept, Sound, Session

\* What makes the invariant hold after a step.
LEMMA TypeNext ==
  ASSUME TypeInv, Kept, TypeOK', RowsHeld',
         \A q \in Reqs : req'[q] # req[q] =>
           /\ Shaped(req'[q]) /\ SoundReq(req'[q])
           /\ req'[q].pc = "activate_save" => member[req'[q].user][req'[q].sess.org] # None,
         \A s \in Sids : sess'[s] # None => Sound(sess'[s])
  PROVE  TypeInv'
<1>1. ASSUME NEW q \in Reqs PROVE Shaped(req'[q]) /\ SoundReq(req'[q])
  BY <1>1, ReqFields
<1>2. \A q \in Reqs : req'[q] \in Request
  BY DEF TypeOK
<1>3. \A q \in Reqs : SoundReq(req[q])'
  <2> TAKE q \in Reqs
  <2>1. ASSUME req'[q].sess # None PROVE Sound(req[q].sess)'
    <3>1. PICK s \in Session : s = req'[q].sess
      BY <1>2, <2>1 DEF Request
    <3>2. Sound(s)
      BY <1>1, <2>1, <3>1 DEF SoundReq
    <3>3. Sound(s)'
      BY <3>2, SoundKept
    <3> QED
      BY <3>1, <3>3 DEF Sound
  <2>2. ASSUME req'[q].found # None PROVE Sound(req[q].found)'
    <3>1. PICK s \in Session : s = req'[q].found
      BY <1>2, <2>2 DEF Request
    <3>2. Sound(s)
      BY <1>1, <2>2, <3>1 DEF SoundReq
    <3>3. Sound(s)'
      BY <3>2, SoundKept
    <3> QED
      BY <3>1, <3>3 DEF Sound
  <2> QED
    BY <2>1, <2>2 DEF SoundReq
<1>4. \A s \in Sids : sess'[s] # None => Sound(sess[s])'
  <2> TAKE t \in Sids
  <2>1. ASSUME sess'[t] # None PROVE Sound(sess[t])'
    <3>1. PICK s \in Session : s = sess'[t]
      BY <2>1 DEF TypeOK
    <3>2. Sound(s)
      BY <2>1, <3>1
    <3>3. Sound(s)'
      BY <3>2, SoundKept
    <3> QED
      BY <3>1, <3>3 DEF Sound
  <2> QED
    BY <2>1
<1>5. ASSUME NEW q \in Reqs, req'[q].pc = "activate_save"
      PROVE  member'[req'[q].user][req'[q].sess.org] # None
  <2>1. member[req'[q].user][req'[q].sess.org] # None
    BY <1>5 DEF TypeInv, RowsThere
  <2>2. Shaped(req'[q])
    BY <1>1
  <2>3. req'[q].user \in Users /\ req'[q].sess # None
    BY <1>5, <2>2 DEF Shaped, UserSteps, LoginSteps
  <2>4. req'[q].sess.org \in Orgs
    BY <1>2, <2>3 DEF Request, Session
  <2> QED
    BY <2>1, <2>3, <2>4 DEF Kept
<1>6. RowsThere'
  BY <1>5 DEF RowsThere
<1>7. \A q \in Reqs : Shaped(req[q])'
  BY <1>1 DEF Shaped
<1> QED
  BY <1>3, <1>4, <1>6, <1>7 DEF TypeInv

-----------------------------------------------------------------------------
(* What each class of actions does. *)

\* Nothing changes but a request, and perhaps a count.
OnlyMoves(r) ==
  /\ Moves(r) /\ UNCHANGED <<member, sessions, codes, sweeps, history>>
  /\ started' \in 0..MaxRequests /\ faults' \in 0..MaxFaults
  /\ req'[r].pc = "activate_save" => member[req'[r].user][req'[r].sess.org] # None

LEMMA ArrivesCounts ==
  ASSUME TypeInv, NEW r, Arrives(r)
  PROVE  req[r].pc = "idle" /\ started' \in 0..MaxRequests /\ faults' \in 0..MaxFaults
BY Constants DEF TypeInv, TypeOK, Arrives, At

LEMMA GuardedStarts ==
  ASSUME TypeInv, NEW r \in Reqs, StartsGuarded(r)
  PROVE  /\ OnlyMoves(r)
         /\ \E sid \in Sids, route \in Route :
              Comes(r, sid, sess[sid], route) /\ Allowed(sess[sid], route)
<1>1. /\ \E sid \in Sids, route \in Route :
              Comes(r, sid, sess[sid], route) /\ Allowed(sess[sid], route)
      /\ req'[r].pc # "activate_save"
  BY StartRouteComes, StartUserComes, StartInviteComes DEF StartsGuarded
<1>2. \E route, pc, u : HandleGuarded(r, route, pc, u)
  BY DEF StartsGuarded, StartRoute, StartUpdate, StartDeactivate, StartActivate, StartCreate,
         StartInvite
<1>3. Arrives(r) /\ UNCHANGED <<member, sessions, codes, sweeps, history>>
  BY <1>2 DEF HandleGuarded
<1>4. Moves(r)
  BY <1>1 DEF Comes
<1> QED
  BY <1>1, <1>3, <1>4, ArrivesCounts DEF OnlyMoves

LEMMA PlainStarts ==
  ASSUME TypeInv, NEW r \in Reqs, StartsPlain(r)
  PROVE  /\ OnlyMoves(r)
         /\ \E sid \in Sids, s \in Session : Comes(r, sid, s, None)
<1>1. ASSUME NEW pc \in {"finish", "check", "logout"}, NEW sid \in Sids, Handle(r, sid, pc, None),
             UNCHANGED <<member, sessions, codes, sweeps, history>>
      PROVE  OnlyMoves(r) /\ \E t \in Sids, s \in Session : Comes(r, t, s, None)
  <2>1. Comes(r, sid, sess[sid], None) /\ req'[r].pc = pc
    BY <1>1, HandleComes
  <2>2. sess[sid] \in Session
    BY <2>1 DEF Comes, TypeInv, TypeOK
  <2>3. Arrives(r) /\ Moves(r)
    BY <1>1, <2>1 DEF Handle, Comes
  <2> QED
    BY <1>1, <2>1, <2>2, <2>3, ArrivesCounts DEF OnlyMoves
<1>2. CASE StartOther(r)
  BY <1>1, <1>2 DEF StartOther
<1>3. CASE StartCheckLogin(r)
  BY <1>1, <1>3 DEF StartCheckLogin
<1>4. CASE StartLogout(r)
  BY <1>1, <1>4 DEF StartLogout
<1>5. CASE StartChangeOrg(r)
  <2>1. PICK sid \in Sids, s \in Session : Comes(r, sid, s, None) /\ req'[r].pc = "change_rights"
    BY <1>5, StartChangeOrgComes
  <2>2. Arrives(r) /\ UNCHANGED <<member, sessions, codes, sweeps, history>>
    BY <1>5 DEF StartChangeOrg
  <2> QED
    BY <2>1, <2>2, ArrivesCounts DEF OnlyMoves, Comes
<1> QED
  BY <1>2, <1>3, <1>4, <1>5 DEF StartsPlain

LEMMA CountsKept ==
  ASSUME TypeInv, UNCHANGED counts
  PROVE  started' \in 0..MaxRequests /\ faults' \in 0..MaxFaults
BY DEF TypeInv, TypeOK, counts

LEMMA FindsFind ==
  ASSUME TypeInv, NEW r \in Reqs, Finds(r)
  PROVE  OnlyMoves(r) /\ Keeps(r) /\ req[r].pc \in UserSteps \union InviteSteps
<1>1. UNCHANGED <<member, sessions, codes, sweeps, history, counts>>
  BY DEF Finds, DeactivateFind, ActivateFind, InviteFind
<1>2. ASSUME DeactivateFind(r)
      PROVE  /\ Moves(r) /\ Keeps(r) /\ req'[r].pc # "activate_save"
             /\ req[r].pc \in UserSteps \union InviteSteps
  <2>1. req[r].pc = "deactivate" /\ \E pc \in {"deactivate_save", "finish"} : Step(r, pc)
    BY <1>2 DEF DeactivateFind, At
  <2> QED
    BY <2>1, StepMoves DEF UserSteps, LoginSteps
<1>3. ASSUME InviteFind(r)
      PROVE  /\ Moves(r) /\ Keeps(r) /\ req'[r].pc # "activate_save"
             /\ req[r].pc \in UserSteps \union InviteSteps
  <2>1. req[r].pc = "invite" /\ \E pc \in {"invite_set", "finish"} : Step(r, pc)
    BY <1>3 DEF InviteFind, At
  <2> QED
    BY <2>1, StepMoves DEF InviteSteps, LoginSteps
<1>4. ASSUME ActivateFind(r)
      PROVE  /\ Moves(r) /\ Keeps(r)
             /\ req'[r].pc = "activate_save" => member[req'[r].user][req'[r].sess.org] # None
             /\ req[r].pc \in UserSteps \union InviteSteps
  <2>1. PICK pc \in {"activate_save", "finish"} :
          /\ Step(r, pc)
          /\ pc = "activate_save" => member[req[r].user][req[r].sess.org] # None
    BY <1>4 DEF ActivateFind
  <2>2. req[r].pc = "activate"
    BY <1>4 DEF ActivateFind, At
  <2>3. Moves(r) /\ Keeps(r) /\ req'[r].pc = pc
    BY <2>1, <2>2, StepMoves DEF UserSteps, LoginSteps
  <2> QED
    BY <2>1, <2>2, <2>3 DEF Keeps, UserSteps
<1>5. /\ Moves(r) /\ Keeps(r)
      /\ req'[r].pc = "activate_save" => member[req'[r].user][req'[r].sess.org] # None
      /\ req[r].pc \in UserSteps \union InviteSteps
  BY <1>2, <1>3, <1>4 DEF Finds
<1> QED
  BY <1>1, <1>5, CountsKept DEF OnlyMoves

LEMMA RenewsRenew ==
  ASSUME TypeInv, NEW r \in Reqs, Renews(r)
  PROVE  OnlyMoves(r) /\ Refreshes(r)
<1>1. Refreshes(r)
  BY CheckLoginMoves, ChangeRightsMoves DEF Renews
<1>2. UNCHANGED <<member, sessions, codes, sweeps, history, counts>>
  BY DEF Renews, CheckLogin, ChangeRights
<1> QED
  BY <1>1, <1>2, CountsKept DEF OnlyMoves, Refreshes

LEMMA RowExcept ==
  /\ \A m \in Member, h \in Rights : [m EXCEPT !.rights = h] \in Member
  /\ \A m \in Member : [m EXCEPT !.active = TRUE] \in Member
  /\ [active |-> FALSE, rights |-> defaultRights] \in Member
  /\ [active |-> TRUE, rights |-> defaultRights] \in Member
  /\ [active |-> TRUE, rights |-> ownerRights] \in Member
BY Constants DEF Member

\* The handlers of UserService that write a row.
LEMMA WritesSave ==
  ASSUME TypeInv, NEW r \in Reqs, Writes(r)
  PROVE  /\ Moves(r) /\ Keeps(r) /\ req'[r].pc = "finish" /\ req[r].pc \in UserSteps
         /\ req[r].sess # None /\ Saved(req[r].user, req[r].sess.org)
         /\ UNCHANGED <<sessions, codes, sweeps, counts, ended, carried, spent, contended, issued>>
<1>1. req[r].pc \in {"update", "deactivate_save", "activate_save", "create"} /\ Step(r, "finish")
  BY DEF Writes, Update, DeactivateSave, ActivateSave, Create, At
<1>2. Moves(r) /\ Keeps(r) /\ req'[r].pc = "finish"
  BY <1>1, StepMoves DEF LoginSteps
<1>3. UNCHANGED <<sessions, codes, sweeps, counts, ended, carried, spent, contended, issued>>
  BY DEF Writes, Update, DeactivateSave, ActivateSave, Create
<1>4. req[r].sess # None /\ req[r].user \in Users
  BY <1>1, ReqFields DEF Shaped, UserSteps, LoginSteps
<1>5. req[r].sess.org \in Orgs
  BY <1>4, CopySound
<1>6. PICK u \in Users, o \in Orgs : u = req[r].user /\ o = req[r].sess.org
  BY <1>4, <1>5
<1>7. member[u][o] # None => member[u][o] \in Member
  BY DEF TypeInv, TypeOK
<1>8. ASSUME Update(r) PROVE Saved(u, o)
  <2>1. \/ UNCHANGED <<member, held>>
        \/ /\ member[u][o] # None
           /\ \E rights \in RightsInputs : Save(u, o, [member[u][o] EXCEPT !.rights = rights])
    BY <1>6, <1>8 DEF Update, Save
  <2>2. UNCHANGED <<member, held>> \/ \E row \in Member : Save(u, o, row)
    BY <2>1, <1>7, RowExcept, Constants
  <2> QED
    BY <2>2, SaveSaves, QuietSaves
<1>9. ASSUME DeactivateSave(r) PROVE Saved(u, o)
  <2>1. Save(u, o, [active |-> FALSE, rights |-> defaultRights])
    BY <1>6, <1>9 DEF DeactivateSave, Save
  <2> QED
    BY <2>1, RowExcept, SaveSaves
<1>10. ASSUME ActivateSave(r) PROVE Saved(u, o)
  <2>1. Save(u, o, [member[u][o] EXCEPT !.active = TRUE]) /\ req[r].pc = "activate_save"
    BY <1>6, <1>10 DEF ActivateSave, At, Save
  <2>2. member[u][o] # None
    BY <1>6, <2>1 DEF TypeInv, RowsThere
  <2>3. \E row \in Member : Save(u, o, row)
    BY <1>7, <2>1, <2>2, RowExcept
  <2> QED
    BY <2>3, SaveSaves
<1>11. ASSUME Create(r) PROVE Saved(u, o)
  <2>1. UNCHANGED <<member, held>> \/ Save(u, o, [active |-> TRUE, rights |-> defaultRights])
    BY <1>6, <1>11 DEF Create, Save
  <2> QED
    BY <2>1, RowExcept, SaveSaves, QuietSaves
<1>12. Saved(req[r].user, req[r].sess.org)
  <2>1. Saved(u, o)
    BY <1>8, <1>9, <1>10, <1>11 DEF Writes
  <2> QED
    BY <1>6, <2>1 DEF Saved
<1>13. req[r].pc \in UserSteps
  BY <1>1 DEF UserSteps
<1> QED
  BY <1>2, <1>3, <1>4, <1>12, <1>13

-----------------------------------------------------------------------------
(* Every step keeps the types and the soundness of the copies. *)

LEMMA QuietKept ==
  ASSUME TypeInv, UNCHANGED <<member, held>>
  PROVE  Kept /\ RowsHeld'
BY DEF Kept, TypeInv, RowsHeld

\* Of the requests, at most r moves.
LEMMA MovesSound ==
  ASSUME NEW r \in Reqs, Moves(r),
         req'[r].pc = "activate_save" => member[req'[r].user][req'[r].sess.org] # None
  PROVE  \A q \in Reqs : req'[q] # req[q] =>
           /\ Shaped(req'[q]) /\ SoundReq(req'[q])
           /\ req'[q].pc = "activate_save" => member[req'[q].user][req'[q].sess.org] # None
BY DEF Moves

LEMMA StoredSound ==
  ASSUME TypeInv, \A s \in Sids : sess'[s] # None => sess'[s] = sess[s]
  PROVE  \A s \in Sids : sess'[s] # None => Sound(sess'[s])
BY DEF TypeInv

LEMMA OnlyMovesType ==
  ASSUME TypeInv, NEW r \in Reqs, OnlyMoves(r)
  PROVE  TypeInv'
<1>1. Kept /\ RowsHeld'
  BY QuietKept DEF OnlyMoves, history
<1>2. TypeOK'
  BY DEF OnlyMoves, Moves, TypeInv, TypeOK, sessions, codes, history
<1>3. \A q \in Reqs : req'[q] # req[q] =>
           /\ Shaped(req'[q]) /\ SoundReq(req'[q])
           /\ req'[q].pc = "activate_save" => member[req'[q].user][req'[q].sess.org] # None
  BY MovesSound DEF OnlyMoves
<1>4. \A s \in Sids : sess'[s] # None => Sound(sess'[s])
  BY StoredSound DEF OnlyMoves, sessions
<1> QED
  BY <1>1, <1>2, <1>3, <1>4, TypeNext

LEMMA WritesType ==
  ASSUME TypeInv, NEW r \in Reqs, Writes(r)
  PROVE  TypeInv'
<1>1. /\ Moves(r) /\ req'[r].pc = "finish" /\ Saved(req[r].user, req[r].sess.org)
      /\ UNCHANGED <<sessions, codes, sweeps, counts, ended, carried, spent, contended, issued>>
  BY WritesSave
<1>2. Kept /\ RowsHeld'
  BY <1>1 DEF Saved
<1>3. TypeOK'
  BY <1>1 DEF Saved, Moves, TypeInv, TypeOK, sessions, codes, counts
<1>4. \A q \in Reqs : req'[q] # req[q] =>
           /\ Shaped(req'[q]) /\ SoundReq(req'[q])
           /\ req'[q].pc = "activate_save" => member[req'[q].user][req'[q].sess.org] # None
  BY <1>1, MovesSound
<1>5. \A s \in Sids : sess'[s] # None => Sound(sess'[s])
  BY <1>1, StoredSound DEF sessions
<1> QED
  BY <1>2, <1>3, <1>4, <1>5, TypeNext

\* LoginAccept writes the row of the invitation.
LEMMA LoginAcceptSaves ==
  ASSUME TypeInv, NEW r \in Reqs, LoginAccept(r)
  PROVE  /\ Moves(r) /\ Keeps(r) /\ req'[r].pc = "login_del" /\ req[r].pc = "login_accept"
         /\ req[r].code \in Codes /\ spent' = [spent EXCEPT ![req[r].code] = @ + 1]
         /\ Saved(req[r].user, req[r].org)
         /\ UNCHANGED <<sessions, codes, sweeps, counts, ended, carried, contended, issued>>
<1>1. /\ req[r].pc = "login_accept" /\ Step(r, "login_del")
      /\ spent' = [spent EXCEPT ![req[r].code] = @ + 1]
      /\ UNCHANGED <<sessions, codes, sweeps, counts, ended, carried, contended, issued>>
  BY DEF LoginAccept, At
<1>2. Moves(r) /\ Keeps(r) /\ req'[r].pc = "login_del"
  BY <1>1, StepMoves
<1>3. req[r].user \in Users /\ req[r].code \in Codes /\ req[r].org \in Orgs
  BY <1>1, ReqFields DEF Shaped, LoginSteps
<1>4. PICK u \in Users, o \in Orgs : u = req[r].user /\ o = req[r].org
  BY <1>3
<1>5. Save(u, o, [active |-> TRUE, rights |-> defaultRights])
  BY <1>4 DEF LoginAccept, Save
<1>6. Saved(u, o)
  BY <1>5, RowExcept, SaveSaves
<1>7. Saved(req[r].user, req[r].org)
  BY <1>4, <1>6 DEF Saved
<1> QED
  BY <1>1, <1>2, <1>3, <1>7

LEMMA LoginAcceptType ==
  ASSUME TypeInv, NEW r \in Reqs, LoginAccept(r)
  PROVE  TypeInv'
<1>1. /\ Moves(r) /\ req'[r].pc = "login_del" /\ Saved(req[r].user, req[r].org)
      /\ req[r].code \in Codes /\ spent' = [spent EXCEPT ![req[r].code] = @ + 1]
      /\ UNCHANGED <<sessions, codes, sweeps, counts, ended, carried, contended, issued>>
  BY LoginAcceptSaves
<1>2. Kept /\ RowsHeld'
  BY <1>1 DEF Saved
<1>3. spent' \in [Codes -> Nat]
  BY <1>1 DEF TypeInv, TypeOK
<1>4. TypeOK'
  BY <1>1, <1>3 DEF Saved, Moves, TypeInv, TypeOK, sessions, codes, counts
<1>5. \A q \in Reqs : req'[q] # req[q] =>
           /\ Shaped(req'[q]) /\ SoundReq(req'[q])
           /\ req'[q].pc = "activate_save" => member[req'[q].user][req'[q].sess.org] # None
  BY <1>1, MovesSound
<1>6. \A s \in Sids : sess'[s] # None => Sound(sess'[s])
  BY <1>1, StoredSound DEF sessions
<1> QED
  BY <1>2, <1>4, <1>5, <1>6, TypeNext

\* SignUp writes a row where there is none.
LEMMA SignUpSaves ==
  ASSUME TypeInv, NEW u \in Users, NEW o \in Orgs, SignUp(u, o)
  PROVE  /\ Saved(u, o) /\ ~Exists(u) /\ \A v \in Users : member[v][o] = None
         /\ UNCHANGED <<sessions, codes, sweeps, req, counts, ended, carried, spent, contended,
                        issued>>
BY RowExcept, SaveSaves DEF SignUp

LEMMA SignUpType ==
  ASSUME TypeInv, NEW u \in Users, NEW o \in Orgs, SignUp(u, o)
  PROVE  TypeInv'
<1>1. /\ Saved(u, o)
      /\ UNCHANGED <<sessions, codes, sweeps, req, counts, ended, carried, spent, contended, issued>>
  BY SignUpSaves
<1>2. Kept /\ RowsHeld'
  BY <1>1 DEF Saved
<1>3. TypeOK'
  BY <1>1 DEF Saved, TypeInv, TypeOK, sessions, codes, counts
<1>4. \A s \in Sids : sess'[s] # None => Sound(sess'[s])
  BY <1>1, StoredSound DEF sessions
<1> QED
  BY <1>1, <1>2, <1>3, <1>4, TypeNext

\* InviteSet stores an invitation to the organization of the session.
LEMMA InviteSetInvites ==
  ASSUME TypeInv, NEW r \in Reqs, InviteSet(r)
  PROVE  /\ Moves(r) /\ Keeps(r) /\ req'[r].pc = "finish" /\ req[r].pc = "invite_set"
         /\ UNCHANGED <<member, sessions, sweeps, counts, held, ended, carried, spent, contended>>
         /\ \E i \in Invitation, c \in freshCodes :
              /\ issued' = issued \union {i}
              /\ freshCodes' = freshCodes \ {c} /\ invites' = [invites EXCEPT ![c] = i]
<1>1. /\ req[r].pc = "invite_set" /\ Step(r, "finish")
      /\ UNCHANGED <<member, sessions, sweeps, counts, held, ended, carried, spent, contended>>
  BY DEF InviteSet, At
<1>2. Moves(r) /\ Keeps(r) /\ req'[r].pc = "finish"
  BY <1>1, StepMoves DEF LoginSteps
<1>3. req[r].user \in Users /\ req[r].sess # None
  BY <1>1, ReqFields DEF Shaped, InviteSteps, LoginSteps
<1>4. req[r].sess.org \in Orgs
  BY <1>3, CopySound
<1>5. PICK i \in Invitation : i = [user |-> req[r].user, org |-> req[r].sess.org]
  BY <1>3, <1>4 DEF Invitation
<1>6. \E c \in freshCodes :
        /\ issued' = issued \union {i}
        /\ freshCodes' = freshCodes \ {c} /\ invites' = [invites EXCEPT ![c] = i]
  BY <1>5 DEF InviteSet
<1> QED
  BY <1>1, <1>2, <1>6

LEMMA InviteSetType ==
  ASSUME TypeInv, NEW r \in Reqs, InviteSet(r)
  PROVE  TypeInv'
<1>1. /\ Moves(r) /\ req'[r].pc = "finish"
      /\ UNCHANGED <<member, sessions, sweeps, counts, held, ended, carried, spent, contended>>
  BY InviteSetInvites
<1>2. PICK i \in Invitation, c \in freshCodes :
              /\ issued' = issued \union {i}
              /\ freshCodes' = freshCodes \ {c} /\ invites' = [invites EXCEPT ![c] = i]
  BY InviteSetInvites
<1>3. Kept /\ RowsHeld'
  BY <1>1, QuietKept
<1>4. invites' \in [Codes -> Invitation \union {None}]
  BY <1>2 DEF TypeInv, TypeOK
<1>5. TypeOK'
  BY <1>1, <1>2, <1>4 DEF Moves, TypeInv, TypeOK, sessions, counts
<1>6. \A q \in Reqs : req'[q] # req[q] =>
           /\ Shaped(req'[q]) /\ SoundReq(req'[q])
           /\ req'[q].pc = "activate_save" => member[req'[q].user][req'[q].sess.org] # None
  BY <1>1, MovesSound
<1>7. \A s \in Sids : sess'[s] # None => Sound(sess'[s])
  BY <1>1, StoredSound DEF sessions
<1> QED
  BY <1>3, <1>5, <1>6, <1>7, TypeNext

LEMMA LoginStepType ==
  ASSUME TypeInv, NEW r \in Reqs, LoginCode(r) \/ LoginDel(r) \/ Fails(r)
  PROVE  TypeInv'
<1>1. Moves(r) /\ req'[r].pc # "activate_save"
  <2>1. CASE LoginCode(r)
    BY <2>1, LoginCodeTakes DEF Takes
  <2>2. CASE LoginDel(r)
    BY <2>2, LoginDelDrops DEF Drops
  <2>3. CASE Fails(r)
    BY <2>3, FailsDrops DEF Drops
  <2> QED
    BY <2>1, <2>2, <2>3
<1>2. UNCHANGED <<member, sessions, freshCodes, sweeps, held, ended, carried, spent, issued>>
  BY DEF LoginCode, LoginDel, Fails, codes, history
<1>3. contended' \subseteq Codes
  <2>1. CASE LoginCode(r)
    BY <2>1, LoginCodeTakes DEF TypeInv, TypeOK
  <2>2. CASE LoginDel(r)
    BY <2>2 DEF LoginDel, history, TypeInv, TypeOK
  <2>3. CASE Fails(r)
    <3>1. req[r].code \in Codes \union {None}
      BY ReqFields DEF Request
    <3> QED
      BY <2>3, <3>1 DEF Fails, TypeInv, TypeOK
  <2> QED
    BY <2>1, <2>2, <2>3
<1>4. invites' \in [Codes -> Invitation \union {None}]
  BY DEF LoginCode, LoginDel, Fails, codes, TypeInv, TypeOK
<1>5. started' \in 0..MaxRequests /\ faults' \in 0..MaxFaults
  <2>1. CASE Fails(r)
    BY <2>1, Constants DEF Fails, TypeInv, TypeOK
  <2>2. CASE LoginCode(r) \/ LoginDel(r)
    <3>1. UNCHANGED counts
      BY <2>2 DEF LoginCode, LoginDel
    <3> QED
      BY <3>1, CountsKept
  <2> QED
    BY <2>1, <2>2
<1>6. Kept /\ RowsHeld'
  BY <1>2, QuietKept
<1>7. TypeOK'
  BY <1>1, <1>2, <1>3, <1>4, <1>5 DEF Moves, TypeInv, TypeOK, sessions
<1>8. \A q \in Reqs : req'[q] # req[q] =>
           /\ Shaped(req'[q]) /\ SoundReq(req'[q])
           /\ req'[q].pc = "activate_save" => member[req'[q].user][req'[q].sess.org] # None
  BY <1>1, MovesSound
<1>9. \A s \in Sids : sess'[s] # None => Sound(sess'[s])
  BY <1>2, StoredSound DEF sessions
<1> QED
  BY <1>6, <1>7, <1>8, <1>9, TypeNext

LEMMA LoginSessionType ==
  ASSUME TypeInv, NEW r \in Reqs, LoginSession(r)
  PROVE  TypeInv'
<1>1. PICK new \in freshSids :
           /\ LogsIn(r, new)
           /\ freshSids' = freshSids \ {new}
           /\ sess' = [s \in Sids |-> IF s = new THEN req[r].found
                                     ELSE IF s \in {req[r].sid} \ {None} THEN None ELSE sess[s]]
  BY LoginSessionLogsIn
<1>2. /\ ended' = ended \union ({req[r].sid} \ {None})
      /\ carried' = carried \union (Carried(r) \intersect ({req[r].sid} \ {None}))
      /\ UNCHANGED <<member, codes, sweeps, counts, held, spent, contended, issued>>
  BY DEF LoginSession
<1>3. req[r].pc = "login_session"
  BY <1>1 DEF LogsIn
<1>4. req[r].found \in Session /\ Sound(req[r].found) /\ req[r].sid \in Sids \union {None}
  BY <1>3, ReqFields, Constants DEF Shaped, LoginSteps, SoundReq, Request
<1>5. Moves(r) /\ req'[r].pc # "activate_save"
  BY <1>1 DEF LogsIn
<1>6. Kept /\ RowsHeld'
  BY <1>2, QuietKept
<1>7. sess' \in [Sids -> Session \union {None}]
  BY <1>1, <1>4 DEF TypeInv, TypeOK
<1>8. TypeOK'
  BY <1>1, <1>2, <1>4, <1>5, <1>7 DEF Moves, TypeInv, TypeOK, codes, counts
<1>9. \A q \in Reqs : req'[q] # req[q] =>
           /\ Shaped(req'[q]) /\ SoundReq(req'[q])
           /\ req'[q].pc = "activate_save" => member[req'[q].user][req'[q].sess.org] # None
  BY <1>5, MovesSound
<1>10. \A s \in Sids : sess'[s] # None => Sound(sess'[s])
  BY <1>1, <1>4 DEF TypeInv
<1> QED
  BY <1>6, <1>8, <1>9, <1>10, TypeNext

LEMMA EndType ==
  ASSUME TypeInv, NEW r \in Reqs, Finish(r) \/ Logout(r)
  PROVE  TypeInv'
<1>1. Moves(r) /\ req'[r].pc # "activate_save"
  BY FinishEnds, EndMoves, IdleShape DEF Ends
<1>2. UNCHANGED <<member, freshSids, codes, sweeps, counts, held, spent, contended, issued>>
  BY DEF Finish, Logout, history
<1>3. req[r].sid \in Sids \union {None} /\ req[r].sess \in Session \union {None}
  BY ReqFields DEF Request
<1>4. req[r].pc = "logout" => req[r].sid \in Sids
  BY ReqFields, <1>3 DEF Shaped, LoginSteps
<1>5. Logout(r) => req[r].sid \in Sids
  BY <1>4 DEF Logout, At
<1>6. ended' \subseteq Sids /\ carried' \subseteq ended'
  BY <1>5 DEF Finish, Logout, history, TypeInv, TypeOK
<1>7. sess' \in [Sids -> Session \union {None}]
  BY <1>3 DEF Finish, Logout, TypeInv, TypeOK
<1>8. Kept /\ RowsHeld'
  BY <1>2, QuietKept
<1>9. TypeOK'
  BY <1>1, <1>2, <1>6, <1>7 DEF Moves, TypeInv, TypeOK, codes, counts
<1>10. \A q \in Reqs : req'[q] # req[q] =>
           /\ Shaped(req'[q]) /\ SoundReq(req'[q])
           /\ req'[q].pc = "activate_save" => member[req'[q].user][req'[q].sess.org] # None
  BY <1>1, MovesSound
<1>11. \A s \in Sids : sess'[s] # None => Sound(sess'[s])
  <2>1. req[r].sess # None => Sound(req[r].sess)
    BY CopySound
  <2> QED
    BY <2>1 DEF Finish, Logout, TypeInv, TypeOK
<1> QED
  BY <1>8, <1>9, <1>10, <1>11, TypeNext

LEMMA NewSweep ==
  ASSUME NEW u \in Users
  PROVE  [user |-> u, phase |-> "get", sids |-> {}] \in Sweep
BY DEF Sweep

LEMMA StartLoginType ==
  ASSUME TypeInv, NEW r \in Reqs, StartLogin(r)
  PROVE  TypeInv'
<1>1. Moves(r) /\ req'[r].pc # "activate_save"
  BY StartLoginComes DEF LoginComes
<1>2. sweeps' \subseteq Sweep
  BY StartLoginComes, NewSweep DEF TypeInv, TypeOK
<1>3. UNCHANGED <<member, sessions, codes, history>> /\ Arrives(r)
  BY DEF StartLogin
<1>4. started' \in 0..MaxRequests /\ faults' \in 0..MaxFaults
  BY <1>3, ArrivesCounts
<1>5. Kept /\ RowsHeld'
  BY <1>3, QuietKept DEF history
<1>6. TypeOK'
  BY <1>1, <1>2, <1>3, <1>4 DEF Moves, TypeInv, TypeOK, sessions, codes, history
<1>7. \A q \in Reqs : req'[q] # req[q] =>
           /\ Shaped(req'[q]) /\ SoundReq(req'[q])
           /\ req'[q].pc = "activate_save" => member[req'[q].user][req'[q].sess.org] # None
  BY <1>1, MovesSound
<1>8. \A s \in Sids : sess'[s] # None => Sound(sess'[s])
  BY <1>3, StoredSound DEF sessions
<1> QED
  BY <1>5, <1>6, <1>7, <1>8, TypeNext

LEMMA SweepGets ==
  ASSUME TypeInv, NEW w \in sweeps, SweepGet(w)
  PROVE  /\ w.phase = "get" /\ w.user \in Users
         /\ \E v \in Sweep : /\ v.user = w.user /\ v.phase = "del" /\ v.sids = Due(w.user)
                             /\ sweeps' = (sweeps \ {w}) \union {v}
         /\ UNCHANGED <<member, sessions, codes, req, counts, history>>
<1>1. w \in Sweep
  BY DEF TypeInv, TypeOK
<1>2. w.user \in Users /\ Due(w.user) \in SUBSET Sids
  BY <1>1 DEF Sweep, Due
<1>3. \A d \in SUBSET Sids, x \in Sweep :
        /\ [x EXCEPT !.phase = "del", !.sids = d] \in Sweep
        /\ [x EXCEPT !.phase = "del", !.sids = d].user = x.user
        /\ [x EXCEPT !.phase = "del", !.sids = d].phase = "del"
        /\ [x EXCEPT !.phase = "del", !.sids = d].sids = d
  BY DEF Sweep
<1> DEFINE v == [w EXCEPT !.phase = "del", !.sids = Due(w.user)]
<1>4. v \in Sweep /\ v.user = w.user /\ v.phase = "del" /\ v.sids = Due(w.user)
  BY <1>1, <1>2, <1>3
<1>5. sweeps' = (sweeps \ {w}) \union {v}
  BY DEF SweepGet
<1> HIDE DEF v
<1>6. w.phase = "get" /\ UNCHANGED <<member, sessions, codes, req, counts, history>>
  BY DEF SweepGet
<1> QED
  BY <1>2, <1>4, <1>5, <1>6

LEMMA SweepDels ==
  ASSUME TypeInv, NEW w \in sweeps, SweepDel(w)
  PROVE  /\ w \in Sweep /\ w.phase = "del" /\ w.sids \subseteq Sids
         /\ sess' = [s \in Sids |-> IF s \in w.sids THEN None ELSE sess[s]]
         /\ sweeps' = sweeps \ {w}
         /\ ended' = ended \union w.sids
         /\ carried' = carried \union ({req[q].sid : q \in Reqs} \intersect w.sids)
         /\ UNCHANGED <<member, freshSids, codes, req, counts, held, spent, contended, issued>>
BY DEF SweepDel, TypeInv, TypeOK, Sweep

LEMMA WorldType ==
  ASSUME TypeInv,
         \/ \E u \in Users : PasswordReset(u)
         \/ \E w \in sweeps : SweepGet(w)
         \/ \E w \in sweeps : SweepDel(w)
         \/ UNCHANGED vars
  PROVE  TypeInv'
<1>1. UNCHANGED <<member, held, req>>
  BY DEF PasswordReset, SweepGet, SweepDel, vars, history
<1>2. Kept /\ RowsHeld'
  BY <1>1, QuietKept
<1>3. TypeOK'
  <2>1. ASSUME NEW u \in Users, PasswordReset(u) PROVE TypeOK'
    <3>1. UNCHANGED <<member, sessions, codes, req, faults, history>> /\ started' \in 0..MaxRequests
      BY <2>1, Constants DEF PasswordReset, TypeInv, TypeOK
    <3>2. sweeps' \subseteq Sweep
      BY <2>1, NewSweep DEF PasswordReset, TypeInv, TypeOK
    <3> QED
      BY <3>1, <3>2 DEF TypeInv, TypeOK, sessions, codes, history
  <2>2. ASSUME NEW w \in sweeps, SweepGet(w) PROVE TypeOK'
    BY <2>2, SweepGets DEF TypeInv, TypeOK, sessions, codes, counts, history
  <2>3. ASSUME NEW w \in sweeps, SweepDel(w) PROVE TypeOK'
    BY <2>3, SweepDels DEF TypeInv, TypeOK, codes, counts
  <2>4. CASE UNCHANGED vars
    BY <2>4 DEF vars, TypeInv, TypeOK, sessions, codes, counts, history
  <2> QED
    BY <2>1, <2>2, <2>3, <2>4
<1>4. \A s \in Sids : sess'[s] # None => sess'[s] = sess[s]
  <2>1. (\E w \in sweeps : SweepDel(w)) \/ sess' = sess
    BY DEF PasswordReset, SweepGet, vars, sessions
  <2> QED
    BY <2>1, SweepDels
<1>5. \A s \in Sids : sess'[s] # None => Sound(sess'[s])
  BY <1>4, StoredSound
<1> QED
  BY <1>1, <1>2, <1>3, <1>5, TypeNext

LEMMA RestartType ==
  ASSUME TypeInv, Restart
  PROVE  TypeInv'
<1>1. /\ req' = [r \in Reqs |-> Idle] /\ sweeps' = {} /\ started' = started /\ faults' \in 0..MaxFaults
      /\ contended' = contended \union ({req[r].code : r \in Reqs} \ {None})
      /\ UNCHANGED <<member, sessions, codes, held, ended, carried, spent, issued>>
  BY Constants DEF Restart, TypeInv, TypeOK
<1>2. Kept /\ RowsHeld'
  BY <1>1, QuietKept
<1>3. \A r \in Reqs : req[r].code \in Codes \union {None}
  BY ReqFields DEF Request
<1>4. contended' \subseteq Codes
  BY <1>1, <1>3 DEF TypeInv, TypeOK
<1>5. TypeOK'
  BY <1>1, <1>4, IdleShape DEF TypeInv, TypeOK, sessions, codes
<1>6. \A q \in Reqs : Shaped(req'[q]) /\ SoundReq(req'[q]) /\ req'[q].pc # "activate_save"
  BY <1>1, IdleShape
<1>7. \A s \in Sids : sess'[s] # None => Sound(sess'[s])
  BY <1>1, StoredSound DEF sessions
<1> QED
  BY <1>2, <1>5, <1>6, <1>7, TypeNext

LEMMA TypeInit ==
  ASSUME Init
  PROVE  TypeInv
<1>1. PICK d \in Stores : member = d.member /\ sess = d.sess
  BY DEF Init
<1>2. /\ member \in [Users -> [Orgs -> Member \union {None}]]
      /\ sess \in [Sids -> Session \union {None}]
      /\ \A s \in Sids : sess[s] # None =>
           /\ sess[s].org \in sess[s].orgs
           /\ \A o \in sess[s].orgs : member[sess[s].user][o] # None
  BY <1>1, AccessAssumption
<1>3. \A u \in Users, o \in Orgs : member[u][o] # None => member[u][o].rights \in Rights
  BY <1>2 DEF Member
<1>4. \A s \in Sids : sess[s] # None => sess[s].rights \in Rights /\ sess[s].user \in Users
  BY <1>2 DEF Session
<1>5. ASSUME NEW u \in Users
      PROVE  held[u] = {member[u][o].rights : o \in {p \in Orgs : member[u][p] # None}}
                \union {sess[s].rights : s \in {t \in Sids : sess[t] # None /\ sess[t].user = u}}
  BY DEF Init
<1>6. held \in [Users -> SUBSET Rights]
  <2>1. ASSUME NEW u \in Users PROVE held[u] \subseteq Rights
    <3>1. {member[u][o].rights : o \in {p \in Orgs : member[u][p] # None}} \subseteq Rights
      BY <1>3
    <3>2. {sess[s].rights : s \in {t \in Sids : sess[t] # None /\ sess[t].user = u}}
            \subseteq Rights
      BY <1>4
    <3> QED
      BY <1>5, <3>1, <3>2
  <2>2. held = [u \in Users |-> held[u]]
    BY DEF Init
  <2> QED
    BY <2>1, <2>2
<1>7. RowsHeld
  BY <1>5 DEF RowsHeld
<1>8. \A s \in Sids : sess[s] # None => Sound(sess[s])
  BY <1>2, <1>4, <1>5 DEF Sound
<1>9. /\ \A r \in Reqs : req[r] = Idle
      /\ req \in [Reqs -> Request]
  BY IdleShape DEF Init
<1>10. \A r \in Reqs : Shaped(req[r]) /\ SoundReq(req[r])
  BY <1>9, IdleShape
<1>11. RowsThere
  BY <1>9, IdleShape DEF RowsThere
<1>12. /\ freshSids \subseteq Sids /\ invites \in [Codes -> Invitation \union {None}]
       /\ freshCodes \subseteq Codes /\ sweeps \subseteq Sweep
       /\ started \in 0..MaxRequests /\ faults \in 0..MaxFaults
       /\ ended \subseteq Sids /\ carried \subseteq ended
       /\ spent \in [Codes -> Nat] /\ contended \subseteq Codes /\ issued \subseteq Invitation
  BY Constants DEF Init
<1>13. TypeOK
  BY <1>2, <1>6, <1>9, <1>12 DEF TypeOK
<1> QED
  BY <1>7, <1>8, <1>10, <1>11, <1>13 DEF TypeInv

LEMMA RequestType ==
  ASSUME TypeInv, NEW r \in Reqs, RequestStep(r)
  PROVE  TypeInv'
<1>1. CASE StartsGuarded(r) \/ StartsPlain(r) \/ Finds(r) \/ Renews(r)
  BY <1>1, GuardedStarts, PlainStarts, FindsFind, RenewsRenew, OnlyMovesType
<1>2. CASE Writes(r) \/ InviteSet(r) \/ LoginAccept(r)
  BY <1>2, WritesType, InviteSetType, LoginAcceptType
<1>3. CASE Finish(r) \/ Logout(r) \/ StartLogin(r) \/ LoginSession(r)
  BY <1>3, EndType, StartLoginType, LoginSessionType
<1>4. CASE LoginCode(r) \/ LoginDel(r) \/ Fails(r)
  BY <1>4, LoginStepType
<1> QED
  BY <1>1, <1>2, <1>3, <1>4 DEF RequestStep

LEMMA TypeStep ==
  ASSUME TypeInv, [Next]_vars
  PROVE  TypeInv'
BY StepCases, RequestType, SignUpType, WorldType, RestartType

LEMMA Typed == Spec => []TypeInv
<1>1. Init => TypeInv
  BY TypeInit
<1>2. TypeInv /\ [Next]_vars => TypeInv'
  BY TypeStep
<1> QED
  BY <1>1, <1>2, PTL DEF Spec

\* Every variable of Access keeps its type.
THEOREM TypeCorrect == Spec => []TypeOK
<1>1. TypeInv => TypeOK
  BY DEF TypeInv
<1> QED
  BY <1>1, Typed, PTL

LEMMA CopiesSound ==
  ASSUME TypeInv, NEW s \in Copies
  PROVE  Sound(s)
<1>1. PICK c \in Copies : c = s
  OBVIOUS
<1>2. \/ \E t \in Sids : c = sess[t] /\ sess[t] # None
      \/ \E r \in Reqs : c = req[r].sess /\ req[r].sess # None
      \/ \E r \in Reqs : c = req[r].found /\ req[r].found # None
  BY DEF Copies
<1>3. ASSUME NEW t \in Sids, c = sess[t], sess[t] # None PROVE Sound(c)
  BY <1>3 DEF TypeInv, Sound
<1>4. ASSUME NEW r \in Reqs, c = req[r].sess \/ c = req[r].found, c # None PROVE Sound(c)
  BY <1>4, ReqFields DEF SoundReq, Sound
<1>5. Sound(c)
  BY <1>2, <1>3, <1>4
<1> QED
  BY <1>1, <1>5 DEF Sound

\* SessionOrgs, whatever requests, memberships and restarts do: a copy of a user works in one of
\* its organizations, and in each of them the user has a row.
THEOREM CopiesInOrganizations == Spec => []SessionOrgs
<1>1. TypeInv => SessionOrgs
  BY CopiesSound DEF SessionOrgs, Sound
<1> QED
  BY <1>1, Typed, PTL

\* RightsOnceHeld: the rights of a copy are rights its user has had in some organization.
THEOREM RightsWereHeld == Spec => []RightsOnceHeld
<1>1. TypeInv => RightsOnceHeld
  BY CopiesSound DEF RightsOnceHeld, Sound
<1> QED
  BY <1>1, Typed, PTL

-----------------------------------------------------------------------------
(* Where the session of a request comes from. *)

\* The request goes on with its session, or gives it up.
Follows(q) ==
  \/ req'[q].sid = None /\ req'[q].need = None
  \/ /\ req'[q].sid = req[q].sid /\ req'[q].sess.user = req[q].sess.user
     /\ req'[q].need \in {req[q].need, None}

\* It comes with a session of Redis, which has the right that its guard asks for.
Loads(q) ==
  /\ req'[q].sid \in Sids /\ sess[req'[q].sid] # None
  /\ req'[q].sess.user = sess[req'[q].sid].user
  /\ req'[q].need # None => Allowed(sess[req'[q].sid], req'[q].need)

LEMMA OthersFollow ==
  ASSUME NEW r, Moves(r), NEW q \in Reqs \ {r}
  PROVE  Follows(q)
BY DEF Moves, Follows

LEMMA KeepsFollows ==
  ASSUME NEW r, Keeps(r) \/ Drops(r) \/ Refreshes(r)
  PROVE  Follows(r)
BY DEF Keeps, Drops, Refreshes, Follows

LEMMA ComesLoads ==
  ASSUME NEW r, NEW sid \in Sids, NEW s, NEW route, Comes(r, sid, s, route),
         route # None => Allowed(sess[sid], route)
  PROVE  Loads(r)
BY DEF Comes, Loads

\* The steps of requests that store and delete no session.
Storeless(r) ==
  \/ StartsGuarded(r) \/ StartsPlain(r) \/ Finds(r) \/ Writes(r) \/ Renews(r) \/ InviteSet(r)
  \/ StartLogin(r) \/ LoginCode(r) \/ LoginAccept(r) \/ LoginDel(r) \/ Fails(r)

LEMMA StorelessFollows ==
  ASSUME TypeInv, NEW r \in Reqs, Storeless(r)
  PROVE  Moves(r) /\ (Follows(r) \/ Loads(r))
<1>1. CASE StartsGuarded(r)
  BY <1>1, GuardedStarts, ComesLoads DEF OnlyMoves
<1>2. CASE StartsPlain(r)
  <2>1. OnlyMoves(r) /\ \E sid \in Sids, s \in Session : Comes(r, sid, s, None)
    BY <1>2, PlainStarts
  <2> QED
    BY <2>1, ComesLoads DEF OnlyMoves
<1>3. CASE Finds(r) \/ Renews(r)
  BY <1>3, FindsFind, RenewsRenew, KeepsFollows DEF OnlyMoves
<1>4. CASE Writes(r) \/ InviteSet(r) \/ LoginAccept(r)
  BY <1>4, WritesSave, InviteSetInvites, LoginAcceptSaves, KeepsFollows
<1>6. CASE StartLogin(r)
  <2>1. LoginComes(r)
    BY <1>6, StartLoginComes
  <2>2. req'[r] \in Request /\ Moves(r)
    BY <2>1 DEF LoginComes, Moves
  <2>3. CASE req'[r].sid = None
    BY <2>1, <2>2, <2>3 DEF LoginComes, Follows
  <2>4. CASE req'[r].sid # None
    BY <2>1, <2>2, <2>4 DEF LoginComes, Loads, Request
  <2> QED
    BY <2>2, <2>3, <2>4
<1>7. CASE LoginCode(r)
  <2>1. (Moves(r) /\ Keeps(r)) \/ \E c \in Codes : Takes(r, c)
    BY <1>7, LoginCodeTakes
  <2>2. ASSUME NEW c \in Codes, Takes(r, c) PROVE Moves(r) /\ Follows(r)
    BY <2>2 DEF Takes, Follows
  <2> QED
    BY <2>1, <2>2, KeepsFollows
<1>8. CASE LoginDel(r) \/ Fails(r)
  <2>1. Drops(r)
    BY <1>8, LoginDelDrops, FailsDrops
  <2> QED
    BY <2>1, KeepsFollows DEF Drops
<1> QED
  BY <1>1, <1>2, <1>3, <1>4, <1>6, <1>7, <1>8 DEF Storeless

LEMMA RequestFollows ==
  ASSUME TypeInv, NEW r \in Reqs, RequestStep(r)
  PROVE  Moves(r) /\ (Follows(r) \/ Loads(r) \/ \E new \in freshSids : LogsIn(r, new))
<1>1. CASE Storeless(r)
  BY <1>1, StorelessFollows
<1>2. CASE Finish(r) \/ Logout(r)
  <2>1. Ends(r)
    BY <1>2, FinishEnds
  <2> QED
    BY <2>1, EndMoves, IdleShape DEF Ends, Follows
<1>3. CASE LoginSession(r)
  BY <1>3, LoginSessionLogsIn DEF LogsIn
<1> QED
  BY <1>1, <1>2, <1>3 DEF RequestStep, Storeless

LEMMA StepFollows ==
  ASSUME TypeInv, [Next]_vars
  PROVE  \A q \in Reqs : Follows(q) \/ Loads(q) \/ \E new \in freshSids : LogsIn(q, new)
<1>1. ASSUME NEW r \in Reqs, RequestStep(r), NEW q \in Reqs
      PROVE  Follows(q) \/ Loads(q) \/ \E new \in freshSids : LogsIn(q, new)
  BY <1>1, RequestFollows, OthersFollow
<1>2. ASSUME UNCHANGED req, NEW q \in Reqs PROVE Follows(q)
  BY <1>2 DEF Follows
<1>3. ASSUME Restart, NEW q \in Reqs PROVE Follows(q)
  BY <1>3, IdleShape DEF Restart, Follows
<1>4. (\E r \in Reqs : RequestStep(r)) \/ UNCHANGED req \/ Restart
  BY StepCases DEF PasswordReset, SignUp, SweepGet, SweepDel, vars
<1> QED
  BY <1>1, <1>2, <1>3, <1>4

LEMMA StepKept ==
  ASSUME TypeInv, [Next]_vars
  PROVE  Kept
<1>1. ASSUME NEW r \in Reqs, RequestStep(r) PROVE Kept
  <2>1. CASE Writes(r) \/ LoginAccept(r)
    BY <2>1, WritesSave, LoginAcceptSaves DEF Saved
  <2>2. CASE StartsGuarded(r) \/ StartsPlain(r) \/ Finds(r) \/ Renews(r)
    <3>1. OnlyMoves(r)
      BY <2>2, GuardedStarts, PlainStarts, FindsFind, RenewsRenew
    <3> QED
      BY <3>1, QuietKept DEF OnlyMoves, history
  <2>3. CASE \/ InviteSet(r) \/ Finish(r) \/ Logout(r) \/ StartLogin(r) \/ LoginCode(r)
             \/ LoginDel(r) \/ LoginSession(r) \/ Fails(r)
    <3>1. UNCHANGED <<member, held>>
      BY <2>3 DEF InviteSet, Finish, Logout, StartLogin, LoginCode, LoginDel, LoginSession,
                  Fails, history
    <3> QED
      BY <3>1, QuietKept
  <2> QED
    BY <1>1, <2>1, <2>2, <2>3 DEF RequestStep
<1>2. ASSUME NEW u \in Users, NEW o \in Orgs, SignUp(u, o) PROVE Kept
  BY <1>2, SignUpSaves DEF Saved
<1>3. ASSUME UNCHANGED <<member, held>> PROVE Kept
  BY <1>3, QuietKept
<1>4. \/ \E r \in Reqs : RequestStep(r)
      \/ \E u \in Users, o \in Orgs : SignUp(u, o)
      \/ UNCHANGED <<member, held>>
  BY StepCases DEF PasswordReset, SweepGet, SweepDel, Restart, vars, history
<1> QED
  BY <1>1, <1>2, <1>3, <1>4

-----------------------------------------------------------------------------
(* Handlers run for users who have had the right. *)

LEMMA RightsStep ==
  ASSUME TypeInv, [Next]_vars, HandlerRights
  PROVE  HandlerRights'
<1> SUFFICES ASSUME NEW q \in Reqs, req'[q].need # None
             PROVE  \E h \in held'[req'[q].sess.user] : h[req'[q].need.entity] >= req'[q].need.level
  BY DEF HandlerRights
<1>1. TypeInv'
  BY TypeStep
<1>2. /\ req' \in [Reqs -> Request] /\ req'[q] \in Request
      /\ Shaped(req'[q])
  BY <1>1 DEF TypeInv, TypeOK, Shaped
<1>3. req'[q].sess # None /\ req'[q].sess \in Session /\ req'[q].sid # None
  BY <1>2 DEF Shaped, Request
<1>4. req'[q].sess.user \in Users
  BY <1>3 DEF Session
<1>5. held[req'[q].sess.user] \subseteq held'[req'[q].sess.user]
  BY <1>4, StepKept DEF Kept
<1>6. CASE Follows(q)
  <2>1. req'[q].need = req[q].need /\ req'[q].sess.user = req[q].sess.user
    BY <1>3, <1>6 DEF Follows
  <2>2. \E h \in held[req[q].sess.user] : h[req[q].need.entity] >= req[q].need.level
    BY <2>1 DEF HandlerRights
  <2> QED
    BY <1>5, <2>1, <2>2
<1>7. CASE Loads(q)
  <2>1. PICK s \in Session : s = sess[req'[q].sid]
    BY <1>7 DEF Loads, TypeInv, TypeOK
  <2>2. Sound(s) /\ s.user = req'[q].sess.user /\ Allowed(s, req'[q].need)
    BY <1>7, <2>1 DEF Loads, TypeInv
  <2>3. s.rights \in held[req'[q].sess.user]
    BY <2>2 DEF Sound
  <2>4. s.rights[req'[q].need.entity] >= req'[q].need.level
    BY <2>2 DEF Allowed
  <2> QED
    BY <1>5, <2>3, <2>4
<1>8. CASE \E new \in freshSids : LogsIn(q, new)
  BY <1>8 DEF LogsIn
<1> QED
  BY <1>6, <1>7, <1>8, StepFollows

\* HandlerRights, however the rights of its user change while the handler runs.
THEOREM HandlersHaveRights == Spec => []HandlerRights
<1>1. Init => HandlerRights
  BY IdleShape DEF Init, HandlerRights
<1>2. TypeInv /\ [Next]_vars /\ HandlerRights => HandlerRights'
  BY RightsStep
<1> QED
  BY <1>1, <1>2, Typed, PTL DEF Spec

-----------------------------------------------------------------------------
(* Sessions that have ended stay so. *)

\* Nothing knows an id that no session has had.
FreshUnknown ==
  \A s \in freshSids : /\ sess[s] = None /\ s \notin ended
                       /\ \A r \in Reqs : req[r].sid # s
                       /\ \A w \in sweeps : s \notin w.sids

\* A session that no request carried when it ended is carried by none afterwards.
EndedNotCarried ==
  \A s \in ended \ carried : sess[s] = None /\ \A r \in Reqs : req[r].sid # s

EndInv == FreshUnknown /\ EndedNotCarried

\* The steps that store and delete no session.
LEMMA EndQuiet ==
  ASSUME TypeInv, EndInv, UNCHANGED <<sess, freshSids, ended, carried>>,
         \A q \in Reqs : Follows(q) \/ Loads(q),
         \A w \in sweeps', s \in Sids : s \in w.sids => sess[s] # None \/ \E v \in sweeps : s \in v.sids
  PROVE  EndInv'
<1>1. ASSUME NEW s \in Sids, sess[s] = None, \A r \in Reqs : req[r].sid # s, NEW q \in Reqs
      PROVE  req'[q].sid # s
  <2>1. s # None
    BY Constants
  <2> QED
    BY <1>1, <2>1 DEF Follows, Loads
<1>2. freshSids \subseteq Sids /\ ended \subseteq Sids
  BY DEF TypeInv, TypeOK
<1>3. FreshUnknown'
  BY <1>1, <1>2 DEF EndInv, FreshUnknown
<1>4. EndedNotCarried'
  BY <1>1, <1>2 DEF EndInv, EndedNotCarried
<1> QED
  BY <1>3, <1>4 DEF EndInv

LEMMA FinishEnd ==
  ASSUME TypeInv, EndInv, NEW r \in Reqs, Finish(r)
  PROVE  EndInv'
<1>1. /\ sess' = [s \in Sids |-> IF s = req[r].sid THEN req[r].sess ELSE sess[s]]
      /\ UNCHANGED <<freshSids, sweeps, ended, carried>>
  BY DEF Finish, history
<1>2. /\ req'[r].sid = None
      /\ \A q \in Reqs \ {r} : req'[q] = req[q]
  BY FinishEnds, IdleShape DEF Ends
<1>3. freshSids \subseteq Sids /\ ended \subseteq Sids /\ None \notin Sids
  BY Constants DEF TypeInv, TypeOK
<1>4. FreshUnknown'
  BY <1>1, <1>2, <1>3 DEF EndInv, FreshUnknown
<1>5. EndedNotCarried'
  BY <1>1, <1>2, <1>3 DEF EndInv, EndedNotCarried
<1> QED
  BY <1>4, <1>5 DEF EndInv

LEMMA LogoutEnd ==
  ASSUME TypeInv, EndInv, NEW r \in Reqs, Logout(r)
  PROVE  EndInv'
<1>1. /\ sess' = [sess EXCEPT ![req[r].sid] = None]
      /\ ended' = ended \union {req[r].sid}
      /\ carried' = carried \union (Carried(r) \intersect {req[r].sid})
      /\ UNCHANGED <<freshSids, sweeps>>
  BY DEF Logout
<1>2. /\ req'[r].sid = None
      /\ \A q \in Reqs \ {r} : req'[q] = req[q]
  BY FinishEnds, IdleShape DEF Ends
<1>3. freshSids \subseteq Sids /\ ended \subseteq Sids /\ None \notin Sids
      /\ sess \in [Sids -> Session \union {None}]
  BY Constants DEF TypeInv, TypeOK
<1>6. req[r].sid \in Sids
  <2>1. req[r].pc = "logout"
    BY DEF Logout, At
  <2> QED
    BY <2>1, ReqFields DEF Shaped, LoginSteps, Request
<1>4. FreshUnknown'
  BY <1>1, <1>2, <1>3 DEF EndInv, FreshUnknown
<1>5. ASSUME NEW s \in ended' \ carried'
      PROVE  sess'[s] = None /\ \A q \in Reqs : req'[q].sid # s
  <2>1. s \in Sids
    BY <1>1, <1>3, <1>5, <1>6
  <2>2. CASE s \in ended
    BY <1>1, <1>2, <1>3, <1>5, <2>1, <2>2 DEF EndInv, EndedNotCarried
  <2>3. CASE s = req[r].sid
    <3>1. \A q \in Reqs \ {r} : req[q].sid # s
      BY <1>1, <1>3, <1>5, <2>1, <2>3 DEF Carried
    <3> QED
      BY <1>1, <1>2, <1>3, <2>1, <2>3, <3>1
  <2> QED
    BY <1>1, <1>5, <2>2, <2>3
<1> QED
  BY <1>4, <1>5 DEF EndInv, EndedNotCarried

LEMMA LoginSessionEnd ==
  ASSUME TypeInv, EndInv, NEW r \in Reqs, LoginSession(r)
  PROVE  EndInv'
<1>1. PICK new \in freshSids :
           /\ LogsIn(r, new)
           /\ freshSids' = freshSids \ {new}
           /\ sess' = [s \in Sids |-> IF s = new THEN req[r].found
                                     ELSE IF s \in {req[r].sid} \ {None} THEN None ELSE sess[s]]
  BY LoginSessionLogsIn
<1>2. /\ ended' = ended \union ({req[r].sid} \ {None})
      /\ carried' = carried \union (Carried(r) \intersect ({req[r].sid} \ {None}))
      /\ UNCHANGED sweeps
  BY DEF LoginSession
<1>3. /\ req'[r].sid = new
      /\ \A q \in Reqs \ {r} : req'[q] = req[q]
  BY <1>1 DEF LogsIn, Moves
<1>4. freshSids \subseteq Sids /\ ended \subseteq Sids /\ None \notin Sids
      /\ req[r].sid \in Sids \union {None}
  BY ReqFields, Constants DEF TypeInv, TypeOK, Request
<1>5. FreshUnknown'
  BY <1>1, <1>2, <1>3, <1>4 DEF EndInv, FreshUnknown
<1>6. ASSUME NEW s \in ended' \ carried'
      PROVE  sess'[s] = None /\ \A q \in Reqs : req'[q].sid # s
  <2>1. s \in Sids
    BY <1>2, <1>4
  <2>2. s # new
    BY <1>1, <1>2, <1>6 DEF EndInv, FreshUnknown
  <2>3. CASE s \in ended
    BY <1>1, <1>2, <1>3, <1>6, <2>1, <2>2, <2>3 DEF EndInv, EndedNotCarried
  <2>4. CASE s = req[r].sid
    <3>1. \A q \in Reqs \ {r} : req[q].sid # s
      BY <1>2, <1>4, <1>6, <2>1, <2>4 DEF Carried
    <3> QED
      BY <1>1, <1>3, <1>4, <2>1, <2>2, <2>4, <3>1
  <2> QED
    BY <1>2, <1>6, <2>3, <2>4
<1> QED
  BY <1>5, <1>6 DEF EndInv, EndedNotCarried

LEMMA SweepDelEnd ==
  ASSUME TypeInv, EndInv, NEW w \in sweeps, SweepDel(w)
  PROVE  EndInv'
<1>1. /\ w.sids \subseteq Sids
      /\ sess' = [s \in Sids |-> IF s \in w.sids THEN None ELSE sess[s]]
      /\ sweeps' = sweeps \ {w}
      /\ ended' = ended \union w.sids
      /\ carried' = carried \union ({req[q].sid : q \in Reqs} \intersect w.sids)
      /\ UNCHANGED <<freshSids, req>>
  BY SweepDels
<1>2. freshSids \subseteq Sids /\ ended \subseteq Sids
  BY DEF TypeInv, TypeOK
<1>3. FreshUnknown'
  BY <1>1, <1>2 DEF EndInv, FreshUnknown
<1>4. EndedNotCarried'
  BY <1>1, <1>2 DEF EndInv, EndedNotCarried
<1> QED
  BY <1>3, <1>4 DEF EndInv

LEMMA StorelessKeeps ==
  ASSUME TypeInv, NEW r \in Reqs, Storeless(r)
  PROVE  /\ UNCHANGED <<sess, freshSids, ended, carried>> /\ sweeps \subseteq sweeps'
         /\ \A w \in sweeps' : w \in sweeps \/ (w.phase = "get" /\ w.sids = {})
         /\ \A q \in Reqs : Follows(q) \/ Loads(q)
<1>1. UNCHANGED <<sess, freshSids, ended, carried>> /\ (UNCHANGED sweeps \/ StartLogin(r))
  <2>1. CASE StartsGuarded(r) \/ StartsPlain(r) \/ Finds(r) \/ Renews(r)
    BY <2>1, GuardedStarts, PlainStarts, FindsFind, RenewsRenew
       DEF OnlyMoves, sessions, history
  <2>2. CASE Writes(r) \/ InviteSet(r) \/ LoginAccept(r)
    BY <2>2, WritesSave, InviteSetInvites, LoginAcceptSaves DEF sessions
  <2>3. CASE StartLogin(r) \/ LoginCode(r) \/ LoginDel(r) \/ Fails(r)
    BY <2>3 DEF StartLogin, LoginCode, LoginDel, Fails, sessions, history
  <2> QED
    BY <2>1, <2>2, <2>3 DEF Storeless
<1>2. /\ sweeps \subseteq sweeps'
      /\ \A w \in sweeps' : w \in sweeps \/ (w.phase = "get" /\ w.sids = {})
  <2>1. CASE StartLogin(r)
    <3>1. \E v : sweeps' = sweeps \union {v} /\ v.phase = "get" /\ v.sids = {}
      <4>1. \E u \in Users : sweeps' = sweeps \union {[user |-> u, phase |-> "get", sids |-> {}]}
        BY <2>1 DEF StartLogin
      <4>2. PICK u : sweeps' = sweeps \union {[user |-> u, phase |-> "get", sids |-> {}]}
        BY <4>1
      <4> DEFINE v == [user |-> u, phase |-> "get", sids |-> {}]
      <4>3. sweeps' = sweeps \union {v} /\ v.phase = "get" /\ v.sids = {}
        BY <4>2
      <4> HIDE DEF v
      <4> QED
        BY <4>3
    <3>2. PICK v : sweeps' = sweeps \union {v} /\ v.phase = "get" /\ v.sids = {}
      BY <3>1
    <3> QED
      BY <3>2
  <2>2. CASE UNCHANGED sweeps
    BY <2>2
  <2> QED
    BY <1>1, <2>1, <2>2
<1>3. \A q \in Reqs : Follows(q) \/ Loads(q)
  BY StorelessFollows, OthersFollow
<1> QED
  BY <1>1, <1>2, <1>3

LEMMA StorelessEnd ==
  ASSUME TypeInv, EndInv, NEW r \in Reqs, Storeless(r)
  PROVE  EndInv'
<1>1. /\ UNCHANGED <<sess, freshSids, ended, carried>>
      /\ \A w \in sweeps' : w \in sweeps \/ (w.phase = "get" /\ w.sids = {})
      /\ \A q \in Reqs : Follows(q) \/ Loads(q)
  BY StorelessKeeps
<1> QED
  BY <1>1, EndQuiet

LEMMA WorldEnd ==
  ASSUME TypeInv, EndInv,
         \/ \E u \in Users : PasswordReset(u)
         \/ \E u \in Users, o \in Orgs : SignUp(u, o)
         \/ \E w \in sweeps : SweepGet(w)
         \/ Restart
         \/ UNCHANGED vars
  PROVE  EndInv'
<1>1. UNCHANGED <<sess, freshSids, ended, carried>>
  BY DEF PasswordReset, SignUp, SweepGet, Restart, vars, sessions, history
<1>2. UNCHANGED req \/ Restart
  BY DEF PasswordReset, SignUp, SweepGet, vars
<1>3. \A q \in Reqs : Follows(q)
  BY <1>2, IdleShape DEF Restart, Follows
<1>4. \A w \in sweeps', s \in Sids :
        s \in w.sids => sess[s] # None \/ \E v \in sweeps : s \in v.sids
  <2>1. ASSUME NEW u \in Users, PasswordReset(u), NEW w \in sweeps'
        PROVE  w \in sweeps \/ w.sids = {}
    BY <2>1 DEF PasswordReset
  <2>2. ASSUME NEW x \in sweeps, SweepGet(x), NEW w \in sweeps'
        PROVE  w \in sweeps \/ w.sids = Due(x.user)
    BY <2>2, SweepGets
  <2>3. sweeps' \subseteq sweeps \/ (\E u \in Users : PasswordReset(u)) \/ \E w \in sweeps : SweepGet(w)
    BY DEF SignUp, Restart, vars
  <2> QED
    BY <2>1, <2>2, <2>3 DEF Due
<1> QED
  BY <1>1, <1>3, <1>4, EndQuiet

LEMMA EndInit ==
  ASSUME Init
  PROVE  EndInv
<1>1. \A s \in freshSids : s \in Sids /\ s # None /\ sess[s] = None
  BY Constants DEF Init
<1>2. sweeps = {} /\ ended = {} /\ \A r \in Reqs : req[r].sid = None
  BY IdleShape DEF Init
<1> QED
  BY <1>1, <1>2 DEF EndInv, FreshUnknown, EndedNotCarried

LEMMA EndStep ==
  ASSUME TypeInv, EndInv, [Next]_vars
  PROVE  EndInv'
<1>1. ASSUME NEW r \in Reqs, RequestStep(r) PROVE EndInv'
  <2>1. Storeless(r) \/ Finish(r) \/ Logout(r) \/ LoginSession(r)
    BY <1>1 DEF RequestStep, Storeless
  <2> QED
    BY <2>1, StorelessEnd, FinishEnd, LogoutEnd, LoginSessionEnd
<1> QED
  BY <1>1, StepCases, WorldEnd, SweepDelEnd

LEMMA Ended == Spec => []EndInv
<1>1. Init => EndInv
  BY EndInit
<1>2. TypeInv /\ EndInv /\ [Next]_vars => EndInv'
  BY EndStep
<1> QED
  BY <1>1, <1>2, Typed, PTL DEF Spec

\* EndedStaysGone: only a request that carried a session when it was deleted brings it back,
\* however many requests, logins, sweeps and restarts there are.
THEOREM EndedSessionsStayGone == Spec => []EndedStaysGone
<1>1. EndInv => EndedStaysGone
  BY DEF EndInv, EndedNotCarried, EndedStaysGone
<1> QED
  BY <1>1, Ended, PTL

-----------------------------------------------------------------------------
(* A session and its copies belong to one user. *)

Belongs(s, u) == /\ sess[s] # None => sess[s].user = u
                 /\ \A r \in Reqs : req[r].sid = s => req[r].sess.user = u

SidInv == /\ \A s \in Sids : \E u : Belongs(s, u)
          /\ \A w \in sweeps : \A s \in w.sids : Belongs(s, w.user)

LEMMA BelongsKept ==
  ASSUME NEW s \in Sids, NEW u, Belongs(s, u),
         \A q \in Reqs : req'[q].sid = s => Follows(q) \/ Loads(q),
         \/ sess'[s] = sess[s] \/ sess'[s] = None
         \/ \E r \in Reqs : req[r].sid = s /\ sess'[s] = req[r].sess
  PROVE  Belongs(s, u)'
<1>1. sess'[s] # None => sess'[s].user = u
  BY DEF Belongs
<1>2. ASSUME NEW q \in Reqs, req'[q].sid = s PROVE req'[q].sess.user = u
  <2>1. s # None
    BY Constants
  <2> QED
    BY <1>2, <2>1 DEF Belongs, Follows, Loads
<1> QED
  BY <1>1, <1>2 DEF Belongs

\* Steps that store no new session, and whose sweeps have the users of their sessions.
LEMMA SidNext ==
  ASSUME TypeInv, SidInv,
         \A q \in Reqs : Follows(q) \/ Loads(q),
         \A s \in Sids : \/ sess'[s] = sess[s] \/ sess'[s] = None
                         \/ \E r \in Reqs : req[r].sid = s /\ sess'[s] = req[r].sess,
         \A w \in sweeps' : w.sids \subseteq Sids /\ \A s \in w.sids : Belongs(s, w.user)
  PROVE  SidInv'
<1>1. \A s \in Sids : \A u : Belongs(s, u) => Belongs(s, u)'
  BY BelongsKept
<1>2. (\A s \in Sids : \E u : Belongs(s, u))'
  BY <1>1 DEF SidInv
<1>3. ASSUME NEW w \in sweeps', NEW s \in w.sids PROVE Belongs(s, w.user)'
  BY <1>1
<1> QED
  BY <1>2, <1>3 DEF SidInv

LEMMA SweepsOwn ==
  ASSUME TypeInv, SidInv
  PROVE  \A w \in sweeps : w.sids \subseteq Sids /\ \A s \in w.sids : Belongs(s, w.user)
BY DEF TypeInv, TypeOK, Sweep, SidInv

LEMMA StorelessSid ==
  ASSUME TypeInv, SidInv, NEW r \in Reqs, Storeless(r)
  PROVE  SidInv'
<1>1. /\ UNCHANGED sess
      /\ \A w \in sweeps' : w \in sweeps \/ (w.phase = "get" /\ w.sids = {})
      /\ \A q \in Reqs : Follows(q) \/ Loads(q)
  BY StorelessKeeps
<1>2. \A w \in sweeps' : w.sids \subseteq Sids /\ \A s \in w.sids : Belongs(s, w.user)
  BY <1>1, SweepsOwn
<1>3. \A s \in Sids : sess'[s] = sess[s]
  BY <1>1
<1> QED
  BY <1>1, <1>2, <1>3, SidNext

LEMMA EndSid ==
  ASSUME TypeInv, SidInv, NEW r \in Reqs, Finish(r) \/ Logout(r)
  PROVE  SidInv'
<1>1. Ends(r)
  BY FinishEnds
<1>2. \A q \in Reqs : Follows(q)
  BY <1>1, IdleShape DEF Ends, Follows
<1>3. \A s \in Sids : \/ sess'[s] = sess[s] \/ sess'[s] = None
                      \/ \E q \in Reqs : req[q].sid = s /\ sess'[s] = req[q].sess
  BY DEF Finish, Logout, TypeInv, TypeOK
<1>4. UNCHANGED sweeps
  BY DEF Finish, Logout
<1> QED
  BY <1>2, <1>3, <1>4, SweepsOwn, SidNext

LEMMA LoginSessionSid ==
  ASSUME TypeInv, EndInv, SidInv, NEW r \in Reqs, LoginSession(r)
  PROVE  SidInv'
<1>1. PICK new \in freshSids :
           /\ LogsIn(r, new)
           /\ sess' = [s \in Sids |-> IF s = new THEN req[r].found
                                     ELSE IF s \in {req[r].sid} \ {None} THEN None ELSE sess[s]]
  BY LoginSessionLogsIn
<1>2. /\ req'[r].sid = new /\ req'[r].sess = req[r].found
      /\ \A q \in Reqs \ {r} : req'[q] = req[q]
  BY <1>1 DEF LogsIn, Moves
<1>3. new \in Sids
  BY DEF TypeInv, TypeOK
<1>4. ASSUME NEW s \in Sids \ {new}, NEW u, Belongs(s, u) PROVE Belongs(s, u)'
  <2>1. \A q \in Reqs : req'[q].sid = s => Follows(q)
    BY <1>2 DEF Follows
  <2>2. sess'[s] = sess[s] \/ sess'[s] = None
    BY <1>1
  <2> QED
    BY <1>4, <2>1, <2>2, BelongsKept
<1>5. \E u : Belongs(new, u)'
  <2>1. \A q \in Reqs \ {r} : req'[q].sid # new
    BY <1>2 DEF EndInv, FreshUnknown
  <2>2. sess'[new] = req[r].found
    BY <1>1, <1>3
  <2>3. PICK u : u = req[r].found.user
    OBVIOUS
  <2>4. sess'[new].user = u /\ \A q \in Reqs : req'[q].sid = new => req'[q].sess.user = u
    BY <1>2, <2>1, <2>2, <2>3
  <2> QED
    BY <2>4 DEF Belongs
<1>6. (\A s \in Sids : \E u : Belongs(s, u))'
  BY <1>4, <1>5 DEF SidInv
<1>7. (\A w \in sweeps : \A s \in w.sids : Belongs(s, w.user))'
  <2>1. UNCHANGED sweeps
    BY DEF LoginSession
  <2>2. \A w \in sweeps : new \notin w.sids
    BY DEF EndInv, FreshUnknown
  <2>3. ASSUME NEW w \in sweeps, NEW s \in w.sids PROVE Belongs(s, w.user)'
    BY <1>4, <2>2, <2>3, SweepsOwn
  <2> QED
    BY <2>1, <2>3
<1> QED
  BY <1>6, <1>7 DEF SidInv

LEMMA WorldSid ==
  ASSUME TypeInv, SidInv,
         \/ \E u \in Users : PasswordReset(u)
         \/ \E u \in Users, o \in Orgs : SignUp(u, o)
         \/ \E w \in sweeps : SweepGet(w)
         \/ \E w \in sweeps : SweepDel(w)
         \/ Restart
         \/ UNCHANGED vars
  PROVE  SidInv'
<1>1. UNCHANGED req \/ Restart
  BY DEF PasswordReset, SignUp, SweepGet, SweepDel, vars
<1>2. \A q \in Reqs : Follows(q)
  BY <1>1, IdleShape DEF Restart, Follows
<1>3. \A s \in Sids : sess'[s] = sess[s] \/ sess'[s] = None
  <2>1. (\E w \in sweeps : SweepDel(w)) \/ UNCHANGED sess
    BY DEF PasswordReset, SignUp, SweepGet, Restart, vars, sessions
  <2> QED
    BY <2>1, SweepDels
<1>4. \A w \in sweeps' : w.sids \subseteq Sids /\ \A s \in w.sids : Belongs(s, w.user)
  <2>1. ASSUME NEW x \in sweeps, SweepGet(x), NEW w \in sweeps'
        PROVE  w.sids \subseteq Sids /\ \A s \in w.sids : Belongs(s, w.user)
    <3>1. w \in sweeps \/ (w.user = x.user /\ w.sids = Due(x.user))
      BY <2>1, SweepGets
    <3>2. CASE w.user = x.user /\ w.sids = Due(x.user)
      <4>1. ASSUME NEW s \in Due(x.user) PROVE Belongs(s, x.user)
        BY DEF Due, SidInv, Belongs
      <4> QED
        BY <3>2, <4>1 DEF Due
    <3> QED
      BY <3>1, <3>2, SweepsOwn
  <2>2. ASSUME NEW u \in Users, PasswordReset(u), NEW w \in sweeps'
        PROVE  w \in sweeps \/ w.sids = {}
    BY <2>2 DEF PasswordReset
  <2>3. \/ sweeps' \subseteq sweeps \/ (\E u \in Users : PasswordReset(u))
        \/ \E w \in sweeps : SweepGet(w)
    BY DEF SignUp, SweepDel, Restart, vars
  <2> QED
    BY <2>1, <2>2, <2>3, SweepsOwn
<1> QED
  BY <1>2, <1>3, <1>4, SidNext

LEMMA SidStep ==
  ASSUME TypeInv, EndInv, SidInv, [Next]_vars
  PROVE  SidInv'
<1>1. ASSUME NEW r \in Reqs, RequestStep(r) PROVE SidInv'
  <2>1. Storeless(r) \/ Finish(r) \/ Logout(r) \/ LoginSession(r)
    BY <1>1 DEF RequestStep, Storeless
  <2> QED
    BY <2>1, StorelessSid, EndSid, LoginSessionSid
<1> QED
  BY <1>1, StepCases, WorldSid

LEMMA SidInit ==
  ASSUME Init
  PROVE  SidInv
<1>1. sweeps = {} /\ \A r \in Reqs : req[r].sid = None
  BY IdleShape DEF Init
<1>2. ASSUME NEW s \in Sids PROVE Belongs(s, sess[s].user)
  BY <1>1, Constants DEF Belongs
<1> QED
  BY <1>1, <1>2 DEF SidInv

LEMMA SweepEnds ==
  ASSUME TypeInv, SidInv, [Next]_vars, NEW w \in sweeps \ sweeps', NEW s \in Sids,
         sess[s] # None, sess'[s] = None
  PROVE  sess[s].user = w.user
<1>1. CASE \E r \in Reqs : Storeless(r) \/ Finish(r) \/ Logout(r) \/ LoginSession(r)
  BY <1>1, StorelessKeeps DEF Finish, Logout, LoginSession
<1>2. CASE \E x \in sweeps : SweepDel(x)
  BY <1>2, SweepDels DEF SidInv, Belongs
<1>3. CASE UNCHANGED sess
  BY <1>3
<1>4. \/ \E r \in Reqs : Storeless(r) \/ Finish(r) \/ Logout(r) \/ LoginSession(r)
      \/ \E x \in sweeps : SweepDel(x)
      \/ UNCHANGED sess
  BY StepCases DEF RequestStep, Storeless, PasswordReset, SignUp, SweepGet, Restart, vars, sessions
<1> QED
  BY <1>1, <1>2, <1>3, <1>4

\* OthersSessionsKept, of sweeps that delete what they read long before.
THEOREM OthersKeepTheirSessions == Spec => OthersSessionsKept
<1> DEFINE F == \A w \in sweeps \ sweeps', s \in Sids :
                  sess[s] # None /\ sess'[s] = None => sess[s].user = w.user
<1>1. Init => SidInv
  BY SidInit
<1>2. TypeInv /\ EndInv /\ SidInv /\ [Next]_vars => SidInv'
  BY SidStep
<1>3. ASSUME TypeInv, SidInv, [Next]_vars PROVE [F]_vars
  BY <1>3, SweepEnds
<1>4. TypeInv /\ SidInv /\ [Next]_vars => [F]_vars
  BY <1>3
<1> QED
  BY <1>1, <1>2, <1>4, Typed, Ended, PTL DEF Spec, OthersSessionsKept

-----------------------------------------------------------------------------
(* A code admits once. *)

FreshCode(c) == invites[c] = None /\ spent[c] = 0 /\ \A r \in Reqs : req[r].code # c

\* Who holds it admits next; once it has admitted, its holder deletes it.
CodeOnce(c) ==
  /\ spent[c] <= 1
  /\ \A q, r \in Reqs : req[q].code = c /\ req[r].code = c => q = r
  /\ \A r \in Reqs : req[r].code = c /\ req[r].pc = "login_accept" => spent[c] = 0
  /\ spent[c] > 0 /\ (\A r \in Reqs : req[r].code # c) => invites[c] = None

CodeInv == /\ \A c \in freshCodes : FreshCode(c)
           /\ \A c \in Codes \ contended : CodeOnce(c)

\* A request keeps the code it has.
CodeKept(q) == /\ req'[q].code = req[q].code
               /\ req'[q].pc = "login_accept" => req'[q] = req[q]

LEMMA NoCode ==
  ASSUME TypeInv, NEW r \in Reqs, Moves(r), req[r].code = None, req'[r].code = None
  PROVE  \A q \in Reqs : CodeKept(q)
<1>1. req'[r].pc # "login_accept"
  BY Constants DEF Moves, Shaped
<1> QED
  BY <1>1 DEF Moves, CodeKept

LEMMA HasNone ==
  ASSUME TypeInv, NEW r \in Reqs, req[r].pc \notin {"login_accept", "login_del"}
  PROVE  req[r].code = None
BY ReqFields DEF Shaped

\* The steps that touch no code.
Codeless(r) ==
  \/ StartsGuarded(r) \/ StartsPlain(r) \/ Finds(r) \/ Writes(r) \/ Renews(r)
  \/ Finish(r) \/ Logout(r) \/ StartLogin(r) \/ LoginSession(r)

LEMMA CodelessKeeps ==
  ASSUME TypeInv, NEW r \in Reqs, Codeless(r)
  PROVE  (\A q \in Reqs : CodeKept(q)) /\ UNCHANGED <<invites, freshCodes, spent, contended>>
<1>1. CASE StartsGuarded(r) \/ StartsPlain(r)
  <2>1. OnlyMoves(r) /\ \E sid, s, route : Comes(r, sid, s, route)
    BY <1>1, GuardedStarts, PlainStarts
  <2>2. Moves(r) /\ req[r].pc = "idle" /\ req'[r].code = None
    BY <2>1 DEF Comes
  <2> QED
    BY <2>1, <2>2, HasNone, NoCode DEF OnlyMoves, codes, history
<1>2. CASE Finds(r)
  <2>1. OnlyMoves(r) /\ Keeps(r) /\ req[r].pc \notin {"login_accept", "login_del"}
    BY <1>2, FindsFind DEF UserSteps, InviteSteps
  <2>2. Moves(r) /\ req[r].code = None /\ req'[r].code = None
    BY <2>1, HasNone DEF OnlyMoves, Keeps
  <2> QED
    BY <2>1, <2>2, NoCode DEF OnlyMoves, codes, history
<1>3. CASE Writes(r)
  <2>1. /\ Moves(r) /\ Keeps(r) /\ req[r].pc \notin {"login_accept", "login_del"}
        /\ UNCHANGED <<codes, spent, contended>>
    BY <1>3, WritesSave DEF UserSteps
  <2>2. req[r].code = None /\ req'[r].code = None
    BY <2>1, HasNone DEF Keeps
  <2> QED
    BY <2>1, <2>2, NoCode DEF codes
<1>4. CASE Renews(r)
  <2>1. OnlyMoves(r) /\ req[r].code = None /\ req'[r].code = None
    BY <1>4, RenewsRenew DEF Refreshes
  <2> QED
    BY <2>1, NoCode DEF OnlyMoves, codes, history
<1>5. CASE Finish(r) \/ Logout(r)
  <2>1. req[r].pc \notin {"login_accept", "login_del"}
    BY <1>5 DEF Finish, Logout, At
  <2>2. Moves(r) /\ req'[r].code = None
    BY <1>5, FinishEnds, EndMoves, IdleShape DEF Ends
  <2>3. UNCHANGED <<codes, spent, contended>>
    BY <1>5 DEF Finish, Logout, history
  <2> QED
    BY <2>1, <2>2, <2>3, HasNone, NoCode DEF codes
<1>6. CASE StartLogin(r)
  <2>1. Moves(r) /\ req[r].pc = "idle" /\ req'[r].code = None
    BY <1>6, StartLoginComes DEF LoginComes
  <2>2. UNCHANGED <<codes, spent, contended>>
    BY <1>6 DEF StartLogin, history
  <2> QED
    BY <2>1, <2>2, HasNone, NoCode DEF codes
<1>7. CASE LoginSession(r)
  <2>1. Moves(r) /\ req[r].code = None /\ req'[r].code = None
    BY <1>7, LoginSessionLogsIn DEF LogsIn
  <2>2. UNCHANGED <<codes, spent, contended>>
    BY <1>7 DEF LoginSession
  <2> QED
    BY <2>1, <2>2, NoCode DEF codes
<1> QED
  BY <1>1, <1>2, <1>3, <1>4, <1>5, <1>6, <1>7 DEF Codeless

\* Nothing that CodeOnce speaks of changes, but that the invitation may go.
LEMMA OnceKept ==
  ASSUME TypeInv, NEW c \in Codes, CodeOnce(c), spent'[c] = spent[c],
         invites'[c] = invites[c] \/ invites'[c] = None,
         \A q \in Reqs : /\ req'[q].code = c <=> req[q].code = c
                         /\ req'[q].code = c /\ req'[q].pc = "login_accept" => req[q].pc = "login_accept"
  PROVE  CodeOnce(c)'
<1>1. spent'[c] <= 1
  BY DEF CodeOnce
<1>2. \A q, r \in Reqs : req'[q].code = c /\ req'[r].code = c => q = r
  BY DEF CodeOnce
<1>3. \A r \in Reqs : req'[r].code = c /\ req'[r].pc = "login_accept" => spent'[c] = 0
  BY DEF CodeOnce
<1>4. spent'[c] > 0 /\ (\A r \in Reqs : req'[r].code # c) => invites'[c] = None
  BY DEF CodeOnce
<1> QED
  BY <1>1, <1>2, <1>3, <1>4 DEF CodeOnce

LEMMA CodeSame ==
  ASSUME TypeInv, CodeInv, UNCHANGED <<invites, freshCodes, spent, contended>>,
         \A q \in Reqs : CodeKept(q)
  PROVE  CodeInv'
<1>1. \A c \in freshCodes : FreshCode(c)'
  BY DEF CodeInv, FreshCode, CodeKept
<1>2. \A c \in Codes \ contended : CodeOnce(c)'
  BY OnceKept DEF CodeInv, CodeKept
<1> QED
  BY <1>1, <1>2 DEF CodeInv

LEMMA InviteSetCode ==
  ASSUME TypeInv, CodeInv, NEW r \in Reqs, InviteSet(r)
  PROVE  CodeInv'
<1>1. /\ Moves(r) /\ Keeps(r) /\ req[r].pc = "invite_set" /\ UNCHANGED <<spent, contended>>
  BY InviteSetInvites
<1>2. PICK i \in Invitation, c \in freshCodes :
              freshCodes' = freshCodes \ {c} /\ invites' = [invites EXCEPT ![c] = i]
  BY InviteSetInvites
<1>3. \A q \in Reqs : CodeKept(q)
  BY <1>1, HasNone, NoCode DEF Keeps
<1>4. freshCodes \subseteq Codes /\ c \in Codes /\ invites \in [Codes -> Invitation \union {None}]
  BY DEF TypeInv, TypeOK
<1>5. \A d \in Codes \ {c} : invites'[d] = invites[d]
  BY <1>2, <1>4
<1>6. \A d \in freshCodes' : FreshCode(d)'
  BY <1>1, <1>2, <1>3, <1>4, <1>5 DEF CodeInv, FreshCode, CodeKept
<1>7. ASSUME NEW d \in Codes \ contended, d # c PROVE CodeOnce(d)'
  BY <1>1, <1>3, <1>5, <1>7, OnceKept DEF CodeInv, CodeKept
<1>8. CodeOnce(c)'
  <2>1. spent'[c] = 0 /\ \A q \in Reqs : req'[q].code # c
    BY <1>1, <1>3 DEF CodeInv, FreshCode, CodeKept
  <2> QED
    BY <2>1 DEF CodeOnce
<1> QED
  BY <1>1, <1>6, <1>7, <1>8 DEF CodeInv

LEMMA LoginCodeCode ==
  ASSUME TypeInv, CodeInv, NEW r \in Reqs, LoginCode(r)
  PROVE  CodeInv'
<1>1. UNCHANGED <<invites, freshCodes, spent>>
  BY DEF LoginCode, codes
<1>2. CASE Moves(r) /\ Keeps(r) /\ req[r].pc = "login_code" /\ contended' = contended
  <2>1. \A q \in Reqs : CodeKept(q)
    BY <1>2, HasNone, NoCode DEF Keeps
  <2> QED
    BY <1>1, <1>2, <2>1, CodeSame
<1>3. ASSUME NEW c \in Codes, Takes(r, c),
             contended' = IF Holders(c) # {} THEN contended \union {c} ELSE contended
      PROVE  CodeInv'
  <2>1. /\ invites[c] # None /\ req[r].code = None /\ req'[r].code = c
        /\ \A q \in Reqs \ {r} : req'[q] = req[q]
    BY <1>3 DEF Takes, Moves
  <2>2. freshCodes \subseteq Codes /\ None \notin Codes
    BY Constants DEF TypeInv, TypeOK
  <2>3. \A d \in freshCodes : FreshCode(d)'
    BY <1>1, <2>1, <2>2 DEF CodeInv, FreshCode
  <2>4. ASSUME NEW d \in Codes \ contended', d # c PROVE CodeOnce(d)'
    <3>1. CodeOnce(d)
      BY <1>3, <2>4 DEF CodeInv
    <3>2. \A q \in Reqs : req'[q].code = d => req'[q] = req[q]
      BY <2>1, <2>4
    <3>3. \A q \in Reqs : req[q].code = d => req'[q] = req[q]
      BY <2>1, <2>2, <2>4
    <3> QED
      BY <1>1, <3>1, <3>2, <3>3, OnceKept
  <2>5. ASSUME c \notin contended' PROVE CodeOnce(c)'
    <3>1. c \notin contended /\ \A q \in Reqs : req[q].code # c
      BY <1>3, <2>5 DEF Holders
    <3>2. spent[c] = 0
      BY <2>1, <3>1 DEF CodeInv, CodeOnce, TypeInv, TypeOK
    <3>3. \A q \in Reqs : req'[q].code = c => q = r
      BY <2>1, <3>1
    <3> QED
      BY <1>1, <3>2, <3>3 DEF CodeOnce
  <2> QED
    BY <1>1, <2>3, <2>4, <2>5 DEF CodeInv
<1> QED
  BY <1>2, <1>3, LoginCodeTakes

LEMMA LoginAcceptCode ==
  ASSUME TypeInv, CodeInv, NEW r \in Reqs, LoginAccept(r)
  PROVE  CodeInv'
<1>1. /\ Moves(r) /\ Keeps(r) /\ req'[r].pc = "login_del" /\ req[r].pc = "login_accept"
      /\ UNCHANGED <<invites, freshCodes, contended>>
  BY LoginAcceptSaves DEF codes
<1>2. PICK c \in Codes : c = req[r].code
  BY LoginAcceptSaves
<1>3. spent' = [spent EXCEPT ![c] = @ + 1] /\ spent \in [Codes -> Nat]
  BY <1>2, LoginAcceptSaves DEF TypeInv, TypeOK
<1>4. \A q \in Reqs : CodeKept(q)
  BY <1>1 DEF Moves, Keeps, CodeKept
<1>5. freshCodes \subseteq Codes
  BY DEF TypeInv, TypeOK
<1>6. \A d \in freshCodes : FreshCode(d)'
  <2>1. \A d \in freshCodes : d # c
    BY <1>2 DEF CodeInv, FreshCode
  <2> QED
    BY <1>1, <1>3, <1>4, <1>5, <2>1 DEF CodeInv, FreshCode, CodeKept
<1>7. ASSUME NEW d \in Codes \ contended, d # c PROVE CodeOnce(d)'
  <2>1. spent'[d] = spent[d] /\ CodeOnce(d)
    BY <1>3, <1>7 DEF CodeInv
  <2> QED
    BY <1>1, <1>4, <2>1, OnceKept DEF CodeKept
<1>8. ASSUME c \notin contended PROVE CodeOnce(c)'
  <2>1. /\ spent[c] = 0
        /\ \A p, q \in Reqs : req[p].code = c /\ req[q].code = c => p = q
    BY <1>1, <1>2, <1>8 DEF CodeInv, CodeOnce
  <2>2. spent'[c] = 1
    BY <1>3, <2>1
  <2>3. \A q \in Reqs : req'[q].code = c => q = r
    BY <1>2, <1>4, <2>1 DEF CodeKept
  <2>4. req'[r].code = c
    BY <1>2, <1>4 DEF CodeKept
  <2> QED
    BY <1>1, <2>2, <2>3, <2>4 DEF CodeOnce
<1> QED
  BY <1>1, <1>6, <1>7, <1>8 DEF CodeInv

LEMMA DropCode ==
  ASSUME TypeInv, CodeInv, NEW r \in Reqs, LoginDel(r) \/ Fails(r)
  PROVE  CodeInv'
<1>1. /\ req'[r].code = None /\ UNCHANGED <<freshCodes, spent>>
      /\ \A q \in Reqs \ {r} : req'[q] = req[q]
  BY LoginDelDrops, FailsDrops DEF Drops, Moves, LoginDel, Fails, codes, history
<1>2. freshCodes \subseteq Codes /\ None \notin Codes /\ invites \in [Codes -> Invitation \union {None}]
  BY Constants DEF TypeInv, TypeOK
<1>3. \A d \in Codes : invites'[d] = invites[d] \/ invites'[d] = None
  BY <1>2 DEF LoginDel, Fails, codes
<1>4. \A d \in freshCodes : FreshCode(d)'
  BY <1>1, <1>2, <1>3 DEF CodeInv, FreshCode
<1>5. contended \subseteq contended'
  BY DEF LoginDel, Fails, history
<1>6. ASSUME NEW d \in Codes \ contended', d # req[r].code PROVE CodeOnce(d)'
  <2>1. CodeOnce(d)
    BY <1>5 DEF CodeInv
  <2>2. \A q \in Reqs : req'[q].code = d => req'[q] = req[q]
    BY <1>1, <1>2, <1>6
  <2>3. \A q \in Reqs : req[q].code = d => req'[q] = req[q]
    BY <1>1, <1>6
  <2> QED
    BY <1>1, <1>3, <2>1, <2>2, <2>3, OnceKept
<1>7. ASSUME NEW d \in Codes \ contended', d = req[r].code PROVE CodeOnce(d)'
  <2>1. CodeOnce(d)
    BY <1>5 DEF CodeInv
  <2>2. invites'[d] = None
    BY <1>2, <1>7 DEF LoginDel, Fails
  <2>3. \A q \in Reqs : req'[q].code # d
    BY <1>1, <1>2, <1>7, <2>1 DEF CodeOnce
  <2>4. spent'[d] = spent[d] /\ spent[d] <= 1
    BY <1>1, <2>1 DEF CodeOnce
  <2> QED
    BY <2>2, <2>3, <2>4 DEF CodeOnce
<1> QED
  BY <1>1, <1>4, <1>6, <1>7 DEF CodeInv

LEMMA RestartCode ==
  ASSUME TypeInv, CodeInv, Restart
  PROVE  CodeInv'
<1>1. /\ contended' = contended \union ({req[r].code : r \in Reqs} \ {None})
      /\ req' = [r \in Reqs |-> Idle]
      /\ UNCHANGED <<invites, freshCodes, spent>>
  BY DEF Restart, codes
<1>2. freshCodes \subseteq Codes /\ None \notin Codes
  BY Constants DEF TypeInv, TypeOK
<1>3. \A q \in Reqs : req'[q].code = None
  BY <1>1, IdleShape
<1>4. \A d \in freshCodes : FreshCode(d)'
  BY <1>1, <1>2, <1>3 DEF CodeInv, FreshCode
<1>5. ASSUME NEW d \in Codes \ contended' PROVE CodeOnce(d)'
  <2>1. CodeOnce(d) /\ \A q \in Reqs : req[q].code # d
    BY <1>1, <1>2 DEF CodeInv
  <2>2. \A q \in Reqs : req'[q].code # d
    BY <1>2, <1>3
  <2> QED
    BY <1>1, <2>1, <2>2, OnceKept
<1> QED
  BY <1>1, <1>4, <1>5 DEF CodeInv

LEMMA CodeStep ==
  ASSUME TypeInv, CodeInv, [Next]_vars
  PROVE  CodeInv'
<1>1. ASSUME NEW r \in Reqs, RequestStep(r) PROVE CodeInv'
  <2>1. \/ Codeless(r) \/ InviteSet(r) \/ LoginCode(r) \/ LoginAccept(r)
        \/ LoginDel(r) \/ Fails(r)
    BY <1>1 DEF RequestStep, Codeless
  <2> QED
    BY <2>1, CodelessKeeps, CodeSame, InviteSetCode, LoginCodeCode, LoginAcceptCode, DropCode
<1>2. ASSUME UNCHANGED <<req, codes, spent, contended>> PROVE CodeInv'
  <2>1. \A q \in Reqs : CodeKept(q)
    BY <1>2 DEF CodeKept
  <2> QED
    BY <1>2, <2>1, CodeSame DEF codes
<1>3. \/ \E r \in Reqs : RequestStep(r)
      \/ Restart \/ UNCHANGED <<req, codes, spent, contended>>
  BY StepCases DEF PasswordReset, SignUp, SweepGet, SweepDel, vars, history
<1> QED
  BY <1>1, <1>2, <1>3, RestartCode

LEMMA CodeInit ==
  ASSUME Init
  PROVE  CodeInv
<1>1. /\ freshCodes = Codes /\ \A c \in Codes : invites[c] = None /\ spent[c] = 0
      /\ \A r \in Reqs : req[r].code = None
  BY IdleShape DEF Init
<1>2. None \notin Codes
  BY Constants
<1> QED
  BY <1>1, <1>2 DEF CodeInv, FreshCode, CodeOnce

\* CodeAdmitsOnce, for any number of logins, failures and restarts.
THEOREM CodesAdmitOnce == Spec => []CodeAdmitsOnce
<1>1. Init => CodeInv
  BY CodeInit
<1>2. TypeInv /\ CodeInv /\ [Next]_vars => CodeInv'
  BY CodeStep
<1>3. CodeInv => CodeAdmitsOnce
  BY DEF CodeInv, CodeOnce, CodeAdmitsOnce
<1> QED
  BY <1>1, <1>2, <1>3, Typed, PTL DEF Spec

-----------------------------------------------------------------------------
(* Who changes a row. *)

\* What Redis and the logins hold are invitations that have been sent.
IssuedInv ==
  /\ \A c \in Codes : invites[c] # None => invites[c] \in issued
  /\ \A r \in Reqs : req[r].pc = "login_accept" =>
       [user |-> req[r].user, org |-> req[r].org] \in issued

LEMMA IssuedNext ==
  ASSUME TypeInv, IssuedInv, issued \subseteq issued',
         \A c \in Codes : invites'[c] # None => invites'[c] = invites[c] \/ invites'[c] \in issued',
         \A q \in Reqs : req'[q].pc = "login_accept" => req'[q] = req[q]
  PROVE  IssuedInv'
<1>1. \A c \in Codes : invites'[c] # None => invites'[c] \in issued'
  BY DEF IssuedInv
<1>2. \A q \in Reqs : req'[q].pc = "login_accept" =>
        [user |-> req'[q].user, org |-> req'[q].org] \in issued'
  BY DEF IssuedInv
<1> QED
  BY <1>1, <1>2 DEF IssuedInv

LEMMA TakesIssued ==
  ASSUME TypeInv, IssuedInv, NEW r \in Reqs, NEW c \in Codes, Takes(r, c),
         UNCHANGED <<invites, issued>>
  PROVE  IssuedInv'
<1>1. /\ invites[c] # None /\ invites[c].user = req[r].user
      /\ req'[r].user = req[r].user /\ req'[r].org = invites[c].org
      /\ \A q \in Reqs \ {r} : req'[q] = req[q]
  BY DEF Takes, Moves
<1>2. invites[c] = [user |-> req'[r].user, org |-> req'[r].org]
  BY <1>1 DEF TypeInv, TypeOK, Invitation
<1>3. [user |-> req'[r].user, org |-> req'[r].org] \in issued
  BY <1>1, <1>2 DEF IssuedInv
<1>4. \A q \in Reqs : req'[q].pc = "login_accept" =>
        [user |-> req'[q].user, org |-> req'[q].org] \in issued'
  BY <1>1, <1>3 DEF IssuedInv
<1> QED
  BY <1>4 DEF IssuedInv

LEMMA IssuedStep ==
  ASSUME TypeInv, IssuedInv, [Next]_vars
  PROVE  IssuedInv'
<1>1. ASSUME NEW r \in Reqs, Codeless(r) PROVE IssuedInv'
  <2>1. \A q \in Reqs : CodeKept(q)
    BY <1>1, CodelessKeeps
  <2>2. UNCHANGED invites
    BY <1>1, CodelessKeeps
  <2>3. UNCHANGED issued
    <3>1. CASE StartsGuarded(r) \/ StartsPlain(r) \/ Finds(r) \/ Renews(r)
      BY <3>1, GuardedStarts, PlainStarts, FindsFind, RenewsRenew DEF OnlyMoves, history
    <3>2. CASE Writes(r)
      BY <3>2, WritesSave
    <3>3. CASE Finish(r) \/ Logout(r) \/ StartLogin(r) \/ LoginSession(r)
      BY <3>3 DEF Finish, Logout, StartLogin, LoginSession, history
    <3> QED
      BY <1>1, <3>1, <3>2, <3>3 DEF Codeless
  <2> QED
    BY <2>1, <2>2, <2>3, IssuedNext DEF CodeKept
<1>2. ASSUME NEW r \in Reqs, InviteSet(r) PROVE IssuedInv'
  <2>1. PICK i \in Invitation, c \in freshCodes :
              /\ issued' = issued \union {i} /\ invites' = [invites EXCEPT ![c] = i]
    BY <1>2, InviteSetInvites
  <2>2. Moves(r) /\ req'[r].pc = "finish"
    BY <1>2, InviteSetInvites
  <2>3. \A q \in Reqs : req'[q].pc = "login_accept" => req'[q] = req[q]
    BY <2>2 DEF Moves
  <2>4. \A d \in Codes : invites'[d] = invites[d] \/ invites'[d] \in issued'
    BY <2>1 DEF TypeInv, TypeOK
  <2> QED
    BY <2>1, <2>3, <2>4, IssuedNext
<1>3. ASSUME NEW r \in Reqs, LoginCode(r) PROVE IssuedInv'
  <2>1. UNCHANGED <<invites, issued>>
    BY <1>3 DEF LoginCode, codes
  <2>2. CASE Moves(r) /\ req'[r].pc = "login_session"
    <3>1. \A q \in Reqs : req'[q].pc = "login_accept" => req'[q] = req[q]
      BY <2>2 DEF Moves
    <3> QED
      BY <2>1, <3>1, IssuedNext
  <2> QED
    BY <1>3, <2>1, <2>2, LoginCodeTakes, TakesIssued
<1>4. ASSUME NEW r \in Reqs, LoginAccept(r) \/ LoginDel(r) \/ Fails(r) PROVE IssuedInv'
  <2>1. Moves(r) /\ req'[r].pc # "login_accept"
    BY <1>4, LoginAcceptSaves, LoginDelDrops, FailsDrops DEF Drops
  <2>2. UNCHANGED issued
    BY <1>4 DEF LoginAccept, LoginDel, Fails, history
  <2>3. \A d \in Codes : invites'[d] # None => invites'[d] = invites[d]
    BY <1>4 DEF LoginAccept, LoginDel, Fails, codes, TypeInv, TypeOK
  <2>4. \A q \in Reqs : req'[q].pc = "login_accept" => req'[q] = req[q]
    BY <2>1 DEF Moves
  <2> QED
    BY <2>2, <2>3, <2>4, IssuedNext
<1>5. ASSUME UNCHANGED <<invites, issued>>, UNCHANGED req \/ Restart PROVE IssuedInv'
  <2>1. \A q \in Reqs : req'[q].pc = "login_accept" => req'[q] = req[q]
    BY <1>5, IdleShape DEF Restart
  <2> QED
    BY <1>5, <2>1, IssuedNext
<1>6. \/ \E r \in Reqs : \/ Codeless(r) \/ InviteSet(r) \/ LoginCode(r) \/ LoginAccept(r)
                         \/ LoginDel(r) \/ Fails(r)
      \/ UNCHANGED <<invites, issued>> /\ (UNCHANGED req \/ Restart)
  BY StepCases DEF RequestStep, Codeless, PasswordReset, SignUp, SweepGet, SweepDel, Restart,
                   vars, codes, history
<1> QED
  BY <1>1, <1>2, <1>3, <1>4, <1>5, <1>6

LEMMA WritesAuthorised ==
  ASSUME TypeInv, HandlerRights, NEW r \in Reqs, Writes(r), NEW u \in Users, NEW o \in Orgs,
         member'[u][o] # member[u][o]
  PROVE  /\ req'[r] # req[r] /\ req[r].user = u
         /\ req[r].sess # None /\ req[r].sess.org = o
         /\ \E h \in held[req[r].sess.user] : h["users"] = write
<1>1. /\ req'[r].pc = "finish" /\ req[r].pc \in UserSteps
      /\ req[r].sess # None /\ Saved(req[r].user, req[r].sess.org)
  BY WritesSave
<1>2. req'[r] # req[r]
  BY <1>1 DEF UserSteps
<1>3. req[r].user = u /\ req[r].sess.org = o
  BY <1>1 DEF Saved
<1>4. req[r].need = Needs("users", write)
  BY <1>1, ReqFields DEF Shaped
<1>5. req[r].need # None /\ req[r].need.entity = "users" /\ req[r].need.level = write
  BY <1>4, Constants DEF Needs
<1>6. PICK h \in held[req[r].sess.user] : h["users"] >= write
  BY <1>5 DEF HandlerRights
<1>7. req[r].sess.user \in Users
  BY <1>1, CopySound
<1>8. h \in Rights
  BY <1>7 DEF TypeInv, TypeOK
<1>9. h["users"] = write
  BY <1>6, <1>8 DEF Rights, Levels, Entities, write
<1> QED
  BY <1>1, <1>2, <1>3, <1>9

\* What ChangesAuthorised says of one row.
Authorised(u, o) ==
  \/ \E r \in Reqs :
       /\ req'[r] # req[r] /\ req[r].user = u
       /\ \/ /\ req[r].sess # None /\ req[r].sess.org = o
             /\ \E h \in held[req[r].sess.user] : h["users"] = write
          \/ At(r, "login_accept") /\ [user |-> u, org |-> o] \in issued
  \/ ~Exists(u) /\ \A v \in Users : member[v][o] = None

LEMMA StepAuthorised ==
  ASSUME TypeInv, HandlerRights, IssuedInv, [Next]_vars, NEW u \in Users, NEW o \in Orgs,
         member'[u][o] # member[u][o]
  PROVE  Authorised(u, o)
<1>1. ASSUME NEW r \in Reqs, Writes(r) PROVE Authorised(u, o)
  BY <1>1, WritesAuthorised DEF Authorised
<1>2. ASSUME NEW r \in Reqs, LoginAccept(r) PROVE Authorised(u, o)
  <2>1. /\ req'[r].pc = "login_del" /\ req[r].pc = "login_accept"
        /\ Saved(req[r].user, req[r].org)
    BY <1>2, LoginAcceptSaves
  <2>2. req[r].user = u /\ req[r].org = o
    BY <2>1 DEF Saved
  <2>3. [user |-> u, org |-> o] \in issued
    BY <2>1, <2>2 DEF IssuedInv
  <2>4. req'[r] # req[r]
    BY <2>1
  <2> QED
    BY <2>1, <2>2, <2>3, <2>4 DEF Authorised, At
<1>3. ASSUME NEW v \in Users, NEW p \in Orgs, SignUp(v, p) PROVE Authorised(u, o)
  <2>1. Saved(v, p) /\ ~Exists(v) /\ \A x \in Users : member[x][p] = None
    BY <1>3, SignUpSaves
  <2>2. v = u /\ p = o
    BY <2>1 DEF Saved
  <2> QED
    BY <2>1, <2>2 DEF Authorised, Exists
<1>4. \/ \E r \in Reqs : Writes(r) \/ LoginAccept(r)
      \/ \E v \in Users, p \in Orgs : SignUp(v, p)
      \/ UNCHANGED member
  <2>1. ASSUME NEW r \in Reqs, RequestStep(r) PROVE Writes(r) \/ LoginAccept(r) \/ UNCHANGED member
    <3>1. CASE StartsGuarded(r) \/ StartsPlain(r) \/ Finds(r) \/ Renews(r)
      BY <3>1, GuardedStarts, PlainStarts, FindsFind, RenewsRenew DEF OnlyMoves
    <3>2. CASE \/ InviteSet(r) \/ Finish(r) \/ Logout(r) \/ StartLogin(r) \/ LoginCode(r)
               \/ LoginDel(r) \/ LoginSession(r) \/ Fails(r)
      BY <3>2 DEF InviteSet, Finish, Logout, StartLogin, LoginCode, LoginDel, LoginSession, Fails
    <3> QED
      BY <2>1, <3>1, <3>2 DEF RequestStep
  <2> QED
    BY <2>1, StepCases DEF PasswordReset, SweepGet, SweepDel, Restart, vars
<1> QED
  BY <1>1, <1>2, <1>3, <1>4

\* ChangesAuthorised: whatever has become of the rights meanwhile, nobody writes a row of an
\* organization without having had them, or an invitation to it.
THEOREM RowsChangeAuthorised == Spec => ChangesAuthorised
<1> DEFINE F == \A u \in Users, o \in Orgs : member'[u][o] # member[u][o] =>
       \/ \E r \in Reqs :
            /\ req'[r] # req[r] /\ req[r].user = u
            /\ \/ /\ req[r].sess # None /\ req[r].sess.org = o
                  /\ \E h \in held[req[r].sess.user] : h["users"] = write
               \/ At(r, "login_accept") /\ [user |-> u, org |-> o] \in issued
       \/ ~Exists(u) /\ \A v \in Users : member[v][o] = None
<1>1. Init => IssuedInv
  BY IdleShape DEF Init, IssuedInv
<1>2. TypeInv /\ IssuedInv /\ [Next]_vars => IssuedInv'
  BY IssuedStep
<1>3. ASSUME TypeInv, HandlerRights, IssuedInv, [Next]_vars PROVE [F]_vars
  BY <1>3, StepAuthorised DEF Authorised
<1>4. TypeInv /\ HandlerRights /\ IssuedInv /\ [Next]_vars => [F]_vars
  BY <1>3
<1> QED
  BY <1>1, <1>2, <1>4, Typed, HandlersHaveRights, PTL DEF Spec, ChangesAuthorised
===============================================================================
