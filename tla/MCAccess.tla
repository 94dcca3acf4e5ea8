------------------------------- MODULE MCAccess -------------------------------
(* Instances of Access for TLC. *)
EXTENDS Access, TLC

OwnerRights == {ownerRights}
ReadLogs == {LogRights.list}

Nobody == [u \in Users |-> [o \in Orgs |-> None]]
LoggedOut == [s \in Sids |-> None]
Owner == [active |-> TRUE, rights |-> ownerRights]
Ordinary == [active |-> TRUE, rights |-> defaultRights]
Former == [active |-> FALSE, rights |-> defaultRights]

\* u has all rights in o and p; v is an ordinary member of o and was deactivated in p, where
\* it still works in session t; u works in p, too, in s.
Populated(u, v, o, p, s, t) ==
  [member |-> [Nobody EXCEPT ![u] = [x \in Orgs |-> IF x \in {o, p} THEN Owner ELSE None],
                             ![v][o] = Ordinary, ![v][p] = Former],
   sess   |-> [LoggedOut EXCEPT
                 ![s] = [user |-> u, org |-> p, orgs |-> {o, p}, rights |-> ownerRights],
                 ![t] = [user |-> v, org |-> p, orgs |-> {o, p}, rights |-> defaultRights]]]

\* Nobody yet, or two users in two organizations.
Start == {[member |-> Nobody, sess |-> LoggedOut]} \union
  {Populated(u[1], u[2], o[1], o[2], s[1], s[2]) :
     u \in {x \in Users \X Users : x[1] # x[2]}, o \in {x \in Orgs \X Orgs : x[1] # x[2]},
     s \in {x \in Sids \X Sids : x[1] # x[2]}}

Interchangeable == Permutations(Users) \union Permutations(Orgs) \union Permutations(Sids)
                     \union Permutations(Codes) \union Permutations(Reqs)

===============================================================================
