----------------------------- MODULE MCJobSync ------------------------------
(***************************************************************************)
(* Instances of JobSync for TLC.                                           *)
(***************************************************************************)
EXTENDS JobSync, TLC

CONSTANTS s1, s2, s3, g1, g2

OneOrg == [s \in Servers |-> g1]
\* The third server belongs to another organization.
TwoOrgs == [s \in Servers |-> IF s = s3 THEN g2 ELSE g1]

Interchangeable == Permutations(Jobs) \union Permutations(Ops)
SameOps == Permutations(Ops)
SameOrg == SameOps \union Permutations(Servers \ {s3})

\* No server is deleted.
ServersStay == UNCHANGED delete

\* The servers have a crontab.
HasCrontabs == hasCrontab = Servers

\* Requests come when the start-up is done, and the server of the other organization is not
\* deleted.
AfterStart == /\ boot = "done" \/ \A o \in Ops : op'[o].job = None
              /\ delete'[s3] = "no"

=============================================================================
