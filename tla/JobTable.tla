------------------------------ MODULE JobTable ------------------------------
(***************************************************************************)
(* What the requests of JobsService make of the table job.  A request      *)
(* takes the row of one job, which no other has then, and knows from that  *)
(* moment what it will make of it; it makes it, or drops it.  JobSync      *)
(* implements this specification.                                          *)
(***************************************************************************)
EXTENDS Naturals

CONSTANTS Servers, Jobs, Bodies, OrgOf, Ops, None   \* as in JobSync

VARIABLES
  jobs,  \* job: its row
  work   \* request: the job it has taken, and the row it will make of it

TableVars == <<jobs, work>>

NewRow == [ssh : Servers, body : Bodies, isActive : 0..1, isDel : 0..1]

TableInit == jobs = [j \in Jobs |-> None] /\ work = [o \in Ops |-> None]

\* A job is added active; its row is edited within its organization, which sets a deleted
\* job back; a job that is there is removed, and nothing else of its row changes.
Added(old, new) == old = None /\ new.isActive = 1 /\ new.isDel = 0
Edited(old, new) == old # None /\ new.isDel = 0 /\ OrgOf[new.ssh] = OrgOf[old.ssh]
Removed(old, new) == old # None /\ old.isDel = 0 /\ new = [old EXCEPT !.isDel = 1]

May(old, new) == Added(old, new) \/ Edited(old, new) \/ Removed(old, new)

Takes(o) ==
  /\ work[o] = None /\ work'[o] # None
  /\ \E j \in Jobs, new \in NewRow :
       /\ \A x \in Ops : work[x] # None => work[x].job # j
       /\ May(jobs[j], new)
       /\ work' = [work EXCEPT ![o] = [job |-> j, new |-> new]]
  /\ UNCHANGED jobs

Makes(o) ==
  /\ work[o] # None
  /\ jobs' = [jobs EXCEPT ![work[o].job] = work[o].new]
  /\ work' = [work EXCEPT ![o] = None]

\* Several at once when the process dies.
Drops ==
  /\ work' \in [Ops -> {None} \union {work[o] : o \in Ops}]
  /\ \A o \in Ops : work'[o] \in {work[o], None}
  /\ UNCHANGED jobs

TableNext == Drops \/ \E o \in Ops : Takes(o) \/ Makes(o)

TableSpec == TableInit /\ [][TableNext]_TableVars

=============================================================================
