\* One job, two servers of its organization and one of another, one failure.
CONSTANTS
  s1 = s1
  s2 = s2
  s3 = s3
  g1 = g1
  g2 = g2
  None = None
  Servers = {s1, s2, s3}
  Jobs = {j1}
  Bodies = {b1}
  Orgs = {g1, g2}
  OrgOf <- TwoOrgs
  Ops = {o1, o2}
  MaxFaults = 1
SPECIFICATION Spec
CONSTRAINT HasCrontabs
ACTION_CONSTRAINT AfterStart
SYMMETRY SameOrg
INVARIANTS InStep CronSameOrg SyncInv
PROPERTIES TableRefinement
CHECK_DEADLOCK FALSE
