\* One job, two servers of two organizations, one run.
CONSTANTS
  s1 = s1
  s2 = s2
  j1 = j1
  g1 = g1
  g2 = g2
  None = None
  Servers = {s1, s2}
  Jobs = {j1}
  Bodies = {b1}
  Orgs = {g1, g2}
  OrgOf <- TwoOrgs
  Ops = {o1}
  MaxFaults = 1
  Runs = {r1}
  Passes = {p1}
  MaxStderr = 0
  RunOf <- OneRun
  MaxPassFaults = 1
SPECIFICATION MCSpec
INVARIANTS LogsSameOrg
PROPERTIES CollectorRefinement
CHECK_DEADLOCK FALSE
