\* One server, two jobs, two requests, one failure.
CONSTANTS
  s1 = s1
  s2 = s2
  s3 = s3
  g1 = g1
  g2 = g2
  None = None
  Servers = {s1}
  Jobs = {j1, j2}
  Bodies = {b1}
  Orgs = {g1}
  OrgOf <- OneOrg
  Ops = {o1, o2}
  MaxFaults = 1
SPECIFICATION Spec
ACTION_CONSTRAINT ServersStay
SYMMETRY Interchangeable
INVARIANTS TypeOK CronEntriesRunnable InStep
CHECK_DEADLOCK FALSE
