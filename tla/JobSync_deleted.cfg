\* No failure: a job on a deleted server.
CONSTANTS
  s1 = s1
  s2 = s2
  s3 = s3
  g1 = g1
  g2 = g2
  None = None
  Servers = {s1}
  Jobs = {j1}
  Bodies = {b1}
  Orgs = {g1}
  OrgOf <- OneOrg
  Ops = {o1}
  MaxFaults = 0
SPECIFICATION Spec
INVARIANTS NoJobOnDeleted
CHECK_DEADLOCK FALSE
