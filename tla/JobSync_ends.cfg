\* One server, one job with two bodies, two requests, no failure, under fairness.
CONSTANTS
  s1 = s1
  s2 = s2
  s3 = s3
  g1 = g1
  g2 = g2
  None = None
  Servers = {s1}
  Jobs = {j1}
  Bodies = {b1, b2}
  Orgs = {g1}
  OrgOf <- OneOrg
  Ops = {o1, o2}
  MaxFaults = 0
SPECIFICATION FairSpec
PROPERTIES OpsEnd
CHECK_DEADLOCK FALSE
