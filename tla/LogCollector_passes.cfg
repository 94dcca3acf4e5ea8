\* One server, two runs of one job, one failure (but for saves), under fairness.
CONSTANTS
  s1 = s1
  j1 = j1
  None = None
  Servers = {s1}
  Jobs = {j1}
  Runs = {r1, r2}
  Passes = {p1, p2}
  ServerOf <- OneServerOf
  JobOf <- FirstJobOf
  MaxStderr = 1
  MaxFaults = 1
SPECIFICATION FairSpec
INVARIANTS TypeOK NothingLost MovedRunsClosed InProgressExact CollectorInv
PROPERTIES StatusSound RowsOnlyAdvance LedgerRefinement Drained
