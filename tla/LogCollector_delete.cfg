\* No failure at all: what becomes of the file of a stored run.
CONSTANTS
  s1 = s1
  j1 = j1
  None = None
  Servers = {s1}
  Jobs = {j1}
  Runs = {r1}
  Passes = {p1}
  ServerOf <- OneServerOf
  JobOf <- FirstJobOf
  MaxStderr = 1
  MaxFaults = 0
SPECIFICATION Spec
INVARIANTS StoredLogDeleted
