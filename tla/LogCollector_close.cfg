\* No failure at all: does the row of a finished run get closed?.
CONSTANTS
  s1 = s1
  j1 = j1
  None = None
  Servers = {s1}
  Jobs = {j1}
  Runs = {r1}
  Passes = {p1}
  ServerOf <- OneServerOf
  JobOf <- FirstJobOf
  MaxStderr = 1
  MaxFaults = 0
SPECIFICATION FairSpec
PROPERTIES FinishedRunClosed
