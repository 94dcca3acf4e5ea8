\* One account, two ports, two requests, one failure, one retry.
CONSTANTS
  None = None
  Ids = {i1, i2}
  Accounts = {a1}
  Orgs = {g1}
  Ports = {p1, p2}
  Conns = {c1, c2, c3, c4}
  Reqs = {r1, r2}
  Steps <- OneExpiry
  MaxNow <- Expiry
  ErrCnt = 1
  MaxFaults = 1
SYMMETRY Interchangeable
SPECIFICATION Spec
INVARIANTS TypeOK KeysMatchRows ClientOfRow RowReached OneConnection
