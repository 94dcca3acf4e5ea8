\* Two users and two organizations, with and without rows at the start, three sessions, three
\* requests, two of them at a time, one failure. The bound on requests ends a behaviour.
SPECIFICATION Spec
CONSTANTS
  Users = {u1, u2}
  Orgs = {o1, o2}
  Sids = {s1, s2, s3}
  Codes = {c1}
  Reqs = {r1, r2}
  None = None
  Stores <- Start
  RightsInputs <- OwnerRights
  Routes <- ReadLogs
  MaxRequests = 3
  MaxFaults = 1
SYMMETRY Interchangeable
INVARIANTS TypeOK SessionOrgs RightsOnceHeld HandlerRights EndedStaysGone CodeAdmitsOnce
PROPERTIES ChangesAuthorised OthersSessionsKept
CHECK_DEADLOCK FALSE
