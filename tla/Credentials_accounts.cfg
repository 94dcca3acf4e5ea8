\* One account, two e-mails, a verification key, a reset code, two requests, one failure.
SPECIFICATION Spec
CONSTANTS
  Users = {u1}
  Emails = {e1, e2}
  Keys = {k1}
  Codes = {c1}
  Reqs = {r1, r2}
  None = None
  MaxLogins = 2
  MaxPass = 3
  MaxFaults = 1
SYMMETRY Interchangeable
INVARIANTS TypeOK VerifiedEmail AttemptsCounted PasswordKnown ResetCodesSpent
PROPERTIES BanLifted PasswordNotRestored
CHECK_DEADLOCK FALSE
