SPECIFICATION Spec
SYMMETRY Symmetry
CONSTANTS
  None = None
  Users = {u1, u2}
  Browsers = {b1}
  SessionIds = {s1, s2}
  Requests = {r1, r2}
  SessionTtl = 1
  RememberTtl = 2
  MaxClock = 2
INVARIANTS
  DeadSessionIsNeverServed
  ActsForOwner
  SuccessIsRecorded
  LogoutEndsSession
  NoResurrection
CHECK_DEADLOCK FALSE
