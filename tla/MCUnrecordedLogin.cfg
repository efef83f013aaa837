SPECIFICATION Spec
CONSTANTS
  None = None
  Users = {u1}
  Browsers = {b1}
  SessionIds = {s1}
  Requests = {r1}
  SessionTtl = 1
  RememberTtl = 2
  MaxClock = 1
INVARIANTS
  ServedLoginIsRecorded
CHECK_DEADLOCK FALSE
