SPECIFICATION Spec
CONSTANTS
  i1 = i1
  i2 = i2
  r1 = r1
  r2 = r2
  Ids = {i1, i2}
  Requests = {r1, r2}
  Faulty = FALSE
INVARIANTS
  DeletesAreRecorded
CHECK_DEADLOCK FALSE
