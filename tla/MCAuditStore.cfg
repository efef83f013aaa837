SPECIFICATION FairSpec
CONSTANTS
  r1 = r1
  r2 = r2
  r3 = r3
  MaxEntries = 2
  Ids = {1, 2, 3, 4}
  Requests = {r1, r2, r3}
  Times = {1, 2}
INVARIANTS
  TypeOK
  NewestRetained
  OverflowAccounted
  BoundedAtRest
PROPERTIES
  ImplementsAuditLog
  SurplusIsPruned
CHECK_DEADLOCK FALSE
