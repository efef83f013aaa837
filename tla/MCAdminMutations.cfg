SPECIFICATION FairSpec
CONSTANTS
  i1 = i1
  i2 = i2
  r1 = r1
  r2 = r2
  Ids = {i1, i2}
  Requests = {r1, r2}
  Faulty = TRUE
INVARIANTS
  OkIsComplete
  RemovedStaysRemoved
  RowsDeletedOnce
PROPERTIES
  RecordedDeletesAreGone
  EveryOperationEnds
CHECK_DEADLOCK FALSE
