SPECIFICATION Spec
SYMMETRY Symmetry
CONSTANTS
  j1 = j1
  j2 = j2
  Jobs <- MCJobs
  Matching <- MCMatching
  Readers = {r1}
  Operators <- MCOperators
  o1 = o1
  o2 = o2
  PageSize = 1
  PanelLimit = 2
  Limit = 2
  MaxPage = 2
  MaxInFlight = 2
INVARIANTS StableJobsAreFound ListingIsSound CountIsDone RefusalsAreRaces
CHECK_DEADLOCK FALSE
