CONSTANTS
  Roots = {r1, r2}
  Linkers = {l1, l2}
  NoRoot = none
  PageSize = 1
  MaxChanges = 2
SPECIFICATION ReviewSpec
SYMMETRY Symmetry
INVARIANTS
  QuietReviewIsExact
  RefusalsAreExplained
CHECK_DEADLOCK FALSE
