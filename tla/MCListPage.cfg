SPECIFICATION Spec
CONSTANTS
  Ids = {1, 2, 3}
  Named = {2, 3}
  Archived = {3}
  Filters = {"all", "deleted"}
  PageSize = 1
  MaxLoads = 2
  MaxActions = 1
  MaxClicks = 3
INVARIANTS RowsAreCurrent SelectionIsOfTheQuery AllMeansAll
PROPERTIES SearchSettles
CHECK_DEADLOCK FALSE
