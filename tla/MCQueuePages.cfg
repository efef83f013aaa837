SPECIFICATION FairPageSpec
CONSTANTS
  Tabs = {"failed", "delayed"}
  NoFilter = none
  Filters = {none, f}
  CanManage = TRUE
  LastPage = 2
  MaxLoads = 2
  MaxActions = 1
  MaxClicks = 3
INVARIANTS ShownIsCurrent
PROPERTIES ConfirmationEnds
CHECK_DEADLOCK FALSE
