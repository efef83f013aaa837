SPECIFICATION Spec
CONSTANTS
  Values = {"v1", "v2", "v3"}
  Existing = {"v1", "v2"}
  Texts = {"", "text"}
  First <- MCFirst
  Names = {"", "a", "done"}
  MaxLookups = 2
  MaxPosts = 1
  MaxClicks = 3
INVARIANTS FormIsRecord SaveKeepsUntouched OptionsAreOfTheQuery LabelsAreOfTheValue
PROPERTIES BusyEnds
CHECK_DEADLOCK FALSE
