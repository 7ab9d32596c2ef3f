SPECIFICATION Spec
CONSTANTS
  NoFile = NoFile
  NoLabel = NoLabel
  Foreign = Foreign
  Kinds_tried = {"elsewhere"}
  MaxArgs = 3
  Scenarios <- MCScenarios
INVARIANT NonexistentAsDocumented
CHECK_DEADLOCK FALSE
