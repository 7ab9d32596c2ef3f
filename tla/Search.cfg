SPECIFICATION Spec
CONSTANTS
  NoFile = NoFile
  NoLabel = NoLabel
  Foreign = Foreign
  Kinds_tried = {"logic", "trees", "pipes", "options", "patterns", "defaults", "series", "redundancies", "switched", "gone"}
  MaxArgs = 3
  Scenarios <- MCScenarios
INVARIANT FindsWhatWasWritten EveryTestCounts RedundancyAsDocumented
CHECK_DEADLOCK FALSE
