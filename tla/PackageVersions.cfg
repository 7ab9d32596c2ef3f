\* Up to four versions of two numbers in three overlays, in every order.
SPECIFICATION Spec
CONSTANTS
  Keys <- MCKeys
  priority <- MCPriority
  Basic = {1, 2}
  Masks = {"SYSTEM"}
  MaxVersions = 4
INVARIANTS
  VersionsSorted
  DuplicatesKnown
  SummaryKnown
