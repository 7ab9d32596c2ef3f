SPECIFICATION Spec
CONSTANTS
  incremental_keys <- MCIncrementals
  source_prefix <- MCSourcePrefix
  varprefix = "COREQ_"
  VarPrefixes <- MCPrefixes
  Columns <- MCColumns
  Later <- MCLater
  MaxLookups = 2
  Batch = 12
INVARIANT ReadsAsMeant ResolvedIsExpansion FailsOnlyIfUndefined DefaultsResolve
PROPERTY ReadEnds
