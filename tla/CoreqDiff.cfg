\* Every pair of cachefiles over three packages, every cut, every set of changes.
SPECIFICATION Spec
CONSTANTS
  Names <- MCNames
  MaxLength = 3
INVARIANTS
  ReportsTheDifference
  FailureIsReported
  OutputIsOrdered
  OneOwner
