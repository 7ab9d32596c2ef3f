\* Up to three overlays with every method, in every order.
SPECIFICATION Spec
CONSTANTS
  Keys <- MCKeys
  priority <- MCPriority
  Setups <- MCSetups
  Enabled = {1}
  Cachefiles <- MCCachefiles
  Directories <- MCDirectories
  Garbage = {7}
INVARIANTS
  AddedOnce
  NothingLost
  LatestDescribes
