\* Two packages and one; every cut of the file; four pairs of options.
SPECIFICATION Spec
CONSTANTS
  Base = 4
  MaxSize = 1000
  Trees <- MCTrees
  Overlays <- MCOverlays
  Options <- MCOptions
INVARIANTS
  ReadsWhatWasWritten
  KeepsWholePackages
  NoPackageHidden
