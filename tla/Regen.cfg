SPECIFICATION Spec
CONSTANTS
  Ebuilds <- MCEbuilds
  FoundByShell <- MCFoundByShell
  FoundInText <- MCFoundInText
  HasLiveVersion <- MCHasLiveVersion
  IsReadable <- MCIsReadable
  Starts <- MCStarts
INVARIANT ExpectsTheDistfiles
PROPERTIES RegeneratesTheBad NoFurtherCommand Terminates
