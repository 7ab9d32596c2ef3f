\* Every option, every profile and every part of the user's configuration.
SPECIFICATION Spec
CONSTANTS
  NumVersions = 2
  Configurations <- MCConfigurations
  UNSAVED = UNSAVED
INVARIANTS
  PrintsChosenMasks
  PrintsChosenKeys
  AnswersNonlocal
  KeywordsOfUserProfile
PROPERTY SummaryWhenChosen
