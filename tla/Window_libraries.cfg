SPECIFICATION Spec
CONSTANTS
  Texts <- ThreeTexts
  SavedAs <- Trimmed
  Libraries <- TwoLibraries
  Apps <- TwoApps
  MaxActs = 5
  Urls = {"u"}
  MaxClicks = 1
  StatsSaveInterval = 2
  MaxEvents = 1
CHECK_DEADLOCK FALSE
INVARIANT LibrariesAsShown
