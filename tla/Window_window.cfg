\* Five acts on a control, four on the filter lists, five events of the counters.
SPECIFICATION Spec
CONSTANTS
  Texts <- ThreeTexts
  SavedAs <- Trimmed
  Libraries <- TwoLibraries
  Apps <- TwoApps
  MaxActs = 5
  Urls = {"u"}
  MaxClicks = 4
  StatsSaveInterval = 2
  MaxEvents = 5
INVARIANTS  ListsTellTruth CountersCatchUp CountersSaved
PROPERTIES ControlsSettle
CHECK_DEADLOCK FALSE
