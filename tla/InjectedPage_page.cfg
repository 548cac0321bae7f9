\* The page makes up to three requests, writes twice, or changes its elements twice.
SPECIFICATION Spec
CONSTANTS
  Urls = {"n", "j", "b"}
  Prevented = {"b"}
  ToPrune = {"j", "b"}
  Pruned <- PrunedOfAds
  Removed <- RemovedPaths
  Required = {}
  Bodies <- TwoBodies
  MaxObjects = 1
  MaxRequests = 3
  Keys = {"a", "b"}
  Pages <- SomePages
  Given <- OneOrTwo
  MaxWrites = 2
  Values <- SomeValues
  PrunePaths <- SomePaths
  Rules <- FourRules
  Unparsable <- Refused
  ParsedList <- ParseSelectorList
  Found <- SearchDocument
  Documents <- OneDocument
  Browsers <- OneBrowser
  Forms <- AllForms
  Samples <- AllDocuments
  Words = {"w"}
  PageClasses = {"a"}
  Foreign = {4}
  Delay = 1
  MaxChanges = 2
INVARIANTS PreventedNeverSent PrunedContent ChainTrapped Undisturbed PrunesWhatIsNamed QuietMeansRight SelectorsMean
PROPERTIES EverySendAnswered EngineSettles
CHECK_DEADLOCK FALSE
