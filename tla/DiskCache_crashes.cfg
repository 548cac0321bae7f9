\* Two goroutines, one URL, one crash; collections, promotions, and the
\* writing and reading of the index may fail.
SPECIFICATION FairSpec
CONSTANTS
  w1 = w1 w2 = w2 w3 = w3 h1 = h1 h2 = h2
  NoWorker = NoWorker
  Hashes = {h1}
  Workers = {w1, w2}
  GcAge = 2
  MaxGen = 3
  LegacyMax = 1
  MaxCrashes = 1
  Faults = {"collection", "read", "write", "promotion"}
INVARIANTS MetadataMatchesContent TagNeverAhead IndexUpToDate ContentReachable
PROPERTIES RestartKeepsContent OperationsFinish
