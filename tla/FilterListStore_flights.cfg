\* Two callers of one URL, two calls each, one slot, disk faults.
SPECIFICATION FairSpec
CONSTANTS
  c1 = c1 c2 = c2 c3 = c3 u1 = u1 u2 = u2
  NoCaller = NoCaller
  Callers <- TwoCallers
  Urls <- OneUrl
  Modes = {"default", "preferCache"}
  Slots = 1
  MaxAttempts = 2
  MaxVersion = 2
  MaxGets = 2
  DiskFaults = TRUE
INVARIANTS TypeOK FlightOwnership SlotAccounting NoLostWakeup ValidatorsMatchContent
PROPERTIES ContentNeverOlder KeepsPromises GetTerminates
