\* Fresh installs and upgrades from five versions, two ends of the process at
\* any step, every write and rename may fail.
SPECIFICATION Spec
CONSTANTS
  Version = 2700
  Release = 2800
  NoVersion = NoVersion
  Absent = Absent
  Torn = Torn
  Stamps <- OlderVersions
  Faults = {"save", "stamp", "autostart"}
  MaxMissed = 1
  MaxStaging = 2
  MaxEnds = 2
CHECK_DEADLOCK FALSE
INVARIANTS InterruptedUpgradeConverges ExecutableRecoverable AnnouncedMeansInstalled
