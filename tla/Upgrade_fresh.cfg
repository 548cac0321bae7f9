\* A fresh install whose user never touches the update policy.
\* The process may end at any step.
SPECIFICATION Spec
CONSTANTS
  Version = 2700
  Release = 2800
  NoVersion = NoVersion
  Absent = Absent
  Torn = Torn
  Stamps <- OlderVersions
  Faults = {}
  MaxMissed = 1
  MaxStaging = 2
  MaxEnds = 2
CHECK_DEADLOCK FALSE
INVARIANTS FreshInstallKeepsBuild
