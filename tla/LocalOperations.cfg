SPECIFICATION Spec
CONSTANTS
  early = early
  late = late
  first = first
  second = second
  manual = manual
  other = other
  recovery1 = recovery1
  recovery2 = recovery2
  Backup = {early, late}
  Restore = {first, second}
  Path = {manual, other, recovery1, recovery2}
  PathOf <- OwnPaths
  Server = Server
  None = None
  Torn = Torn
  Foreign = Foreign
  MaxCommits = 2
  MaxFaults = 1
  MaxCrashes = 2
CHECK_DEADLOCK FALSE
INVARIANTS
  NothingLost
  BackupsTrue
  WholeUnlessInterrupted
PROPERTY
  RunningUndisturbed
