SPECIFICATION SpecCalls
CONSTANTS
  plain = plain
  greedy = greedy
  other = other
  read = read
  write = write
  r1 = r1
  r2 = r2
  c1 = c1
  Run = {r1, r2}
  Manifest = {plain, greedy, other}
  Scaffold = plain
  Permission = {read, write}
  Requested <- Asks
  PluginOf <- Plugins
  SaveLimit = 2
  FaultLimit = 1
  PutLimit = 2
  Call = {c1}
  Needed = write
SYMMETRY RunSymmetry
CHECK_DEADLOCK FALSE
INVARIANTS
  OneSession
  ServesWhatWasGranted
  ManifestCurrent
PROPERTY
  NoWorkAfterTeardown
