SPECIFICATION SpecServers
CONSTANTS
  first = first
  second = second
  third = third
  pidA = pidA
  pidB = pidB
  Server = {first, third}
  None = None
  Instance = {first, second, third}
  PidOf <- Restarted
  ForeignPid = {pidB}
CHECK_DEADLOCK FALSE
INVARIANT
  AtMostOneWriter
