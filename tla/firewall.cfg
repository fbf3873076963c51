SPECIFICATION Spec
CONSTANTS
  Settings <- BothModes
  MaxOps = 3
  MaxEvents = 2
INVARIANTS TypeOK RemoveReleasesTraffic FastPathComesBack AppliedCaptures BypassComesFirst
CHECK_DEADLOCK FALSE
