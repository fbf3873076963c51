SPECIFICATION Spec
CONSTANTS
  Core = {sing, xray}
  TunCore = sing
  Peer = {pa, pb}
  Command <- AllCommands
  MaxOps = 3
  MaxEvents = 2
SYMMETRY Symm
CHECK_DEADLOCK FALSE
INVARIANTS TypeOK PidFilesAreTrue StopLeavesNothing FailedStartIsUndone
PROPERTIES PeersOutliveCores
