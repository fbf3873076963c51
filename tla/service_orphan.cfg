SPECIFICATION Spec
CONSTANTS
  Core = {sing, xray}
  TunCore = sing
  Peer = {pa}
  Command <- StartOnly
  MaxOps = 2
  MaxEvents = 1
CHECK_DEADLOCK FALSE
INVARIANT NoOrphan
