SPECIFICATION Spec
CONSTANTS
  Proc = {p1, p2}
  Kinds <- AllKinds
  MaxVer = 2
  Mirrors = 1
  MaxCmds = 3
  MaxFaults = 2
SYMMETRY Symm
CHECK_DEADLOCK FALSE
INVARIANTS TypeOK BinaryOrBackup OnlyVerified UninstallClears CheckedPair
