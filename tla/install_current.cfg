SPECIFICATION Spec
CONSTANTS
  Proc = {p1, p2}
  Kinds <- AllKinds
  MaxVer = 2
  Mirrors = 2
  MaxCmds = 3
  MaxFaults = 1
SYMMETRY Symm
CHECK_DEADLOCK FALSE
INVARIANTS UpToDateIsInstalled
