SPECIFICATION FairTeamSpec
CONSTANTS
  Proc = {p1, p2}
  NoProc = NoProc
  Port = {a, b}
  Val = {v0, v1}
  DefVal = v0
  Kind <- AllKinds
  Teams <- LockedTeams
INVARIANTS TypeOK NoLostUpdate
PROPERTIES AtomicSpec LocksAreReleased
