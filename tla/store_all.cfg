SPECIFICATION TeamSpec
CONSTANTS
  Proc = {p1, p2}
  NoProc = NoProc
  Port = {}
  Val = {v0, v1}
  DefVal = v0
  Kind <- AllKinds
  Teams <- MixedTeam
SYMMETRY Symm
VIEW WithoutIntent
INVARIANT StaleOnlyAcrossLocks
