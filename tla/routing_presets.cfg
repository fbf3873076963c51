SPECIFICATION Spec
CONSTANTS
  Procs = {p1, p2}
  Packets <- MCPackets
  Covers <- MCCovers
  Literal = {"youtu"}
  Geosite = {"geosite-youtube"}
  Geoip = {"geoip-ru"}
  Peers = {"mieru"}
  NewRules <- MCRules
  NewTags = {"vpn"}
  NewSets <- MCSets
  Starts <- MCStarts
  MaxRules = 3
  MaxEdits = 2
  MaxRuns = 2
  MaxEvents = 1
  MaxAll = 3
SYMMETRY Symmetry
CHECK_DEADLOCK FALSE
INVARIANT BogonPresetSparesOthers
