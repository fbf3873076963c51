SPECIFICATION FairSpec
CONSTANTS
  Owned <- TunTables
  Tun = TRUE
  Ops <- AllOps
  ViaShim <- Both
  HaveFlock = TRUE
  Hook = {h1, h2}
  Cmd = {c1}
  MaxEvents = 2
  MaxCmds = 2
  MaxFaults = 1
  Throttle = 2
  TrailSleep = 1
  WatchdogPeriod = 3
  Watchdog = Watchdog
  NoOne = NoOne
CHECK_DEADLOCK FALSE
INVARIANTS TypeOK StopsForGood
PROPERTIES ThrottleHolds WatchdogRestores
