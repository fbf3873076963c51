SPECIFICATION Spec
CONSTANTS
  Procs = {cli, web}
  Web = {web}
  Watchdog = watchdog
  None = none
  Names <- MCNames
  Preset <- MCPreset
  Own <- MCOwn
  Sources <- MCSources
  Body <- MCBody
  Starts <- MCStarts
  MaxDay = 2
  MaxJobs = 3
  MaxFaults = 2
INVARIANTS TypeOK ListNamesHosts EnabledIsUsable UpdateTimeIsEarned NeverWiderThanAsked
PROPERTIES AutoUpdateCatchesUp
CHECK_DEADLOCK FALSE
