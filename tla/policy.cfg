SPECIFICATION Spec
CONSTANTS
  Ifaces = {isp, lte}
  Marks = {aaa, aab}
  Hosts = {phone, tv}
  None = none
  MaxEvents = 3
  MaxJobs = 2
  MaxFaults = 2
INVARIANTS TypeOK StartMakesPolicy UninstallForgets
PROPERTIES MarkIsFollowed
CHECK_DEADLOCK FALSE
