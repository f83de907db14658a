SPECIFICATION FairSpec
CONSTANTS
  Callers = {c1, c2}
  Worker = worker
  None = none
  Configs <- ReportsLeaveConfigs
  QueueSize = 1
INVARIANTS
  NeverBehindNetwork
  NoSelfWait
PROPERTIES
  CallsWindDown
  CallsReturn
