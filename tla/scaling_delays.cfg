SPECIFICATION FairSpec
CONSTANTS
  task = task
  realtime = realtime
  Jobs = {task, realtime}
  Period <- MCPeriod
  Priority <- MCPriority
  SystemJobs = {}
  Realtime = {realtime}
  Shares = {0, 8}
  SECOND = 10
  LOAD_SCALE = 100
  FIX = 1
  LOAD_WRN = 10
  TARGET = 70
  SCALE_MAX = 120
  Word = 4096
INVARIANTS
  TypeOK
  NeverSooner
PROPERTIES
  OverloadSlows
  LetsGo
