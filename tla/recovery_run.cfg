SPECIFICATION FairSpec
CONSTANTS
  Errors <- MCErrors
  SYS_TICK_ERROR = 1
  RTC_ERROR = 2
  POWER_ERROR = 3
  LOAD_ERROR = 5
  HARD_FAULT = 6
  AppErrors <- MCAppErrors
  TimeoutSet = TRUE
  AppMayWait = TRUE
  Garbage = Garbage
  MaxChanges = 3
  MaxGlitches = 1
  MaxFaults = 2
INVARIANTS
  TypeOK
  LastErrorGenuine
PROPERTY UnreadyEndsInReset
