SPECIFICATION FairSpec
CONSTANTS
  scaling = scaling
  errorCheck = errorCheck
  task = task
  fastIsr = fastIsr
  slowIsr = slowIsr
  SystemJobs <- MCSystemJobs
  UserJobs <- MCUserJobs
  IsrJobs <- MCIsrJobs
  ErrorJobs <- MCErrorJobs
  Failing = {errorCheck, task}
  Period <- MCPeriod
  Stretch = 1
  Capacity = 4
  StatusPrint = FALSE
INVARIANTS
  TypeOK
  IsrJobServedSoon
PROPERTIES
  JobsKeepRunning
