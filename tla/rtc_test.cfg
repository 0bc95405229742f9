SPECIFICATION FairRtcSpec
CONSTANTS
    Builds = {"DS1302", "DS1307"}
    StartSeconds <- MCStartSeconds
    Century = 20
    TestDays <- MCTestDays
    LastDay = 36523
    MaxTicks = 2
    TestTicks = 2
    MaxFailures = 1
INVARIANTS
    RtcTypeOK
    DatesAgree
    TestsKeepTime
PROPERTIES
    ErrorWithdrawn
