SPECIFICATION FairSpec
CONSTANTS
    p0 = p0
    p1 = p1
    Modes = {"flash", "eeprom"}
    Pages = {p0, p1}
    SectorSets <- MCSectors
    FirstPage = p0
    Vals = {a}
    a = a
    Blank = blank
    Junk = junk
    Spans <- MCSpans
    ErrorsMax = 5
    Wrap = 8
INVARIANTS
    TypeOK
    MemoryErrorEarned
    ReadsStored
PROPERTIES
    FaultAnswered
