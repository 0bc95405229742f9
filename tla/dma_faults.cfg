SPECIFICATION Spec
CONSTANTS
    a = a
    b = b
    ff = ff
    junk = junk
    Sectors = 2
    PagesPerSector = 3
    PageSize = 2
    Bytes = {a, b}
    Erased = ff
    Garbage = junk
    Writes <- MCWrites
    Erases <- MCErases
    Reads <- MCReads
    Formats <- MCFormats
    Slots = 10
    Attempts = 1
    MaxFaults = 1
    MaxLates = 1
    MaxRequests = 2
INVARIANT TypeOK
PROPERTY OkKeepsNeighbours
PROPERTY FaultFreeOkIsTrue
PROPERTY Answered
CHECK_DEADLOCK FALSE
