SPECIFICATION Spec
CONSTANTS
    a = a
    b = b
    ff = ff
    junk = junk
    Sectors = 2
    PagesPerSector = 3
    PageSize = 2
    Bytes = {a, b}
    Erased = ff
    Garbage = junk
    Writes <- MCWrites
    Erases <- MCErases
    Reads <- MCReads
    Formats <- MCFormats
    Slots = 10
    Attempts = 1
    MaxFaults = 0
    MaxLates = 0
    MaxRequests = 1
PROPERTY OkMeansErased
CHECK_DEADLOCK FALSE
