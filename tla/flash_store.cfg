SPECIFICATION Spec
CONSTANTS
    a = a
    b = b
    ff = ff
    junk = junk
    Sectors = 2
    PagesPerSector = 2
    PageSize = 2
    Bytes = {a, b}
    Erased = ff
    Garbage = junk
    Datas <- MCDatas
    Lists <- MCLists
    MaxCalls = 2
    Formats <- MCFormats
INVARIANT TypeOK
PROPERTY KeepsPromise
PROPERTY NeverSpoils
PROPERTY CallsReturn
