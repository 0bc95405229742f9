SPECIFICATION FairSpec
CONSTANTS
    Debounce = 2
    ClicksDelay = 4
    Hold = 6
    Timeout = 9
    MaxLag = 3
    MaxClicks = 3
INVARIANTS
    TypeOK
    ClicksAreReleases
    ClicksShown
    PinFollowed
    HeldMeansLong
PROPERTIES
    Forgotten
