SPECIFICATION MicroSpec
CONSTANTS
    Milli = 4
    Width = 16
    Wrap = 3
    Freqs <- MCFreqs
    MaxSlip = 2
CHECK_DEADLOCK FALSE
INVARIANTS
    MicroTypeOK
    MicrosTrue
