SPECIFICATION Spec
CONSTANTS
    r1 = r1
    r2 = r2
    NoRev = NoRev
    Revs <- TwoRevs
    NextSec = 1
    RefreshGap = 1
    MaxFails = 2
    MaxSleep = 3
    SecWrap = 64
    MaxClock = 5
    MaxResets = 1
    MaxBrokenClocks = 1
SYMMETRY Symmetric
INVARIANTS TypeOK AsksAboutWhatItShows
PROPERTY AgeIsBracketed
CHECK_DEADLOCK FALSE
