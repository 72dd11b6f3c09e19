SPECIFICATION FairSpec
CONSTANTS
    Limits <- MCLimits
    Cursors <- MCCursors
    Width = 8
    MaxLimit = 3
    MaxRows = 5
    MaxSeconds = 2
INVARIANTS
    TypeOK
    ScanMissesOnlyRaced
    SummaryNeverShort
PROPERTIES
    ScanEnds
    PagesAdvance
CHECK_DEADLOCK FALSE
