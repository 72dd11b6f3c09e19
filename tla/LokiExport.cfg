SPECIFICATION FairSpec
CONSTANTS
    a = a
    b = b
    c = c
    Requests <- MCRequests
    MaxEvents = 2
    MaxPushes = 1
    Attempts = 2
INVARIANTS
    TypeOK
    EventOnce
    NothingStranded
PROPERTIES
    EventsMoveOn
    ImplementsBestEffort
