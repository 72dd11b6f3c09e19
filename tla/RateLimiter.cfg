SPECIFICATION Spec
CONSTANTS
    login = login
    register = register
    Keys <- MCKeys
    Limit <- MCLimit
    Window = 2
    Skew <- MCSkew
    MaxSkew = 1
    MaxTime = 5
INVARIANTS
    TypeOK
    WindowBound
    RemainingHonest
    LockoutBound
    SlidingBound
PROPERTIES
    ImplementsQuota
