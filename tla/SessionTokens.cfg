SPECIFICATION Spec
CONSTANTS
    auth = auth
    analytics = analytics
    r1 = r1
    old = old
    c1 = c1
    c2 = c2
    Workers <- MCWorkers
    Auth = auth
    Logins <- MCLogins
    Legacy <- MCLegacy
    Checks <- MCChecks
    TTL = 1
    Skew = 1
    MaxKey = 2
    MaxTime = 4
SYMMETRY Symmetry
INVARIANTS
    TypeOK
    JudgedRight
    RefusalIsFinal
CHECK_DEADLOCK FALSE
