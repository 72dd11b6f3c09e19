SPECIFICATION Spec
CONSTANTS
    r1 = r1
    r2 = r2
    r3 = r3
    i1 = i1
    i2 = i2
    bob = bob
    debug = debug
    p1 = p1
    p2 = p2
    Requests <- TwoRequests
    Isolates <- TwoIsolates
    Names <- MCNames
    DebugName = debug
    Passwords <- MCPasswords
    DebugPassword = p1
    LegacyUsers <- OldBob
    D1Fails = FALSE
INVARIANTS
    RegisterAnswers
