SPECIFICATION Spec
CONSTANTS
    r1 = r1
    r2 = r2
    r3 = r3
    Requests <- TwoRequests
    Clients <- NoHeaders
    RingCapacity = 2
    PageSize = 1
INVARIANTS
    OneTrace
