SPECIFICATION Spec
CONSTANTS
    r1 = r1
    r2 = r2
    r3 = r3
    Requests <- MCRequests
    Clients <- MCClients
    RingCapacity = 2
    PageSize = 1
SYMMETRY Symmetry
INVARIANTS
    TypeOK
    CountsAgree
    RingIsNewest
    RecordedAsAnswered
    TraceJoined
