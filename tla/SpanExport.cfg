SPECIFICATION Spec
CONSTANTS
    a = a
    b = b
    c = c
    d = d
    Spans <- MCSpans
    MaxBuffered = 2
    Attempts = 2
SYMMETRY Symmetry
INVARIANTS
    TypeOK
    OnePlace
    PostBudget
PROPERTIES
    SettledIsFinal
    ImplementsBestEffort
