SPECIFICATION TableSpec
CONSTANTS
    text = text
    j1 = j1
    j2 = j2
    c1 = c1
    c2 = c2
    Messages <- MCMessages
    Json <- MCJson
    Consumers <- MCConsumers
    BatchSize = 2
    MaxRetries = 1
    Fails = TRUE
    Dies = FALSE
    Repeats = FALSE
INVARIANTS
    NoDataLoss
CHECK_DEADLOCK FALSE
