SPECIFICATION Spec
CONSTANTS
    Requests <- Enumerate
    MaxRequests = 2
    MaxReports = 1
    MaxBacklog = 3
    MaxOuts = 1
    Faults = {}
    MaxFaults = 0
    EarlyKeys = FALSE
    NULL = NULL
INVARIANTS
    CorrectPid
