SPECIFICATION FairSpec
CONSTANTS
    Requests <- Enumerate
    MaxRequests = 2
    MaxReports = 4
    MaxBacklog = 2
    MaxOuts = 0
    Faults = {"ack1"}
    MaxFaults = 3
    EarlyKeys = FALSE
    NULL = NULL
INVARIANTS
    TypeOK
    CorrectPid
PROPERTIES
    ImplementsPipe
    EveryReportDelivered
    ReportsGetOut
