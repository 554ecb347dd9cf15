SPECIFICATION FairSpec
CONSTANTS
    Requests <- EnumerateAndUse
    MaxRequests = 3
    MaxReports = 1
    MaxBacklog = 3
    MaxOuts = 0
    Faults = {}
    MaxFaults = 0
    EarlyKeys = FALSE
    NULL = NULL
PROPERTIES
    NullPacketEndsTransfer
