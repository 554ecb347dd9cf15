SPECIFICATION FairSpec
CONSTANTS
    Requests <- AllExceptExact
    MaxRequests = 4
    MaxReports = 0
    MaxBacklog = 3
    MaxOuts = 0
    Faults = {"ack0", "data"}
    MaxFaults = 2
    EarlyKeys = FALSE
    NULL = NULL
INVARIANTS
    OneAckPerPacket
    NoTornPacket
    ControlDataIntact
    ControlReadComplete
PROPERTIES
    ControlEnds
