SPECIFICATION Spec
CONSTANTS
    Requests <- EnumerateAndUse
    MaxRequests = 3
    MaxReports = 1
    MaxBacklog = 2
    MaxOuts = 2
    Faults = {"token", "data", "handshake", "ack0", "ack0_last", "ack1", "abort"}
    MaxFaults = 1
    EarlyKeys = TRUE
    NULL = NULL
INVARIANTS
    TransferHasPacket
    OutBufferFresh
    OutRingNeverFills
    LedReportsArrive
