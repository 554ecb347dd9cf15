SPECIFICATION FairSpec
CONSTANTS
    rx = rx
    c1 = c1
    c2 = c2
    v1 = v1
    v2 = v2
    Nodes = {rx, c1, c2}
    Receiver = rx
    Clients = {c1, c2}
    Slots = {2, 3}
    Versions = {v1, v2}
    FirstVersions <- MCMixed
    MAX_PACKET_HANDLERS = 5
    MaxFaults = 1
CHECK_DEADLOCK FALSE
INVARIANTS
    TypeOK
    HandlersFit
    UniqueAddresses
    FirmwareChecked
PROPERTIES
    AddressKept
    EveryClientStarts
