SPECIFICATION Spec
CONSTANTS
    QSize = 4
    MaxPending = 3
    Packets = {p1, p2, z}
    Zeros = z
    NoSlot = NoSlot
INVARIANTS
    CapturesIntoHead
PROPERTIES
    ProcessingIsReentrant
    ImplementsFifo
