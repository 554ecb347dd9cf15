SPECIFICATION Spec
CONSTANTS
    Packets <- MCPackets
    MaxBits = 104
    Starts = {1, 2, 6, 7}
INVARIANTS
    TypeOK
    ReadsWhatWasSent
    StoresInSlot
PROPERTIES
    ImplementsUsbLine
    ReaderEnds
