SPECIFICATION FairSpec
CONSTANTS
    Pins = {0, 1}
    Period = 3
    MaxOthers = 1
INVARIANTS
    TypeOK
    NoKeyTwice
    NoPacketForgotten
    ReadyUntilShown
PROPERTIES
    ReleaseArrives
    PressArrives
