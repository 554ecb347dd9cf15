SPECIFICATION Spec
CONSTANTS
    Pins = {0, 1}
    Period = 2
    MaxOthers = 0
PROPERTIES
    ReleasedRemoved
