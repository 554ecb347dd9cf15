SPECIFICATION Spec
CONSTANTS
    Heard <- MCHeard
    ToSend <- MCToSend
    Addresses <- MCAddresses
    Cuts <- MCCuts
    NoPacket = NoPacket
    Garbled = Garbled
INVARIANT ListensConfigured
PROPERTY ImplementsPort
PROPERTY ListensAgain
