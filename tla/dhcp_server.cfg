SPECIFICATION Spec
CONSTANTS
    Entries = 3
    Uids = {u1, u2, u3, u4, u5}
    NoUid = NoUid
    MaxSeq = 7
CHECK_DEADLOCK FALSE
INVARIANTS
    OneAddressPerClient
PROPERTIES
    OldestKickedOut
    ImplementsLeaseTable
