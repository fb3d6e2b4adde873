\* Files shorter than, as long as and longer than three slots of two bytes.
SPECIFICATION FairSpec
CONSTANTS
    Files <- SmallFiles
    NumBytes = 2
    Slots = 3
INVARIANTS
    TypeOK
    ReadInv
    Capacity
    RoundTrip
    NeverEmptied
PROPERTIES
    Ends
