SPECIFICATION Spec
CONSTANTS
    Degrees = {2048, 4096, 8192, 16384}
    MaxSends = 2
    Compressed = {0, 9000}
    Cuts <- MCCuts
    Chance = 8
INVARIANTS Fits StaleBytesUnread
PROPERTIES ImplementsAdapter
