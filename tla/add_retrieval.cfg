\* Three servers, two images, the field of five elements.
SPECIFICATION Spec
CONSTANTS
    Mod = 5
    Word = 80
    NumServers = 3
    NumImages = 2
INVARIANTS
    RetrievalInv
    SharesAddUp
    Retrieved
