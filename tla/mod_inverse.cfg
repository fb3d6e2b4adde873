\* Share::mod_inverse on every small modulus and argument.
SPECIFICATION FairSpec
CONSTANTS
    Mods <- SmallMods
    Vals <- SmallVals
    MaxInt = 192
INVARIANTS
    Bezout
    Balance
    NoOverflow
    Inverse
    ThrowsRightly
PROPERTIES
    Ends
