SPECIFICATION Spec
CONSTANTS
    P = 5
    Secret = 2
    Mask = 3
    RelinCount = 1
    SizeMax = 4
    TopLevel = 2
    Operands <- MCOperands
    Lists <- MCLists
    Plains <- MCPlains
    MaxExponent = 5
    MaxTerms = 2
INVARIANTS ValidResults Homomorphic
PROPERTIES NoSilentDamage
