\* Five servers and a mantissa of five bits, too short for 5^4.
SPECIFICATION Spec
CONSTANTS
    Mod = 7
    NumServers = 5
    NumImages = 1
    Privacies <- NoPrivacy
    Mantissa = 5
    IntWidth = 10
INVARIANTS
    SharesOnPolynomial
