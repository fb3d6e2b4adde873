\* Three servers, one image, any -t.
SPECIFICATION Spec
CONSTANTS
    Mod = 5
    NumServers = 3
    NumImages = 1
    Privacies <- AllPrivacies
    Mantissa = 8
    IntWidth = 10
INVARIANTS
    ThresholdHides
