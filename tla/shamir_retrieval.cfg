\* Three servers, two images, the field of five elements, any -t up to 3.
SPECIFICATION Spec
CONSTANTS
    Mod = 5
    NumServers = 3
    NumImages = 2
    Privacies <- AllPrivacies
    Mantissa = 8
    IntWidth = 10
INVARIANTS
    ResponsesOnPolynomial
    Retrieved
    DegreeHides
