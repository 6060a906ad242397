\* Literals of both families, well-formed or not, through every parser.
SPECIFICATION Spec
CONSTANTS
    Octet = 16
    OctetDigits = 2
    Hexlet = 256
    HexletDigits = 2
    Hexlets = 8
    Literals <- AllLiterals
INVARIANTS
    ParsesIPv4
    ParsesCanonical
    ParsesIPv6
    StaysInside
    OneFamily
