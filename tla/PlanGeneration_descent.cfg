SPECIFICATION GenSpec
CONSTANTS
    MaxNodes = 3
    MaxAnswer = 2
    Noise = {"install"}
    Limit = 3
CHECK_DEADLOCK FALSE
INVARIANTS
    DescentGuarded
