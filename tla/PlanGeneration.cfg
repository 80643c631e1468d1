SPECIFICATION GenSpec
CONSTANTS
    MaxNodes = 4
    MaxAnswer = 2
    Noise = {"install"}
    Limit = 3
CONSTRAINT FewBrokenDown
CHECK_DEADLOCK FALSE
INVARIANTS
    GenTypeOK
    LeavesJudged
    CheckpointsLazy
    NearbyIsBall
    NormalizeSound
