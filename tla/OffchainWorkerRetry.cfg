SPECIFICATION Spec
CONSTANTS
    Runs = {r1}
    GracePeriod = 2
    ReorgDepth = 1
    MaxBlock = 2
    MaxStarts = 1
INVARIANTS
    NoAnswerIsThrownAway
CHECK_DEADLOCK FALSE
