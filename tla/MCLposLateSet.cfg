SPECIFICATION Spec
CONSTANTS
    v1 = v1
    v2 = v2
    v3 = v3
    Validators = {v1, v2}
    ValidatorSets <- MCSetsOfTwo
    MaxSetId = 1
    MaxId = 9
    SessionsPerEra = 2
    BondingDuration = 2
    HistoryDepths = {1}
    Payouts = {2}
    Activations = {TRUE}
    ForcedIds = {}
    ForcedSets = {}
    QueueMayRefuse = TRUE
    SetsArriveLate = TRUE
    MaxSession = 7
    MaxPoints = 0
    MaxOffences = 0
INVARIANTS
    AnchorEraIsNamed
CHECK_DEADLOCK FALSE
