SPECIFICATION Spec
CONSTANTS
    v1 = v1
    v2 = v2
    v3 = v3
    Validators = {v1, v2}
    ValidatorSets <- MCSetsOfTwo
    MaxSetId = 1
    MaxId = 9
    SessionsPerEra = 2
    BondingDuration = 2
    HistoryDepths = {1}
    Payouts = {0, 2}
    Activations = {TRUE}
    ForcedIds = {}
    ForcedSets = {}
    QueueMayRefuse = FALSE
    SetsArriveLate = TRUE
    MaxSession = 4
    MaxPoints = 6
    MaxOffences = 1
INVARIANTS
    NoEarlyReward
    OffencesAreConserved
PROPERTIES
    EveryEraIsPaidOnce
    ExclusionIsFair
CHECK_DEADLOCK FALSE
