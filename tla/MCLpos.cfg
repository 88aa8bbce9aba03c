SPECIFICATION Spec
CONSTANTS
    v1 = v1
    v2 = v2
    v3 = v3
    Validators = {v1, v2, v3}
    ValidatorSets <- MCSetsOfThree
    MaxSetId = 2
    MaxId = 9
    SessionsPerEra = 3
    BondingDuration = 2
    HistoryDepths = {1, 2}
    Payouts = {0, 2}
    Activations = {TRUE, FALSE}
    ForcedIds = {0}
    ForcedSets = {{v1}}
    QueueMayRefuse = TRUE
    SetsArriveLate = FALSE
    MaxSession = 8
    MaxPoints = 0
    MaxOffences = 0
INVARIANTS
    TypeOK
    ErasKeepStep
    HistoryIsAWindow
    SessionIsOfActiveEra
    AnchorEraIsNamed
PROPERTIES
    ImplementsRotation
CHECK_DEADLOCK FALSE
