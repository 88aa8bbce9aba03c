SPECIFICATION OperationSpec
CONSTANTS
    v1 = v1
    v2 = v2
    None = None
    Validators = {v1, v2}
    Eras <- MCEras
    GenesisEras <- MCGenesisEras
    NotificationType <- MCNotificationType
    ForcedIds <- NoIds
    RequestEventLimit = 2
    MaxObservations = 1
    MaxValidators = 3
    MaxId = 9
    MaxSets = 1
    MaxNotifications = 2
    MaxEra = 1
    MaxRuns = 1
    MaxForces = 0
INVARIANTS
    ProcessedInOrder
    VotesAreNested
    PlannedIsLatest
PROPERTIES
    ResultsAreFinal
    ImplementsDelivery
CHECK_DEADLOCK FALSE
