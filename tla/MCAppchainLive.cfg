SPECIFICATION FairSpec
CONSTANTS
    v1 = v1
    v2 = v2
    None = None
    Validators = {v1, v2}
    Eras <- MCErasLive
    GenesisEras <- MCGenesisEras
    NotificationType <- MCNotificationType
    ForcedIds <- NoIds
    RequestEventLimit = 1
    MaxObservations = 1
    MaxValidators = 3
    MaxId = 9
    MaxSets = 1
    MaxNotifications = 1
    MaxEra = 1
    MaxRuns = 1
    MaxForces = 0
PROPERTIES
    EverythingTakesEffect
CHECK_DEADLOCK FALSE
