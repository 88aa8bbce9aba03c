SPECIFICATION ReorgSpec
CONSTANTS
    v1 = v1
    v2 = v2
    None = None
    Validators = {v1, v2}
    Eras <- MCErasLive
    GenesisEras <- MCGenesisEra
    NotificationType <- MCNotificationType
    ForcedIds <- MCForcedIds
    RequestEventLimit = 2
    MaxObservations = 1
    MaxValidators = 3
    MaxId = 9
    MaxSets = 2
    MaxNotifications = 1
    MaxEra = 1
    MaxRuns = 1
    MaxForces = 1
    MaxTurns = 1
INVARIANTS
    TypeOK
    VotesAreConsistent
    SetsSurviveForks
    EffectsArePublished
CHECK_DEADLOCK FALSE
