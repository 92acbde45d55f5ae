SPECIFICATION FairSpec
CONSTANTS
    analysis = analysis
    generation = generation
    activation = activation
    Users = {analysis, generation, activation}
    Workers = {activation}
    Delayed = {generation}
    NeedsModel = {generation, activation}
    Quiet = {activation}
    Cancelable = {analysis, generation}
    MaxRuns = 1
    MaxCrashes = 1
    MayFail = TRUE
    MayClose = TRUE
INVARIANTS ProcessOwned FailsForAReason
PROPERTIES WorksOnlyWhenReady RunsEnd
CHECK_DEADLOCK FALSE
