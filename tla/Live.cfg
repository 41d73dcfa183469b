SPECIFICATION FairSpec
CONSTANTS
    WINDOW_W = 1
    WINDOW_H = 2
    MaxX = 2
    MaxY = 0
    Maps = {overworld, cave}
    Overworld = overworld
    None = None
    MaxRevision = 7
    MaxFillId = 3
    CACHE_STEP_PIPELINE = 2
    CACHE_STEP_RETRY_LIMIT = 1
    WINDOW_RESYNC_DISTANCE = 1
    ResyncRowBudget = 2
    Spawn <- MCSpawn
    MaxLink = 3
    Changing = {}
    Budgets <- LiveBudgets
    PatientTimers = TRUE
PROPERTIES
    TransitionEnds
    EventuallyConverged
