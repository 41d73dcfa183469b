SPECIFICATION BotSpec
CONSTANTS
    WINDOW_W = 2
    WINDOW_H = 2
    MaxX = 1
    MaxY = 1
    Maps = {overworld, cave}
    Overworld = overworld
    None = None
    MaxRevision = 7
    MaxFillId = 3
    CACHE_STEP_PIPELINE = 2
    CACHE_STEP_RETRY_LIMIT = 1
    WINDOW_RESYNC_DISTANCE = 1
    ResyncRowBudget = 1
    Spawn <- MCSpawn
    MaxLink = 3
    Changing <- MCChanging
    Budgets <- BotBudgets
    PatientTimers = FALSE
    COMMIT_RETRY_LIMIT = 2
CHECK_DEADLOCK FALSE
INVARIANTS KnownTerrain BotAgreement
PROPERTIES BotCommitHonest
