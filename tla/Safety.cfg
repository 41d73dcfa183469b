SPECIFICATION Spec
CONSTANTS
    WINDOW_W = 2
    WINDOW_H = 2
    MaxX = 1
    MaxY = 1
    Maps = {overworld, cave}
    Overworld = overworld
    None = None
    MaxRevision = 3
    MaxFillId = 255
    CACHE_STEP_PIPELINE = 2
    CACHE_STEP_RETRY_LIMIT = 1
    WINDOW_RESYNC_DISTANCE = 2
    ResyncRowBudget = 1
    Spawn <- MCSpawn
    MaxLink = 3
    Changing <- MCChanging
    Budgets <- SafetyBudgets
    PatientTimers = FALSE
INVARIANTS SystemInv TerrainPlaced FirstMapShown SilentlyAgreed
PROPERTIES NothingEndsEarly
