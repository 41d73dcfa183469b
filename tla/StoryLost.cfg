SPECIFICATION Spec
CONSTANTS
    WINDOW_W = 1
    WINDOW_H = 2
    MaxX = 1
    MaxY = 0
    Maps = {overworld}
    Overworld = overworld
    None = None
    MaxRevision = 7
    MaxFillId = 255
    CACHE_STEP_PIPELINE = 2
    CACHE_STEP_RETRY_LIMIT = 1
    WINDOW_RESYNC_DISTANCE = 2
    ResyncRowBudget = 2
    Spawn <- MCSpawn
    MaxLink = 3
    Changing <- MCChanging
    Budgets <- StoryBudgets
    PatientTimers = FALSE
INVARIANTS
    Fresh
