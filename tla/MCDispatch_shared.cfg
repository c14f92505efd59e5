SPECIFICATION FairSpec
CONSTANTS
    c1 = c1
    c2 = c2
    Clients = {c1, c2}
    NoClient = NoClient
    NumGroups = 2
    Joins <- Shared
    Sizes = {0, 2}
    LongNames = {}
    Invalid = {2}
    PoolSize = 2
    MaxJobs = 2
    MaxOpen = 2
    Unsettled = {"queued", "pulled", "args", "named", "counted", "filled"}
    Looks = TRUE
    MaxWild = 0
    MaxCrashes = 1
INVARIANTS CompleteHasAllResults GroupReleased StatusTellsWork
PROPERTIES JobCompletes ImplementsJobService
CHECK_DEADLOCK FALSE
