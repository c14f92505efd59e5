SPECIFICATION FairSpec
CONSTANTS
    c1 = c1
    c2 = c2
    Clients = {c1, c2}
    NoClient = NoClient
    NumGroups = 1
    Joins <- OneGroup
    Sizes = {1, 3}
    LongNames = {2}
    Invalid = {}
    PoolSize = 1
    MaxJobs = 2
    MaxOpen = 1
    Unsettled = {}
    Looks = FALSE
    MaxWild = 1
    MaxCrashes = 0
INVARIANTS TypeOK CompleteHasAllResults NoMissedCompletion
PROPERTIES ResultStable JobCompletes ImplementsJobService
CHECK_DEADLOCK FALSE
