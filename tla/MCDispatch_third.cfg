SPECIFICATION FairSpec
CONSTANTS
    c1 = c1
    c2 = c2
    Clients = {c1, c2}
    NoClient = NoClient
    NumGroups = 1
    Joins <- OneGroup
    Sizes = {2}
    LongNames = {}
    Invalid = {}
    PoolSize = 3
    MaxJobs = 3
    MaxOpen = 2
    Unsettled = {"queued", "pulled", "args", "named", "counted", "filled"}
    Looks = TRUE
    MaxWild = 0
    MaxCrashes = 0
INVARIANT ResultIsOfOwnCommand
CHECK_DEADLOCK FALSE
