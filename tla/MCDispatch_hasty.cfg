SPECIFICATION FairSpec
CONSTANTS
    c1 = c1
    c2 = c2
    Clients = {c1, c2}
    NoClient = NoClient
    NumGroups = 2
    Joins <- TwoGroups
    Sizes = {2}
    LongNames = {}
    Invalid = {}
    PoolSize = 2
    MaxJobs = 2
    MaxOpen = 2
    Unsettled = {}
    Looks = TRUE
    MaxWild = 0
    MaxCrashes = 0
INVARIANT ResultIsOfOwnCommand
CHECK_DEADLOCK FALSE
