SPECIFICATION FairSpec
CONSTANTS
    Workers = {w1, w2}
    MaxWork = 2
    Exiting = {1}
PROPERTY WaitReturns
