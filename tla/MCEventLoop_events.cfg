SPECIFICATION Spec
CONSTANTS
    Clients = {a, b}
    Leaving = {a}
    MaxSends = 3
    MAXEVENTS = 2
    MaxThreads = 2
    None = None
INVARIANTS TypeOK NothingForgotten Attributed NoFailedRead
PROPERTIES DataRead BacklogAccepted
CHECK_DEADLOCK FALSE
