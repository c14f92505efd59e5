SPECIFICATION Spec
CONSTANTS
    p1 = p1  p2 = p2
    Pools = {p1}
    Size <- Ones
    Pausing = {p1}
    MaxWork <- Works
    MaxPauses = 1
PROPERTIES AddWorkReturns
CHECK_DEADLOCK FALSE
