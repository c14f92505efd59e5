SPECIFICATION Spec
CONSTANTS
    p1 = p1  p2 = p2
    Pools = {p1, p2}
    Size <- Ones
    Pausing = {}
    MaxWork <- Works
    MaxPauses = 1
PROPERTIES DestroyEnds
CHECK_DEADLOCK FALSE
