SPECIFICATION Spec
CONSTANTS
    a = a  b = b  g = g  h = h
    Clients = {a, b}
    Groups = {g, h}
    Joins <- TwoGroups
    FirstFd = 2
    Late = 1
    Resets = 1
    None = None
INVARIANTS TypeOK StaysServed OnlyMembers
PROPERTIES NoFalseExpiry Registered Forgotten
CHECK_DEADLOCK FALSE
