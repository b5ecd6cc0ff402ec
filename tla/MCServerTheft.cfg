SPECIFICATION Spec
CONSTANTS
    c1 = c1
    c2 = c2
    Clients = {c1, c2}
    MaxFd = 2
    MaxRequests = 1
    Quiet = {}
    MaxOpens = 0
SYMMETRY ClientSymmetry
INVARIANT KeepsDescriptor
CHECK_DEADLOCK FALSE
