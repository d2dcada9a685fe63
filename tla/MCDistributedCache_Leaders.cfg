\* Three DistributedCache nodes under put, remove, heartbeat monitoring,
\* one crash and restarts.
CONSTANTS
    n1 = n1
    n2 = n2
    n3 = n3
    k1 = k1
    v1 = v1
    Nodes <- MCNodes
    Keys = {k1}
    Values = {v1}
    Owner <- MCOwner
    InitialLeader = n1
    MaxCrashes = 1
SPECIFICATION Spec
INVARIANT AtMostOneLeader
