CONSTANTS
    Keys = {k1, k2, k3}
    Values = {v1, v2}
    MaxSize = 2
    MaxClock = 3

SPECIFICATION Spec

INVARIANT TypeOK
PROPERTY LRUCacheRefined
