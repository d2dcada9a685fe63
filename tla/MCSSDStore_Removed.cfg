\* remove followed by puts and eviction passes: does a removed key stay
\* removed?
CONSTANTS
    k1 = k1
    k2 = k2
    k3 = k3
    v1 = v1
    v2 = v2
    NoFile = NoFile
    Keys <- MCKeys
    Values <- MCValues
    CacheLimit = 2
    MaxQueue = 4
SPECIFICATION Spec
INVARIANT RemovedStaysRemoved
\* after the destructor nothing can run
CHECK_DEADLOCK FALSE
