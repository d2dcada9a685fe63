\* SSDStore under puts, removes, persists, eviction passes and destruction,
\* starting from any directory a previous run left behind.
CONSTANTS
    k1 = k1
    k2 = k2
    k3 = k3
    v1 = v1
    v2 = v2
    NoFile = NoFile
    Keys <- MCKeys
    Values <- MCValues
    CacheLimit = 2
    MaxQueue = 4
SPECIFICATION Spec
\* after the destructor nothing can run
CHECK_DEADLOCK FALSE
INVARIANT TypeOK
INVARIANT EvictNeverOnEmptyQueue
INVARIANT NoStaleRead
PROPERTY OverfullEventuallyEvicted
