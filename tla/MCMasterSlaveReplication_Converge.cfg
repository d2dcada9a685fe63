CONSTANTS
    Slaves = {s1, s2}
    Data = {d1, d2}
    NoData = NoData
    StaleData = StaleData
    MaxVersion = 2
    MaxThreads = 4
    MaxFailures = 0

SPECIFICATION Spec

PROPERTY Convergence
