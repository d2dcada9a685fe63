\* Puts and removes: a REMOVE record breaks the replay of the log.
CONSTANTS
    k1 = k1
    k2 = k2
    v1 = v1
    v2 = v2
    Keys <- MCKeys
    Values <- MCValues
    Ops <- MCOpsBoth
    IdTok = IdTok
    NoOp = NoOp
    MaxRecords = 4
    MaxCrashes = 2
    Garbage = Garbage
    MaxPowerLosses = 0
SPECIFICATION Spec

INVARIANT RecoveryRestoresCache
\* The program stops once its records and crashes are used up.
CHECK_DEADLOCK FALSE
