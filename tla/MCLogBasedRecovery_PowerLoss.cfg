\* Puts and removes, a process crash and a power loss that cuts the file
\* anywhere in what was not written back.
CONSTANTS
    k1 = k1
    k2 = k2
    v1 = v1
    v2 = v2
    Keys <- MCKeys
    Values <- MCValues
    Ops <- MCOpsBoth
    IdTok = IdTok
    NoOp = NoOp
    MaxRecords = 4
    MaxCrashes = 1
    Garbage = Garbage
    MaxPowerLosses = 1
SPECIFICATION SpecPowerLoss

INVARIANT EntriesWereWritten
\* The program stops once its records and crashes are used up.
CHECK_DEADLOCK FALSE
