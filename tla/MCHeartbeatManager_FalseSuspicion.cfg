\* spec.md 4.4 and 8: a peer heartbeating more often than failureThresholdMs
\* is never marked DEAD.  The monitor compares the threshold in milliseconds
\* with a difference of clock ticks.
CONSTANTS
    n1 = n1
    n2 = n2
    Nodes <- MCNodes
    IntBits = 4
    TicksPerMs = 4
    HeartbeatIntervalMs = 1
    FailureThresholdMs = 3
SPECIFICATION Spec
INVARIANT HeartbeatingPeerNeverDead
