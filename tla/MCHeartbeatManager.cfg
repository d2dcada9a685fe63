\* The failure detector as main() configures it: each DEAD transition is
\* reported once, and a peer that stops heartbeating is marked DEAD.
CONSTANTS
    n1 = n1
    n2 = n2
    Nodes <- MCNodes
    IntBits = 4
    TicksPerMs = 4
    HeartbeatIntervalMs = 1
    FailureThresholdMs = 3
\* no symmetry: the run checks a liveness property
SPECIFICATION Spec
INVARIANT TypeOK
INVARIANT FailureEventOncePerSilence
PROPERTY LostPeerMarkedDead
