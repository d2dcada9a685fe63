\* addPartition with the ranges main() could be configured with: does it
\* keep the ranges disjoint?
CONSTANTS
    n1 = n1
    n2 = n2
    Nodes <- MCNodes
    Bounds <- MCBounds
    QueryKeys <- MCQueryKeys
    OutOfRange = OutOfRange
    InvalidArgument = InvalidArgument
    Ok = Ok
    MaxPartitions = 2
SPECIFICATION Spec
INVARIANT RangesDisjoint
