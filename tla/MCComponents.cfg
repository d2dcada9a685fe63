\* The components driven by their own main(), one per behaviour: InMemoryStore,
\* FIFOPolicy, LastWriteWins, RangePartitioning, SSDStore, StrongConsistency,
\* LogBasedRecovery, HeartbeatManager, Paxos and
\* DistributedCache on three nodes.
CONSTANTS
    k1 = k1
    k2 = k2
    k3 = k3
    v1 = v1
    v2 = v2
    n1 = n1
    n2 = n2
    NoFile = NoFile
    OutOfRange = OutOfRange
    InvalidArgument = InvalidArgument
    Ok = Ok
    t1 = t1
    t2 = t2
    ValueA = ValueA
    ValueB = ValueB
    NoValue = NoValue
    IdTok = IdTok
    NoOp = NoOp
    Garbage = Garbage
    p1 = p1
    p2 = p2
    n3 = n3
SPECIFICATION Spec
\* each main() ends: the bounded writes, partitions, records and crashes run
\* out, the proposer threads are joined, and after ~SSDStore nothing runs
CHECK_DEADLOCK FALSE
INVARIANT LRU_TypeOK
PROPERTY LRU_Refined
INVARIANT FIFO_TypeOK
PROPERTY FIFO_Refined
INVARIANT LWW_TypeOK
INVARIANT LWW_KeepsFirstLatestWrite
INVARIANT Route_TypeOK
PROPERTY Route_Stable
INVARIANT SSD_TypeOK
INVARIANT SSD_EvictNeverOnEmptyQueue
INVARIANT SSD_NoStaleRead
PROPERTY SSD_OverfullEventuallyEvicted
INVARIANT Strong_TypeOK
INVARIANT Strong_CommittedNumbersUnique
INVARIANT WAL_TypeOK
PROPERTY WAL_RecoveryReplaysPrefix
INVARIANT HB_TypeOK
INVARIANT HB_FailureEventOncePerSilence
PROPERTY HB_LostPeerMarkedDead
INVARIANT Paxos_TypeOK
INVARIANT Paxos_Agreement
INVARIANT Paxos_ChosenValueKept
PROPERTY Paxos_Refined
INVARIANT DC_TypeOK
