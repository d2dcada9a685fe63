----------------------------- MODULE MCComponents -----------------------------
(***************************************************************************)
(* The components that are each a class driven by its own file's main()   *)
(* and share no state with the others, checked in one model: the          *)
(* initial state picks which component runs, the others stay in their     *)
(* initial state, and every property of a component is checked on the     *)
(* behaviours in which it runs.                                            *)
(*                                                                         *)
(*   lru   InMemoryStore.cpp   refines LRUCache                            *)
(*   fifo  FIFOPolicy.cpp      refines FIFOCache                           *)
(*   lww   LastWriteWins.cpp   keeps the first write of the latest stamp   *)
(*   route RangePartitioning.cpp  routes to the first matching range       *)
(*   ssd   SSDStore.cpp        queue, files and the eviction thread        *)
(*   strong StrongConsistency.cpp  proposal numbers of two proposer threads *)
(*   wal   LogBasedRecovery.cpp  log, cache and process crashes            *)
(*   hb    HeartbeatManager.cpp  failure detector and its monitor thread   *)
(*   paxos Paxos.cpp           two proposer threads, refines Consensus     *)
(*   dc    DistributedCache.cpp  three nodes: put, remove, failover       *)
(***************************************************************************)
EXTENDS Naturals, TLC

CONSTANTS k1, k2, k3, v1, v2, n1, n2, NoFile, OutOfRange, InvalidArgument, Ok,
          t1, t2, ValueA, ValueB, NoValue, IdTok, NoOp, Garbage, p1, p2, n3

VARIABLES
    part,
    cacheList, clock,                                      \* lru
    cacheMap, cacheQueue,                                  \* fifo
    lwwCache, now, back, writes,                           \* lww
    partitions, outcome,                                   \* route
    ssdCache, queue, disk, stop, live, fault, latest, removed, \* ssd
    highestProposalNum, acceptedProposalNum, acceptedValue,
    value, proposalNum, pc, loaded, num, idx, count, committed, \* strong
    file, walCache, up, inflight, logged, crashes, synced, unended, losses, \* wal
    registered, alive, age, wrapped, events, sleepLeft, running, \* hb
    promisedId, acceptedId, paxAcceptedValue, votes, paxPc, paxIdx,
    numPrepare, learned, decided, numAccept, result,       \* paxos
    localCache, isLeader, dcUp, dcCrashes                  \* dc

Parts == {"lru", "fifo", "lww", "route", "ssd", "strong", "wal", "hb", "paxos", "dc"}

\* Three keys over two slots, so that a new key in a full cache evicts.
MCKeys == {k1, k2, k3}
MCValues == {v1, v2}

LRU == INSTANCE InMemoryStore WITH
    Keys <- MCKeys, Values <- MCValues, MaxSize <- 2, MaxClock <- 3

FIFO == INSTANCE FIFOPolicy WITH
    Keys <- MCKeys, Values <- MCValues, Capacity <- 2

\* One key: keys are independent in put and resolve_conflict.  Three
\* readings of the clock, one step back and three writes give equal,
\* later and earlier stamps in every order.
LWW == INSTANCE LastWriteWins WITH
    Keys <- {k1}, Values <- MCValues, MaxTime <- 2, MaxStepsBack <- 1,
    MaxWrites <- 3, cache <- lwwCache

\* Two ranges over 0..3 overlap, nest or are disjoint; key 4 is outside all.
Router == INSTANCE RangePartitioning WITH
    Nodes <- {n1, n2}, Bounds <- 0..3, QueryKeys <- 0..4, MaxPartitions <- 2

\* A queue of up to four keys holds a key twice and a key removed while
\* queued; a directory of two or three files starts the store full.
SSD == INSTANCE SSDStore WITH
    Keys <- MCKeys, Values <- MCValues, CacheLimit <- 2, MaxQueue <- 3,
    cache <- ssdCache

\* Three nodes and two threads proposing different values: both threads
\* may load the counter before either stores it.
Strong == INSTANCE StrongConsistency WITH
    N <- 3, Threads <- {t1, t2}, ProposalValue <- (t1 :> ValueA @@ t2 :> ValueB)

\* Up to four records over two keys with puts and removes, and two crashes:
\* a crash falls between any two steps of put and remove.  Process crashes
\* only: WAL!Spec has no power loss.
WAL == INSTANCE LogBasedRecovery WITH
    Keys <- {k1, k2}, Values <- MCValues, Ops <- {"PUT", "REMOVE"},
    MaxRecords <- 4, MaxCrashes <- 2, MaxPowerLosses <- 0, cache <- walCache

\* Two peers, a 4-bit int, four ticks per millisecond, an interval of 1 ms
\* and a threshold of 3 ms: stamps wrap, and the threshold is crossed.
HB == INSTANCE HeartbeatManager WITH
    Nodes <- {n1, n2}, IntBits <- 4, TicksPerMs <- 4,
    HeartbeatIntervalMs <- 1, FailureThresholdMs <- 3

\* main() of Paxos.cpp: proposer ids 1 and 2 (times 1000, plus rand() %
\* 1000) with "Value_A" and "Value_B", over 3 nodes (majority 2).
Pax == INSTANCE Paxos WITH
    N <- 3, Proposers <- {p1, p2}, ProposalId <- (p1 :> 1042 @@ p2 :> 2017),
    ProposalValue <- (p1 :> ValueA @@ p2 :> ValueB),
    acceptedValue <- paxAcceptedValue, pc <- paxPc, idx <- paxIdx

\* main()'s three nodes with node1 the leader, a key node2 owns and one
\* crash: a follower or the leader goes down and may come back.
DC == INSTANCE DistributedCache WITH
    Nodes <- {n1, n2, n3}, Keys <- {k1}, Values <- {v1}, Owner <- (k1 :> n2),
    InitialLeader <- n1, MaxCrashes <- 1, up <- dcUp, crashes <- dcCrashes

lruVars == <<cacheList, clock>>
fifoVars == <<cacheMap, cacheQueue>>
lwwVars == <<lwwCache, now, back, writes>>
routeVars == <<partitions, outcome>>
ssdVars == <<ssdCache, queue, disk, stop, live, fault, latest, removed>>
strongVars == <<highestProposalNum, acceptedProposalNum, acceptedValue,
                value, proposalNum, pc, loaded, num, idx, count, committed>>
walVars == <<file, walCache, up, inflight, logged, crashes, synced, unended, losses>>
hbVars == <<registered, alive, age, wrapped, events, sleepLeft, running>>
paxVars == <<promisedId, acceptedId, paxAcceptedValue, votes, paxPc, paxIdx,
             numPrepare, learned, decided, numAccept, result>>
dcVars == <<localCache, isLeader, dcUp, dcCrashes>>
vars == <<part, lruVars, fifoVars, lwwVars, routeVars, ssdVars, strongVars, walVars, hbVars, paxVars, dcVars>>

\* A step A of one component, the others' variables unchanged.
LruStep(A) == part = "lru" /\ A /\ UNCHANGED <<part, fifoVars, lwwVars, routeVars, ssdVars, strongVars, walVars, hbVars, paxVars, dcVars>>
FifoStep(A) == part = "fifo" /\ A /\ UNCHANGED <<part, lruVars, lwwVars, routeVars, ssdVars, strongVars, walVars, hbVars, paxVars, dcVars>>
LwwStep(A) == part = "lww" /\ A /\ UNCHANGED <<part, lruVars, fifoVars, routeVars, ssdVars, strongVars, walVars, hbVars, paxVars, dcVars>>
RouteStep(A) == part = "route" /\ A /\ UNCHANGED <<part, lruVars, fifoVars, lwwVars, ssdVars, strongVars, walVars, hbVars, paxVars, dcVars>>
SsdStep(A) == part = "ssd" /\ A /\ UNCHANGED <<part, lruVars, fifoVars, lwwVars, routeVars, strongVars, walVars, hbVars, paxVars, dcVars>>
StrongStep(A) == part = "strong" /\ A /\ UNCHANGED <<part, lruVars, fifoVars, lwwVars, routeVars, ssdVars, walVars, hbVars, paxVars, dcVars>>
WalStep(A) == part = "wal" /\ A /\ UNCHANGED <<part, lruVars, fifoVars, lwwVars, routeVars, ssdVars, strongVars, hbVars, paxVars, dcVars>>
HbStep(A) == part = "hb" /\ A /\ UNCHANGED <<part, lruVars, fifoVars, lwwVars, routeVars, ssdVars, strongVars, walVars, paxVars, dcVars>>

PaxStep(A) == part = "paxos" /\ A /\ UNCHANGED <<part, lruVars, fifoVars, lwwVars, routeVars, ssdVars, strongVars, walVars, hbVars, dcVars>>

DcStep(A) == part = "dc" /\ A /\ UNCHANGED <<part, lruVars, fifoVars, lwwVars, routeVars, ssdVars, strongVars, walVars, hbVars, paxVars>>

\* The component that does not run starts from its one plain state: the
\* clock at 0, an empty directory.
Init ==
    /\ part \in Parts
    /\ LRU!Init /\ FIFO!Init /\ LWW!Init /\ Router!Init /\ SSD!Init
    /\ Strong!Init /\ WAL!Init /\ HB!Init /\ Pax!Init /\ DC!Init
    /\ part # "lww" => now = 0
    /\ part # "ssd" => disk = [k \in MCKeys |-> NoFile]

Next ==
    \/ LruStep(LRU!Next)
    \/ FifoStep(FIFO!Next)
    \/ LwwStep(LWW!Next)
    \/ RouteStep(Router!Next)
    \/ SsdStep(SSD!Next)
    \/ StrongStep(Strong!Next)
    \/ WalStep(WAL!Next)
    \/ HbStep(HB!Next)
    \/ PaxStep(Pax!Next)
    \/ DcStep(DC!Next)

\* Each component's own fairness: SSDStore's eviction thread wakes at
\* least every five seconds; each proposer thread runs to completion; time
\* passes and the heartbeat monitor thread is scheduled.
Spec ==
    /\ Init /\ [][Next]_vars
    /\ WF_vars(SsdStep(SSD!EvictionThread))
    /\ \A t \in {t1, t2} :
          WF_vars(StrongStep(Strong!LoadCounter(t) \/ Strong!StoreCounter(t)
                       \/ Strong!Prepare(t) \/ Strong!Accept(t) \/ Strong!Learn(t)))
    /\ WF_vars(HbStep(HB!Tick)) /\ WF_vars(HbStep(HB!Scan))
    /\ \A p \in {p1, p2} :
          WF_vars(PaxStep(Pax!Prepare(p) \/ Pax!Learn(p) \/ Pax!Decide(p) \/ Pax!Accept(p)))

-----------------------------------------------------------------------------
(* Properties: each component's, under its own name.                       *)

\* InMemoryStore's list, map and clock keep the types the class gives them.
LRU_TypeOK == LRU!TypeOK

\* InMemoryStore implements the LRU table of LRUCache under every sequence
\* of put, get, remove and clear.
LRU_Refined == LRU!LRUCacheRefined

\* FIFOCache never holds more keys than capacity in its queue.
FIFO_TypeOK == FIFO!TypeOK

\* FIFOPolicy's put and clear implement the FIFO table of FIFOCache: an
\* update keeps the key's place, a new key evicts the one inserted first.
FIFO_Refined == FIFO!FIFOCacheRefined

\* LastWriteWins stores only values and stamps callers gave it.
LWW_TypeOK == LWW!TypeOK

\* Under equal clock readings and clock steps back, every key holds the
\* first write that carries the largest timestamp.
LWW_KeepsFirstLatestWrite == LWW!KeepsFirstLatestWrite

\* RangePartitioning stores only ranges with startRange < endRange.
Route_TypeOK == Router!TypeOK

\* No addPartition call moves a key already routed to another node.
Route_Stable == Router!RoutingStable

\* SSDStore's map, queue and files keep their types.
SSD_TypeOK == SSD!TypeOK

\* evict() never calls front() on an empty queue while the cache is full.
SSD_EvictNeverOnEmptyQueue == SSD!EvictNeverOnEmptyQueue

\* get returns the last value put for the key, or "".
SSD_NoStaleRead == SSD!NoStaleRead

\* A cache at or over the limit is brought under it unless destroyed first.
SSD_OverfullEventuallyEvicted == SSD!OverfullEventuallyEvicted

\* StrongConsistency's nodes and threads keep their types.
Strong_TypeOK == Strong!TypeOK

\* No two committed rounds run with the same proposal number.
Strong_CommittedNumbersUnique == Strong!CommittedNumbersUnique

\* LogBasedRecovery's file, cache and in-flight record keep their types.
WAL_TypeOK == WAL!TypeOK

\* Every recovery rebuilds the cache of a prefix of the logged operations.
WAL_RecoveryReplaysPrefix == WAL!RecoveryReplaysPrefix

\* HeartbeatManager's nodes, stamps and monitor keep their types.
HB_TypeOK == HB!TypeOK

\* A DEAD transition is reported once per silence.
HB_FailureEventOncePerSilence == HB!FailureEventOncePerSilence

\* A registered peer that stops heartbeating is eventually marked DEAD.
HB_LostPeerMarkedDead == HB!LostPeerMarkedDead

\* Paxos.cpp's nodes and propose() locals keep their types.
Paxos_TypeOK == Pax!TypeOK

\* Two propose() calls that both return true decided the same value.
Paxos_Agreement == Pax!Agreement

\* Once a majority accepted v under b, no node accepts another value under
\* a higher proposal id.
Paxos_ChosenValueKept == Pax!ChosenValueKept

\* The set of chosen values implements Consensus: at most one, never undone.
Paxos_Refined == Pax!ConsensusRefined

\* DistributedCache's per-node caches, roles and liveness keep their types.
DC_TypeOK == DC!TypeOK
==============================================================================
