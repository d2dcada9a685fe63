--------------------------- MODULE DistributedCache ---------------------------
(***************************************************************************)
(* src/distributed/DistributedCache.cpp: the cache service of one node.    *)
(* put, get and remove hold cacheMutex for their whole body: a key the     *)
(* partitioning maps to this node is written to localCache (and handed to  *)
(* replication and consistency), any other key is sent to its node over    *)
(* RPC.  A heartbeatMonitor thread checks every ten seconds whether all    *)
(* peers are alive and, if not, calls handleFailover, which makes the node *)
(* a leader unless it already is.  Nothing in the class is durable.        *)
(*                                                                         *)
(* One instance runs per node of the deployment (main() builds "node1",    *)
(* the leader, with peers node1..node3).  The calls the file makes into    *)
(* members the included files do not define are taken from spec.md:       *)
(* getNodeForKey is the static partition map Owner, checkAllPeersAlive is  *)
(* true exactly when every peer is up, and an RPC to a node that is down   *)
(* times out.  replicate and ensureConsistency change no state of this     *)
(* class; they are modelled with their own components.                     *)
(***************************************************************************)
EXTENDS Naturals

CONSTANTS
    Nodes,          \* the node ids; peerNodes of every node is all of them
    Keys, Values,
    Owner,          \* partitioning.getNodeForKey: key -> node
    InitialLeader,  \* the node constructed with isLeader = true
    MaxCrashes      \* bound on node crashes

ASSUME /\ Owner \in [Keys -> Nodes] /\ InitialLeader \in Nodes
       /\ MaxCrashes \in Nat

VARIABLES
    localCache,  \* per node: localCache, a function from its keys to values
    isLeader,    \* per node: isLeader
    up,          \* per node: the process is running
    crashes      \* node crashes so far

vars == <<localCache, isLeader, up, crashes>>

TypeOK ==
    /\ \A n \in Nodes : DOMAIN localCache[n] \subseteq Keys
                        /\ \A k \in DOMAIN localCache[n] : localCache[n][k] \in Values
    /\ isLeader \in [Nodes -> BOOLEAN]
    /\ up \in [Nodes -> BOOLEAN]
    /\ crashes \in 0..MaxCrashes

EmptyCache == [k \in {} |-> ""]

\* DistributedCache(nodeId, peerNodes, isLeader) on every node.
Init ==
    /\ localCache = [n \in Nodes |-> EmptyCache]
    /\ isLeader = [n \in Nodes |-> n = InitialLeader]
    /\ up = [n \in Nodes |-> TRUE]
    /\ crashes = 0

\* isKeyLocal: getNodeForKey(key) == nodeId.
IsKeyLocal(n, k) == Owner[k] = n

\* rpcClient.checkAllPeersAlive(peerNodes).
AllPeersAlive == \A m \in Nodes : up[m]

\* localCache of node n with key k set to v.
Stored(n, k, v) == [x \in DOMAIN localCache[n] \cup {k} |-> IF x = k THEN v ELSE localCache[n][x]]

-----------------------------------------------------------------------------

\* put: a local key is stored; another is sent to its node, whose put
\* stores it (the RPC times out if that node is down).
Put(n, k, v) ==
    /\ up[n]
    /\ localCache' = IF IsKeyLocal(n, k) THEN [localCache EXCEPT ![n] = Stored(n, k, v)]
                     ELSE IF up[Owner[k]] THEN [localCache EXCEPT ![Owner[k]] = Stored(Owner[k], k, v)]
                     ELSE localCache
    /\ UNCHANGED <<isLeader, up, crashes>>

(* Mutant: remove stores the "" it replicates instead of erasing.         *)
ErasedAsEmpty(n, k) == Stored(n, k, "")

\* localCache of node n without key k.
Erased(n, k) == [x \in DOMAIN localCache[n] \ {k} |-> localCache[n][x]]

\* remove: a local key is erased (and "" replicated); another is sent to
\* its node, whose remove erases it.
Remove(n, k) ==
    /\ up[n]
    /\ localCache' = IF IsKeyLocal(n, k) THEN [localCache EXCEPT ![n] = Erased(n, k)]
                     ELSE IF up[Owner[k]] THEN [localCache EXCEPT ![Owner[k]] = Erased(Owner[k], k)]
                     ELSE localCache
    /\ UNCHANGED <<isLeader, up, crashes>>

\* handleFailover: return if isLeader, else promoteToLeader().
HandleFailover(n) ==
    /\ ~isLeader[n]
    /\ isLeader' = [isLeader EXCEPT ![n] = TRUE]

\* One round of heartbeatMonitor after its sleep: if not all peers are
\* alive, handleFailover().
HeartbeatMonitor(n) ==
    /\ up[n]
    /\ ~AllPeersAlive
    /\ HandleFailover(n)
    /\ UNCHANGED <<localCache, up, crashes>>

\* A node's process dies; its memory goes with it.
Crash(n) ==
    /\ up[n] /\ crashes < MaxCrashes
    /\ up' = [up EXCEPT ![n] = FALSE]
    /\ crashes' = crashes + 1
    /\ UNCHANGED <<localCache, isLeader>>

\* The node is started again: the constructor with its configured role and
\* an empty localCache (recoverFromLogs only prints).
Restart(n) ==
    /\ ~up[n]
    /\ up' = [up EXCEPT ![n] = TRUE]
    /\ localCache' = [localCache EXCEPT ![n] = EmptyCache]
    /\ isLeader' = [isLeader EXCEPT ![n] = n = InitialLeader]
    /\ UNCHANGED crashes

Next ==
    \/ \E n \in Nodes, k \in Keys, v \in Values : Put(n, k, v)
    \/ \E n \in Nodes, k \in Keys : Remove(n, k)
    \/ \E n \in Nodes : HeartbeatMonitor(n) \/ Crash(n) \/ Restart(n)

Spec == Init /\ [][Next]_vars

-----------------------------------------------------------------------------
(* Properties.                                                             *)

\* spec.md 3 (a): at most one running node holds the owner role at any
\* time, across failover promotions by several monitors and restarts.
AtMostOneLeader ==
    \A m, n \in Nodes : up[m] /\ up[n] /\ isLeader[m] /\ isLeader[n] => m = n
==============================================================================
