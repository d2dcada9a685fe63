# TLA+ models of the Distributed-Caching-System

This directory holds TLA+ models of the C++ sources under `src/`, together with
the TLC configurations that check them. `spec.md` describes the intended
system: a partitioned, replicated key/value cache. The sources implement
each part of it as a separate program, each with its own `main()`. Every
module below is translated from one of those files. `PROJECT.json` maps each
definition to the lines it models, and lists the runs, mutants, findings and
hazards.

## 1. Inventory of the system

| Part (spec.md 2) | Source | State it keeps | Operations | Concurrency |
|---|---|---|---|---|
| Local Store | `src/cache/InMemoryStore.cpp` | `cache_list` (MRU first), `cache_map`, `max_size` | put, get, remove, clear, exists, size, getLRUKey | every method under `cache_mutex` |
| Write-ahead log | `src/fault_tolerance/data_recovery/LogBasedRecovery.cpp` | the log file, in-memory `cache` | put/remove (append, then apply), read_logs, recover | one caller thread; crash and restart |
| Strong mode, version 1 | `src/coordination/leader_election/Paxos.cpp` | per node: `promised_id`, `accepted_id`, `accepted_value`; per call of `propose`: counters and `accepted_values` | prepare, learn, accept, propose | proposer threads, node by node under each node's mutex |
| Strong mode, version 2 | `src/consistency/StrongConsistency.cpp` | per node: `highestProposalNum`, `acceptedProposalNum`, `acceptedValue`, `value`; a static proposal counter | propose (prepare), accept, learn; preparePhase, acceptPhase, learnPhase, runPaxos; proposeValue | proposer threads; the counter is unsynchronised |
| Eventual mode and failover | `src/distributed/replication/MasterSlaveReplication.cpp` | master `version`, `data`; per slave `data`, `dataVersion` | updateData, replicateToSlaves, replicate, manualFailover; HealthChecker::monitor | a detached thread per slave per update, plus a monitor thread |
| Failure detector | `src/coordination/heartbeat/HeartbeatManager.cpp` | per node `alive` and the last heartbeat timestamp | registerNode, removeNode, receiveHeartbeat, monitorNodes | a monitor thread and the callers |
| Partition router | `src/distributed/partitioning/RangePartitioning.cpp` | a vector of `[start, end] -> node` | addPartition, findNodeForKey; the file's DistributedCache put/get route through it | none |
| SSD-backed store | `src/cache/persistent_cache/SSDStore.cpp` | `cache_`, the eviction queue, one file per key | put, get, remove, persist, loadCache, evict | a detached eviction thread |
| Conflict resolution | `src/consistency/conflict_resolution/LastWriteWins.cpp` | key -> (value, wall-clock timestamp) | put, resolve_conflict | writer threads under a mutex |
| FIFO policy | `src/cache/eviction_policies/FIFOPolicy.cpp` | a FIFO queue and a map | put (with evict), get, clear, isEmpty | none |
| Cache service | `src/distributed/DistributedCache.cpp` | per node `localCache`, `isLeader` | put, get, remove (local write or RPC to the key's owner), handleFailover | every method under `cacheMutex`; a `heartbeatMonitor` thread per node |
| Out of scope (spec.md 1) | RPC client, admin console, API keys, encryption, dashboards, deployment config, E2E tests | | | |

**How the parts interact (spec.md 2).**
- The service routes a key to its owner, which appends to the WAL, applies the mutation to the Local Store and replicates it.
- In eventual mode the owner replicates with the master/slave push. In strong mode it runs Paxos.
- The failure detector's events trigger failover.
- In the sources these are separate programs. `DistributedCache.cpp` is the only file that joins them, and it does not compile against the others. Each part is therefore modelled by itself, in the context its own `main()` gives it.

**Hard behaviours.** These are the hazards listed in `PROJECT.json`:
- Proposer threads interleave node by node.
- A counter is incremented without synchronisation.
- Replication threads are detached, and they read the master's state without its lock.
- A version check is separate from the write it guards, and a delayed thread can act on it late.
- The process can crash between the append to the log and the cache update.
- Recovery parses a text log that a power loss can cut anywhere, and the reopened log appends to the cut.
- The SSD store's eviction queue keeps keys that were removed.
- Wall-clock timestamps can tie or step back.
- Routing ranges can overlap.
- Only an unbounded loop (`HealthChecker::monitor`) eventually repairs a slave.

## 2. Modules

| Module | Models | State (VARIABLES) | Actions |
|---|---|---|---|
| `LRUCache` | abstract LRU table (spec.md 4.1) | `entries` (key -> value, stamp), `clock` | Put (evicts an entry with the oldest stamp when above capacity), Get, Remove, Clear |
| `InMemoryStore` | `InMemoryStore.cpp` | `cacheList` (the `std::list`, front first), `clock` (steady_clock readings) | Put, Get, Remove, Clear: one action per method, because each method holds `cache_mutex` for its whole body; `touchNode` and `evictIfNecessary` are operators inside them |
| `Consensus` | abstract single decision | `chosen` | Choose |
| `Paxos` | `Paxos.cpp` | node fields, a history `votes`, and the locals of `propose` per thread (`pc`, `idx`, counters, `learned`, `decided`, `result`) | Prepare, Learn, Decide, Accept: one per critical section of a node, plus the majority test |
| `StrongConsistency` | `StrongConsistency.cpp` | node fields, the static `proposalNum`, and per thread `pc`, `loaded`, `num`, `idx`, `count`; a history `committed` | LoadCounter and StoreCounter (the racy `++`), Prepare, Accept, Learn |
| `MasterSlaveReplication` | `MasterSlaveReplication.cpp` | master `version` and `data`, slave `sVersion` and `sData`, a bag of live `replicate()` threads by local state, a history `written`, `failures` | UpdateData (with replicateToSlaves), ManualFailover, HealthCheck, Check, ReadArg (the unlocked copy of `version` at the call), Write (`SlaveNode::updateData`, which reads the master's `data` through its reference), SlaveFailure |
| `HeartbeatManager` | `HeartbeatManager.cpp` | `registered`, `alive`, per node the ticks since its stamp modulo 2^W (`age`) and whether 2^W ticks have passed (`wrapped`), the monitor's `sleepLeft`, `running`; a history `events` | RegisterNode, RemoveNode, ReceiveHeartbeat, Stop, Scan (one pass of `monitorNodes` under `nodesMutex`), Tick (time passing) |
| `SSDStore` | `SSDStore.cpp` | `cache` (`cache_`), `queue` (`evictionQueue_`), `disk` (one file per key), `stop`, `live`, `fault` (`front()` on an empty queue); a history `latest` | Put (with its `evict()`), Remove, Persist, EvictionThread (one round after `wait_for`), Destroy; `loadCache` is in Init, `Evict` is a RECURSIVE operator over the loop |
| `LogBasedRecovery` | `LogBasedRecovery.cpp` | `file` (the tokens `operator>>` sees), `cache`, `up`, `inflight`, a history `logged`, `crashes`; for power loss `synced` (tokens written back), `unended` (the file ends inside a token), `losses` | AppendPut, AppendRemove, ApplyToCache, Crash, Recover, SimulateFailureAndRecovery; `SpecPowerLoss` adds Writeback and PowerLoss. `ReadLogs` is a RECURSIVE operator, `ReplayOnto` a fold, `WriteAtEnd` runs the next record into a cut token |
| `FIFOCache` | abstract FIFO table | `entries`, `before` (the insertion order as a relation) | Update, Insert (drops the key every other was inserted after when full), Clear |
| `FIFOPolicy` | `FIFOPolicy.cpp` | `cacheMap`, `cacheQueue` | Put (with `evict()`), Clear; refines `FIFOCache` with `before` taken from queue positions |
| `LastWriteWins` | `LastWriteWins.cpp` | `cache` (key -> value, timestamp), `now` (the wall clock), `back` (steps back taken), a history `writes` | Put, ResolveConflict (one action each: both hold `cache_mutex`), Tick, StepBack |
| `DistributedCache` | `DistributedCache.cpp`, one instance per node | `localCache`, `isLeader`, `up` per node, `crashes` | Put, Remove (write locally, or at the key's owner if that node is up), HeartbeatMonitor (one round: if a peer is down, `handleFailover`), Crash, Restart |
| `RangePartitioning` | `RangePartitioning.cpp` | `partitions` (the vector), `outcome` (what the last call returned or threw) | AddPartition, CachePut, CacheGet; `FindNodeForKey` is a RECURSIVE operator over the vector |

Each `MC*.tla` module fixes model values and the operator-valued constants
for TLC. `MCComponents` instantiates ten of the component modules
(InMemoryStore, FIFOPolicy, LastWriteWins, RangePartitioning, SSDStore,
StrongConsistency, LogBasedRecovery, HeartbeatManager, Paxos with the two
proposers of `main()`, and DistributedCache on three nodes) side by side, with a
variable `part` that Init sets to one of them. Only that component's actions
can then be taken, and the others stay in their initial states. These files
share no state, and each is driven by its own `main()`, so a behaviour of the
sum is a behaviour of one component. Each property is checked on it under
that component's own name (`LRU_Refined`, `SSD_NoStaleRead`, ...), and so is
each fairness condition. `MCInMemoryStore.cfg`, `MCSSDStore.cfg` and
`MCLogBasedRecovery.cfg` check the same components on their own.

**Abstraction choices.**
- Strings are model values.
- Thread and proposal ids are constants chosen as the code chooses them (`proposer_id*1000 + rand()%1000`). Only their order matters.
- The failure detector keeps no absolute clock. Each node has its age in ticks modulo 2^W, which is all that `static_cast<int>` stamps let the code observe. `int` is narrowed to 4 bits, so the wrap falls after four heartbeat intervals, as a 32-bit nanosecond count wraps after 4.3 s against `main()`'s 1 s interval.
- In the log, every transaction id is the one token `IdTok`. Recovery only needs it to parse as an int.
- Formatting and printing are left out.

**Where C++ leaves the outcome open, the model chooses nondeterministically:**
- `unordered_map::begin()` is any entry.
- A data race on `int ++` is a separate load step and store step.

## 3. Runs

TLC checks each run within a few minutes. A pass run must find no error. A violation run must find the one property it checks violated.

| Run | Config | Expect | What it shows |
|---|---|---|---|
| paxos_three_proposers | `MCPaxos3.cfg` | violation | A third proposer learns two different accepted values. `begin()->second` picks the older one, and two calls return true for different values |
| components | `MCComponents.cfg` | pass | The ten components, one per behaviour (below) |
| replication_repair | `MCMasterSlaveReplication.cfg` | pass | A slave reset to version 0 is always re-seeded by the monitor and `manualFailover` |
| replication_torn_read | `MCMasterSlaveReplication_Torn.cfg` | violation | `replicate()` copies `version` unlocked when it calls `updateData`, and the slave reads the master's `data` through the reference later, so an update in between stores the newer data under the older version |
| replication_convergence | `MCMasterSlaveReplication_Converge.cfg` | violation | A delayed thread writes an older version over a newer one, and `checkHealth` only repairs version 0, so the slave never converges |
| wal_remove_lost | `MCLogBasedRecovery_Remove.cfg` | violation | A REMOVE record has three tokens but `read_logs` reads four, so recovery resurrects the removed key |
| heartbeat_false_suspicion | `MCHeartbeatManager_FalseSuspicion.cfg` | violation | A peer whose last heartbeat is only one interval old is marked DEAD. The threshold is in milliseconds but the difference is in clock ticks |
| strong_agreement | `MCStrongConsistency_Agreement.cfg` | violation | `preparePhase` returns no accepted value, so a later round that reaches a quorum commits its own value over a committed one |
| route_overlap | `MCRangePartitioning_Overlap.cfg` | violation | `addPartition` accepts a range overlapping one already added; spec.md 4.3 says overlap is rejected at startup |
| ssd_removed_reappears | `MCSSDStore_Removed.cfg` | violation | A key removed while still queued for eviction is written back as an empty file when its queue entry is popped, so `exists()` is true again |
| dc_two_leaders | `MCDistributedCache_Leaders.cfg` | violation | With the leader running, one follower crashes and the other follower's monitor sees a peer down and promotes itself: two running leaders, against spec.md 3 (a) |
| wal_power_loss | `MCLogBasedRecovery_PowerLoss.cfg` | violation | A power loss cuts the last record inside its value. `read_logs` still reads four tokens, and recovery stores the fragment as the key's value |

What `components` checks, per component:
- **InMemoryStore:** every sequence of put/get/remove/clear refines `LRUCache`. It holds at most `max_size` entries, and eviction takes an entry with the oldest `last_accessed`.
- **FIFOPolicy:** every sequence of put/clear refines `FIFOCache`. An update keeps its key's place, and a new key in a full cache evicts the key inserted first.
- **LastWriteWins:** `LWW_KeepsFirstLatestWrite` holds under puts from any thread, conflicts with any timestamp, equal clock readings and the clock set back. Each key holds the first write with the largest timestamp, compared with a winner computed from the history rather than by replaying it.
- **RangePartitioning:** no later `addPartition`, overlapping or not, moves a key that is already routed. `findNodeForKey` scans in insertion order; that is what keeps a routed key in place when a later range overlaps it.
- **SSDStore:**
  - `evict()` never pops an empty queue.
  - `get` never returns an outdated value.
  - A cache loaded full is eventually brought under the limit.
- **StrongConsistency:** the racy counter can give two rounds the same number, but the strict `>` of `Node::propose` lets at most one of them commit.
- **LogBasedRecovery:** with puts, removes and up to two process crashes, every restart rebuilds the state of a prefix of the appended records.
- **Paxos:** with the two proposer threads of `main()`, every interleaving satisfies Agreement and ChosenValueKept, and the chosen set refines `Consensus`.
- **DistributedCache:** put, remove, failover, crashes and restarts keep every cache and role typed. The leader-election bug is the violation run `dc_two_leaders`.
- **HeartbeatManager:** with `main()`'s 1:3 interval-to-threshold ratio, each DEAD transition is reported once, and a peer that stops heartbeating is marked DEAD before its wrapped tick difference turns negative.

**Bounds, and why they are enough.**
- **Paxos:** 3 nodes give majorities of 2, so two majorities always share a node. 2 proposers is what `main()` starts (in the composite), and 3 are needed for the disagreement (`MCPaxos3.cfg`).
- **DistributedCache:** 3 nodes, as `main()` names, one key owned by a follower and one crash. One crash is enough for two followers to see a peer down; a put of a key owned by a crashed node is the RPC that times out.
- **StrongConsistency:** 3 nodes and 2 threads, as in `main()`.
- **Replication:** 2 slaves, 2 versions, up to 4 live threads and 1 slave failure. A regression needs two threads for one slave carrying different versions, which needs 2 versions.
- **InMemoryStore:** capacity 2 with 3 keys, so an insert evicts, and 4 clock readings, so stamps can be equal or ordered.
- **Heartbeat:**
  - 2 nodes and a 4-bit int.
  - 4 ticks per ms, so milliseconds and ticks differ.
  - Interval 1 ms and threshold 3 ms, the ratio of `main()`.
  - A scan is due every 4 ticks, the threshold is crossed at 4 ticks, and the signed difference turns negative at 8 ticks. Both a detection and a wrap can therefore fall between two scans.
- **SSDStore:**
  - 3 keys, 2 values and a cache limit of 2, so a put of a third key evicts.
  - The initial directory is any assignment of files, loaded in any order, so the store can start full.
  - A queue of up to 3 keys (4 in `MCSSDStore.cfg`) holds a duplicate key and a removed key together.
- **WAL:** 2 keys, 2 values, 4 records and 2 crashes. Three records can overwrite a key and still leave a later record behind it, and the second crash recovers from a log that was appended to after the first recovery. The power-loss run allows 1 crash and 1 power loss. The cut can fall after any token, with or without its separator, or inside any token not yet written back.
- **FIFOPolicy:** capacity 2 and 3 keys, so a new key in a full cache evicts, and an update of a present key is possible in a full cache.
- **LastWriteWins:** 1 key, because keys are independent in both methods. Up to 3 writes, clock readings 0..2 and one step back. Two writes can therefore carry equal, larger or smaller stamps in either order, and a conflict can carry a stamp ahead of the clock.
- **RangePartitioning:** bounds 0..3, keys 0..4 and 2 partitions. Two ranges can be disjoint, touch, nest or overlap, and key 4 is outside every range.

**Mutants.** Each property of a passing run is broken by one plausible slip in the code it models (`PROJECT.json`, "mutants"):
- `propose` re-sending its own value.
- `accept` without its promise check.
- Phase 1 without `learn`.
- `propose` with `>=`.
- `checkHealth` with `>= 0`.
- `touchNode` without the splice.
- Replay applying the newest record first.
- The monitor pass stopping after its first report, or ignoring `node.alive`.
- `evict()` not writing the evicted value.
- `loadCache` not queueing its keys.
- The eviction thread's test inverted.
- `FIFOCache::evict` taking the back of the queue, or `put` testing `size() > capacity`.
- LWW with `>=` instead of `>`, or `resolve_conflict` reading `cache[key]` before `find`.
- `remove` storing `""` instead of erasing.
- `addPartition` inserting at the front, or testing `startRange > endRange`.

The LRU and FIFO refinements and `LWW_KeepsFirstLatestWrite` (`Winner`) also check against references defined without the mapped code. The WAL properties compare against `Described`, which computes the last record for each key directly and never replays the log. A bug in replay therefore cannot also change the reference it is checked against.

## 4. Fairness

- **Paxos and StrongConsistency:** weak fairness per proposer thread. Each is a `std::thread` that `main()` joins, so it runs to completion.
- **MasterSlaveReplication:**
  - Weak fairness on the steps of each slave's replication threads. These are detached OS threads; nothing blocks them except the slave's mutex, which is held briefly.
  - Strong fairness on `HealthCheck(s)`. The monitor loop revisits every slave every 3 seconds for as long as the program runs. In the model a check can be disabled only by the `MaxThreads` bound, so a check that is enabled again and again must eventually be taken.
- **HeartbeatManager:** weak fairness on Tick and on Scan. Time passes, and the monitor thread sleeps only for the interval. Heartbeats, registrations and `stop()` come from the callers and have no fairness. Symmetry over nodes is not used, because the run checks a liveness property.
- **DistributedCache:** no fairness. Its properties are safety properties. A leads-to property on the monitor would only restate `handleFailover`'s guard, and the promotion it would ask for is the bug `dc_two_leaders` reports.
- **SSDStore:** weak fairness on EvictionThread. `wait_for` returns at the latest after five seconds. Callers have no fairness.
- **InMemoryStore, FIFOPolicy, LastWriteWins, RangePartitioning and LogBasedRecovery:** no fairness. Their properties are safety and refinement.
- **MCComponents:** each of these conditions, restricted to the steps of its own component.

## 5. Not modelled, and the plan for later

- **Failure detector:**
  - The file does not compile as written: it copy-assigns a struct holding atomics at line 50. The model follows the evident intent.
  - `setHeartbeatInterval` and `setFailureThreshold` are not modelled; `main()` never calls them.
  - The callback runs under `nodesMutex`. A callback that called back into the manager would deadlock. `main()`'s callback only prints, so the model leaves this out.
- **WAL durability:** `SpecPowerLoss` also reaches the plain loss of a record whose `put` returned, which spec.md 4.2's durable-ack contract forbids. No run checks it: without fsync it fails for any append, and `wal_power_loss` already checks what recovery makes of the cut file.
- **SSDStore:**
  - A popped duplicate key writes an empty file over the key's value, so the value is lost. `NoStaleRead` allows `""` for this reason; no contract in the source or spec.md states durability for this store.
  - The detached thread outliving the destroyed object is outside the model.
- **FIFOPolicy:** `get` returns `-1` for a missing key, so a stored `-1` reads as missing. Values are model values, so this ambiguity of the interface is not a state of the model.
- **DistributedCache:**
  - `get` is not modelled. For a local key that is missing it sends an RPC to the node itself while holding `cacheMutex`; `RPCClient` has no `get` and the RPC server is not in the repository, so what that call does cannot be read from the code (listed as a hazard).
  - `replicate` and `ensureConsistency` change no state of the class; the replication and consistency modules model them. `getNodeForKey` and `checkAllPeersAlive` are not defined in the included files and are taken from spec.md (a static partition map; all peers up).
- **Out of scope:** RPC client, admin console, API-key auth, encryption, dashboards and deployment are I/O or excluded by spec.md 1.
