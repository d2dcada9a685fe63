------------------------ MODULE MasterSlaveReplication ------------------------
(***************************************************************************)
(* src/distributed/replication/MasterSlaveReplication.cpp: eventual-mode   *)
(* replication.  MasterNode::updateData bumps version and sets data under  *)
(* the master's mutex, then replicateToSlaves starts one detached thread   *)
(* per slave.  Each thread (MasterNode::replicate) sleeps, tests           *)
(* slave->getVersion() < version and calls slave->updateData(data,         *)
(* version): it copies the master's version without the mutex when it    *)
(* makes the call, and the slave reads the master's data through the       *)
(* const std::string& later, under the slave's mutex only.                 *)
(* HealthChecker::monitor calls manualFailover, which starts the same      *)
(* threads for lagging slaves, whenever a slave reports version 0.         *)
(* A slave losing its copy (main(): slave2.updateData("Stale data", 0)) is *)
(* the failure the health check repairs.                                   *)
(***************************************************************************)
EXTENDS Integers, Sequences, FiniteSets, Bags, BagsExt

CONSTANTS
    Slaves,       \* the SlaveNodes added with addSlave
    Data,         \* the strings updateData may be called with
    NoData,       \* std::string data before any write ("")
    StaleData,    \* what a failed slave holds ("Stale data")
    MaxVersion,   \* bound on MasterNode::updateData calls
    MaxThreads,   \* bound on live replication threads
    MaxFailures   \* bound on slave failures

ASSUME /\ NoData \notin Data /\ StaleData \notin Data
       /\ MaxVersion \in Nat /\ MaxThreads \in Nat /\ MaxFailures \in Nat

VARIABLES
    version,      \* MasterNode::version
    data,         \* MasterNode::data
    written,      \* history: written[v] is the data the master stored with version v
    sVersion,     \* SlaveNode::dataVersion
    sData,        \* SlaveNode::data
    threads,      \* bag of live replicate() threads, by their local state
    failures      \* number of slave failures so far

vars == <<version, data, written, sVersion, sData, threads, failures>>

\* The local state of a replicate(slave) thread: its slave, where it is, and
\* the version argument of slave->updateData once copied (-1 before).
Thread == [slave : Slaves, pc : {"check", "args", "write"}, v : -1..MaxVersion]

TypeOK ==
    /\ version \in 0..MaxVersion
    /\ data \in Data \cup {NoData}
    /\ written \in [1..version -> Data]
    /\ sVersion \in [Slaves -> 0..MaxVersion]
    /\ sData \in [Slaves -> Data \cup {NoData, StaleData}]
    /\ IsABag(threads) /\ BagToSet(threads) \subseteq Thread
    /\ failures \in 0..MaxFailures

\* MasterNode() : version(0); SlaveNode(int id) : dataVersion(0).
Init ==
    /\ version = 0
    /\ data = NoData
    /\ written = <<>>
    /\ sVersion = [s \in Slaves |-> 0]
    /\ sData = [s \in Slaves |-> NoData]
    /\ threads = EmptyBag
    /\ failures = 0

\* Start one replicate() thread for each slave in S.
Spawn(S) ==
    /\ BagCardinality(threads) + Cardinality(S) <= MaxThreads
    /\ threads' = threads (+) SetToBag({[slave |-> s, pc |-> "check", v |-> -1]
                                        : s \in S})

-----------------------------------------------------------------------------
(* Mutant: checkHealth with the test off by one.                           *)
IsHealthyOffByOne(s) == sVersion[s] >= 0

\* HealthChecker::checkHealth: slave->getVersion() > 0.
IsHealthy(s) == sVersion[s] > 0

-----------------------------------------------------------------------------

\* MasterNode::updateData(newData), then replicateToSlaves().
UpdateData(d) ==
    /\ version < MaxVersion
    /\ version' = version + 1
    /\ data' = d
    /\ written' = Append(written, d)
    /\ Spawn(Slaves)
    /\ UNCHANGED <<sVersion, sData, failures>>

\* MasterNode::manualFailover: a thread for every slave behind the master.
ManualFailover ==
    /\ Spawn({s \in Slaves : sVersion[s] < version})
    /\ UNCHANGED <<version, data, written, sVersion, sData, failures>>

\* One pass of HealthChecker::monitor reaching an unhealthy slave.
HealthCheck(s) ==
    /\ ~IsHealthy(s)
    /\ ManualFailover

\* replicate(): after the sleep, slave->getVersion() < version, else return.
Check(t) ==
    /\ t.pc = "check"
    /\ threads' = IF sVersion[t.slave] < version
                  THEN BagAdd(BagRemove(threads, t), [t EXCEPT !.pc = "args"])
                  ELSE BagRemove(threads, t)
    /\ UNCHANGED <<version, data, written, sVersion, sData, failures>>

\* The call slave->updateData(data, version): the int version is copied
\* by an unlocked read of the master; data is bound by reference only.
ReadArg(t) ==
    /\ t.pc = "args"
    /\ threads' = BagAdd(BagRemove(threads, t), [t EXCEPT !.pc = "write", !.v = version])
    /\ UNCHANGED <<version, data, written, sVersion, sData, failures>>

\* Mutant: the slave bumping its own dataVersion instead of taking the
\* master's.
WriteIncrements(t) ==
    /\ t.pc = "write"
    /\ sData' = [sData EXCEPT ![t.slave] = data]
    /\ sVersion' = [sVersion EXCEPT ![t.slave] = @ + 1]
    /\ threads' = BagRemove(threads, t)
    /\ UNCHANGED <<version, data, written, failures>>

\* SlaveNode::updateData under the slave's mutex: data = newData reads the
\* master's data through the reference, now; the thread ends.
Write(t) ==
    /\ t.pc = "write"
    /\ sData' = [sData EXCEPT ![t.slave] = data]
    /\ sVersion' = [sVersion EXCEPT ![t.slave] = t.v]
    /\ threads' = BagRemove(threads, t)
    /\ UNCHANGED <<version, data, written, failures>>

\* A slave loses its copy: main()'s slave2.updateData("Stale data", 0).
SlaveFailure(s) ==
    /\ failures < MaxFailures
    /\ sData' = [sData EXCEPT ![s] = StaleData]
    /\ sVersion' = [sVersion EXCEPT ![s] = 0]
    /\ failures' = failures + 1
    /\ UNCHANGED <<version, data, written, threads>>

ThreadStep(t) == Check(t) \/ ReadArg(t) \/ Write(t)

Next ==
    \/ \E d \in Data : UpdateData(d)
    \/ ManualFailover
    \/ \E s \in Slaves : HealthCheck(s) \/ SlaveFailure(s)
    \/ \E t \in BagToSet(threads) : ThreadStep(t)

\* Detached threads are scheduled by the OS: the threads of every slave
\* make progress.  The monitor loop revisits every slave every 3 seconds
\* for as long as the program runs, so a check that is enabled again and
\* again (it waits for room under MaxThreads) is eventually taken.
Fairness ==
    /\ \A s \in Slaves : WF_vars(\E t \in BagToSet(threads) : t.slave = s /\ ThreadStep(t))
    /\ \A s \in Slaves : SF_vars(HealthCheck(s))

Spec == Init /\ [][Next]_vars /\ Fairness

-----------------------------------------------------------------------------
(* Properties.                                                             *)

\* A slave that holds version v holds the data the master wrote with v
\* (spec.md 4.5: a replica applies {key, value, version} pushes).
SlaveDataMatchesVersion ==
    \A s \in Slaves : sVersion[s] > 0 => sData[s] = written[sVersion[s]]

\* A slave that has lost its copy while the master holds data is brought
\* back by HealthChecker::monitor and manualFailover.
StaleSlaveRepaired ==
    \A s \in Slaves : (sVersion[s] = 0 /\ version > 0) ~> sVersion[s] > 0

\* Once the master stops writing, every slave ends up with the master's
\* version and data (spec.md 5: eventual-mode replicas converge to the
\* owner's state).
Convergence ==
    <>[](\A s \in Slaves : sVersion[s] = version /\ sData[s] = data)
==============================================================================
