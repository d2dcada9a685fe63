--------------------------- MODULE HeartbeatManager ---------------------------
(***************************************************************************)
(* src/coordination/heartbeat/HeartbeatManager.cpp: the failure detector.  *)
(* registerNode and receiveHeartbeat stamp a node with                     *)
(* static_cast<int>(system_clock::now().time_since_epoch().count()), a     *)
(* count of clock ticks cut to a W-bit int.  The monitor thread, under     *)
(* nodesMutex, marks a node dead and calls onNodeFailureCallback when      *)
(* alive && currentTime - lastHeartbeatTimestamp > failureThresholdMs,     *)
(* then sleeps heartbeatIntervalMs milliseconds.  The threshold is a       *)
(* number of milliseconds compared with a difference of ticks.             *)
(*                                                                         *)
(* Time is kept as what the code can observe of it (the absolute clock     *)
(* cannot matter): for each node the ticks since its stamp, modulo 2^W,    *)
(* and whether 2^W ticks have passed; for the monitor the ticks left of    *)
(* its sleep.  The int subtraction wraps, as the build's two's-complement  *)
(* arithmetic does.                                                        *)
(***************************************************************************)
EXTENDS Integers

CONSTANTS
    Nodes,                \* the node ids callers register
    IntBits,              \* W: the width of int
    TicksPerMs,           \* system_clock ticks per millisecond
    HeartbeatIntervalMs,  \* heartbeatIntervalMs
    FailureThresholdMs    \* failureThresholdMs

ASSUME /\ IntBits \in Nat \ {0} /\ TicksPerMs \in Nat \ {0}
       /\ HeartbeatIntervalMs \in Nat \ {0} /\ FailureThresholdMs \in Nat
       \* the silence the spec measures fits in the ticks the model counts
       /\ FailureThresholdMs * TicksPerMs < 2^IntBits

Modulus == 2^IntBits
IntervalTicks == HeartbeatIntervalMs * TicksPerMs
ThresholdTicks == FailureThresholdMs * TicksPerMs

VARIABLES
    registered,   \* the keys of HeartbeatManager::nodes
    alive,        \* Node::alive
    age,          \* ticks since Node::lastHeartbeatTimestamp was taken, mod 2^W
    wrapped,      \* 2^W ticks or more have passed since then
    events,       \* history: failure callbacks for the node since its last stamp
    sleepLeft,    \* ticks the monitor thread has still to sleep
    running       \* HeartbeatManager::running

vars == <<registered, alive, age, wrapped, events, sleepLeft, running>>

TypeOK ==
    /\ registered \subseteq Nodes
    /\ alive \in [Nodes -> BOOLEAN]
    /\ age \in [Nodes -> 0..Modulus - 1]
    /\ wrapped \in [Nodes -> BOOLEAN]
    /\ events \in [Nodes -> 0..2]
    /\ sleepLeft \in 0..IntervalTicks
    /\ running \in BOOLEAN

\* main(): the manager is constructed and started before any node is
\* registered; the monitor's first pass runs at once.
Init ==
    /\ registered = {}
    /\ alive = [n \in Nodes |-> TRUE]
    /\ age = [n \in Nodes |-> 0]
    /\ wrapped = [n \in Nodes |-> FALSE]
    /\ events = [n \in Nodes |-> 0]
    /\ sleepLeft = 0
    /\ running = TRUE

\* currentTime - node.lastHeartbeatTimestamp, both ints cut from the clock:
\* the tick difference wrapped into [-2^(W-1), 2^(W-1)).
Elapsed(n) ==
    LET m == age[n] % Modulus
    IN  IF m >= Modulus \div 2 THEN m - Modulus ELSE m

\* The real silence of n in ticks exceeds failureThresholdMs milliseconds.
Silent(n) == wrapped[n] \/ age[n] > ThresholdTicks

\* A fresh stamp: lastHeartbeatTimestamp = now, alive = true.
Stamp(n) ==
    /\ alive' = [alive EXCEPT ![n] = TRUE]
    /\ age' = [age EXCEPT ![n] = 0]
    /\ wrapped' = [wrapped EXCEPT ![n] = FALSE]
    /\ events' = [events EXCEPT ![n] = 0]

-----------------------------------------------------------------------------
(* Mutant: the test without node.alive.                                    *)
SuspectedIgnoringAlive(n) == Elapsed(n) > FailureThresholdMs

\* monitorNodes: node.alive && currentTime - last > failureThresholdMs.
Suspected(n) == alive[n] /\ Elapsed(n) > FailureThresholdMs

-----------------------------------------------------------------------------

\* registerNode: nodes[nodeId] = Node{nodeId, true, now}.
RegisterNode(n) ==
    /\ registered' = registered \cup {n}
    /\ Stamp(n)
    /\ UNCHANGED <<sleepLeft, running>>

\* removeNode: nodes.erase(nodeId); the entry's fields go with it.
RemoveNode(n) ==
    /\ n \in registered
    /\ registered' = registered \ {n}
    /\ alive' = [alive EXCEPT ![n] = TRUE]
    /\ age' = [age EXCEPT ![n] = 0]
    /\ wrapped' = [wrapped EXCEPT ![n] = FALSE]
    /\ events' = [events EXCEPT ![n] = 0]
    /\ UNCHANGED <<sleepLeft, running>>

\* receiveHeartbeat for a registered node; for an unknown id it does nothing.
ReceiveHeartbeat(n) ==
    /\ n \in registered
    /\ Stamp(n)
    /\ UNCHANGED <<registered, sleepLeft, running>>

(* Mutant: the loop leaves after the first failure it reports.             *)
ScanFirstNodeOnly ==
    /\ running /\ sleepLeft = 0
    /\ LET sus == {n \in registered : Suspected(n)}
           dead == IF sus = {} THEN {} ELSE {CHOOSE n \in sus : TRUE} IN
       /\ alive' = [n \in Nodes |-> IF n \in dead THEN FALSE ELSE alive[n]]
       /\ events' = [n \in Nodes |-> IF n \in dead THEN (IF events[n] = 2 THEN 2 ELSE events[n] + 1)
                                                   ELSE events[n]]
    /\ sleepLeft' = IntervalTicks
    /\ UNCHANGED <<registered, age, wrapped, running>>

(* Mutant: the pass sleeps one tick longer than the interval.              *)
ScanSleepOneMore ==
    /\ running /\ sleepLeft = 0
    /\ LET dead == {n \in registered : Suspected(n)} IN
       /\ alive' = [n \in Nodes |-> IF n \in dead THEN FALSE ELSE alive[n]]
       /\ events' = [n \in Nodes |-> IF n \in dead THEN (IF events[n] = 2 THEN 2 ELSE events[n] + 1)
                                                   ELSE events[n]]
    /\ sleepLeft' = IntervalTicks + 1
    /\ UNCHANGED <<registered, age, wrapped, running>>

\* One pass of the monitor's loop under nodesMutex: every suspected node is
\* marked dead and reported to the callback; then sleep_for(interval).
Scan ==
    /\ running /\ sleepLeft = 0
    /\ LET dead == {n \in registered : Suspected(n)} IN
       /\ alive' = [n \in Nodes |-> IF n \in dead THEN FALSE ELSE alive[n]]
       /\ events' = [n \in Nodes |-> IF n \in dead THEN (IF events[n] = 2 THEN 2 ELSE events[n] + 1)
                                                   ELSE events[n]]
    /\ sleepLeft' = IntervalTicks
    /\ UNCHANGED <<registered, age, wrapped, running>>

\* stop(): running = false; the monitor leaves its loop.
Stop ==
    /\ running
    /\ running' = FALSE
    /\ UNCHANGED <<registered, alive, age, wrapped, events, sleepLeft>>

\* One clock tick.  A due pass of a running monitor is taken before the
\* clock moves on: sleep_for returns once the interval has elapsed.
Tick ==
    /\ ~(running /\ sleepLeft = 0)
    /\ age' = [n \in Nodes |-> (age[n] + 1) % Modulus]
    /\ wrapped' = [n \in Nodes |-> wrapped[n] \/ age[n] = Modulus - 1]
    /\ sleepLeft' = IF sleepLeft > 0 THEN sleepLeft - 1 ELSE 0
    /\ UNCHANGED <<registered, alive, events, running>>

Next ==
    \/ \E n \in Nodes : RegisterNode(n) \/ RemoveNode(n) \/ ReceiveHeartbeat(n)
    \/ Scan
    \/ Stop
    \/ Tick

\* Time passes and the monitor thread, the one background task, is
\* scheduled; the nodes' heartbeats are the environment's, with no fairness.
Fairness == WF_vars(Tick) /\ WF_vars(Scan)

Spec == Init /\ [][Next]_vars /\ Fairness

-----------------------------------------------------------------------------
(* Properties (spec.md 4.4 and 8).                                         *)

\* A peer is marked DEAD only after a silence longer than
\* failureThresholdMs: one that heartbeats more often is never marked.
HeartbeatingPeerNeverDead ==
    \A n \in registered : ~alive[n] => Silent(n)

\* The failure callback fires at most once per silence: a DEAD peer is not
\* reported again until a heartbeat revives it.
FailureEventOncePerSilence ==
    \A n \in registered : events[n] <= 1

\* A peer that heartbeats no more is eventually marked DEAD by the running
\* monitor, whatever the wrap of the int stamps: from any state it reaches
\* either DEAD or a fresh stamp (an age of 0 that did not come from a wrap).
Fresh(n) == age[n] = 0 /\ ~wrapped[n]

LostPeerMarkedDead ==
    \A n \in Nodes :
        (n \in registered /\ alive[n] /\ running)
            ~> (n \notin registered \/ ~alive[n] \/ Fresh(n) \/ ~running)
==============================================================================
