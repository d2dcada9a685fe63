------------------------- MODULE MCHeartbeatManager -------------------------
(* Two nodes; int narrowed to 4 bits, so the stamps wrap every four        *)
(* heartbeat intervals as a 32-bit count of nanoseconds wraps every 4.3    *)
(* seconds against main()'s interval of one second; four ticks per         *)
(* millisecond, so that a number of milliseconds and a number of ticks     *)
(* differ; and main()'s 1 : 3 ratio of interval to threshold.              *)
EXTENDS HeartbeatManager

CONSTANTS n1, n2
MCNodes == {n1, n2}
==============================================================================
