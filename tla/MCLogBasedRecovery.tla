------------------------- MODULE MCLogBasedRecovery -------------------------
(* Two keys, two values, up to four records and two process crashes.       *)
EXTENDS LogBasedRecovery

CONSTANTS k1, k2, v1, v2

MCKeys == {k1, k2}
MCValues == {v1, v2}
MCOpsBoth == {"PUT", "REMOVE"}
==============================================================================
