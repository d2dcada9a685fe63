------------------------------ MODULE MCSSDStore ------------------------------
(* Three keys and two values over a cache limit of two: a put of a third   *)
(* key evicts, and a directory left with two or three files starts the     *)
(* store full.  A queue of up to four keys holds a key twice together with *)
(* a key removed while queued.                                             *)
EXTENDS SSDStore

CONSTANTS k1, k2, k3, v1, v2
MCKeys == {k1, k2, k3}
MCValues == {v1, v2}
==============================================================================
