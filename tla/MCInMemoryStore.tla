---------------------------- MODULE MCInMemoryStore ----------------------------
(***************************************************************************)
(* Model of InMemoryStore.cpp for TLC: three keys over a store of two      *)
(* entries, so that every put of a new key into a full store evicts, two   *)
(* values, and a clock of four readings so that stamps both tie and        *)
(* differ.                                                                 *)
(***************************************************************************)
EXTENDS InMemoryStore
==============================================================================
