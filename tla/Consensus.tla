------------------------------ MODULE Consensus ------------------------------
(***************************************************************************)
(* What the strong-consistency path of the cache promises (spec.md 4.5,    *)
(* 8): a decision starts with no value chosen, a single value from the     *)
(* proposed ones becomes chosen, and the choice never changes afterwards.  *)
(* The detailed protocol modules are checked against this specification   *)
(* through a refinement mapping.                                           *)
(***************************************************************************)
CONSTANT Value

VARIABLE chosen

TypeOK == chosen \subseteq Value

Init == chosen = {}

\* The one step a decision may take: from nothing chosen to one value.
Choose == /\ chosen = {}
          /\ \E v \in Value : chosen' = {v}

Spec == Init /\ [][Choose]_chosen
==============================================================================
