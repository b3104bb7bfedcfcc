---------------------------- MODULE MCOspfElection ---------------------------
(* Instances of OspfElection.                                               *)
EXTENDS OspfElection, TLC

EqualPrio == [r \in Router |-> {1}]

\* The first router may be ineligible, or preferred.
FirstVaries == [r \in Router |-> IF r = 1 THEN {0, 2} ELSE {1}]
=============================================================================
