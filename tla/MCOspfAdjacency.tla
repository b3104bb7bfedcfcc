-------------------------- MODULE MCOspfAdjacency --------------------------
(* Small instances of OspfAdjacency for TLC *)
EXTENDS OspfAdjacency

CONSTANTS e1, e2

(* what each router knows at boot: the other one has it not, or older *)
MCExtSeq == [r \in Router |-> [e \in Ext |-> IF r = 1 THEN (IF e = e1 THEN 2 ELSE 0) ELSE 1]]
MCEpoch == [r \in Router |-> r]

(* router 2 becomes the DR, router 1 its backup *)
MCRole == [r \in Router |-> {r = 2}]

(* The two faults of the run about restarts: the DR restarts and an LSA       *)
(* changes, in any order, or the other router restarts and then a timer       *)
(* overtakes the wire.  States beyond are not expanded.                       *)
RestartCases ==
  /\ env["early"] > 0 => boot[1] > 0
  /\ env["change"] > 0 => boot[1] = 0

=============================================================================
