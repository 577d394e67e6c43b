------------------------ MODULE MCExecutionLedger ------------------------
(***************************************************************************)
(* A bounded instance of ExecutionLedger: one person and one agent.        *)
(***************************************************************************)
EXTENDS ExecutionLedger, TLC

CONSTANTS jo, planner

MCKinds == [who \in Principals |-> IF who = planner THEN "AGENT" ELSE "HUMAN"]

OneGrant == {[revision |-> 1, granted |-> 1, expires |-> 3]}

TwoGrants == OneGrant \cup {[revision |-> 2, granted |-> 1, expires |-> 2]}

Symmetry == Permutations(Proposals)
=============================================================================
