------------------------- MODULE MCTreasuryLedger -------------------------
(***************************************************************************)
(* Bounded instances of TreasuryLedger.                                    *)
(***************************************************************************)
EXTENDS TreasuryLedger, TLC

CONSTANTS b1, b2

MCLimit   == [b \in Budgets |-> IF b = b1 THEN 3 ELSE 2]
MCWindows == {[granted |-> 1, expires |-> 3]}

Symmetry == Permutations(Proposals) \cup Permutations(Authorizations)
              \cup Permutations(Assets)
=============================================================================
