------------------------- MODULE MCSettlementBridge -------------------------
(***************************************************************************)
(* The contract fed by the receipt builder: one trade, two decisions.      *)
(***************************************************************************)
EXTENDS SettlementBridge, TLC

CONSTANTS t1, seller, buyer, referee, o1, o2, c1

MCDeals == {[depositor |-> buyer, beneficiary |-> seller, corrector |-> referee,
             shares |-> 3, primaryBps |-> 5000, closingDeadline |-> 3]}

MCDecisions ==
  {[releaseId |-> "release", conditionId |-> c1, decidedAtKnowledge |-> d,
    reliedOn |-> {"record"}, verdict |-> "GRANTED"] : d \in {1, 2}}
=============================================================================
