-------------------------- MODULE SettlementBridge --------------------------
(***************************************************************************)
(* The seam between the corpus and the contract                            *)
(* (src/chain/adjudicationReceipt.ts): the receipts that are presented are *)
(* not any receipts but those buildReceipt() makes from release decisions. *)
(* A decision is taken once, at a knowledge time; what later happened to   *)
(* the facts it stood on is its exposure, and a receipt for an exposure is *)
(* built from the decision the exposure was computed against.              *)
(***************************************************************************)
EXTENDS CustodyEscrow

CONSTANTS Windows, Nonces     \* windows an operator declares, nonces it fills in

(***************************************************************************)
(* A decision commits to its release, condition, knowledge time, the       *)
(* records it relied on and its verdict.  Those fields, and only those,    *)
(* are what evidenceDigestOf() hashes: the members of Evidence are the     *)
(* decisions.                                                              *)
(***************************************************************************)
Decision ==
  [releaseId : STRING, conditionId : Conditions, decidedAtKnowledge : Nat,
   reliedOn : SUBSET STRING, verdict : Verdicts]

evidenceDigestOf(decision) == decision

\* A decision at binding grade, with a proof; exposure is its post-release state.
buildReceipt(decision, tradeId, exposure, window, nonce) ==
  [tradeId |-> tradeId, conditionId |-> decision.conditionId,
   verdict |-> decision.verdict, postRelease |-> exposure,
   standing |-> "BINDING", clockProvenance |-> "WHAT_WE_HELD",
   decidedAtKnowledge |-> decision.decidedAtKnowledge,
   exposureWindowSeconds |-> window,
   evidenceDigest |-> evidenceDigestOf(decision), proven |-> TRUE, nonce |-> nonce]

\* buildReceipt() refuses a window of zero.
BuiltReceipts ==
  {buildReceipt(d, t, p, w, n) :
     d \in Evidence, t \in Trades, p \in PostRelease, w \in Windows \ {0}, n \in Nonces}

\* Claimed of the pair ("Only REVERSED_ON_CORRECTION, which is an actual
\* contrary finding, diverts the buffer"): while the window is open, the receipt
\* that says the decision behind the release was reversed is one the contract
\* executes, once enough operators have signed it.
ReversalOfTheReleaseDiverts ==
  \A t \in Trades :
    LET e == escrows[t]
        reversal == buildReceipt(ruled[t][1].evidenceDigest, t, "REVERSED_ON_CORRECTION",
                                 e.terms.windowSeconds, e.nextNonce)
    IN e.state = "PRIMARY_RELEASED" /\ now < e.expiry =>
         CheckPostRelease(t, reversal)
           /\ \E signatures \in SUBSET Operators : Verify(reversal, signatures)
=============================================================================
