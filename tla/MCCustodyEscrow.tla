-------------------------- MODULE MCCustodyEscrow --------------------------
(***************************************************************************)
(* Bounded instances of CustodyEscrow.                                     *)
(***************************************************************************)
EXTENDS CustodyEscrow, TLC

CONSTANTS t1, t2, seller, buyer, referee, o1, o2, o3, e1, e2, e3, c1, c2

MCParties == {seller, buyer, referee}

Deal(shares, bps, deadline) ==
  [depositor |-> buyer, beneficiary |-> seller, corrector |-> referee,
   shares |-> shares, primaryBps |-> bps, closingDeadline |-> deadline]

\* 3 shares at 5000 bps round down to a primary of 1.
MCDeals == {Deal(3, 5000, 3), Deal(2, 9500, 2)}

\* A receipt the contract would execute, for the stage its nonce names.  The
\* release was decided at 0, so that its window ends at 2, before the deadline
\* of the first deal: a late release may be settled at once.
Sound(t, post, evidence, decidedAt, nonce) ==
  [tradeId |-> t, conditionId |-> c1, verdict |-> "GRANTED", postRelease |-> post,
   standing |-> "BINDING", clockProvenance |-> "WHAT_WE_HELD",
   decidedAtKnowledge |-> decidedAt, exposureWindowSeconds |-> 2,
   evidenceDigest |-> evidence, proven |-> TRUE, nonce |-> nonce]

SoundReceipts(trades, evidence) ==
  {Sound(t, "STANDS", e, 0, 0) : t \in trades, e \in evidence}
    \cup
  {Sound(t, p, e, 1, n) : t \in trades, e \in evidence, n \in 1 .. 2,
     p \in {"REVERSED_ON_CORRECTION", "UNSUPPORTED_BY_WITHDRAWAL"}}

\* One field at a time of a receipt is not what the contract asks for.
FlawedReceipts(trades, evidence) ==
  UNION {{[r EXCEPT !.standing = "DEMONSTRATION"],
          [r EXCEPT !.clockProvenance = "WHAT_THE_SOURCE_KNEW"],
          [r EXCEPT !.verdict = "WITHHELD"],
          [r EXCEPT !.proven = FALSE],
          [r EXCEPT !.conditionId = c2],
          [r EXCEPT !.exposureWindowSeconds = 1]}
         : r \in SoundReceipts(trades, evidence)}

MCReceipts == SoundReceipts({t1, t2}, {e1, e2, e3})
                \cup FlawedReceipts({t1}, {e1})

\* The governor takes two of three operators away, each time leaving two to sign.
MCRotations ==
  {[signer |-> o, add |-> FALSE, newThreshold |-> 2] : o \in {o1, o2}}

\* One trade and no rotation, for the life of one frozen buffer.
OneTradeReceipts == SoundReceipts({t1}, {e1, e2})
NoRotations == {}
=============================================================================
