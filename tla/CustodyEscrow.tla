--------------------------- MODULE CustodyEscrow ---------------------------
(***************************************************************************)
(* The settlement contract (contracts/ConditionalCustodyEscrow.sol): a     *)
(* deposit of vault shares per trade, released in two stages on receipts   *)
(* that a threshold of operators signed, returned when the route does not  *)
(* close, diverted on a reversal and frozen on a withdrawal of support.    *)
(*                                                                         *)
(* One action is one transaction; a transaction that reverts changes       *)
(* nothing and is no step.  `now' is the block time.  Receipts is the set  *)
(* of structs somebody may present; any set of operators may have signed   *)
(* one, and the contract checks them against the signers of the moment.    *)
(* The hashing and recovery of signatures, and the asset amounts of the    *)
(* events, are not represented.                                            *)
(***************************************************************************)
EXTENDS Integers, Sequences, FiniteSets, Functions

CONSTANTS
  Trades, Parties, Operators, Conditions, Evidence,
  Deals,            \* what deposit() may be called with
  Receipts,         \* the signed structs that may be presented
  Rotations,        \* what the governor may propose
  Endowment,        \* vault shares a party starts with
  InitialSigners, InitialThreshold, ROTATION_DELAY,
  MAX_TIME,         \* bound of this model on the block time
  None

Verdicts    == {"NOT_ADJUDICABLE", "GRANTED", "WITHHELD"}
PostRelease == {"STANDS", "REVERSED_ON_CORRECTION", "UNSUPPORTED_BY_WITHDRAWAL",
                "RESTATED_WITHOUT_REVERSAL"}

ReceiptType ==
  [tradeId : Trades, conditionId : Conditions, verdict : Verdicts,
   postRelease : PostRelease, standing : {"DEMONSTRATION", "BINDING"},
   clockProvenance : {"WHAT_WE_HELD", "WHAT_THE_SOURCE_KNEW"},
   decidedAtKnowledge : Nat, exposureWindowSeconds : Nat,
   evidenceDigest : Evidence, proven : BOOLEAN, nonce : Nat]

DealType ==
  [depositor : Parties, beneficiary : Parties, corrector : Parties,
   shares : Nat, primaryBps : Nat, closingDeadline : Nat]

Terms == [conditionId : Conditions, windowSeconds : Nat]

ASSUME DealsAndReceipts == Deals \subseteq DealType /\ Receipts \subseteq ReceiptType
ASSUME RotationsAreTyped ==
  Rotations \subseteq [signer : Operators, add : BOOLEAN, newThreshold : Nat]
ASSUME ConstructorArguments ==
  /\ InitialSigners \subseteq Operators /\ IsFiniteSet(Operators)
  /\ InitialThreshold \in 1 .. Cardinality(InitialSigners)
  /\ ROTATION_DELAY \in Nat /\ MAX_TIME \in Nat /\ Endowment \in Nat
ASSUME NoneIsNoValue == None \notin Deals /\ None \notin Terms /\ None \notin Parties
ASSUME TheContractIsNoParty == "this" \notin Parties /\ IsFiniteSet(Trades)

VARIABLES
  now,
  escrows,          \* trade -> its Escrow struct
  evidenceUsed,
  vault,            \* shares of each party and of the contract ("this")
  isSigner, signerCount, threshold,
  rotationReadyAt,  \* rotation -> time, 0 when none is pending
  ruled             \* history: trade -> the receipts that were executed on it

contract == <<escrows, evidenceUsed, vault, ruled>>
signers  == <<isSigner, signerCount, threshold, rotationReadyAt>>
vars     == <<now, contract, signers>>

States == {"NONE", "HELD", "PRIMARY_RELEASED", "FROZEN_PENDING_RULING",
           "SETTLED", "DIVERTED", "UNCLOSED"}

\* The struct of a trade; `deal' is what deposit() fixed, `terms' what Stage 1 did.
Escrow ==
  [state : States, deal : Deals \cup {None}, counterpartyAccepted : BOOLEAN,
   sharesReleased : Nat, terms : Terms \cup {None}, expiry : Nat, nextNonce : Nat]

Init ==
  /\ now = 1
  /\ escrows = [t \in Trades |->
       [state |-> "NONE", deal |-> None, counterpartyAccepted |-> FALSE,
        sharesReleased |-> 0, terms |-> None, expiry |-> 0, nextNonce |-> 0]]
  /\ evidenceUsed = {}
  /\ vault = [p \in Parties \cup {"this"} |-> IF p = "this" THEN 0 ELSE Endowment]
  /\ isSigner = InitialSigners
  /\ signerCount = Cardinality(InitialSigners)
  /\ threshold = InitialThreshold
  /\ rotationReadyAt = [r \in Rotations |-> 0]
  /\ ruled = [t \in Trades |-> <<>>]

-----------------------------------------------------------------------------
\* transfer(): the vault refuses more than the sender holds.
Transfer(from, to, shares) ==
  /\ vault[from] >= shares
  /\ vault' = IF from = to THEN vault
              ELSE [vault EXCEPT ![from] = @ - shares, ![to] = @ + shares]

Primary(deal) == (deal.shares * deal.primaryBps) \div 10000

\* Shares of trade t the contract still holds.
Outstanding(t) ==
  LET e == escrows[t]
  IN IF e.state \in {"HELD", "PRIMARY_RELEASED", "FROZEN_PENDING_RULING"}
     THEN e.deal.shares - e.sharesReleased ELSE 0

PrimaryInRange(deal) == deal.primaryBps >= 5000 /\ deal.primaryBps <= 9500

Deposit(t, deal) ==
  /\ escrows[t].state = "NONE"
  /\ PrimaryInRange(deal)
  /\ deal.closingDeadline > now
  /\ Transfer(deal.depositor, "this", deal.shares)
  /\ escrows' = [escrows EXCEPT ![t] =
       [state |-> "HELD", deal |-> deal, counterpartyAccepted |-> FALSE,
        sharesReleased |-> 0, terms |-> None, expiry |-> 0, nextNonce |-> 0]]
  /\ UNCHANGED <<now, evidenceUsed, ruled, signers>>

Accept(t, sender) ==
  /\ escrows[t].state = "HELD"
  /\ sender = escrows[t].deal.beneficiary
  /\ escrows' = [escrows EXCEPT ![t].counterpartyAccepted = TRUE]
  /\ UNCHANGED <<now, evidenceUsed, vault, ruled, signers>>

ReclaimUnclosed(t, sender) ==
  LET e == escrows[t] IN
  /\ e.state = "HELD"
  /\ now >= e.deal.closingDeadline
  /\ sender = e.deal.depositor
  /\ escrows' = [escrows EXCEPT ![t].state = "UNCLOSED"]
  /\ Transfer("this", e.deal.depositor, e.deal.shares)
  /\ UNCHANGED <<now, evidenceUsed, ruled, signers>>

-----------------------------------------------------------------------------
(***************************************************************************)
(* Receipts.                                                               *)
(***************************************************************************)

\* _verify(): a threshold of distinct current signers, the evidence unspent.
Verify(r, signatures) ==
  /\ r.evidenceDigest \notin evidenceUsed
  /\ signatures \subseteq isSigner
  /\ Cardinality(signatures) >= threshold

Admissible(r) ==
  r.standing = "BINDING" /\ r.clockProvenance = "WHAT_WE_HELD" /\ r.proven

CheckNonceOnly(t, r) ==     \* variation: the terms are taken from calldata
  Admissible(r) /\ r.nonce = escrows[t].nextNonce

\* _checkPostReleaseReceipt(): against the stored terms.
CheckPostRelease(t, r) ==
  /\ Admissible(r)
  /\ [conditionId |-> r.conditionId, windowSeconds |-> r.exposureWindowSeconds]
       = escrows[t].terms
  /\ r.nonce = escrows[t].nextNonce

Spend(r) ==
  /\ evidenceUsed' = evidenceUsed \cup {r.evidenceDigest}
  /\ ruled' = [ruled EXCEPT ![r.tradeId] = Append(@, r)]

\* Stage 1.  The window opens at the knowledge time of the ruling, not at the
\* time of the release.
ReleasePrimary(t, r, signatures) ==
  LET e == escrows[t] IN
  /\ e.state = "HELD"
  /\ Admissible(r) /\ r.verdict = "GRANTED"
  /\ e.counterpartyAccepted
  /\ now < e.deal.closingDeadline
  /\ r.exposureWindowSeconds # 0
  /\ r.nonce = e.nextNonce
  /\ Verify(r, signatures)
  /\ Spend(r)
  /\ escrows' = [escrows EXCEPT ![t] =
       [e EXCEPT !.state = "PRIMARY_RELEASED",
                 !.terms = [conditionId |-> r.conditionId,
                            windowSeconds |-> r.exposureWindowSeconds],
                 !.expiry = r.decidedAtKnowledge + r.exposureWindowSeconds,
                 !.nextNonce = e.nextNonce + 1,
                 !.sharesReleased = Primary(e.deal)]]
  /\ Transfer("this", e.deal.beneficiary, Primary(e.deal))
  /\ UNCHANGED <<now, signers>>

SettleAnyway(t) ==          \* variation: a frozen buffer settles like any other
  LET e == escrows[t] IN
  /\ e.state \in {"PRIMARY_RELEASED", "FROZEN_PENDING_RULING"}
  /\ now >= e.expiry
  /\ escrows' = [escrows EXCEPT ![t].state = "SETTLED"]
  /\ Transfer("this", e.deal.beneficiary, e.deal.shares - e.sharesReleased)
  /\ UNCHANGED <<now, evidenceUsed, ruled, signers>>

SettleWhole(t) ==           \* variation: the whole deposit is paid at Stage 2
  LET e == escrows[t] IN
  /\ e.state = "PRIMARY_RELEASED"
  /\ now >= e.expiry
  /\ escrows' = [escrows EXCEPT ![t].state = "SETTLED"]
  /\ Transfer("this", e.deal.beneficiary, e.deal.shares)
  /\ UNCHANGED <<now, evidenceUsed, ruled, signers>>

\* Stage 2; anybody may call it.
Settle(t) ==
  LET e == escrows[t] IN
  /\ e.state = "PRIMARY_RELEASED"
  /\ now >= e.expiry
  /\ escrows' = [escrows EXCEPT ![t].state = "SETTLED"]
  /\ Transfer("this", e.deal.beneficiary, e.deal.shares - e.sharesReleased)
  /\ UNCHANGED <<now, evidenceUsed, ruled, signers>>

DivertToDepositor(t, r, signatures) ==   \* variation: a reversal refunds the buyer
  LET e == escrows[t] IN
  /\ e.state \in {"PRIMARY_RELEASED", "FROZEN_PENDING_RULING"}
  /\ now < e.expiry
  /\ r.postRelease = "REVERSED_ON_CORRECTION"
  /\ CheckPostRelease(t, r)
  /\ Verify(r, signatures)
  /\ Spend(r)
  /\ escrows' = [escrows EXCEPT ![t].state = "DIVERTED", ![t].nextNonce = @ + 1]
  /\ Transfer("this", e.deal.depositor, e.deal.shares - e.sharesReleased)
  /\ UNCHANGED <<now, signers>>

DivertOnCorrection(t, r, signatures) ==
  LET e == escrows[t] IN
  /\ e.state \in {"PRIMARY_RELEASED", "FROZEN_PENDING_RULING"}
  /\ now < e.expiry
  /\ r.postRelease = "REVERSED_ON_CORRECTION"
  /\ CheckPostRelease(t, r)
  /\ Verify(r, signatures)
  /\ Spend(r)
  /\ escrows' = [escrows EXCEPT ![t].state = "DIVERTED", ![t].nextNonce = @ + 1]
  /\ Transfer("this", e.deal.corrector, e.deal.shares - e.sharesReleased)
  /\ UNCHANGED <<now, signers>>

\* No money moves; the window reopens for its own length.
FreezeOnWithdrawal(t, r, signatures) ==
  LET e == escrows[t] IN
  /\ e.state = "PRIMARY_RELEASED"
  /\ now < e.expiry
  /\ r.postRelease = "UNSUPPORTED_BY_WITHDRAWAL"
  /\ CheckPostRelease(t, r)
  /\ Verify(r, signatures)
  /\ Spend(r)
  /\ escrows' = [escrows EXCEPT ![t].state = "FROZEN_PENDING_RULING",
                                ![t].expiry = now + e.terms.windowSeconds,
                                ![t].nextNonce = @ + 1]
  /\ UNCHANGED <<now, vault, signers>>

-----------------------------------------------------------------------------
(***************************************************************************)
(* The operator set.                                                       *)
(***************************************************************************)
ProposeRotation(rotation) ==
  /\ rotationReadyAt' = [rotationReadyAt EXCEPT ![rotation] = now + ROTATION_DELAY]
  /\ UNCHANGED <<now, contract, isSigner, signerCount, threshold>>

ExecuteRotationEarlyCheck(rotation) ==   \* variation: the threshold is checked
  /\ rotationReadyAt[rotation] # 0       \* against the count before the change
  /\ now >= rotationReadyAt[rotation]
  /\ rotationReadyAt' = [rotationReadyAt EXCEPT ![rotation] = 0]
  /\ rotation.add <=> rotation.signer \notin isSigner
  /\ isSigner' = IF rotation.add THEN isSigner \cup {rotation.signer}
                                 ELSE isSigner \ {rotation.signer}
  /\ signerCount' = IF rotation.add THEN signerCount + 1 ELSE signerCount - 1
  /\ rotation.newThreshold \in 1 .. signerCount
  /\ threshold' = rotation.newThreshold
  /\ UNCHANGED <<now, contract>>

ExecuteRotation(rotation) ==
  /\ rotationReadyAt[rotation] # 0
  /\ now >= rotationReadyAt[rotation]
  /\ rotationReadyAt' = [rotationReadyAt EXCEPT ![rotation] = 0]
  /\ rotation.add <=> rotation.signer \notin isSigner
  /\ isSigner' = IF rotation.add THEN isSigner \cup {rotation.signer}
                                 ELSE isSigner \ {rotation.signer}
  /\ signerCount' = IF rotation.add THEN signerCount + 1 ELSE signerCount - 1
  /\ rotation.newThreshold \in 1 .. signerCount'
  /\ threshold' = rotation.newThreshold
  /\ UNCHANGED <<now, contract>>

Tick == now < MAX_TIME /\ now' = now + 1 /\ UNCHANGED <<contract, signers>>

Call(t) ==
  \/ \E deal \in Deals : Deposit(t, deal)
  \/ \E sender \in Parties : Accept(t, sender) \/ ReclaimUnclosed(t, sender)
  \/ Settle(t)

Present(r, signatures) ==
  \/ ReleasePrimary(r.tradeId, r, signatures)
  \/ DivertOnCorrection(r.tradeId, r, signatures)
  \/ FreezeOnWithdrawal(r.tradeId, r, signatures)

Next ==
  \/ \E t \in Trades : Call(t)
  \/ \E r \in Receipts, signatures \in SUBSET Operators : Present(r, signatures)
  \/ \E rotation \in Rotations : ProposeRotation(rotation) \/ ExecuteRotation(rotation)
  \/ Tick

Spec == Init /\ [][Next]_vars

-----------------------------------------------------------------------------
(***************************************************************************)
(* Properties.                                                             *)
(***************************************************************************)

\* Type invariant: the contract's storage.
TypeOK ==
  /\ now \in Nat
  /\ escrows \in [Trades -> Escrow]
  /\ evidenceUsed \subseteq Evidence
  /\ vault \in [Parties \cup {"this"} -> Nat]
  /\ isSigner \subseteq Operators /\ signerCount \in Nat /\ threshold \in Nat
  /\ rotationReadyAt \in [Rotations -> Nat]
  /\ ruled \in [Trades -> Seq(Receipts)]

\* The contract holds exactly what its open trades are owed: no release,
\* settlement, diversion or return of one trade is paid from another's shares.
VaultCoversEscrows ==
  vault["this"] = SumFunctionOnSet([t \in Trades |-> Outstanding(t)], Trades)

\* Everything executed on a trade is about one agreement: the window and the
\* condition of Stage 1, in the order of the nonces, without a gap.
OneAgreement ==
  \A t \in Trades : \A i \in DOMAIN ruled[t] :
    /\ ruled[t][i].tradeId = t
    /\ ruled[t][i].nonce = i - 1
    /\ ruled[t][i].conditionId = ruled[t][1].conditionId
    /\ ruled[t][i].exposureWindowSeconds = ruled[t][1].exposureWindowSeconds

\* "A withdrawal is not a correction": once support was withdrawn the buffer is
\* frozen or diverted, and diverted only on a later reversal; it is never paid
\* to the beneficiary, and an uncontested buffer only after its whole window.
BufferFollowsTheRuling ==
  \A t \in Trades :
    LET e == escrows[t]
        post == {ruled[t][i].postRelease : i \in 2 .. Len(ruled[t])}
    IN /\ "UNSUPPORTED_BY_WITHDRAWAL" \in post =>
            e.state \in {"FROZEN_PENDING_RULING", "DIVERTED"}
       /\ e.state = "DIVERTED" <=> "REVERSED_ON_CORRECTION" \in post
       /\ e.state = "SETTLED" =>
            /\ post = {}
            /\ now >= ruled[t][1].decidedAtKnowledge
                        + ruled[t][1].exposureWindowSeconds

\* Crossing rotations never leave a threshold the signers cannot reach, which
\* would strand every buffer that waits for a ruling.
ThresholdReachable ==
  signerCount = Cardinality(isSigner) /\ threshold \in 1 .. Cardinality(isSigner)

\* Claimed of every route ("what stops a route with no closing from being a
\* deposit locked forever"; the freeze "buys time for a fresh ruling"): as long
\* as the contract holds shares of a trade, some call can still move them, now
\* or later.
NoDepositLockedForever ==
  \A t \in Trades : Outstanding(t) > 0 =>
    \/ escrows[t].state = "HELD"               \* reclaimUnclosed, from the deadline on
    \/ escrows[t].state = "PRIMARY_RELEASED"   \* settle, from the expiry on
    \/ now < escrows[t].expiry                 \* divertOnCorrection

-----------------------------------------------------------------------------
\* The one balance the contract holds in the vault implements an account per
\* trade: whatever receipts are presented, in whatever order and by whomever,
\* shares leave a trade only from what is outstanding of it, to the party its
\* own deal names for that stage, and a closed trade is never paid again.
Accounts == INSTANCE EscrowAccounts WITH
  stage   <- [t \in Trades |-> escrows[t].state],
  deal    <- [t \in Trades |-> escrows[t].deal],
  account <- [t \in Trades |-> Outstanding(t)],
  balance <- [p \in Parties |-> vault[p]]

ImplementsEscrowAccounts == Accounts!Spec
=============================================================================
