--------------------------- MODULE TreasuryLedger ---------------------------
(***************************************************************************)
(* The firm's money (src/db/treasuryLedger.ts) and the budget chain it is  *)
(* held on (src/db/warrantLedger.ts): eligibility of assets, proposals,    *)
(* reviews, authorizations and their revocation, holds and releases on a   *)
(* shared budget, and dispatches that each spend a hold.                   *)
(*                                                                         *)
(* As in ExecutionLedger one action is the INSERT of one row, guarded by   *)
(* the keys, CHECKs and triggers of its table.  A movement on a budget is  *)
(* computed by its writer (hold() of src/governance/treasurySimulation.ts) *)
(* from the last movement the writer read, and other writers may insert    *)
(* between that read and the insertion: `seen' is how much of the table    *)
(* the writer had read.  Reviewers and grantors are registered people or   *)
(* policies; accounts, jurisdictions, policies and reconciliations are not *)
(* represented.                                                            *)
(***************************************************************************)
EXTENDS Integers, Sequences, FiniteSets, FiniteSetsExt, Functions

CONSTANTS
  Budgets, Limit,    \* shared budgets and the limit of each
  Assets, Proposals, Authorizations,
  Amounts, Windows, Times,
  MAX_MOVEMENTS,     \* bound of this model on the rows of the chain
  MAX_DISPATCHES,    \* ... and on those of the dispatch table
  Nothing

Eligibility == {"CONFIRMED", "BLOCKED", "UNRESOLVED"}
Responses   == {"APPROVE", "DENY", "REQUEST_REVISION", "DEFER"}
Outcomes    == {"CONFIRMED", "REJECTED", "OUTCOME_UNKNOWN"}

ASSUME LimitsArePositive  == Limit \in [Budgets -> Nat \ {0}]
ASSUME AmountsArePositive == Amounts \subseteq Nat \ {0}
ASSUME WindowsOfInstants  ==
  Windows \subseteq [granted : Nat, expires : Nat] /\ Times \subseteq Nat
ASSUME NoneIsNoRow ==
  Nothing \notin Proposals /\ Nothing \notin Times /\ Nothing \notin Responses
ASSUME BoundsAreNatural == MAX_MOVEMENTS \in Nat /\ MAX_DISPATCHES \in Nat

VARIABLES
  eligibility,     \* asset -> the state determined for it, or Nothing
  proposal,        \* proposal -> its row, or Nothing
  response,        \* proposal -> what its one review said, or Nothing
  authorization,   \* authorization -> its row, or Nothing
  revokedAt,       \* authorization -> the instant of its revocation, or Nothing
  movements,       \* budget_reservation, in the order of insertion
  dispatches       \* treasury_dispatch, in the order of insertion

decided == <<eligibility, proposal, response>>
treasury == <<decided, authorization, revokedAt, movements, dispatches>>

ProposalRow == [asset : Assets, amount : Amounts, revises : Proposals \cup {Nothing}]
AuthorizationRow == [proposal : Proposals, eligibility : Assets, window : Windows]
\* Of the three states CONSUMED is left out: no key or check asks for it.
Movement ==
  [budget : Budgets, sequence : Nat, state : {"HELD", "RELEASED"}, delta : Int,
   before : Nat, after : Nat, follows : Nat]
DispatchRow ==
  [authorization : Authorizations, reservation : 1 .. MAX_MOVEMENTS, at : Times,
   outcome : Outcomes]

TreasuryInit ==
  /\ eligibility = [x \in Assets |-> Nothing]
  /\ proposal = [p \in Proposals |-> Nothing]
  /\ response = [p \in Proposals |-> Nothing]
  /\ authorization = [a \in Authorizations |-> Nothing]
  /\ revokedAt = [a \in Authorizations |-> Nothing]
  /\ movements = <<>>
  /\ dispatches = <<>>

Written(table) == {id \in DOMAIN table : table[id] # Nothing}

-----------------------------------------------------------------------------
(***************************************************************************)
(* What is decided about a movement of money.                              *)
(***************************************************************************)
Determine(asset, state) ==
  /\ eligibility[asset] = Nothing
  /\ eligibility' = [eligibility EXCEPT ![asset] = state]
  /\ UNCHANGED <<proposal, response, authorization, revokedAt, movements, dispatches>>

Propose(p, row) ==
  /\ proposal[p] = Nothing
  /\ row.revises \in Written(proposal) \cup {Nothing, p}
  /\ proposal' = [proposal EXCEPT ![p] = row]
  /\ UNCHANGED <<eligibility, response, authorization, revokedAt, movements, dispatches>>

\* One review per proposal, whatever it says.
Review(p, said) ==
  /\ proposal[p] # Nothing /\ response[p] = Nothing
  /\ response' = [response EXCEPT ![p] = said]
  /\ UNCHANGED <<eligibility, proposal, authorization, revokedAt, movements, dispatches>>

\* The line of p: itself, what it revises, and so on back to a first proposal,
\* the least set that the recursive query reaches.
Climbs(S) == \A q \in S \cap Written(proposal) : proposal[q].revises \in S \cup {Nothing}
Line(p) == {q \in Proposals : \A S \in SUBSET Proposals : p \in S /\ Climbs(S) => q \in S}

\* The eligibility an authorization names is a CONFIRMED row; which asset the
\* row is about is not compared with the proposal's.
AuthorizeUnwalked(a, row) ==   \* variation: no trigger, only the proposal is looked at
  /\ authorization[a] = Nothing
  /\ eligibility[row.eligibility] = "CONFIRMED"
  /\ response[row.proposal] = "APPROVE"
  /\ row.window.expires > row.window.granted
  /\ authorization' = [authorization EXCEPT ![a] = row]
  /\ UNCHANGED <<decided, revokedAt, movements, dispatches>>

Authorize(a, row) ==
  /\ authorization[a] = Nothing
  /\ eligibility[row.eligibility] = "CONFIRMED"
  /\ response[row.proposal] = "APPROVE"
  /\ row.window.expires > row.window.granted
  /\ \A p \in Line(row.proposal) : response[p] # "DENY" /\ proposal[p].revises # p
  /\ authorization' = [authorization EXCEPT ![a] = row]
  /\ UNCHANGED <<decided, revokedAt, movements, dispatches>>

Within(at, window) == window.granted <= at /\ at < window.expires

Revoke(a, at) ==
  /\ authorization[a] # Nothing /\ revokedAt[a] = Nothing
  /\ Within(at, authorization[a].window)
  /\ revokedAt' = [revokedAt EXCEPT ![a] = at]
  /\ UNCHANGED <<decided, authorization, movements, dispatches>>

-----------------------------------------------------------------------------
(***************************************************************************)
(* The budget chain.                                                       *)
(***************************************************************************)
OnBudget(b, seen) == {i \in 1 .. seen : movements[i].budget = b}

\* The row a writer computes from the first `seen' rows of the table; the
\* opening movement of a budget starts at its limit.
NextMovement(b, seen, state, delta) ==
  LET known  == OnBudget(b, seen)
      last   == IF known = {} THEN 0 ELSE Max(known)
      before == IF last = 0 THEN Limit[b] ELSE movements[last].after
  IN [budget |-> b, sequence |-> Cardinality(known), state |-> state, delta |-> delta,
      before |-> before, after |-> before + delta, follows |-> last]

InsertUnlinked(row) ==   \* variation: one movement may have two successors
  /\ Len(movements) < MAX_MOVEMENTS
  /\ row.after >= 0
  /\ movements' = Append(movements, row)
  /\ UNCHANGED <<decided, authorization, revokedAt, dispatches>>

\* The CHECKs and keys of budget_reservation that a computed row may fail.
Insert(row) ==
  /\ Len(movements) < MAX_MOVEMENTS
  /\ row.after >= 0
  /\ \A i \in DOMAIN movements :
       /\ <<movements[i].budget, movements[i].sequence>> # <<row.budget, row.sequence>>
       /\ row.follows # 0 => movements[i].follows # row.follows
  /\ movements' = Append(movements, row)
  /\ UNCHANGED <<decided, authorization, revokedAt, dispatches>>

Hold(b, seen, amount) == Insert(NextMovement(b, seen, "HELD", -amount))

\* A release credits what a hold debited; the row does not name the hold.
Release(b, seen, hold) ==
  /\ hold \in OnBudget(b, seen) /\ movements[hold].state = "HELD"
  /\ Insert(NextMovement(b, seen, "RELEASED", -movements[hold].delta))

-----------------------------------------------------------------------------
Amount(a) == proposal[authorization[a].proposal].amount

TakenBack(a, at) == revokedAt[a] # Nothing /\ revokedAt[a] <= at

DispatchRespends(row) ==   \* variation: no key dispatch_hold_once
  /\ Len(dispatches) < MAX_DISPATCHES
  /\ authorization[row.authorization] # Nothing
  /\ row.reservation \in DOMAIN movements
  /\ movements[row.reservation].delta = -Amount(row.authorization)
  /\ Within(row.at, authorization[row.authorization].window)
  /\ ~TakenBack(row.authorization, row.at)
  /\ dispatches' = Append(dispatches, row)
  /\ UNCHANGED <<decided, authorization, revokedAt, movements>>

\* The hold is a movement whose debit is the amount of the authorization.
Dispatch(row) ==
  /\ Len(dispatches) < MAX_DISPATCHES
  /\ authorization[row.authorization] # Nothing
  /\ row.reservation \in DOMAIN movements
  /\ movements[row.reservation].delta = -Amount(row.authorization)
  /\ \A i \in DOMAIN dispatches : dispatches[i].reservation # row.reservation
  /\ Within(row.at, authorization[row.authorization].window)
  /\ ~TakenBack(row.authorization, row.at)
  /\ dispatches' = Append(dispatches, row)
  /\ UNCHANGED <<decided, authorization, revokedAt, movements>>

TreasuryNext ==
  \/ \E x \in Assets, state \in Eligibility : Determine(x, state)
  \/ \E p \in Proposals, row \in ProposalRow : Propose(p, row)
  \/ \E p \in Proposals, said \in Responses : Review(p, said)
  \/ \E a \in Authorizations, row \in AuthorizationRow : Authorize(a, row)
  \/ \E a \in Authorizations, at \in Times : Revoke(a, at)
  \/ \E b \in Budgets, seen \in 0 .. Len(movements) :
       \/ \E amount \in Amounts : Hold(b, seen, amount)
       \/ \E hold \in DOMAIN movements : Release(b, seen, hold)
  \/ \E row \in DispatchRow : Dispatch(row)

TreasurySpec == TreasuryInit /\ [][TreasuryNext]_treasury

-----------------------------------------------------------------------------
(***************************************************************************)
(* Properties.                                                             *)
(***************************************************************************)

\* Type invariant: the tables.
TreasuryTypeOK ==
  /\ eligibility \in [Assets -> Eligibility \cup {Nothing}]
  /\ proposal \in [Proposals -> ProposalRow \cup {Nothing}]
  /\ response \in [Proposals -> Responses \cup {Nothing}]
  /\ authorization \in [Authorizations -> AuthorizationRow \cup {Nothing}]
  /\ revokedAt \in [Authorizations -> Times \cup {Nothing}]
  /\ movements \in Seq(Movement) /\ Len(movements) <= MAX_MOVEMENTS
  /\ dispatches \in Seq(DispatchRow) /\ Len(dispatches) <= MAX_DISPATCHES

\* "A chain of tied balances cannot interleave": however late writers insert
\* what they computed, each balance is the limit and all the movements so far
\* of its budget, so no hold is granted from a balance that is already spent.
Deltas == [i \in DOMAIN movements |-> movements[i].delta]
ChainAccountsForEveryMovement ==
  \A i \in DOMAIN movements :
    movements[i].after
      = Limit[movements[i].budget]
          + SumFunctionOnSet(Deltas, OnBudget(movements[i].budget, i))

\* "The money is held in this amount, not merely checked": the dispatches
\* together never move more than was debited for them.
Dispatched ==
  SumFunctionOnSet([i \in DOMAIN dispatches |-> Amount(dispatches[i].authorization)],
                   DOMAIN dispatches)
Held == {i \in DOMAIN movements : movements[i].state = "HELD"}
DispatchesAreHeld == Dispatched <= -SumFunctionOnSet(Deltas, Held)

\* "A denial is persistent and unsplittable": once a proposal is denied nothing
\* in a line that passes through it gains an authority.
AuthorityOver(p) == {a \in Written(authorization) : p \in Line(authorization[a].proposal)}
DenialIsPersistent ==
  [][\A p \in Proposals : response[p] = "DENY" => AuthorityOver(p)' = AuthorityOver(p)]_treasury
=============================================================================
