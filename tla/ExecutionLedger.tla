-------------------------- MODULE ExecutionLedger --------------------------
(***************************************************************************)
(* The action layer (src/db/executionLedger.ts): proposals, the packets    *)
(* and reviews they go through, the authorizations that rest on a review,  *)
(* their revocations, the operations opened under an authorization, the    *)
(* attempts to dispatch an operation and the reconciliations of attempts.  *)
(*                                                                         *)
(* The tables only grow.  One action is the INSERT of one row: its guard   *)
(* is the conjunction of the keys, CHECKs and triggers of the table, and a *)
(* row they refuse is no step.  The verbs govern(), dispatch(), revoke()   *)
(* and reconcile() of src/governance/ledger.ts insert such rows in turn.   *)
(* Instants are columns the writer fills in, in no particular order; an    *)
(* action is known by its digest.  The corpus release an authorization     *)
(* binds to exists, and free text is not represented.                      *)
(***************************************************************************)
EXTENDS Integers, Sequences, FiniteSets

CONSTANTS
  Principals, KindOf,   \* who may appear in a row, and the kind of each
  Proposals, Digests, Authorizations, Operations, Keys,
  Grants,               \* revision and window an authorization may be given
  Times,                \* instants an attempt or a revocation may be stamped
  MAX_ATTEMPTS,         \* bound of this model on the attempts
  None

Kinds     == {"HUMAN", "AGENT", "POLICY"}
Responses == {"APPROVE", "DENY", "REQUEST_REVISION", "DEFER"}
Closing   == {"APPROVE", "DENY"}
Outcomes  == {"CONFIRMED", "REJECTED", "OUTCOME_UNKNOWN"}
Findings  == {"DID_HAPPEN", "DID_NOT_HAPPEN", "STILL_UNKNOWN"}

Window == [revision : Nat, granted : Nat, expires : Nat]

ASSUME PrincipalsHaveKinds == KindOf \in [Principals -> Kinds]
ASSUME GrantsAreWindows ==
  Grants \subseteq Window /\ Times \subseteq Nat /\ MAX_ATTEMPTS \in Nat
ASSUME NoneIsNoRow ==
  /\ None \notin Proposals \cup Digests \cup Operations
  /\ None \notin Times /\ None \notin Findings

VARIABLES
  registered,      \* the principal table
  proposal,        \* proposal -> its row, or None
  packet,          \* proposal -> the digest of its decision packet, or None
  reviews,
  authorization,   \* authorization -> its row, or None
  revokedAt,       \* authorization -> the instant of its revocation, or None
  operation,       \* operation -> its row, or None
  attempts,        \* the attempts in the order they were inserted
  found            \* attempt -> the finding of its reconciliation, or None

review == <<registered, proposal, packet, reviews>>
vars   == <<review, authorization, revokedAt, operation, attempts, found>>

ProposalRow ==
  [author : Principals, revises : Proposals \cup {None}, corrects : Operations \cup {None}]
ReviewRow ==
  [proposal : Proposals, digest : Digests, response : Responses, reviewer : Principals]
AuthorizationRow ==
  [proposal : Proposals, digest : Digests, grantor : Principals, window : Grants]
OperationRow == [authorization : Authorizations, key : Keys]
AttemptRow ==
  [operation : Operations, authorization : Authorizations, ranAt : Nat,
   at : Times, outcome : Outcomes]

Init ==
  /\ registered = {}
  /\ proposal = [p \in Proposals |-> None]
  /\ packet = [p \in Proposals |-> None]
  /\ reviews = {}
  /\ authorization = [a \in Authorizations |-> None]
  /\ revokedAt = [a \in Authorizations |-> None]
  /\ operation = [o \in Operations |-> None]
  /\ attempts = <<>>
  /\ found = [i \in 1 .. MAX_ATTEMPTS |-> None]

Written(table) == {id \in DOMAIN table : table[id] # None}

\* A registered person or policy: what every reviewer, grantor and revoker is.
MayAuthorize(who) == who \in registered /\ KindOf[who] # "AGENT"

-----------------------------------------------------------------------------
Register(who) ==
  /\ who \notin registered
  /\ registered' = registered \cup {who}
  /\ UNCHANGED <<proposal, packet, reviews, authorization, revokedAt, operation,
                 attempts, found>>

\* The key of revises_proposal_id holds for the row's own identifier too.
Propose(p, row) ==
  /\ proposal[p] = None
  /\ row.author \in registered
  /\ row.revises \in Written(proposal) \cup {None, p}
  /\ row.corrects \in Written(operation) \cup {None}
  /\ proposal' = [proposal EXCEPT ![p] = row]
  /\ UNCHANGED <<registered, packet, reviews, authorization, revokedAt, operation,
                 attempts, found>>

Prepare(p, digest, who) ==
  /\ proposal[p] # None /\ packet[p] = None
  /\ who \in registered
  /\ packet' = [packet EXCEPT ![p] = digest]
  /\ UNCHANGED <<registered, proposal, reviews, authorization, revokedAt, operation,
                 attempts, found>>

Closed(p) == \E r \in reviews : r.proposal = p /\ r.response \in Closing

ReviewReopens(row) ==    \* variation: no index review_closes_once
  /\ packet[row.proposal] = row.digest
  /\ MayAuthorize(row.reviewer)
  /\ \A r \in reviews : <<r.proposal, r.response>> # <<row.proposal, row.response>>
  /\ reviews' = reviews \cup {row}
  /\ UNCHANGED <<registered, proposal, packet, authorization, revokedAt, operation,
                 attempts, found>>

Review(row) ==
  /\ packet[row.proposal] = row.digest
  /\ MayAuthorize(row.reviewer)
  /\ \A r \in reviews : <<r.proposal, r.response>> # <<row.proposal, row.response>>
  /\ row.response \in Closing => ~Closed(row.proposal)
  /\ reviews' = reviews \cup {row}
  /\ UNCHANGED <<registered, proposal, packet, authorization, revokedAt, operation,
                 attempts, found>>

\* The line of p: itself, what it revises, and so on back to a first proposal,
\* the least set that the recursive query reaches.
Climbs(S) == \A q \in S \cap Written(proposal) : proposal[q].revises \in S \cup {None}
Line(p) == {q \in Proposals : \A S \in SUBSET Proposals : p \in S /\ Climbs(S) => q \in S}

Denied(p) == \E r \in reviews : r.proposal = p /\ r.response = "DENY"

AuthorizeUnwalked(a, row) ==   \* variation: no trigger, only the proposal is looked at
  /\ authorization[a] = None
  /\ MayAuthorize(row.grantor)
  /\ \E r \in reviews : /\ r.proposal = row.proposal /\ r.digest = row.digest
                        /\ r.response = "APPROVE"
  /\ row.window.expires > row.window.granted
  /\ authorization' = [authorization EXCEPT ![a] = row]
  /\ UNCHANGED <<review, revokedAt, operation, attempts, found>>

Authorize(a, row) ==
  /\ authorization[a] = None
  /\ MayAuthorize(row.grantor)
  /\ \E r \in reviews : /\ r.proposal = row.proposal /\ r.digest = row.digest
                        /\ r.response = "APPROVE"
  /\ row.window.expires > row.window.granted
  /\ \A p \in Line(row.proposal) :
       /\ ~Denied(p)
       /\ proposal[p].revises # p      \* else the trigger's walk does not end
  /\ authorization' = [authorization EXCEPT ![a] = row]
  /\ UNCHANGED <<review, revokedAt, operation, attempts, found>>

Within(at, window) == window.granted <= at /\ at < window.expires

Revoke(a, at, who) ==
  /\ authorization[a] # None /\ revokedAt[a] = None
  /\ MayAuthorize(who)
  /\ Within(at, authorization[a].window)
  /\ revokedAt' = [revokedAt EXCEPT ![a] = at]
  /\ UNCHANGED <<review, authorization, operation, attempts, found>>

OpenOperation(o, row) ==
  /\ operation[o] = None
  /\ authorization[row.authorization] # None
  /\ \A other \in Written(operation) : operation[other].key # row.key
  /\ operation' = [operation EXCEPT ![o] = row]
  /\ UNCHANGED <<review, authorization, revokedAt, attempts, found>>

UnresolvedIfSilent(i) ==   \* variation: any reconciliation settles the attempt
  attempts[i].outcome = "OUTCOME_UNKNOWN" /\ found[i] = None

\* refuse_attempt_after_unknown()
Unresolved(i) ==
  attempts[i].outcome = "OUTCOME_UNKNOWN" /\ found[i] \in {None, "STILL_UNKNOWN"}

\* refuse_attempt_after_revocation()
TakenBack(a, at) == revokedAt[a] # None /\ revokedAt[a] <= at

\* The authorization an attempt names is its own column: nothing ties it to
\* the one its operation was opened under.
Attempt(row) ==
  /\ Len(attempts) < MAX_ATTEMPTS
  /\ operation[row.operation] # None
  /\ authorization[row.authorization] # None
  /\ row.ranAt = authorization[row.authorization].window.revision
  /\ Within(row.at, authorization[row.authorization].window)
  /\ \A i \in DOMAIN attempts :
       attempts[i].operation = row.operation => attempts[i].at # row.at /\ ~Unresolved(i)
  /\ ~TakenBack(row.authorization, row.at)
  /\ attempts' = Append(attempts, row)
  /\ UNCHANGED <<review, authorization, revokedAt, operation, found>>

Reconcile(i, finding) ==
  /\ i \in DOMAIN attempts /\ found[i] = None
  /\ found' = [found EXCEPT ![i] = finding]
  /\ UNCHANGED <<review, authorization, revokedAt, operation, attempts>>

Revisions == {g.revision : g \in Grants}

Next ==
  \/ \E who \in Principals : Register(who)
  \/ \E p \in Proposals, row \in ProposalRow : Propose(p, row)
  \/ \E p \in Proposals, d \in Digests, who \in Principals : Prepare(p, d, who)
  \/ \E row \in ReviewRow : Review(row)
  \/ \E a \in Authorizations, row \in AuthorizationRow : Authorize(a, row)
  \/ \E a \in Authorizations, at \in Times, who \in Principals : Revoke(a, at, who)
  \/ \E o \in Operations, row \in OperationRow : OpenOperation(o, row)
  \/ \E row \in [operation : Operations, authorization : Authorizations,
                 ranAt : Revisions, at : Times, outcome : Outcomes] : Attempt(row)
  \/ \E i \in DOMAIN attempts, finding \in Findings : Reconcile(i, finding)

Spec == Init /\ [][Next]_vars

-----------------------------------------------------------------------------
(***************************************************************************)
(* Properties.                                                             *)
(***************************************************************************)

\* Type invariant: the tables, and the keys between them.
TypeOK ==
  /\ registered \subseteq Principals
  /\ proposal \in [Proposals -> ProposalRow \cup {None}]
  /\ packet \in [Proposals -> Digests \cup {None}]
  /\ reviews \subseteq ReviewRow
  /\ authorization \in [Authorizations -> AuthorizationRow \cup {None}]
  /\ revokedAt \in [Authorizations -> Times \cup {None}]
  /\ operation \in [Operations -> OperationRow \cup {None}]
  /\ attempts \in Seq(AttemptRow) /\ Len(attempts) <= MAX_ATTEMPTS
  /\ found \in [1 .. MAX_ATTEMPTS -> Findings \cup {None}]
  /\ Written(packet) \subseteq Written(proposal)
  /\ \A r \in reviews : r.proposal \in Written(packet)
  /\ \A o \in Written(operation) : operation[o].authorization \in Written(authorization)
  /\ Written(revokedAt) \subseteq Written(authorization)
  /\ Written(found) \subseteq DOMAIN attempts

\* "An agent cannot manufacture authority", "an approval is of a digest":
\* behind every authorization stands the packet of its proposal, approved at
\* that digest by a person or policy, and no denial of that proposal, then or
\* afterwards; the grantor is a person or policy as well.
AuthorityRestsOnAnApproval ==
  \A a \in Written(authorization) :
    LET row == authorization[a] IN
    /\ KindOf[row.grantor] # "AGENT"
    /\ packet[row.proposal] = row.digest
    /\ \E r \in reviews : /\ r.proposal = row.proposal /\ r.digest = row.digest
                          /\ r.response = "APPROVE" /\ KindOf[r.reviewer] # "AGENT"
    /\ ~Denied(row.proposal)

\* "A denial is persistent": from the step that denies a proposal on, nothing
\* in a line that passes through it gains an authority, whatever it revises.
AuthorityOver(p) == {a \in Written(authorization) : p \in Line(authorization[a].proposal)}
DenialIsPersistent ==
  [][\A p \in Proposals : Denied(p) => AuthorityOver(p)' = AuthorityOver(p)]_vars

\* "An unknown outcome is terminal": an attempt that follows one whose outcome
\* was not known shows that a reconciliation settled the earlier one.
UnknownIsTerminal ==
  \A i, j \in DOMAIN attempts :
    /\ i < j /\ attempts[i].operation = attempts[j].operation
    /\ attempts[i].outcome = "OUTCOME_UNKNOWN"
    => found[i] \in {"DID_HAPPEN", "DID_NOT_HAPPEN"}
=============================================================================
