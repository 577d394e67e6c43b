----------------------- MODULE ExecutionLedgerProofs -----------------------
(***************************************************************************)
(* For any principals, proposals, windows and number of attempts.          *)
(*                                                                         *)
(* The argument: a proposal has one packet and its reviews are of that     *)
(* packet; at most one of them closes it, so an approval that has borne an *)
(* authority excludes a denial for good.  What a proposal revises was      *)
(* written before it, so a row that is inserted later is on no line there  *)
(* is, and the line that was walked when the authority was inserted stays  *)
(* the line of its proposal.                                               *)
(***************************************************************************)
EXTENDS ExecutionLedger, TLAPS

ReviewsAreOfPackets ==
  \A r \in reviews : packet[r.proposal] = r.digest /\ KindOf[r.reviewer] # "AGENT"

ProposalsCloseOnce ==
  \A r, s \in reviews :
    r.proposal = s.proposal /\ r.response \in Closing /\ s.response \in Closing
      => r.response = s.response

LinesAreWritten ==
  \A p \in Written(proposal) : proposal[p].revises \in Written(proposal) \cup {None}

IInv ==
  /\ TypeOK
  /\ ReviewsAreOfPackets
  /\ ProposalsCloseOnce
  /\ LinesAreWritten
  /\ AuthorityRestsOnAnApproval
  /\ UnknownIsTerminal

-----------------------------------------------------------------------------
LEMMA InitialInvariant == Init => IInv
<1> SUFFICES ASSUME Init PROVE IInv OBVIOUS
<1>1. TypeOK BY GrantsAreWindows DEF Init, TypeOK, Written
<1>. QED BY <1>1 DEF Init, IInv, ReviewsAreOfPackets, ProposalsCloseOnce, LinesAreWritten,
                    AuthorityRestsOnAnApproval, UnknownIsTerminal, Written

\* A step that leaves the approvals alone leaves what rests on them.
LEMMA ApprovalsAlone ==
  ASSUME IInv, UNCHANGED <<proposal, packet, reviews, authorization>>
  PROVE  /\ ReviewsAreOfPackets' /\ ProposalsCloseOnce' /\ LinesAreWritten'
         /\ AuthorityRestsOnAnApproval'
BY DEF IInv, ReviewsAreOfPackets, ProposalsCloseOnce, LinesAreWritten,
       AuthorityRestsOnAnApproval, Written, Denied

LEMMA RegisterKeeps == ASSUME IInv, NEW who \in Principals, Register(who) PROVE IInv'
<1>1. TypeOK' BY DEF IInv, TypeOK, Register, Written
<1>2. UnknownIsTerminal' BY DEF IInv, UnknownIsTerminal, Register
<1>. QED BY <1>1, <1>2, ApprovalsAlone DEF Register, IInv

LEMMA ProposeKeeps ==
  ASSUME IInv, NEW p \in Proposals, NEW row \in ProposalRow, Propose(p, row)
  PROVE  IInv'
<1>1. /\ proposal' = [proposal EXCEPT ![p] = row] /\ proposal[p] = None
      /\ UNCHANGED <<registered, packet, reviews, authorization, revokedAt, operation, attempts, found>>
  BY DEF Propose
<1>2. proposal' \in [Proposals -> ProposalRow \cup {None}] BY <1>1 DEF IInv, TypeOK
<1>3. \A q \in Written(proposal) : q \in Proposals /\ q # p /\ proposal'[q] = proposal[q]
  BY <1>1 DEF IInv, TypeOK, Written
<1>4. Written(proposal) \subseteq Written(proposal')
  BY <1>1, <1>2, <1>3 DEF IInv, TypeOK, Written
<1>5. TypeOK' BY <1>1, <1>2, <1>4 DEF IInv, TypeOK, Written
<1>6. LinesAreWritten'
  <2>1. ASSUME NEW q \in Written(proposal')
        PROVE  proposal'[q].revises \in Written(proposal') \cup {None}
    <3>1. CASE q = p
      BY <1>1, <1>4, <2>1, <3>1 DEF Propose, IInv, TypeOK, Written
    <3>2. CASE q # p
      <4>1. q \in Written(proposal) /\ proposal'[q] = proposal[q]
        BY <1>1, <1>2, <2>1, <3>2 DEF IInv, TypeOK, Written
      <4>. QED BY <1>4, <4>1 DEF IInv, LinesAreWritten
    <3>. QED BY <3>1, <3>2
  <2>. QED BY <2>1 DEF LinesAreWritten, Written
<1>. QED BY <1>1, <1>5, <1>6 DEF IInv, ReviewsAreOfPackets, ProposalsCloseOnce,
       AuthorityRestsOnAnApproval, UnknownIsTerminal, Written, Denied

LEMMA PrepareKeeps ==
  ASSUME IInv, NEW p \in Proposals, NEW d \in Digests, NEW who \in Principals, Prepare(p, d, who)
  PROVE  IInv'
<1>1. /\ packet' = [packet EXCEPT ![p] = d] /\ packet[p] = None /\ proposal[p] # None
      /\ UNCHANGED <<registered, proposal, reviews, authorization, revokedAt, operation, attempts, found>>
  BY DEF Prepare
<1>2. \A q \in Proposals : packet[q] # None => packet'[q] = packet[q]
  BY <1>1 DEF IInv, TypeOK
<1>3. TypeOK' BY <1>1, <1>2 DEF IInv, TypeOK, Written
<1>4. \A r \in reviews : r.proposal \in Proposals /\ packet[r.proposal] # None
  BY DEF IInv, TypeOK, Written
<1>5. ReviewsAreOfPackets' BY <1>1, <1>2, <1>4 DEF IInv, ReviewsAreOfPackets
<1>6. AuthorityRestsOnAnApproval'
  <2>1. \A a \in Written(authorization) :
          authorization[a].proposal \in Proposals /\ packet[authorization[a].proposal] # None
    BY NoneIsNoRow DEF IInv, TypeOK, Written, AuthorityRestsOnAnApproval, AuthorizationRow
  <2>. QED BY <1>1, <1>2, <2>1 DEF IInv, AuthorityRestsOnAnApproval, Written, Denied
<1>. QED BY <1>1, <1>3, <1>5, <1>6 DEF IInv, ProposalsCloseOnce, LinesAreWritten,
       UnknownIsTerminal, Written

LEMMA ReviewKeeps == ASSUME IInv, NEW row \in ReviewRow, Review(row) PROVE IInv'
<1>1. /\ reviews' = reviews \cup {row} /\ packet[row.proposal] = row.digest
      /\ KindOf[row.reviewer] # "AGENT"
      /\ row.response \in Closing => ~Closed(row.proposal)
      /\ UNCHANGED <<registered, proposal, packet, authorization, revokedAt, operation, attempts, found>>
  BY DEF Review, MayAuthorize
<1>2. row.proposal \in Written(packet)
  BY <1>1, NoneIsNoRow DEF IInv, TypeOK, Written, ReviewRow
<1>3. TypeOK' BY <1>1, <1>2 DEF IInv, TypeOK, Written
<1>4. ReviewsAreOfPackets' BY <1>1 DEF IInv, ReviewsAreOfPackets
<1>5. ProposalsCloseOnce' BY <1>1 DEF IInv, ProposalsCloseOnce, Closed
<1>6. AuthorityRestsOnAnApproval'
  <2>1. ASSUME NEW a \in Written(authorization) PROVE ~(Denied(authorization[a].proposal)')
    <3>1. PICK r \in reviews : r.proposal = authorization[a].proposal /\ r.response = "APPROVE"
      BY DEF IInv, AuthorityRestsOnAnApproval
    <3>2. row.proposal = authorization[a].proposal => row.response # "DENY"
      BY <1>1, <3>1 DEF Closed, Closing
    <3>3. ~Denied(authorization[a].proposal) BY DEF IInv, AuthorityRestsOnAnApproval
    <3>. QED BY <1>1, <3>2, <3>3 DEF Denied
  <2>. QED BY <1>1, <2>1 DEF IInv, AuthorityRestsOnAnApproval, Written, Denied
<1>. QED BY <1>1, <1>3, <1>4, <1>5, <1>6 DEF IInv, LinesAreWritten, UnknownIsTerminal, Written

LEMMA OwnLine == ASSUME NEW p \in Proposals PROVE p \in Line(p)
BY DEF Line

LEMMA AuthorizeKeeps ==
  ASSUME IInv, NEW a \in Authorizations, NEW row \in AuthorizationRow, Authorize(a, row)
  PROVE  IInv'
<1>1. /\ authorization' = [authorization EXCEPT ![a] = row] /\ authorization[a] = None
      /\ KindOf[row.grantor] # "AGENT" /\ row.proposal \in Proposals
      /\ UNCHANGED <<registered, proposal, packet, reviews, revokedAt, operation, attempts, found>>
  BY DEF Authorize, MayAuthorize, review, AuthorizationRow
<1>2. PICK r \in reviews : /\ r.proposal = row.proposal /\ r.digest = row.digest
                           /\ r.response = "APPROVE"
  BY DEF Authorize
<1>3. packet[row.proposal] = row.digest /\ KindOf[r.reviewer] # "AGENT"
  BY <1>2 DEF IInv, ReviewsAreOfPackets
<1>4. ~Denied(row.proposal) BY <1>1, OwnLine DEF Authorize
<1>5. \A b \in Authorizations \ {a} : authorization'[b] = authorization[b]
  BY <1>1 DEF IInv, TypeOK
<1>6. authorization'[a] = row BY <1>1 DEF IInv, TypeOK
<1>7. TypeOK' BY <1>1, <1>5 DEF IInv, TypeOK, Written
<1>8. AuthorityRestsOnAnApproval'
  <2>1. ASSUME NEW b \in Authorizations, authorization'[b] # None
        PROVE  LET new == authorization'[b] IN
               /\ KindOf[new.grantor] # "AGENT" /\ packet[new.proposal] = new.digest
               /\ \E s \in reviews : /\ s.proposal = new.proposal /\ s.digest = new.digest
                                     /\ s.response = "APPROVE" /\ KindOf[s.reviewer] # "AGENT"
               /\ ~Denied(new.proposal)
    <3>1. CASE b = a BY <1>1, <1>2, <1>3, <1>4, <1>6, <3>1
    <3>2. CASE b # a
      BY <1>5, <2>1, <3>2 DEF IInv, TypeOK, AuthorityRestsOnAnApproval, Written
    <3>. QED BY <3>1, <3>2
  <2>2. DOMAIN authorization' = Authorizations BY <1>7 DEF TypeOK
  <2>. QED BY <1>1, <2>1, <2>2 DEF AuthorityRestsOnAnApproval, Written, Denied
<1>. QED BY <1>1, <1>7, <1>8 DEF IInv, ReviewsAreOfPackets, ProposalsCloseOnce, LinesAreWritten,
       UnknownIsTerminal, Written

LEMMA RevokeKeeps ==
  ASSUME IInv, NEW a \in Authorizations, NEW at \in Times, NEW who \in Principals,
         Revoke(a, at, who)
  PROVE  IInv'
<1>1. /\ revokedAt' = [revokedAt EXCEPT ![a] = at] /\ authorization[a] # None
      /\ UNCHANGED <<registered, proposal, packet, reviews, authorization, operation, attempts, found>>
  BY DEF Revoke, review
<1>2. TypeOK' BY <1>1 DEF IInv, TypeOK, Written
<1>3. UnknownIsTerminal' BY <1>1 DEF IInv, UnknownIsTerminal
<1>. QED BY <1>1, <1>2, <1>3, ApprovalsAlone DEF IInv

LEMMA OpenOperationKeeps ==
  ASSUME IInv, NEW o \in Operations, NEW row \in OperationRow, OpenOperation(o, row)
  PROVE  IInv'
<1>1. /\ operation' = [operation EXCEPT ![o] = row] /\ operation[o] = None
      /\ authorization[row.authorization] # None
      /\ row.authorization \in Authorizations
      /\ UNCHANGED <<registered, proposal, packet, reviews, authorization, revokedAt, attempts, found>>
  BY DEF OpenOperation, review, OperationRow
<1>2. operation' \in [Operations -> OperationRow \cup {None}] BY <1>1 DEF IInv, TypeOK
<1>3. \A other \in Written(operation') :
        operation'[other].authorization \in Written(authorization)
  <2>1. ASSUME NEW other \in Operations, operation'[other] # None
        PROVE  operation'[other].authorization \in Written(authorization)
    <3>1. CASE other = o BY <1>1, <3>1 DEF IInv, TypeOK, Written
    <3>2. CASE other # o BY <1>1, <2>1, <3>2 DEF IInv, TypeOK, Written
    <3>. QED BY <3>1, <3>2
  <2>. QED BY <1>2, <2>1 DEF Written
<1>4. TypeOK' BY <1>1, <1>2, <1>3 DEF IInv, TypeOK, Written
<1>5. UnknownIsTerminal' BY <1>1 DEF IInv, UnknownIsTerminal
<1>. QED BY <1>1, <1>4, <1>5, ApprovalsAlone DEF IInv

\* The outcome an earlier attempt is left in is settled before the next one.
LEMMA AttemptKeeps ==
  ASSUME IInv,
         NEW row \in [operation : Operations, authorization : Authorizations,
                      ranAt : Revisions, at : Times, outcome : Outcomes],
         Attempt(row)
  PROVE  IInv'
<1>1. /\ attempts' = Append(attempts, row) /\ Len(attempts) < MAX_ATTEMPTS
      /\ \A i \in DOMAIN attempts :
           attempts[i].operation = row.operation => ~Unresolved(i)
      /\ UNCHANGED <<registered, proposal, packet, reviews, authorization, revokedAt, operation, found>>
  BY DEF Attempt, review
<1>2. row \in AttemptRow
  BY GrantsAreWindows DEF AttemptRow, Revisions, Window
<1>3. attempts \in Seq(AttemptRow) BY DEF IInv, TypeOK
<1>4. /\ attempts' \in Seq(AttemptRow) /\ Len(attempts') = Len(attempts) + 1
      /\ DOMAIN attempts = 1 .. Len(attempts) /\ Len(attempts) \in Nat
      /\ DOMAIN attempts' = 1 .. Len(attempts) + 1
      /\ \A i \in DOMAIN attempts : attempts'[i] = attempts[i]
      /\ attempts'[Len(attempts) + 1] = row
  BY <1>1, <1>2, <1>3
<1>5. TypeOK'
  <2>1. Len(attempts') <= MAX_ATTEMPTS BY <1>1, <1>4, GrantsAreWindows
  <2>2. Written(found)' \subseteq DOMAIN attempts'
    BY <1>1, <1>4 DEF IInv, TypeOK, Written
  <2>. QED BY <1>1, <1>4, <2>1, <2>2 DEF IInv, TypeOK, Written
<1>6. UnknownIsTerminal'
  <2>1. ASSUME NEW i \in DOMAIN attempts', NEW j \in DOMAIN attempts', i < j,
               attempts'[i].operation = attempts'[j].operation,
               attempts'[i].outcome = "OUTCOME_UNKNOWN"
        PROVE  found[i] \in {"DID_HAPPEN", "DID_NOT_HAPPEN"}
    <3>1. i \in DOMAIN attempts /\ attempts'[i] = attempts[i] /\ i \in 1 .. MAX_ATTEMPTS
      BY <1>1, <1>4, <2>1, GrantsAreWindows
    <3>2. CASE j \in DOMAIN attempts
      BY <1>4, <2>1, <3>1, <3>2 DEF IInv, UnknownIsTerminal
    <3>3. CASE j \notin DOMAIN attempts
      <4>1. attempts'[j] = row BY <1>4, <2>1, <3>3
      <4>2. ~Unresolved(i) BY <1>1, <2>1, <3>1, <4>1
      <4>3. found[i] \in Findings \cup {None} BY <3>1 DEF IInv, TypeOK
      <4>. QED BY <2>1, <3>1, <4>2, <4>3 DEF Unresolved, Findings
    <3>. QED BY <3>2, <3>3
  <2>. QED BY <1>1, <2>1 DEF UnknownIsTerminal
<1>. QED BY <1>1, <1>5, <1>6, ApprovalsAlone DEF IInv

LEMMA ReconcileKeeps ==
  ASSUME IInv, NEW i \in DOMAIN attempts, NEW finding \in Findings, Reconcile(i, finding)
  PROVE  IInv'
<1>1. /\ found' = [found EXCEPT ![i] = finding] /\ found[i] = None
      /\ UNCHANGED <<registered, proposal, packet, reviews, authorization, revokedAt, operation, attempts>>
  BY DEF Reconcile, review
<1>2. TypeOK' BY <1>1 DEF IInv, TypeOK, Written
<1>3. \A k \in 1 .. MAX_ATTEMPTS : found[k] # None => found'[k] = found[k]
  BY <1>1 DEF IInv, TypeOK
<1>4. \A k \in DOMAIN attempts : k \in 1 .. MAX_ATTEMPTS
  BY GrantsAreWindows DEF IInv, TypeOK
<1>5. None \notin {"DID_HAPPEN", "DID_NOT_HAPPEN"} BY NoneIsNoRow DEF Findings
<1>6. UnknownIsTerminal'
  <2>1. ASSUME NEW k \in DOMAIN attempts, found[k] \in {"DID_HAPPEN", "DID_NOT_HAPPEN"}
        PROVE  found'[k] \in {"DID_HAPPEN", "DID_NOT_HAPPEN"}
    BY <1>3, <1>4, <1>5, <2>1
  <2>. QED BY <1>1, <2>1 DEF IInv, UnknownIsTerminal
<1>. QED BY <1>1, <1>2, <1>6, ApprovalsAlone DEF IInv

LEMMA InvariantKept == IInv /\ [Next]_vars => IInv'
<1> SUFFICES ASSUME IInv, [Next]_vars PROVE IInv' OBVIOUS
<1>1. CASE UNCHANGED vars
  <2>1. UNCHANGED <<registered, proposal, packet, reviews, authorization, revokedAt,
                    operation, attempts, found>>
    BY <1>1 DEF vars, review
  <2>2. TypeOK' BY <2>1 DEF IInv, TypeOK, Written
  <2>3. UnknownIsTerminal' BY <2>1 DEF IInv, UnknownIsTerminal
  <2>. QED BY <2>1, <2>2, <2>3, ApprovalsAlone DEF IInv
<1>2. CASE Next
  BY <1>2, RegisterKeeps, ProposeKeeps, PrepareKeeps, ReviewKeeps, AuthorizeKeeps,
     RevokeKeeps, OpenOperationKeeps, AttemptKeeps, ReconcileKeeps DEF Next
<1>. QED BY <1>1, <1>2

LEMMA IInvHolds == Spec => []IInv
BY InitialInvariant, InvariantKept, PTL DEF Spec

\* The keys between the tables hold whatever is inserted, in whatever order:
\* src/db/executionLedger.ts lines 122 to 297.
THEOREM KeysHold == Spec => []TypeOK
<1>1. IInv => TypeOK BY DEF IInv
<1>. QED BY <1>1, IInvHolds, PTL

\* No authority without an approval of that digest by a person or policy, and
\* none over a proposal that is denied, then or afterwards.
THEOREM AuthorityIsApproved == Spec => []AuthorityRestsOnAnApproval
<1>1. IInv => AuthorityRestsOnAnApproval BY DEF IInv
<1>. QED BY <1>1, IInvHolds, PTL

\* No attempt follows one whose outcome was not known before a reconciliation
\* has settled the earlier one.
THEOREM UnknownsAreSettledFirst == Spec => []UnknownIsTerminal
<1>1. IInv => UnknownIsTerminal BY DEF IInv
<1>. QED BY <1>1, IInvHolds, PTL

-----------------------------------------------------------------------------
(***************************************************************************)
(* Lines do not grow behind an authority.                                  *)
(***************************************************************************)
LEMMA LineIsWritten ==
  ASSUME IInv, NEW x \in Written(proposal)
  PROVE  Line(x) \subseteq Written(proposal)
<1>1. Written(proposal) \in SUBSET Proposals BY DEF IInv, TypeOK, Written
<1>2. Climbs(Written(proposal)) BY DEF IInv, LinesAreWritten, Climbs
<1>. QED BY <1>1, <1>2 DEF Line

\* A row inserted for p is on no line that was there: what is closed under
\* "revises" before stays so, once cut down to what was written.
LEMMA LineKept ==
  ASSUME IInv, NEW p \in Proposals, NEW row \in ProposalRow, Propose(p, row),
         NEW x \in Written(proposal)
  PROVE  Line(x)' = Line(x)
<1>1. /\ proposal' = [proposal EXCEPT ![p] = row] /\ proposal[p] = None
      /\ proposal \in [Proposals -> ProposalRow \cup {None}]
  BY DEF Propose, IInv, TypeOK
<1>2. \A q \in Written(proposal) :
        q \in Proposals /\ q # p /\ proposal'[q] = proposal[q] /\ q \in Written(proposal')
  BY <1>1 DEF Written
<1>3. ASSUME NEW S \in SUBSET Proposals, Climbs(S)'
      PROVE  Climbs(S)
  BY <1>2, <1>3 DEF Climbs
<1>4. \A q \in Written(proposal) : proposal[q].revises \in Written(proposal) \cup {None}
  BY DEF IInv, LinesAreWritten
<1>5. PICK W \in SUBSET Proposals : W = Written(proposal) BY <1>2
<1>6. ASSUME NEW S \in SUBSET Proposals, Climbs(S)
      PROVE  Climbs(S \cap W)'
  <2>1. ASSUME NEW q \in S \cap W
        PROVE  proposal'[q].revises \in (S \cap W) \cup {None}
    BY <1>2, <1>4, <1>5, <1>6, <2>1 DEF Climbs
  <2>. QED BY <2>1 DEF Climbs
<1>7. Line(x)' \subseteq Line(x)
  <2>1. ASSUME NEW q \in Proposals,
               \A S \in SUBSET Proposals : x \in S /\ Climbs(S)' => q \in S,
               NEW S \in SUBSET Proposals, x \in S, Climbs(S)
        PROVE  q \in S
    <3>1. S \cap W \in SUBSET Proposals /\ x \in S \cap W BY <1>5, <2>1
    <3>2. Climbs(S \cap W)' BY <1>6, <2>1
    <3>. QED BY <2>1, <3>1, <3>2
  <2>. QED BY <2>1 DEF Line
<1>8. Line(x) \subseteq Line(x)' BY <1>3 DEF Line
<1>. QED BY <1>7, <1>8

LEMMA LineAlone == ASSUME UNCHANGED proposal, NEW x PROVE Line(x)' = Line(x)
BY DEF Line, Climbs, Written

LEMMA AuthorizedIsWritten ==
  ASSUME IInv, NEW a \in Written(authorization)
  PROVE  authorization[a].proposal \in Written(proposal)
<1>1. packet[authorization[a].proposal] = authorization[a].digest
  BY DEF IInv, AuthorityRestsOnAnApproval
<1>2. /\ authorization[a] \in AuthorizationRow
      /\ packet \in [Proposals -> Digests \cup {None}]
      /\ Written(packet) \subseteq Written(proposal)
  BY DEF IInv, TypeOK, Written
<1>. QED BY <1>1, <1>2, NoneIsNoRow DEF Written, AuthorizationRow

\* What a step does to an authority it does not insert: nothing, as long as
\* the lines of written proposals stay what they are.
LEMMA AuthorityStays ==
  ASSUME IInv, NEW p \in Proposals, NEW a \in Written(authorization),
         authorization'[a] = authorization[a],
         \A x \in Written(proposal) : Line(x)' = Line(x)
  PROVE  (p \in Line(authorization[a].proposal))' <=> p \in Line(authorization[a].proposal)
<1>1. PICK x \in Written(proposal) : x = authorization[a].proposal BY AuthorizedIsWritten
<1>2. p \in Line(x)' <=> p \in Line(x) BY <1>1
<1>3. x = authorization'[a].proposal BY <1>1
<1>. QED BY <1>1, <1>2, <1>3 DEF Line

LEMMA DenialStays ==
  ASSUME IInv, [Next]_vars, NEW p \in Proposals, Denied(p)
  PROVE  AuthorityOver(p)' = AuthorityOver(p)
<1>1. ASSUME UNCHANGED authorization, \A x \in Written(proposal) : Line(x)' = Line(x)
      PROVE  AuthorityOver(p)' = AuthorityOver(p)
  BY <1>1, AuthorityStays DEF AuthorityOver, Written
<1>2. ASSUME UNCHANGED <<proposal, authorization>>
      PROVE  AuthorityOver(p)' = AuthorityOver(p)
  BY <1>1, <1>2, LineAlone
<1>3. CASE UNCHANGED vars BY <1>2, <1>3 DEF vars, review
<1>4. ASSUME NEW q \in Proposals, NEW row \in ProposalRow, Propose(q, row)
      PROVE  AuthorityOver(p)' = AuthorityOver(p)
  BY <1>1, <1>4, LineKept DEF Propose
<1>5. ASSUME NEW a \in Authorizations, NEW row \in AuthorizationRow, Authorize(a, row)
      PROVE  AuthorityOver(p)' = AuthorityOver(p)
  <2>1. /\ authorization' = [authorization EXCEPT ![a] = row] /\ authorization[a] = None
        /\ UNCHANGED <<proposal, reviews>>
        /\ authorization \in [Authorizations -> AuthorizationRow \cup {None}]
    BY <1>5 DEF Authorize, review, IInv, TypeOK
  <2>2. p \notin Line(row.proposal) BY <1>5 DEF Authorize
  <2>3. ~(p \in Line(authorization[a].proposal))'
    <3>1. PICK x : x = row.proposal OBVIOUS
    <3>2. p \notin Line(x)' BY <2>1, <2>2, <3>1, LineAlone
    <3>3. authorization'[a].proposal = x BY <2>1, <3>1
    <3>. QED BY <3>2, <3>3 DEF Line
  <2>4. \A b \in Written(authorization) : b # a /\ authorization'[b] = authorization[b]
    BY <2>1 DEF Written
  <2>5. \A b \in Written(authorization) :
          (p \in Line(authorization[b].proposal))' <=> p \in Line(authorization[b].proposal)
    BY <2>1, <2>4, AuthorityStays, LineAlone
  <2>6. \A b \in Authorizations \ {a} : b \in Written(authorization') <=> b \in Written(authorization)
    BY <2>1 DEF Written
  <2>7. DOMAIN authorization = Authorizations /\ DOMAIN authorization' = Authorizations
    BY <2>1
  <2>8. ASSUME NEW b \in Authorizations
        PROVE  b \in AuthorityOver(p)' <=> b \in AuthorityOver(p)
    <3>1. CASE b = a BY <2>1, <2>3, <3>1 DEF AuthorityOver, Written
    <3>2. CASE b # a BY <2>5, <2>6, <3>2 DEF AuthorityOver
    <3>. QED BY <3>1, <3>2
  <2>. QED BY <2>7, <2>8 DEF AuthorityOver, Written
<1>6. ASSUME Next PROVE AuthorityOver(p)' = AuthorityOver(p)
  BY <1>2, <1>4, <1>5, <1>6
     DEF Next, Register, Prepare, Review, Revoke, OpenOperation, Attempt, Reconcile, review
<1>. QED BY <1>3, <1>6

\* Once a proposal is denied nothing in a line through it gains an authority:
\* refuse_authorization_without_approval() walks the line at the insertion,
\* and rows inserted later change no line that was walked.
THEOREM DenialsPersist == Spec => DenialIsPersistent
<1>1. IInv /\ [Next]_vars =>
        [\A p \in Proposals : Denied(p) => AuthorityOver(p)' = AuthorityOver(p)]_vars
  BY DenialStays
<1>. QED BY <1>1, IInvHolds, PTL DEF Spec, DenialIsPersistent

\* "A revocation reaches forward, not back": after the revocation no attempt
\* stamped at or after it appears, and none disappears.
AttemptsSince(a) ==
  {i \in DOMAIN attempts : attempts[i].authorization = a /\ attempts[i].at >= revokedAt[a]}
RevocationReachesForward ==
  [][\A a \in Authorizations :
       revokedAt[a] # None => /\ revokedAt'[a] = revokedAt[a]
                              /\ AttemptsSince(a)' = AttemptsSince(a)]_vars

LEMMA RevocationStays ==
  ASSUME IInv, [Next]_vars, NEW a \in Authorizations, revokedAt[a] # None
  PROVE  revokedAt'[a] = revokedAt[a] /\ AttemptsSince(a)' = AttemptsSince(a)
<1>1. ASSUME UNCHANGED <<revokedAt, attempts>>
      PROVE  revokedAt'[a] = revokedAt[a] /\ AttemptsSince(a)' = AttemptsSince(a)
  BY <1>1 DEF AttemptsSince
<1>2. CASE UNCHANGED vars BY <1>1, <1>2 DEF vars
<1>3. ASSUME NEW b \in Authorizations, NEW at \in Times, NEW who \in Principals,
             Revoke(b, at, who)
      PROVE  revokedAt'[a] = revokedAt[a] /\ AttemptsSince(a)' = AttemptsSince(a)
  <2>1. b # a BY <1>3 DEF Revoke
  <2>2. revokedAt'[a] = revokedAt[a] /\ UNCHANGED attempts
    BY <1>3, <2>1 DEF Revoke, IInv, TypeOK
  <2>. QED BY <2>2 DEF AttemptsSince
<1>4. ASSUME NEW row \in [operation : Operations, authorization : Authorizations,
                          ranAt : Revisions, at : Times, outcome : Outcomes],
             Attempt(row)
      PROVE  revokedAt'[a] = revokedAt[a] /\ AttemptsSince(a)' = AttemptsSince(a)
  <2>1. /\ attempts' = Append(attempts, row) /\ UNCHANGED revokedAt
        /\ ~TakenBack(row.authorization, row.at)
    BY <1>4 DEF Attempt
  <2>2. row \in AttemptRow /\ row.at \in Nat
    BY GrantsAreWindows DEF AttemptRow, Revisions, Window
  <2>3. attempts \in Seq(AttemptRow) /\ revokedAt[a] \in Nat
    BY GrantsAreWindows DEF IInv, TypeOK
  <2>4. /\ DOMAIN attempts = 1 .. Len(attempts) /\ Len(attempts) \in Nat
        /\ DOMAIN attempts' = 1 .. Len(attempts) + 1
        /\ \A i \in DOMAIN attempts : attempts'[i] = attempts[i]
        /\ attempts'[Len(attempts) + 1] = row
    BY <2>1, <2>2, <2>3
  <2>5. ~(row.authorization = a /\ row.at >= revokedAt[a])
    BY <2>1, <2>2, <2>3 DEF TakenBack
  <2>. QED BY <2>1, <2>4, <2>5 DEF AttemptsSince
<1>5. ASSUME Next PROVE revokedAt'[a] = revokedAt[a] /\ AttemptsSince(a)' = AttemptsSince(a)
  BY <1>1, <1>3, <1>4, <1>5
     DEF Next, Register, Propose, Prepare, Review, Authorize, OpenOperation, Reconcile
<1>. QED BY <1>2, <1>5

\* A revocation stands, and no attempt stamped at or after it is inserted:
\* refuse_attempt_after_revocation() compares the stamps, whatever the order in
\* which the two rows arrive.
THEOREM RevocationsReachForward == Spec => RevocationReachesForward
<1>1. IInv /\ [Next]_vars =>
        [\A a \in Authorizations :
           revokedAt[a] # None => /\ revokedAt'[a] = revokedAt[a]
                                  /\ AttemptsSince(a)' = AttemptsSince(a)]_vars
  BY RevocationStays
<1>. QED BY <1>1, IInvHolds, PTL DEF Spec, RevocationReachesForward
=============================================================================
