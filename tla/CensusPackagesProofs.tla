------------------------ MODULE CensusPackagesProofs ------------------------
(***************************************************************************)
(* For any processes, records, packages and clocks: what is written under  *)
(* create-only names stays readable.                                       *)
(*                                                                         *)
(* The argument: files are only added (Kept), and whatever a reader once   *)
(* recomputed it recomputes again, since a record, a stored package and a  *)
(* history that holds are made of files that are there.  What is left is   *)
(* that each step writes what its call has checked before, at its clock.   *)
(***************************************************************************)
EXTENDS CensusPackages, FiniteSetTheorems, TLAPS

Recorded == Requests \ PackageRequests
Tables == [Packages -> [request : PackageRequests, at : Times] \cup {None}]

\* What a call knows at each of its steps is so.
CallIsRight(c) ==
  LET request == Request(c)
      p == request.id
      at == calls[c].at IN
  /\ At(c, "told") => request \in Requests
  /\ calls[c].pc \in {"publish", "verify"} => request \in Recorded
  /\ calls[c].pc \in Working \ {"publish", "verify"} => request \in PackageRequests
  /\ calls[c].pc \in {"intent", "begin", "resume", "propose"} => calls[c].written = 0
  /\ At(c, "publish") => RecordHolds(request, at)
  /\ At(c, "verify") => records[p] # None /\ records[p].request = request
  /\ At(c, "resume") => intents[p] # None /\ intents[p].request = request
  /\ At(c, "propose") => MayDerive(request, at) /\ Compiles(request, at)
  /\ At(c, "write") =>
       /\ intents[p] # None /\ intents[p].request = request /\ MayDerive(request, at)
       /\ \A k \in 1..calls[c].written : artifacts[p][k] = request
  /\ At(c, "readback") => releases[p] # None /\ releases[p].request = request

\* An answer names what is there, which stands under the id asked for.
AnswerStands(c) ==
  At(c, "told") =>
    IF Request(c).kind = "package"
    THEN releases[Request(c).id] # None /\ releases[Request(c).id].request = Request(c)
    ELSE records[Request(c).id] # None /\ records[Request(c).id].request = Request(c)

CallType ==
  [pc : {"idle", "told"} \cup Working, request : Requests \cup {None}, at : Times, written : 0..Artifacts]

\* Every file is under its own id and kind.
Typed ==
  /\ records \in [RecordIds -> Made \cup {None}]
  /\ intents \in Tables /\ releases \in Tables
  /\ artifacts \in [Packages -> [1..Artifacts -> PackageRequests \cup {None}]]
  /\ \A i \in RecordIds : records[i] # None => records[i].request.id = i /\ records[i].request \in Recorded
  /\ \A p \in Packages : intents[p] # None => intents[p].request.id = p

\* A package with an intent compiles at the clock of its intent, holds nothing of
\* another request, and its history leaves room for it.
IntentsCompile ==
  \A p \in Packages :
    LET package == intents[p] IN
    IF package = None THEN releases[p] = None /\ \A k \in 1..Artifacts : artifacts[p][k] = None
    ELSE /\ Compiles(package.request, package.at)
         /\ \A k \in 1..Artifacts : artifacts[p][k] \in {None, package.request}
         /\ package.request.previous # None => ChainHolds(package.request.previous, HistoryBound - 1)

IInv ==
  /\ Typed /\ calls \in [Calls -> CallType]
  /\ HistoryIsReadable
  /\ IntentsCompile
  /\ \A c \in Calls : CallIsRight(c) /\ AnswerStands(c)

\* Files are added, and none is replaced.
Kept ==
  /\ \A i \in RecordIds : records[i] # None => records'[i] = records[i]
  /\ \A p \in Packages : intents[p] # None => intents'[p] = intents[p]
  /\ \A p \in Packages : releases[p] # None => releases'[p] = releases[p]
  /\ \A p \in Packages : \A k \in 1..Artifacts : artifacts[p][k] # None => artifacts'[p][k] = artifacts[p][k]

-----------------------------------------------------------------------------
(* Requests.                                                               *)

\* The kinds of requests are told apart, and name what they may.
LEMMA KindsOfRequests ==
  /\ \A r \in PackageRequests :
       r \in Requests /\ r.kind = "package" /\ r.id \in Packages /\ r.build \in RecordIds
         /\ r.previous \in Packages \cup {None} /\ r.previous # r.id
  /\ \A r \in Recorded : r \in Requests /\ r.kind # "package" /\ r.id \in RecordIds
  /\ \A r \in BuildRequests : r.members \subseteq RecordIds
  /\ \A r \in DeliveryRequests : r.release \in Packages
  /\ \A r \in Recorded : \/ r.kind = "normalization" /\ r \in NormalizationRequests
                         \/ r.kind = "build" /\ r \in BuildRequests
                         \/ r.kind = "delivery" /\ r \in DeliveryRequests
  /\ None \notin Requests /\ None \notin Packages /\ None \notin Made
BY CensusAssumption, NoneIsNothing DEF Requests, NormalizationRequests, Recorded, RecordIds, Made

-----------------------------------------------------------------------------
(* Histories.                                                              *)

\* The history of a package, when finished packages are those of rel.
FollowsIn(rel, S) ==
  \A q \in S : rel[q] # None /\ rel[q].request.previous # None => rel[q].request.previous \in S
HistoryIn(rel, p) == {q \in Packages : \A S \in SUBSET Packages : p \in S /\ FollowsIn(rel, S) => q \in S}

LEMMA HistoryIsIn ==
  ASSUME NEW p
  PROVE  History(p) = HistoryIn(releases, p) /\ History(p)' = HistoryIn(releases', p)
BY DEF History, HistoryIn, Follows, FollowsIn

\* A history has its package and what each of its packages follows.
LEMMA HistoryIsClosed ==
  ASSUME NEW rel \in Tables, NEW p \in Packages
  PROVE  /\ p \in HistoryIn(rel, p) /\ HistoryIn(rel, p) \in SUBSET Packages
         /\ FollowsIn(rel, HistoryIn(rel, p))
<1>1. ASSUME NEW q \in HistoryIn(rel, p), rel[q] # None, rel[q].request.previous # None
      PROVE  rel[q].request.previous \in HistoryIn(rel, p)
  <2>1. q \in Packages /\ rel[q].request.previous \in Packages
    BY <1>1, KindsOfRequests DEF Tables, HistoryIn
  <2>2. ASSUME NEW S \in SUBSET Packages, p \in S, FollowsIn(rel, S)
        PROVE  rel[q].request.previous \in S
    <3>1. q \in S
      BY <1>1, <2>2 DEF HistoryIn
    <3>. QED BY <1>1, <2>2, <3>1 DEF FollowsIn
  <2>. QED BY <2>1, <2>2 DEF HistoryIn
<1>. QED BY <1>1 DEF HistoryIn, FollowsIn

\* It is the least such set.
LEMMA HistoryIsLeast ==
  ASSUME NEW rel, NEW p, NEW S \in SUBSET Packages, p \in S, FollowsIn(rel, S)
  PROVE  HistoryIn(rel, p) \subseteq S
BY DEF HistoryIn

\* A history whose packages are finished does not change when others are.
LEMMA HistoryStays ==
  ASSUME NEW rel \in Tables, NEW then \in Tables, NEW p \in Packages,
         \A q \in HistoryIn(rel, p) : then[q] = rel[q]
  PROVE  HistoryIn(then, p) = HistoryIn(rel, p)
<1>. DEFINE H == HistoryIn(rel, p)
            G == HistoryIn(then, p)
<1>1. p \in H /\ H \in SUBSET Packages /\ FollowsIn(rel, H)
  BY HistoryIsClosed
<1>2. p \in G /\ G \in SUBSET Packages /\ FollowsIn(then, G)
  BY HistoryIsClosed
<1>. HIDE DEF H, G
<1>3. FollowsIn(then, H)
  BY <1>1 DEF FollowsIn, H
<1>4. G \subseteq H
  BY <1>1, <1>3, HistoryIsLeast DEF G
<1>5. FollowsIn(rel, G)
  BY <1>2, <1>4 DEF FollowsIn, H
<1>6. H \subseteq G
  BY <1>2, <1>5, HistoryIsLeast DEF H
<1>. QED BY <1>4, <1>6 DEF G, H

\* The history of a package is that of its predecessor with the package.
LEMMA HistoryGrowsAtItsEnd ==
  ASSUME NEW rel \in Tables, NEW p \in Packages, rel[p] # None
  PROVE  LET q == rel[p].request.previous IN
         /\ q = None => HistoryIn(rel, p) = {p}
         /\ q # None => HistoryIn(rel, p) \subseteq {p} \cup HistoryIn(rel, q)
<1>. DEFINE q == rel[p].request.previous
<1>1. CASE q = None
  <2>1. {p} \in SUBSET Packages /\ p \in {p} /\ FollowsIn(rel, {p})
    BY <1>1 DEF FollowsIn
  <2>. QED BY <1>1, <2>1, HistoryIsLeast, HistoryIsClosed
<1>2. CASE q # None
  <2>. DEFINE S == {p} \cup HistoryIn(rel, q)
  <2>1. q \in Packages
    BY <1>2, KindsOfRequests DEF Tables
  <2>2. q \in HistoryIn(rel, q) /\ HistoryIn(rel, q) \in SUBSET Packages /\ FollowsIn(rel, HistoryIn(rel, q))
    BY <2>1, HistoryIsClosed
  <2>3. S \in SUBSET Packages /\ p \in S /\ FollowsIn(rel, S)
    BY <2>2 DEF FollowsIn
  <2>. QED BY <1>2, <2>3, HistoryIsLeast
<1>. QED BY <1>1, <1>2

-----------------------------------------------------------------------------
(* What stays so as files are added.                                       *)

LEMMA RecordsAreTyped ==
  ASSUME Typed
  PROVE  /\ releases \in Tables /\ intents \in Tables
         /\ \A i \in RecordIds : records[i] # None => records[i] \in Made /\ records[i].request.id = i
BY DEF Typed

LEMMA StoredStays ==
  ASSUME Typed, Kept, NEW p \in Packages, Stored(p)
  PROVE  /\ Stored(p)' /\ releases'[p] = releases[p] /\ intents'[p] = intents[p]
         /\ releases[p] # None /\ releases[p].request \in PackageRequests
<1>1. releases[p] # None /\ releases[p].request \in PackageRequests
  BY RecordsAreTyped DEF Tables, Stored
<1>2. \A k \in 1..Artifacts : artifacts[p][k] # None
  BY <1>1, KindsOfRequests DEF Stored
<1>. QED BY <1>1, <1>2 DEF Kept, Stored

\* A reference to a record that is there keeps its meaning.
LEMMA MembersStay ==
  ASSUME Typed, Kept, NEW r \in PackageRequests, records[r.build] # None
  PROVE  Members(r)' = Members(r) /\ records'[r.build] = records[r.build] /\ records'[r.build] # None
BY KindsOfRequests DEF Kept, Members

\* The build of a package with an intent is there.
LEMMA BuildsAreThere ==
  ASSUME IntentsCompile, NEW p \in Packages, intents[p] # None
  PROVE  records[intents[p].request.build] # None
BY DEF IntentsCompile, Compiles

LEMMA CompilesStays ==
  ASSUME Typed, IntentsCompile, Kept,
         NEW r \in PackageRequests, NEW t, Compiles(r, t)
  PROVE  Compiles(r, t)'
<1>1. /\ records[r.build] # None /\ records[r.build].at <= t
      /\ Permitted(Members(r), t) /\ Recent(Members(r), t)
  BY DEF Compiles
<1>2. Members(r)' = Members(r) /\ records'[r.build] = records[r.build] /\ records'[r.build] # None
  BY <1>1, MembersStay
<1>3. ASSUME r.previous # None
      PROVE  /\ Stored(r.previous)' /\ releases'[r.previous].at < t
             /\ Permitted(Members(releases[r.previous].request)', t)
  <2>. DEFINE q == r.previous
              s == releases[q].request
  <2>1. q \in Packages /\ Stored(q) /\ releases[q].at < t /\ Permitted(Members(s), t)
    BY <1>3, KindsOfRequests DEF Compiles
  <2>2. Stored(q)' /\ releases'[q] = releases[q] /\ s \in PackageRequests /\ releases[q] # None
    BY <2>1, StoredStays
  <2>3. intents[q] = releases[q]
    BY <2>1 DEF Stored
  <2>4. records[s.build] # None
    BY <2>1, <2>2, <2>3, BuildsAreThere
  <2>5. records'[s.build].request.members = Members(s)
    BY <2>2, <2>4, MembersStay DEF Members
  <2>. QED BY <2>1, <2>2, <2>5 DEF Members
<1>4. Recent(Members(r)', t) /\ Permitted(Members(r)', t)
  BY <1>1, <1>2
<1>. QED BY <1>1, <1>2, <1>3, <1>4 DEF Compiles, Permitted, Recent

LEMMA ChainStays ==
  ASSUME Typed, Typed', IntentsCompile, Kept,
         NEW p \in Packages, NEW m, ChainHolds(p, m)
  PROVE  ChainHolds(p, m)'
<1>. DEFINE H == HistoryIn(releases, p)
<1>0. releases \in Tables /\ releases' \in Tables
  BY DEF Typed
<1>1. H \in SUBSET Packages
  BY DEF HistoryIn
<1>2. ASSUME NEW q \in H
      PROVE  releases'[q] = releases[q] /\ Stored(q)' /\ Compiles(releases[q].request, releases[q].at)'
  <2>1. Stored(q) /\ Compiles(releases[q].request, releases[q].at)
    BY HistoryIsIn DEF ChainHolds
  <2>2. Stored(q)' /\ releases'[q] = releases[q] /\ releases[q].request \in PackageRequests
    BY <1>1, <2>1, StoredStays
  <2>. DEFINE r == releases[q].request
              t == releases[q].at
  <2>3. ASSUME NEW s \in PackageRequests, NEW u, Compiles(s, u)
        PROVE  Compiles(s, u)'
    BY <2>3, CompilesStays
  <2>. QED BY <2>1, <2>2, <2>3
<1>3. HistoryIn(releases', p) = H
  BY <1>0, <1>2, HistoryStays
<1>. QED BY <1>2, <1>3, HistoryIsIn DEF ChainHolds

LEMMA RecordStays ==
  ASSUME Typed, Typed', IntentsCompile, Kept,
         NEW r \in Recorded, NEW t, RecordHolds(r, t)
  PROVE  RecordHolds(r, t)'
<1>1. CASE r.kind = "normalization"
  BY <1>1 DEF RecordHolds, NormalizationHolds, Permitted
<1>2. CASE r.kind = "build"
  <2>1. r.members \subseteq RecordIds
    BY <1>2, KindsOfRequests
  <2>2. BuildHolds(r, t)
    BY <1>2 DEF RecordHolds
  <2>3. \A n \in r.members : records'[n] = records[n]
    BY <2>1, <2>2 DEF BuildHolds, Kept
  <2>4. BuildHolds(r, t)'
    BY <2>2, <2>3 DEF BuildHolds, Permitted
  <2>. QED BY <1>2, <2>4 DEF RecordHolds
<1>3. CASE r.kind = "delivery"
  <2>. DEFINE p == r.release
  <2>1. p \in Packages
    BY <1>3, KindsOfRequests
  <2>2. releases[p] # None /\ Readable(p) /\ releases[p].at <= t
    BY <1>3 DEF RecordHolds, AttemptHolds
  <2>3. releases'[p] = releases[p] /\ Readable(p)'
    BY <2>1, <2>2, ChainStays DEF Kept, Readable
  <2>. QED BY <1>3, <2>2, <2>3 DEF RecordHolds, AttemptHolds
<1>. QED BY <1>1, <1>2, <1>3, KindsOfRequests

LEMMA MayDeriveStays ==
  ASSUME Typed, Typed', IntentsCompile, Kept,
         NEW r \in PackageRequests, NEW t, MayDerive(r, t)
  PROVE  MayDerive(r, t)'
<1>1. /\ records[r.build] # None
      /\ Permitted(Members(r), t) /\ Recent(Members(r), t)
  BY DEF MayDerive
<1>2. Members(r)' = Members(r) /\ records'[r.build] # None
  BY <1>1, MembersStay
<1>3. ASSUME r.previous # None
      PROVE  /\ releases'[r.previous] # None /\ ChainHolds(r.previous, PredecessorBound)'
             /\ Permitted(Members(intents[r.previous].request)', t)
  <2>. DEFINE q == r.previous
              s == intents[q].request
  <2>1. /\ q \in Packages /\ releases[q] # None /\ ChainHolds(q, PredecessorBound)
        /\ Permitted(Members(s), t)
    BY <1>3, KindsOfRequests DEF MayDerive
  <2>2. releases'[q] # None /\ ChainHolds(q, PredecessorBound)'
    BY <2>1, ChainStays DEF Kept, PredecessorBound
  <2>3. intents[q] # None
    BY <2>1 DEF IntentsCompile
  <2>4. intents'[q] = intents[q] /\ records[s.build] # None /\ s \in PackageRequests
    BY <2>1, <2>3, BuildsAreThere DEF Kept, Typed, Tables
  <2>5. records'[s.build].request.members = Members(s)
    BY <2>4, MembersStay DEF Members
  <2>. QED BY <2>1, <2>2, <2>4, <2>5 DEF Members
<1>4. Recent(Members(r)', t) /\ Permitted(Members(r)', t)
  BY <1>1, <1>2
<1>. QED BY <1>1, <1>2, <1>3, <1>4 DEF MayDerive, Permitted, Recent

-----------------------------------------------------------------------------
(* What is left to show of a step.                                         *)

\* A call at one of its steps.
LEMMA CallsAreTyped ==
  ASSUME NEW pc \in {"idle", "told"} \cup Working, NEW r \in Requests \cup {None}, NEW t \in Times,
         NEW written \in 0..Artifacts
  PROVE  [pc |-> pc, request |-> r, at |-> t, written |-> written] \in CallType
BY DEF CallType

LEMMA ReadableStays ==
  ASSUME IInv, Typed', Kept,
         \A i \in RecordIds : records[i] = None /\ records'[i] # None =>
           RecordHolds(records'[i].request, records'[i].at),
         \A p \in Packages : releases[p] = None /\ releases'[p] # None => Readable(p)'
  PROVE  HistoryIsReadable'
<1>1. ASSUME NEW i \in RecordIds, records'[i] # None
      PROVE  RecordHolds(records[i].request, records[i].at)'
  <2>. DEFINE r == records'[i].request
              t == records'[i].at
  <2>1. r \in Recorded
    BY <1>1 DEF Typed
  <2>2. RecordHolds(r, t)
    BY <1>1 DEF IInv, HistoryIsReadable, Kept
  <2>. HIDE DEF r, t
  <2>3. ASSUME NEW s \in Recorded, NEW u, RecordHolds(s, u)
        PROVE  RecordHolds(s, u)'
    BY <2>3, RecordStays DEF IInv
  <2>4. \A s \in Recorded : \A u : RecordHolds(s, u) => RecordHolds(s, u)'
    BY <2>3
  <2>. QED BY <2>1, <2>2, <2>4 DEF r, t
<1>2. ASSUME NEW p \in Packages, releases'[p] # None
      PROVE  Readable(p)'
  BY <1>2, ChainStays DEF IInv, HistoryIsReadable, Readable, Kept
<1>. QED BY <1>1, <1>2 DEF HistoryIsReadable

LEMMA UnfinishedStays ==
  ASSUME IInv, Typed', Kept,
         \A p \in Packages : intents[p] = None /\ intents'[p] # None =>
           LET r == intents'[p].request IN
           /\ Compiles(r, intents'[p].at)
           /\ r.previous # None => ChainHolds(r.previous, HistoryBound - 1),
         \A p \in Packages :
           IF intents'[p] = None THEN releases'[p] = None /\ \A k \in 1..Artifacts : artifacts'[p][k] = None
           ELSE \A k \in 1..Artifacts : artifacts'[p][k] \in {None, intents'[p].request}
  PROVE  IntentsCompile'
<1>1. ASSUME NEW p \in Packages, intents'[p] # None
      PROVE  /\ Compiles(intents[p].request, intents[p].at)'
             /\ (intents[p].request.previous # None =>
                  ChainHolds(intents[p].request.previous, HistoryBound - 1))'
  <2>. PICK r, t : r = intents'[p].request /\ t = intents'[p].at
    OBVIOUS
  <2>1. r \in PackageRequests
    BY <1>1 DEF Typed, Tables
  <2>2. Compiles(r, t) /\ (r.previous # None => ChainHolds(r.previous, HistoryBound - 1))
    BY <1>1 DEF IInv, IntentsCompile, Kept
  <2>3. \A s \in PackageRequests : \A u : Compiles(s, u) => Compiles(s, u)'
    BY CompilesStays DEF IInv
  <2>4. \A q \in Packages : \A m : ChainHolds(q, m) => ChainHolds(q, m)'
    BY ChainStays DEF IInv
  <2>5. r.previous # None => r.previous \in Packages
    BY <2>1, KindsOfRequests
  <2>6. Compiles(r, t)' /\ (r.previous # None => ChainHolds(r.previous, HistoryBound - 1)')
    BY <2>1, <2>2, <2>3, <2>4, <2>5
  <2>. QED BY <2>6
<1>. QED BY <1>1 DEF IntentsCompile

\* What a call knows stays so while others write.
LEMMA OthersStay ==
  ASSUME IInv, Typed', Kept, NEW d \in Calls, calls'[d] = calls[d]
  PROVE  CallIsRight(d)' /\ AnswerStands(d)'
<1>. PICK r, t : r = calls[d].request /\ t = calls[d].at
  OBVIOUS
<1>1. /\ calls[d].request = r /\ calls'[d].request = r /\ calls[d].at = t /\ calls'[d].at = t
      /\ calls'[d].pc = calls[d].pc /\ calls'[d].written = calls[d].written
  OBVIOUS
<1>2. CallIsRight(d) /\ AnswerStands(d)
  BY DEF IInv
<1>3. \A s \in Recorded : \A u : RecordHolds(s, u) => RecordHolds(s, u)'
  BY RecordStays DEF IInv
<1>4. \A s \in PackageRequests : \A u : Compiles(s, u) => Compiles(s, u)'
  BY CompilesStays DEF IInv
<1>5. \A s \in PackageRequests : \A u : MayDerive(s, u) => MayDerive(s, u)'
  BY MayDeriveStays DEF IInv
<1>6. r \in Requests =>
        /\ r.id \in IF r.kind = "package" THEN Packages ELSE RecordIds
        /\ (r \in PackageRequests <=> r.kind = "package")
  BY KindsOfRequests DEF Recorded
<1>7. AnswerStands(d)'
  BY <1>1, <1>2, <1>6 DEF AnswerStands, CallIsRight, At, Request, Kept
<1>8. CallIsRight(d)'
  <2>1. /\ At(d, "told")' => r \in Requests
        /\ calls'[d].pc \in {"publish", "verify"} => r \in Recorded
        /\ calls'[d].pc \in Working \ {"publish", "verify"} => r \in PackageRequests
        /\ calls'[d].pc \in {"intent", "begin", "resume", "propose"} => calls'[d].written = 0
    BY <1>1, <1>2 DEF CallIsRight, At, Request
  <2>2. At(d, "publish")' => RecordHolds(r, t)'
    BY <1>1, <1>2, <1>3 DEF CallIsRight, At, Request
  <2>3. At(d, "verify")' => records'[r.id] # None /\ records'[r.id].request = r
    BY <1>1, <1>2, <1>6, <2>1 DEF CallIsRight, At, Request, Kept, Recorded
  <2>4. At(d, "resume")' => intents'[r.id] # None /\ intents'[r.id].request = r
    BY <1>1, <1>2, KindsOfRequests DEF CallIsRight, At, Request, Kept, Working
  <2>5. At(d, "propose")' => MayDerive(r, t)' /\ Compiles(r, t)'
    BY <1>1, <1>2, <1>4, <1>5 DEF CallIsRight, At, Request, Working
  <2>6. At(d, "write")' =>
          /\ intents'[r.id] # None /\ intents'[r.id].request = r /\ MayDerive(r, t)'
          /\ \A k \in 1..calls'[d].written : artifacts'[r.id][k] = r
    <3>. SUFFICES ASSUME At(d, "write")
         PROVE  /\ intents'[r.id] # None /\ intents'[r.id].request = r /\ MayDerive(r, t)'
                /\ \A k \in 1..calls[d].written : artifacts'[r.id][k] = r
      BY <1>1 DEF At
    <3>1. r \in PackageRequests /\ r.id \in Packages /\ r # None
      BY <1>2, KindsOfRequests DEF CallIsRight, At, Request, Working
    <3>2. /\ intents[r.id] # None /\ intents[r.id].request = r /\ MayDerive(r, t)
          /\ \A k \in 1..calls[d].written : artifacts[r.id][k] = r
      BY <1>2 DEF CallIsRight, Request
    <3>3. calls[d].written \in 0..Artifacts /\ Artifacts \in Nat
      BY CensusAssumption DEF IInv, CallType
    <3>4. \A k \in 1..calls[d].written : k \in 1..Artifacts
      BY <3>3
    <3>. QED BY <1>5, <3>1, <3>2, <3>4 DEF Kept
  <2>7. At(d, "readback")' => releases'[r.id] # None /\ releases'[r.id].request = r
    BY <1>1, <1>2, KindsOfRequests DEF CallIsRight, At, Request, Kept, Working
  <2>. QED BY <1>1, <2>1, <2>2, <2>3, <2>4, <2>5, <2>6, <2>7 DEF CallIsRight, At, Request
<1>. QED BY <1>7, <1>8

\* It is enough to look at the call that steps, and at what it wrote.
LEMMA OneCallSteps ==
  ASSUME IInv, Typed', Kept, HistoryIsReadable', IntentsCompile',
         NEW c \in Calls, NEW call \in CallType, calls' = [calls EXCEPT ![c] = call],
         CallIsRight(c)', AnswerStands(c)'
  PROVE  IInv'
<1>1. calls' \in [Calls -> CallType] /\ \A d \in Calls \ {c} : calls'[d] = calls[d]
  BY DEF IInv
<1>2. \A d \in Calls \ {c} : CallIsRight(d)' /\ AnswerStands(d)'
  BY <1>1, OthersStay
<1>. QED BY <1>1, <1>2 DEF IInv

\* A step that writes no file of a package.
LEMMA PackagesAreLeft ==
  ASSUME IInv, Typed', Kept, UNCHANGED <<intents, artifacts, releases>>
  PROVE  IntentsCompile'
<1>1. \A p \in Packages :
         IF intents[p] = None THEN releases[p] = None /\ \A k \in 1..Artifacts : artifacts[p][k] = None
         ELSE \A k \in 1..Artifacts : artifacts[p][k] \in {None, intents[p].request}
  BY DEF IInv, IntentsCompile
<1>. QED BY <1>1, UnfinishedStays

\* A step that writes nothing.
LEMMA NothingIsWritten ==
  ASSUME IInv, UNCHANGED disk
  PROVE  Typed' /\ Kept /\ HistoryIsReadable' /\ IntentsCompile'
<1>1. Typed' /\ Kept
  BY DEF IInv, Typed, Kept, disk
<1>2. HistoryIsReadable'
  BY <1>1, ReadableStays DEF disk
<1>3. IntentsCompile'
  BY <1>1, PackagesAreLeft DEF disk
<1>. QED BY <1>1, <1>2, <1>3

\* A call that gives up knows nothing.
LEMMA IdleIsRight ==
  ASSUME NEW c \in Calls, calls'[c] = Idle
  PROVE  CallIsRight(c)' /\ AnswerStands(c)' /\ Idle \in CallType
BY CensusAssumption DEF CallIsRight, AnswerStands, At, Working, Idle, CallType, Times

LEMMA RefuseKeeps ==
  ASSUME IInv, NEW c \in Calls, Refuse(c), Typed', Kept, HistoryIsReadable', IntentsCompile'
  PROVE  IInv'
<1>1. calls' = [calls EXCEPT ![c] = Idle] /\ calls'[c] = Idle
  BY DEF Refuse, IInv
<1>2. CallIsRight(c)' /\ AnswerStands(c)' /\ Idle \in CallType
  BY <1>1, IdleIsRight
<1>. QED BY <1>1, <1>2, OneCallSteps

-----------------------------------------------------------------------------
(* The steps of calls for records.                                         *)

LEMMA EndKeeps ==
  ASSUME IInv, NEW c \in Calls, NEW r \in Requests, End(c, r),
         Typed', Kept, HistoryIsReadable', IntentsCompile',
         IF r.kind = "package" THEN releases'[r.id] # None /\ releases'[r.id].request = r
         ELSE records'[r.id] # None /\ records'[r.id].request = r
  PROVE  IInv'
<1>. DEFINE call == [pc |-> "told", request |-> r, at |-> 0, written |-> 0]
<1>1. calls' = [calls EXCEPT ![c] = call] /\ calls'[c] = call
  BY DEF End, Begin, IInv
<1>2. call \in CallType
  BY CensusAssumption, CallsAreTyped DEF Times
<1>3. CallIsRight(c)' /\ AnswerStands(c)'
  BY <1>1, <1>2 DEF CallIsRight, AnswerStands, At, Working, Request
<1>. QED BY <1>1, <1>2, <1>3, OneCallSteps

LEMMA AskKeeps ==
  ASSUME IInv, NEW c \in Calls, NEW r \in Recorded, NEW t \in Times, Ask(c, r, t)
  PROVE  IInv'
<1>1. Typed' /\ Kept /\ HistoryIsReadable' /\ IntentsCompile'
  BY NothingIsWritten DEF Ask
<1>2. r \in Requests /\ r.kind # "package" /\ r.id \in RecordIds
  BY KindsOfRequests
<1>3. CASE Refuse(c)
  BY <1>1, <1>3, RefuseKeeps
<1>4. CASE records[r.id] # None /\ records[r.id].request = r /\ End(c, r)
  <2>1. records'[r.id] # None /\ records'[r.id].request = r
    BY <1>1, <1>2, <1>4 DEF Kept
  <2>. QED BY <1>1, <1>2, <1>4, <2>1, EndKeeps
<1>5. CASE RecordHolds(r, t) /\ Begin(c, r, t, "publish")
  <2>. DEFINE call == [pc |-> "publish", request |-> r, at |-> t, written |-> 0]
  <2>0. call \in CallType
    BY <1>2, CensusAssumption, CallsAreTyped DEF Working
  <2>1. calls' = [calls EXCEPT ![c] = call] /\ calls'[c] = call
    BY <1>5 DEF Begin, IInv
  <2>2. RecordHolds(r, t)'
    BY <1>1, <1>5, RecordStays DEF IInv
  <2>3. CallIsRight(c)'
    BY <1>2, <2>1, <2>2 DEF CallIsRight, At, Working, Request
  <2>4. AnswerStands(c)'
    BY <2>1 DEF AnswerStands, At
  <2>. QED BY <1>1, <2>0, <2>1, <2>3, <2>4, OneCallSteps
<1>. QED BY <1>3, <1>4, <1>5 DEF Ask

\* A call that goes on to its next step.
LEMMA GotoKeeps ==
  ASSUME IInv, NEW c \in Calls, NEW pc \in {"idle", "told"} \cup Working, Goto(c, pc),
         Typed', Kept, HistoryIsReadable', IntentsCompile',
         CallIsRight(c)', AnswerStands(c)'
  PROVE  IInv'
<1>. DEFINE call == [calls[c] EXCEPT !.pc = pc]
<1>1. call \in CallType
  BY DEF IInv, CallType
<1>2. calls' = [calls EXCEPT ![c] = call]
  BY DEF Goto
<1>. QED BY <1>1, <1>2, OneCallSteps

LEMMA GotoMoves ==
  ASSUME IInv, NEW c \in Calls, NEW pc, Goto(c, pc)
  PROVE  /\ calls'[c].pc = pc /\ calls'[c].request = calls[c].request
         /\ calls'[c].at = calls[c].at /\ calls'[c].written = calls[c].written
BY DEF Goto, IInv, CallType

LEMMA PublishRecordKeeps ==
  ASSUME IInv, NEW c \in Calls, PublishRecord(c)
  PROVE  IInv'
<1>. PICK r, t : r = calls[c].request /\ t = calls[c].at
  OBVIOUS
<1>. DEFINE made == [request |-> r, at |-> t]
<1>1. r \in Recorded /\ r.id \in RecordIds /\ r.kind # "package" /\ r \in Requests
  BY KindsOfRequests DEF IInv, CallIsRight, PublishRecord, At, Request
<1>2. t \in Times /\ made \in Made /\ made # None
  BY <1>1, KindsOfRequests DEF IInv, CallType, Made
<1>3. RecordHolds(r, t)
  BY DEF IInv, CallIsRight, PublishRecord, At, Request
<1>4. /\ records' = [records EXCEPT ![r.id] = IF @ = None THEN made ELSE @]
      /\ UNCHANGED <<intents, artifacts, releases>>
  BY DEF PublishRecord, Request
<1>5. records \in [RecordIds -> Made \cup {None}]
  BY DEF IInv, Typed
<1>6. /\ records' \in [RecordIds -> Made \cup {None}]
      /\ \A i \in RecordIds : records'[i] = IF i = r.id /\ records[i] = None THEN made ELSE records[i]
  BY <1>1, <1>2, <1>4, <1>5
<1>7. Typed' /\ Kept
  BY <1>1, <1>4, <1>6 DEF IInv, Typed, Kept
<1>8. HistoryIsReadable'
  <2>1. \A i \in RecordIds : records[i] = None /\ records'[i] # None =>
          RecordHolds(records'[i].request, records'[i].at)
    BY <1>3, <1>6
  <2>. QED BY <1>4, <1>7, <2>1, ReadableStays
<1>9. IntentsCompile'
  BY <1>4, <1>7, PackagesAreLeft
<1>10. records'[r.id] # None
  BY <1>1, <1>2, <1>6
<1>11. CASE Refuse(c)
  BY <1>7, <1>8, <1>9, <1>11, RefuseKeeps
<1>12. CASE records'[r.id] = made /\ Answer(c)
  BY <1>1, <1>7, <1>8, <1>9, <1>10, <1>12, EndKeeps DEF Answer, Request
<1>13. CASE records'[r.id].request = r /\ Goto(c, "verify")
  <2>1. calls'[c].pc = "verify" /\ calls'[c].request = r
    BY <1>13, GotoMoves
  <2>2. CallIsRight(c)' /\ AnswerStands(c)'
    BY <1>1, <1>10, <1>13, <2>1 DEF CallIsRight, AnswerStands, At, Working, Request
  <2>. QED BY <1>7, <1>8, <1>9, <1>13, <2>2, GotoKeeps DEF Working
<1>. QED BY <1>11, <1>12, <1>13 DEF PublishRecord, Request

LEMMA VerifyRecordKeeps ==
  ASSUME IInv, NEW c \in Calls, VerifyRecord(c)
  PROVE  IInv'
<1>. PICK r : r = calls[c].request
  OBVIOUS
<1>1. /\ r \in Recorded /\ r.id \in RecordIds /\ r.kind # "package" /\ r \in Requests
      /\ records[r.id] # None /\ records[r.id].request = r
  BY KindsOfRequests DEF IInv, CallIsRight, VerifyRecord, At, Request
<1>2. RecordHolds(records[r.id].request, records[r.id].at)
  BY <1>1 DEF IInv, HistoryIsReadable
<1>3. Answer(c) /\ UNCHANGED disk
  BY <1>2 DEF VerifyRecord, Request
<1>4. Typed' /\ Kept /\ HistoryIsReadable' /\ IntentsCompile'
  BY <1>3, NothingIsWritten
<1>5. records' = records /\ releases' = releases
  BY <1>3 DEF disk
<1>. QED BY <1>1, <1>3, <1>4, <1>5, EndKeeps DEF Answer, Request

-----------------------------------------------------------------------------
(* The steps of calls for packages that write nothing.                     *)

LEMMA AskForPackageKeeps ==
  ASSUME IInv, NEW c \in Calls, NEW r \in PackageRequests, NEW t \in Times, AskForPackage(c, r, t)
  PROVE  IInv'
<1>1. UNCHANGED disk /\ Typed' /\ Kept /\ HistoryIsReadable' /\ IntentsCompile'
  BY NothingIsWritten DEF AskForPackage
<1>2. r \in Requests /\ r.kind = "package" /\ r.id \in Packages
  BY KindsOfRequests
<1>3. CASE Refuse(c)
  BY <1>1, <1>3, RefuseKeeps
<1>4. CASE releases[r.id] # None /\ Readable(r.id) /\ intents[r.id].request = r /\ End(c, r)
  <2>1. r.id \in HistoryIn(releases, r.id)
    BY <1>2, HistoryIsClosed DEF IInv, Typed
  <2>2. Stored(r.id)
    BY <1>4, <2>1, HistoryIsIn DEF Readable, ChainHolds
  <2>3. releases'[r.id] # None /\ releases'[r.id].request = r
    BY <1>1, <1>4, <2>2 DEF Stored, disk
  <2>. QED BY <1>1, <1>2, <1>4, <2>3, EndKeeps
<1>5. CASE Begin(c, r, t, "intent")
  <2>. DEFINE call == [pc |-> "intent", request |-> r, at |-> t, written |-> 0]
  <2>1. call \in CallType
    BY <1>2, CensusAssumption, CallsAreTyped DEF Working
  <2>2. calls' = [calls EXCEPT ![c] = call] /\ calls'[c] = call
    BY <1>5 DEF Begin, IInv
  <2>3. CallIsRight(c)' /\ AnswerStands(c)'
    BY <2>2 DEF CallIsRight, AnswerStands, At, Working, Request
  <2>. QED BY <1>1, <2>1, <2>2, <2>3, OneCallSteps
<1>. QED BY <1>3, <1>4, <1>5 DEF AskForPackage

LEMMA ReadIntentKeeps ==
  ASSUME IInv, NEW c \in Calls, ReadIntent(c)
  PROVE  IInv'
<1>. PICK r : r = calls[c].request
  OBVIOUS
<1>1. UNCHANGED disk /\ Typed' /\ Kept /\ HistoryIsReadable' /\ IntentsCompile'
  BY NothingIsWritten DEF ReadIntent
<1>2. r \in PackageRequests /\ calls[c].written = 0
  BY DEF IInv, CallIsRight, ReadIntent, At, Request, Working
<1>3. CASE Refuse(c)
  BY <1>1, <1>3, RefuseKeeps
<1>4. CASE Goto(c, "begin")
  <2>1. calls'[c].pc = "begin" /\ calls'[c].request = r /\ calls'[c].written = 0
    BY <1>2, <1>4, GotoMoves
  <2>2. CallIsRight(c)' /\ AnswerStands(c)'
    BY <1>2, <2>1 DEF CallIsRight, AnswerStands, At, Working, Request
  <2>. QED BY <1>1, <1>4, <2>2, GotoKeeps DEF Working
<1>5. CASE intents[r.id] # None /\ intents[r.id].request = r /\ Goto(c, "resume")
  <2>1. calls'[c].pc = "resume" /\ calls'[c].request = r /\ calls'[c].written = 0
    BY <1>2, <1>5, GotoMoves
  <2>2. CallIsRight(c)' /\ AnswerStands(c)'
    BY <1>1, <1>2, <1>5, <2>1 DEF CallIsRight, AnswerStands, At, Working, Request, disk
  <2>. QED BY <1>1, <1>5, <2>2, GotoKeeps DEF Working
<1>. QED BY <1>3, <1>4, <1>5 DEF ReadIntent, Request

LEMMA AdmitKeeps ==
  ASSUME IInv, NEW c \in Calls, Admit(c)
  PROVE  IInv'
<1>. PICK r, t : r = calls[c].request /\ t = calls[c].at
  OBVIOUS
<1>1. UNCHANGED disk /\ Typed' /\ Kept /\ HistoryIsReadable' /\ IntentsCompile'
  BY NothingIsWritten DEF Admit
<1>2. /\ calls[c].pc \in {"begin", "resume"} /\ r \in PackageRequests /\ calls[c].written = 0
      /\ calls[c].pc = "resume" => intents[r.id] # None /\ intents[r.id].request = r
  BY DEF IInv, CallIsRight, Admit, At, Request, Working
<1>3. CASE Refuse(c)
  BY <1>1, <1>3, RefuseKeeps
<1>4. CASE MayDerive(r, t) /\ Compiles(r, t) /\ Goto(c, "propose")
  <2>1. calls'[c].pc = "propose" /\ calls'[c].request = r /\ calls'[c].at = t /\ calls'[c].written = 0
    BY <1>2, <1>4, GotoMoves
  <2>2. MayDerive(r, t)' /\ Compiles(r, t)'
    BY <1>1, <1>2, <1>4, MayDeriveStays, CompilesStays DEF IInv
  <2>3. CallIsRight(c)' /\ AnswerStands(c)'
    BY <1>2, <2>1, <2>2 DEF CallIsRight, AnswerStands, At, Working, Request
  <2>. QED BY <1>1, <1>4, <2>3, GotoKeeps DEF Working
<1>5. CASE calls[c].pc = "resume" /\ MayDerive(r, t) /\ Goto(c, "write")
  <2>1. calls'[c].pc = "write" /\ calls'[c].request = r /\ calls'[c].at = t /\ calls'[c].written = 0
    BY <1>2, <1>5, GotoMoves
  <2>2. MayDerive(r, t)'
    BY <1>1, <1>2, <1>5, MayDeriveStays DEF IInv
  <2>3. intents'[r.id] # None /\ intents'[r.id].request = r
    BY <1>1, <1>2, <1>5 DEF disk
  <2>4. CallIsRight(c)' /\ AnswerStands(c)'
    BY <1>2, <2>1, <2>2, <2>3 DEF CallIsRight, AnswerStands, At, Working, Request
  <2>. QED BY <1>1, <1>5, <2>4, GotoKeeps DEF Working
<1>. QED BY <1>3, <1>4, <1>5 DEF Admit, At, Request

LEMMA ReadbackKeeps ==
  ASSUME IInv, NEW c \in Calls, Readback(c)
  PROVE  IInv'
<1>. PICK r : r = calls[c].request
  OBVIOUS
<1>1. UNCHANGED disk /\ Typed' /\ Kept /\ HistoryIsReadable' /\ IntentsCompile'
  BY NothingIsWritten DEF Readback
<1>2. r \in PackageRequests /\ releases[r.id] # None /\ releases[r.id].request = r
  BY DEF IInv, CallIsRight, Readback, At, Request, Working
<1>3. r \in Requests /\ r.kind = "package" /\ r.id \in Packages
  BY <1>2, KindsOfRequests
<1>4. Readable(r.id)
  BY <1>2, <1>3 DEF IInv, HistoryIsReadable
<1>5. Answer(c)
  BY <1>4 DEF Readback, Request
<1>6. releases' = releases
  BY <1>1 DEF disk
<1>. QED BY <1>1, <1>2, <1>3, <1>5, <1>6, EndKeeps DEF Answer, Request

LEMMA StopKeeps ==
  ASSUME IInv, NEW c \in Calls, Stop(c)
  PROVE  IInv'
BY NothingIsWritten, RefuseKeeps DEF Stop

-----------------------------------------------------------------------------
(* The steps that write a package.                                         *)

LEMMA ProposeKeeps ==
  ASSUME IInv, NEW c \in Calls, Propose(c)
  PROVE  IInv'
<1>. PICK r, t : r = calls[c].request /\ t = calls[c].at
  OBVIOUS
<1>. DEFINE made == [request |-> r, at |-> t]
<1>1. r \in PackageRequests /\ calls[c].written = 0 /\ MayDerive(r, t) /\ Compiles(r, t)
  BY DEF IInv, CallIsRight, Propose, At, Request, Working
<1>2. r.id \in Packages /\ r \in Requests
  BY <1>1, KindsOfRequests
<1>3. /\ t \in Times /\ made # None /\ made.request = r /\ made.at = t
      /\ made \in [request : PackageRequests, at : Times]
  <2>1. t \in Times
    BY DEF IInv, CallType
  <2>2. made \in Made
    BY <1>2, <2>1 DEF Made
  <2>. QED BY <1>1, <2>1, <2>2, KindsOfRequests
<1>4. /\ intents' = [intents EXCEPT ![r.id] = IF @ = None THEN made ELSE @]
      /\ UNCHANGED <<records, artifacts, releases>>
  BY DEF Propose, Request
<1>5. /\ intents' \in Tables
      /\ \A p \in Packages : intents'[p] = IF p = r.id /\ intents[p] = None THEN made ELSE intents[p]
  BY <1>2, <1>3, <1>4 DEF IInv, Typed, Tables
<1>6. Typed' /\ Kept
  <2>1. records' = records /\ artifacts' = artifacts /\ releases' = releases
    BY <1>4
  <2>. HIDE DEF made
  <2>2. Typed'
    BY <1>3, <1>5, <2>1 DEF IInv, Typed
  <2>3. \A p \in Packages : intents[p] # None => intents'[p] = intents[p]
    BY <1>5
  <2>. QED BY <2>1, <2>2, <2>3 DEF Kept
<1>7. HistoryIsReadable'
  BY <1>4, <1>6, ReadableStays
<1>8. IntentsCompile'
  <2>1. ASSUME NEW p \in Packages, intents[p] = None, intents'[p] # None
        PROVE  LET s == intents'[p].request IN
               /\ Compiles(s, intents'[p].at)
               /\ s.previous # None => ChainHolds(s.previous, HistoryBound - 1)
    BY <1>1, <1>3, <1>5, <2>1 DEF MayDerive, PredecessorBound
  <2>2. \A p \in Packages :
           IF intents'[p] = None THEN releases'[p] = None /\ \A k \in 1..Artifacts : artifacts'[p][k] = None
           ELSE \A k \in 1..Artifacts : artifacts'[p][k] \in {None, intents'[p].request}
    BY <1>4, <1>5 DEF IInv, IntentsCompile
  <2>. QED BY <1>6, <2>1, <2>2, UnfinishedStays
<1>9. CASE Refuse(c)
  BY <1>6, <1>7, <1>8, <1>9, RefuseKeeps
<1>10. CASE intents'[r.id].request = r /\ Goto(c, "write")
  <2>1. calls'[c].pc = "write" /\ calls'[c].request = r /\ calls'[c].at = t /\ calls'[c].written = 0
    BY <1>1, <1>10, GotoMoves
  <2>2. MayDerive(r, t)'
    BY <1>1, <1>6, MayDeriveStays DEF IInv
  <2>3. intents'[r.id] # None
    BY <1>2, <1>3, <1>5
  <2>4. CallIsRight(c)' /\ AnswerStands(c)'
    BY <1>1, <1>10, <2>1, <2>2, <2>3 DEF CallIsRight, AnswerStands, At, Working, Request
  <2>. QED BY <1>6, <1>7, <1>8, <1>10, <2>4, GotoKeeps DEF Working
<1>. QED BY <1>9, <1>10 DEF Propose, Request

LEMMA WriteArtifactKeeps ==
  ASSUME IInv, NEW c \in Calls, WriteArtifact(c)
  PROVE  IInv'
<1>. PICK r, t, w : r = calls[c].request /\ t = calls[c].at /\ w = calls[c].written
  OBVIOUS
<1>1. /\ r \in PackageRequests /\ intents[r.id] # None /\ intents[r.id].request = r /\ MayDerive(r, t)
      /\ \A k \in 1..w : artifacts[r.id][k] = r
  BY DEF IInv, CallIsRight, WriteArtifact, At, Request, Working
<1>2. r.id \in Packages /\ r \in Requests /\ r # None
  BY <1>1, KindsOfRequests
<1>3. w \in Nat /\ Artifacts \in Nat /\ w + 1 <= Artifacts /\ w + 1 \in 1..Artifacts
  BY CensusAssumption DEF IInv, CallType, WriteArtifact
<1>4. Compiles(intents[r.id].request, intents[r.id].at)
  BY <1>1, <1>2 DEF IInv, IntentsCompile
<1>5. /\ artifacts' = [artifacts EXCEPT ![r.id][w + 1] = IF @ = None THEN r ELSE @]
      /\ UNCHANGED <<records, intents, releases>>
  BY <1>1, <1>4 DEF WriteArtifact, Request
<1>6. artifacts[r.id][w + 1] \in {None, r}
  BY <1>1, <1>2, <1>3 DEF IInv, IntentsCompile
<1>7. /\ artifacts' \in [Packages -> [1..Artifacts -> PackageRequests \cup {None}]]
      /\ \A p \in Packages : \A k \in 1..Artifacts :
           artifacts'[p][k] = IF p = r.id /\ k = w + 1 THEN r ELSE artifacts[p][k]
  <2>1. artifacts \in [Packages -> [1..Artifacts -> PackageRequests \cup {None}]]
    BY DEF IInv, Typed
  <2>. QED BY <1>1, <1>2, <1>3, <1>5, <1>6, <2>1
<1>8. Typed' /\ Kept
  <2>1. records' = records /\ intents' = intents /\ releases' = releases
    BY <1>5
  <2>2. Typed'
    BY <1>7, <2>1 DEF IInv, Typed
  <2>3. \A p \in Packages : \A k \in 1..Artifacts : artifacts[p][k] # None => artifacts'[p][k] = artifacts[p][k]
    BY <1>6, <1>7
  <2>. QED BY <2>1, <2>2, <2>3 DEF Kept
<1>9. HistoryIsReadable'
  BY <1>5, <1>8, ReadableStays
<1>10. IntentsCompile'
  <2>1. \A p \in Packages :
           IF intents'[p] = None THEN releases'[p] = None /\ \A k \in 1..Artifacts : artifacts'[p][k] = None
           ELSE \A k \in 1..Artifacts : artifacts'[p][k] \in {None, intents'[p].request}
    <3>. TAKE p \in Packages
    <3>1. intents'[p] = intents[p] /\ releases'[p] = releases[p]
      BY <1>5
    <3>2. IF intents[p] = None THEN releases[p] = None /\ \A k \in 1..Artifacts : artifacts[p][k] = None
          ELSE \A k \in 1..Artifacts : artifacts[p][k] \in {None, intents[p].request}
      BY DEF IInv, IntentsCompile
    <3>3. CASE p = r.id
      BY <1>1, <1>7, <3>1, <3>2, <3>3
    <3>4. CASE p # r.id
      <4>1. \A k \in 1..Artifacts : artifacts'[p][k] = artifacts[p][k]
        BY <1>7, <3>4
      <4>. QED BY <3>1, <3>2, <4>1
    <3>. QED BY <3>3, <3>4
  <2>. QED BY <1>5, <1>8, <2>1, UnfinishedStays
<1>. DEFINE call == [calls[c] EXCEPT !.written = w + 1]
<1>11. calls' = [calls EXCEPT ![c] = call]
  <2>1. artifacts'[r.id][w + 1] = intents[r.id].request
    BY <1>1, <1>2, <1>3, <1>7
  <2>2. calls' = [calls EXCEPT ![c].written = w + 1]
    BY <1>1, <1>4, <2>1 DEF WriteArtifact, Request
  <2>. QED BY <2>2
<1>12. call \in CallType
  BY <1>3 DEF IInv, CallType
<1>13. /\ calls'[c].pc = "write" /\ calls'[c].request = r /\ calls'[c].at = t
       /\ calls'[c].written = w + 1
  BY <1>11 DEF IInv, CallType, WriteArtifact, At
<1>14. MayDerive(r, t)'
  BY <1>1, <1>8, MayDeriveStays DEF IInv
<1>15. \A k \in 1..(w + 1) : artifacts'[r.id][k] = r
  <2>1. \A k \in 1..(w + 1) : k \in 1..Artifacts /\ (k \in 1..w \/ k = w + 1)
    BY <1>3
  <2>. QED BY <1>1, <1>2, <1>7, <2>1
<1>16. CallIsRight(c)' /\ AnswerStands(c)'
  BY <1>1, <1>5, <1>13, <1>14, <1>15 DEF CallIsRight, AnswerStands, At, Working, Request
<1>. QED BY <1>8, <1>9, <1>10, <1>11, <1>12, <1>16, OneCallSteps

\* A package over a predecessor whose history leaves room has a history that holds.
LEMMA ChainExtends ==
  ASSUME Typed', NEW p \in Packages, Stored(p)', Compiles(releases[p].request, releases[p].at)',
         (releases[p].request.previous # None =>
            ChainHolds(releases[p].request.previous, HistoryBound - 1))'
  PROVE  Readable(p)'
<1>. PICK r : r = releases'[p].request
  OBVIOUS
<1>. DEFINE H == HistoryIn(releases', p)
            q == r.previous
            G == HistoryIn(releases', q)
<1>1. releases' \in Tables /\ releases'[p] # None /\ r \in PackageRequests
  BY DEF Typed, Stored, Tables
<1>2. q \in Packages \cup {None} /\ HistoryBound \in Nat \ {0} /\ IsFiniteSet(Packages)
  BY <1>1, KindsOfRequests, CensusAssumption
<1>3. CASE q = None
  <2>1. H = {p}
    BY <1>1, <1>3, HistoryGrowsAtItsEnd
  <2>2. Cardinality({p}) = 1 /\ 1 <= HistoryBound
    BY <1>2, FS_Singleton
  <2>3. Cardinality(H) <= HistoryBound
    BY <2>1, <2>2
  <2>4. \A s \in H : Stored(s)' /\ Compiles(releases[s].request, releases[s].at)'
    BY <2>1
  <2>. QED BY <2>3, <2>4, HistoryIsIn DEF Readable, ChainHolds
<1>4. CASE q # None
  <2>1. H \subseteq {p} \cup G
    BY <1>1, <1>4, HistoryGrowsAtItsEnd
  <2>2. /\ Cardinality(G) <= HistoryBound - 1
        /\ \A s \in G : Stored(s)' /\ Compiles(releases[s].request, releases[s].at)'
    <3>1. ChainHolds(q, HistoryBound - 1)'
      BY <1>4
    <3>. QED BY <3>1, HistoryIsIn DEF ChainHolds
  <2>3. IsFiniteSet(G) /\ Cardinality(G) \in Nat
    BY <1>2, FS_Subset, FS_CardinalityType DEF HistoryIn
  <2>4. IsFiniteSet(G \cup {p}) /\ Cardinality(G \cup {p}) <= Cardinality(G) + 1
    BY <2>3, FS_AddElement
  <2>5. Cardinality(H) <= Cardinality(G \cup {p}) /\ Cardinality(H) \in Nat /\ Cardinality(G \cup {p}) \in Nat
    BY <2>1, <2>4, FS_Subset, FS_CardinalityType
  <2>6. Cardinality(H) <= HistoryBound
    <3>1. \A h, g, j \in Nat : \A n \in Nat : g <= n - 1 /\ j <= g + 1 /\ h <= j => h <= n
      OBVIOUS
    <3>2. /\ Cardinality(G) \in Nat /\ Cardinality(H) \in Nat /\ Cardinality(G \cup {p}) \in Nat
          /\ HistoryBound \in Nat
      BY <1>2, <2>3, <2>5
    <3>. HIDE DEF H, G
    <3>. QED BY <2>2, <2>4, <2>5, <3>1, <3>2
  <2>7. \A s \in H : Stored(s)' /\ Compiles(releases[s].request, releases[s].at)'
    BY <2>1, <2>2
  <2>. QED BY <2>6, <2>7, HistoryIsIn DEF Readable, ChainHolds
<1>. QED BY <1>2, <1>3, <1>4

LEMMA ReleaseKeeps ==
  ASSUME IInv, NEW c \in Calls, Release(c)
  PROVE  IInv'
<1>. PICK r : r = calls[c].request
  OBVIOUS
<1>. DEFINE p == r.id
<1>1. /\ r \in PackageRequests /\ intents[p] # None /\ intents[p].request = r
      /\ \A k \in 1..Artifacts : artifacts[p][k] = r
  BY DEF IInv, CallIsRight, Release, At, Request, Working
<1>2. p \in Packages /\ r \in Requests /\ r # None /\ r.kind = "package"
  BY <1>1, KindsOfRequests
<1>3. releases[p] # None => releases[p] = intents[p]
  <2>. SUFFICES ASSUME releases[p] # None PROVE releases[p] = intents[p]
    OBVIOUS
  <2>1. Readable(p) /\ p \in HistoryIn(releases, p)
    BY <1>2, HistoryIsClosed DEF IInv, HistoryIsReadable, Typed
  <2>. QED BY <2>1, HistoryIsIn DEF Readable, ChainHolds, Stored
<1>4. /\ releases' = [releases EXCEPT ![p] = intents[p]]
      /\ UNCHANGED <<records, intents, artifacts>>
  <2>1. releases' = [releases EXCEPT ![p] = IF @ = None THEN intents[p] ELSE @]
    BY DEF Release, Request
  <2>. QED BY <1>2, <1>3, <2>1 DEF Release, IInv, Typed, Tables
<1>5. /\ releases' \in Tables
      /\ \A q \in Packages : releases'[q] = IF q = p THEN intents[p] ELSE releases[q]
  BY <1>2, <1>4 DEF IInv, Typed, Tables
<1>6. Typed' /\ Kept
  BY <1>3, <1>4, <1>5 DEF IInv, Typed, Kept
<1>7. IntentsCompile'
  <2>1. \A q \in Packages :
           IF intents'[q] = None THEN releases'[q] = None /\ \A k \in 1..Artifacts : artifacts'[q][k] = None
           ELSE \A k \in 1..Artifacts : artifacts'[q][k] \in {None, intents'[q].request}
    BY <1>1, <1>4, <1>5 DEF IInv, IntentsCompile
  <2>. QED BY <1>4, <1>6, <2>1, UnfinishedStays
<1>8. Readable(p)'
  <2>1. Stored(p)'
    BY <1>1, <1>2, <1>4, <1>5 DEF Stored
  <2>2. releases'[p] = intents'[p] /\ intents'[p] # None
    BY <1>1, <1>2, <1>4, <1>5
  <2>3. /\ Compiles(releases[p].request, releases[p].at)'
        /\ (releases[p].request.previous # None =>
              ChainHolds(releases[p].request.previous, HistoryBound - 1))'
    BY <1>2, <1>7, <2>2 DEF IntentsCompile
  <2>. QED BY <1>2, <1>6, <2>1, <2>3, ChainExtends
<1>9. HistoryIsReadable'
  <2>1. \A q \in Packages : releases[q] = None /\ releases'[q] # None => Readable(q)'
    BY <1>5, <1>8
  <2>. QED BY <1>4, <1>6, <2>1, ReadableStays
<1>10. Goto(c, "readback")
  BY <1>2, <1>5 DEF Release, Request
<1>11. calls'[c].pc = "readback" /\ calls'[c].request = r
  BY <1>10, GotoMoves
<1>12. releases'[p] # None /\ releases'[p].request = r
  BY <1>1, <1>2, <1>5
<1>13. CallIsRight(c)' /\ AnswerStands(c)'
  BY <1>1, <1>11, <1>12 DEF CallIsRight, AnswerStands, At, Working, Request
<1>. QED BY <1>6, <1>7, <1>9, <1>10, <1>13, GotoKeeps DEF Working

-----------------------------------------------------------------------------
(* What holds throughout.                                                  *)

LEMMA InitIsRight == Init => IInv
<1>. SUFFICES ASSUME Init PROVE IInv
  OBVIOUS
<1>1. Typed
  BY DEF Init, Typed, Tables
<1>2. \A i \in RecordIds : records[i] = None
  BY DEF Init
<1>3. \A p \in Packages :
        intents[p] = None /\ releases[p] = None /\ \A k \in 1..Artifacts : artifacts[p][k] = None
  BY DEF Init
<1>4. HistoryIsReadable
  BY <1>2, <1>3 DEF HistoryIsReadable
<1>5. IntentsCompile
  BY <1>3 DEF IntentsCompile
<1>6. Idle \in CallType
  BY CensusAssumption DEF Idle, CallType, Times
<1>7. ASSUME NEW c \in Calls
      PROVE  calls[c] = Idle /\ CallIsRight(c) /\ AnswerStands(c)
  BY DEF Init, Idle, CallIsRight, AnswerStands, At, Working, Request
<1>8. calls \in [Calls -> CallType]
  BY <1>6 DEF Init
<1>. QED BY <1>1, <1>4, <1>5, <1>7, <1>8 DEF IInv

LEMMA IdlingKeeps == IInv /\ UNCHANGED vars => IInv'
<1>. SUFFICES ASSUME IInv, UNCHANGED vars PROVE IInv'
  OBVIOUS
<1>1. calls' = calls /\ UNCHANGED disk
  BY DEF vars
<1>2. Typed' /\ Kept /\ HistoryIsReadable' /\ IntentsCompile'
  BY <1>1, NothingIsWritten
<1>3. \A d \in Calls : CallIsRight(d)' /\ AnswerStands(d)'
  BY <1>1, <1>2, OthersStay
<1>. QED BY <1>1, <1>2, <1>3 DEF IInv

LEMMA NextKeeps == IInv /\ [Next]_vars => IInv'
<1>. SUFFICES ASSUME IInv, [Next]_vars PROVE IInv'
  OBVIOUS
<1>1. CASE UNCHANGED vars
  BY <1>1, IdlingKeeps
<1>2. ASSUME NEW c \in Calls, NEW r \in Requests \ PackageRequests, NEW t \in Times, Ask(c, r, t)
      PROVE  IInv'
  BY <1>2, AskKeeps DEF Recorded
<1>3. ASSUME NEW c \in Calls, NEW r \in PackageRequests, NEW t \in Times, AskForPackage(c, r, t)
      PROVE  IInv'
  BY <1>3, AskForPackageKeeps
<1>4. ASSUME NEW c \in Calls,
             \/ PublishRecord(c) \/ VerifyRecord(c) \/ ReadIntent(c) \/ Admit(c) \/ Propose(c)
             \/ WriteArtifact(c) \/ Release(c) \/ Readback(c) \/ Stop(c)
      PROVE  IInv'
  BY <1>4, PublishRecordKeeps, VerifyRecordKeeps, ReadIntentKeeps, AdmitKeeps, ProposeKeeps,
     WriteArtifactKeeps, ReleaseKeeps, ReadbackKeeps, StopKeeps
<1>. QED BY <1>1, <1>2, <1>3, <1>4 DEF Next

LEMMA AlwaysRight == Spec => []IInv
BY InitIsRight, NextKeeps, PTL DEF Spec

\* Every file stays under its own id, and a call that writes a package has its intent.
THEOREM CensusTypes == Spec => []TypeOK
<1>1. ASSUME IInv
      PROVE  TypeOK
  <2>1. ASSUME NEW c \in Calls, calls[c].pc \in {"write", "readback"}
        PROVE  intents[Request(c).id] # None
    <3>1. Request(c) \in PackageRequests /\ Request(c).id \in Packages
      BY <1>1, <2>1, KindsOfRequests DEF IInv, CallIsRight, Working
    <3>2. intents[Request(c).id] # None \/ releases[Request(c).id] # None
      BY <1>1, <2>1 DEF IInv, CallIsRight, At
    <3>. QED BY <1>1, <3>1, <3>2 DEF IInv, IntentsCompile
  <2>. QED BY <1>1, <2>1 DEF IInv, Typed, Tables, CallType, TypeOK
<1>. QED BY <1>1, AlwaysRight, PTL

\* The readers recompute whatever the writers have left, at the clock it was
\* made, a finished package with its predecessors and within the bound.
THEOREM HistoryStaysReadable == Spec => []HistoryIsReadable
<1>1. IInv => HistoryIsReadable
  BY DEF IInv
<1>. QED BY <1>1, AlwaysRight, PTL

\* At a clock that is current for it, nothing else refuses to resume a package.
LEMMA CurrentIsAdmitted ==
  ASSUME IntentsCompile, NEW p \in Packages, intents[p] # None, NEW t \in Times,
         Current(intents[p].request, t)
  PROVE  MayDerive(intents[p].request, t)
<1> DEFINE r == intents[p].request
<1>1. Compiles(r, intents[p].at) /\ (r.previous # None => ChainHolds(r.previous, HistoryBound - 1))
  BY DEF IntentsCompile
<1>2. records[r.build] # None /\ (r.previous # None => releases[r.previous] # None)
  BY <1>1 DEF Compiles, Stored
<1>. QED BY <1>1, <1>2 DEF Current, MayDerive, PredecessorBound

\* A package with an intent compiles at the clock of its intent and holds nothing
\* of another request; while policies and captures are current, it is resumed.
THEOREM UnfinishedPackagesStayFinishable == Spec => []UnfinishedPackagesCanBeFinished
<1>1. IInv => UnfinishedPackagesCanBeFinished
  BY CurrentIsAdmitted DEF IInv, IntentsCompile, UnfinishedPackagesCanBeFinished
<1>. QED BY <1>1, AlwaysRight, PTL

\* An answer names what stands under the id, of the request that was asked, and
\* no call finds what it published unreadable.
THEOREM AnswersStayConfirmed == Spec => []AnswersAreConfirmed
<1>1. ASSUME IInv
      PROVE  AnswersAreConfirmed
  <2>1. \A c \in Calls : ~At(c, "unconfirmed")
    BY <1>1 DEF IInv, CallType, Working, At
  <2>. QED BY <1>1, <2>1 DEF IInv, AnswerStands, AnswersAreConfirmed
<1>. QED BY <1>1, AlwaysRight, PTL

\* The step that finishes a package is of a call that was permitted to derive
\* from its records, and from its predecessor's, at its own clock.
THEOREM ReleasesArePermitted == Spec => ReleasedUnderCurrentPermission
<1>1. ASSUME IInv, [Next]_vars, NEW p \in Packages, releases[p] = None, releases'[p] # None
      PROVE  \E c \in Calls :
               LET package == releases'[p].request
                   at == calls[c].at IN
               /\ At(c, "write") /\ calls'[c].pc = "readback" /\ Request(c) = package
               /\ Permitted(Members(package), at) /\ Recent(Members(package), at)
               /\ package.previous # None => Permitted(Members(releases[package.previous].request), at)
  <2>1. PICK c \in Calls : Release(c)
    <3>1. releases' # releases
      BY <1>1
    <3>. QED BY <1>1, <3>1 DEF Next, vars, disk, Ask, AskForPackage, PublishRecord, VerifyRecord, ReadIntent,
                          Admit, Propose, WriteArtifact, Readback, Stop
  <2>. PICK r, t : r = calls[c].request /\ t = calls[c].at
    OBVIOUS
  <2>2. /\ r \in PackageRequests /\ intents[r.id] # None /\ intents[r.id].request = r
        /\ MayDerive(r, t) /\ At(c, "write") /\ Request(c) = r
    BY <1>1, <2>1 DEF IInv, CallIsRight, Release, At, Request, Working
  <2>3. r.id \in Packages
    BY <2>2, KindsOfRequests
  <2>4. p = r.id /\ releases'[p] = intents[p] /\ releases'[p].request = r
    BY <1>1, <2>1, <2>2, <2>3 DEF Release, Request, IInv, Typed, Tables
  <2>5. calls'[c].pc = "readback"
    BY <1>1, <2>1, <2>2, <2>4, GotoMoves DEF Release, Request
  <2>6. Permitted(Members(r), t) /\ Recent(Members(r), t)
    BY <2>2 DEF MayDerive
  <2>7. ASSUME r.previous # None
        PROVE  Permitted(Members(releases[r.previous].request), t)
    <3>1. r.previous \in Packages /\ ChainHolds(r.previous, PredecessorBound)
      BY <2>2, <2>7, KindsOfRequests DEF MayDerive
    <3>2. r.previous \in HistoryIn(releases, r.previous)
      BY <1>1, <3>1, HistoryIsClosed DEF IInv, Typed
    <3>3. intents[r.previous] = releases[r.previous]
      BY <3>1, <3>2, HistoryIsIn DEF ChainHolds, Stored
    <3>. QED BY <2>2, <2>7, <3>3 DEF MayDerive
  <2>. QED BY <2>2, <2>4, <2>5, <2>6, <2>7
<1>2. IInv /\ [Next]_vars =>
        (\A p \in Packages : releases[p] = None /\ releases'[p] # None =>
           \E c \in Calls :
             LET package == releases'[p].request
                 at == calls[c].at IN
             /\ At(c, "write") /\ calls'[c].pc = "readback" /\ Request(c) = package
             /\ Permitted(Members(package), at) /\ Recent(Members(package), at)
             /\ package.previous # None => Permitted(Members(releases[package.previous].request), at))
  BY <1>1
<1>. QED BY <1>2, AlwaysRight, PTL DEF Spec, ReleasedUnderCurrentPermission

-----------------------------------------------------------------------------
(* What a reader has recomputed stays what it was.                         *)

LEMMA FilesAreAdded == IInv /\ Next => Kept
<1>. SUFFICES ASSUME IInv, Next PROVE Kept
  OBVIOUS
<1>1. CASE UNCHANGED disk
  BY <1>1 DEF disk, Kept
<1>2. ASSUME NEW c \in Calls, PublishRecord(c) PROVE Kept
  <2>1. UNCHANGED <<intents, artifacts, releases>>
        /\ records' = [records EXCEPT ![Request(c).id] = IF @ = None THEN [request |-> Request(c), at |-> calls[c].at] ELSE @]
    BY <1>2 DEF PublishRecord
  <2>. QED BY <2>1 DEF Kept, IInv, Typed
<1>3. ASSUME NEW c \in Calls, Propose(c) PROVE Kept
  <2>1. UNCHANGED <<records, artifacts, releases>>
        /\ intents' = [intents EXCEPT ![Request(c).id] = IF @ = None THEN [request |-> Request(c), at |-> calls[c].at] ELSE @]
    BY <1>3 DEF Propose
  <2>. QED BY <2>1 DEF Kept, IInv, Typed, Tables
<1>4. ASSUME NEW c \in Calls, WriteArtifact(c) PROVE Kept
  <2>1. artifacts \in [Packages -> [1..Artifacts -> PackageRequests \cup {None}]]
    BY DEF IInv, Typed
  <2>2. UNCHANGED <<records, intents, releases>>
    BY <1>4 DEF WriteArtifact
  <2>3. \/ UNCHANGED artifacts
        \/ \E p, k, r : artifacts' = [artifacts EXCEPT ![p][k] = IF @ = None THEN r ELSE @]
    BY <1>4 DEF WriteArtifact
  <2>4. ASSUME NEW q \in Packages, NEW j \in 1..Artifacts, artifacts[q][j] # None
        PROVE  artifacts'[q][j] = artifacts[q][j]
    <3>1. CASE UNCHANGED artifacts
      BY <3>1
    <3>2. CASE \E p, k, r : artifacts' = [artifacts EXCEPT ![p][k] = IF @ = None THEN r ELSE @]
      <4>1. PICK p, k, r : artifacts' = [artifacts EXCEPT ![p][k] = IF @ = None THEN r ELSE @]
        BY <3>2
      <4>2. CASE p = q /\ k = j
        BY <2>1, <2>4, <4>1, <4>2
      <4>3. CASE p = q /\ k # j
        BY <2>1, <4>1, <4>3
      <4>4. CASE p # q
        BY <2>1, <4>1, <4>4
      <4>. QED BY <4>2, <4>3, <4>4
    <3>. QED BY <2>3, <3>1, <3>2
  <2>. QED BY <2>2, <2>4 DEF Kept
<1>5. ASSUME NEW c \in Calls, Release(c) PROVE Kept
  <2>1. UNCHANGED <<records, intents, artifacts>>
        /\ releases' = [releases EXCEPT ![Request(c).id] = IF @ = None THEN intents[Request(c).id] ELSE @]
    BY <1>5 DEF Release
  <2>. QED BY <2>1 DEF Kept, IInv, Typed, Tables
<1>. QED BY <1>1, <1>2, <1>3, <1>4, <1>5
         DEF Next, disk, Ask, AskForPackage, VerifyRecord, ReadIntent, Admit, Readback, Stop, Refuse, Goto

\* Every package in the history of a finished one stays as it is, with its intent
\* and its members, and no package is added to the history.
HistoriesAreFinal ==
  \A p \in Packages : releases[p] # None =>
    /\ History(p)' = History(p)
    /\ \A q \in History(p) :
         /\ releases[q] # None /\ releases'[q] = releases[q] /\ intents'[q] = intents[q]
         /\ LET build == releases[q].request.build IN records[build] # None /\ records'[build] = records[build]

\* Whatever is captured, built or released later, and by whomever, recomputing a
\* finished package meets the same packages and the same builds as when it was
\* released: readStored() and lineage() depend on nothing that can still change.
THEOREM FinishedHistoriesStay == Spec => [][HistoriesAreFinal]_vars
<1>1. ASSUME IInv, Typed', Kept, NEW p \in Packages, releases[p] # None
      PROVE  /\ History(p)' = History(p)
             /\ \A q \in History(p) :
                  /\ releases[q] # None /\ releases'[q] = releases[q] /\ intents'[q] = intents[q]
                  /\ LET build == releases[q].request.build IN records[build] # None /\ records'[build] = records[build]
  <2>1. Readable(p) /\ releases \in Tables /\ releases' \in Tables
    BY <1>1 DEF IInv, HistoryIsReadable, Typed
  <2>2. History(p) = HistoryIn(releases, p) /\ History(p)' = HistoryIn(releases', p) /\ History(p) \subseteq Packages
    BY <2>1, HistoryIsIn, HistoryIsClosed
  <2>3. \A q \in History(p) : Stored(q)
    BY <2>1 DEF Readable, ChainHolds
  <2>4. \A q \in History(p) : releases[q] # None /\ intents[q] = releases[q]
                                /\ releases'[q] = releases[q] /\ intents'[q] = intents[q]
    BY <1>1, <2>2, <2>3 DEF Stored, Kept
  <2>5. History(p)' = History(p)
    BY <2>1, <2>2, <2>4, HistoryStays
  <2>6. ASSUME NEW q \in History(p)
        PROVE  LET build == releases[q].request.build IN records[build] # None /\ records'[build] = records[build]
    <3>1. intents[q] # None /\ releases[q].request \in PackageRequests
      BY <2>1, <2>2, <2>4 DEF Tables
    <3>2. records[intents[q].request.build] # None
      BY <1>1, <2>2, <3>1 DEF IInv, IntentsCompile, Compiles
    <3>. QED BY <1>1, <2>4, <3>1, <3>2, KindsOfRequests DEF Kept
  <2>. QED BY <2>4, <2>5, <2>6
<1>2. IInv /\ IInv' /\ [Next]_vars => [HistoriesAreFinal]_vars
  <2>1. IInv /\ IInv' /\ Next => HistoriesAreFinal
    BY <1>1, FilesAreAdded DEF IInv, HistoriesAreFinal
  <2>. QED BY <2>1
<1>. QED BY <1>2, AlwaysRight, PTL DEF Spec
=============================================================================
