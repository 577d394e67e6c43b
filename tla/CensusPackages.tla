--------------------------- MODULE CensusPackages ---------------------------
(***************************************************************************)
(* From retained captures to packages: normalizations                      *)
(* (src/acquisition/census-normalization.ts), candidate builds             *)
(* (src/data-os/local-census-candidate-build.ts), packages with their      *)
(* predecessors and refused deliveries (src/boutique/census-package.ts).   *)
(* Every call of the CLI is a process of its own; all they share is a      *)
(* directory of create-only files.  A normalization, a build and a refusal *)
(* is one file; a package is an intent, its artifacts and, last, its       *)
(* release, and is finished at the clock of its intent by whoever returns. *)
(* A reader recomputes what it reads at the clock it was made.             *)
(*                                                                         *)
(* A reference is an id and a digest.  A digest is learnt from what was    *)
(* read under that id, and an id never has a second content, so a          *)
(* reference that fits is one whose record is there; any other is refused  *)
(* as a missing record is.                                                 *)
(***************************************************************************)
EXTENDS Integers, FiniteSets

CONSTANTS
  Calls,             \* processes, each with one call at a time
  Normalizations, Builds, Packages, Deliveries,
  CapturedAt, FinishedAt, PolicyEnds,   \* of the retained capture a normalization reads
  SourceRecord,      \* the record it is of, None when the response had none
  BuildRequests, PackageRequests, DeliveryRequests,
  HistoryBound,      \* maximum of inspect(): 32
  MaxAge,            \* maximumCaptureAgeDays
  Artifacts,         \* the number of files beside intent and release: 6
  MaxTime, None

Times == 0..MaxTime
NormalizationRequests == [kind : {"normalization"}, id : Normalizations]
Requests == NormalizationRequests \cup BuildRequests \cup PackageRequests \cup DeliveryRequests

ASSUME CensusAssumption ==
  /\ {CapturedAt, FinishedAt, PolicyEnds} \subseteq [Normalizations -> Nat]
  /\ \A n \in Normalizations : CapturedAt[n] <= FinishedAt[n]
  /\ {HistoryBound, Artifacts} \subseteq Nat \ {0} /\ {MaxAge, MaxTime} \subseteq Nat
  /\ BuildRequests \subseteq
       [kind : {"build"}, id : Builds, members : (SUBSET Normalizations) \ {{}}, knownThrough : Times]
  /\ PackageRequests \subseteq
       [kind : {"package"}, id : Packages, build : Builds, previous : Packages \cup {None}]
  /\ \A request \in PackageRequests : request.previous # request.id
  /\ DeliveryRequests \subseteq [kind : {"delivery"}, id : Deliveries, release : Packages]
  /\ IsFiniteSet(Packages)
ASSUME NoneIsNothing ==
  None \notin Packages \cup Requests \cup [request : Requests, at : Times]

VARIABLES
  records,      \* normalization, build or delivery attempt -> its one file
  intents,      \* package -> intent.json
  artifacts,    \* package -> [1..Artifacts -> what the artifact was compiled from]
  releases,     \* package -> release.json, named by the intent it was compiled from
  calls

disk == <<records, intents, artifacts, releases>>
vars == <<disk, calls>>

RecordIds == Normalizations \cup Builds \cup Deliveries
Idle == [pc |-> "idle", request |-> None, at |-> 0, written |-> 0]

Init ==
  /\ records = [i \in RecordIds |-> None]
  /\ intents = [p \in Packages |-> None]
  /\ artifacts = [p \in Packages |-> [k \in 1..Artifacts |-> None]]
  /\ releases = [p \in Packages |-> None]
  /\ calls = [c \in Calls |-> Idle]

At(c, pc) == calls[c].pc = pc
Request(c) == calls[c].request
Goto(c, pc) == calls' = [calls EXCEPT ![c].pc = pc]
Refuse(c) == calls' = [calls EXCEPT ![c] = Idle]

-----------------------------------------------------------------------------
(* What a record has to be computed from, at which clock.                  *)

\* Of the policy's window only the end: a clock before effectiveFrom is refused too.
Permitted(members, t) == \A n \in members : t < PolicyEnds[n]
Recent(members, t) == \A n \in members : CapturedAt[n] <= t /\ t - CapturedAt[n] <= MaxAge

NormalizationHolds(n, t) == FinishedAt[n] <= t /\ Permitted({n}, t)

BuildHolds(request, t) ==
  /\ \A n \in request.members :
       /\ records[n] # None /\ SourceRecord[n] # None
       /\ records[n].at <= request.knownThrough
       /\ \A m \in request.members \ {n} : SourceRecord[m] # SourceRecord[n]
  /\ request.knownThrough <= t
  /\ Permitted(request.members, t)

Members(package) == records[package.build].request.members

\* readStored(): a release is of its intent, and its artifacts are there and its own.
Stored(p) ==
  /\ releases[p] # None /\ intents[p] = releases[p]
  /\ \A k \in 1..Artifacts : artifacts[p][k] = releases[p].request

\* compile(), with its refusals; the predecessor itself is not recomputed here.
Compiles(request, t) ==
  /\ records[request.build] # None /\ records[request.build].at <= t
  /\ Permitted(Members(request), t) /\ Recent(Members(request), t)
  /\ request.previous # None =>
       /\ Stored(request.previous) /\ releases[request.previous].at < t
       /\ Permitted(Members(releases[request.previous].request), t)

\* A release and its predecessors: the least set with p that has the predecessor
\* of what it has.  Each is later than the one before, so a walk meets none twice.
Follows(S) ==
  \A q \in S : releases[q] # None /\ releases[q].request.previous # None =>
                 releases[q].request.previous \in S
History(p) == {q \in Packages : \A S \in SUBSET Packages : p \in S /\ Follows(S) => q \in S}

\* inspectChain()
ChainHolds(p, maximum) ==
  /\ Cardinality(History(p)) <= maximum
  /\ \A q \in History(p) : Stored(q) /\ Compiles(releases[q].request, releases[q].at)

Readable(p) == ChainHolds(p, HistoryBound)

AttemptHolds(request, t) ==
  releases[request.release] # None /\ Readable(request.release) /\ releases[request.release].at <= t

RecordHolds(request, t) ==
  CASE request.kind = "normalization" -> NormalizationHolds(request.id, t)
    [] request.kind = "build" -> BuildHolds(request, t)
    [] request.kind = "delivery" -> AttemptHolds(request, t)

-----------------------------------------------------------------------------
(* normalize(), build() of candidates and requestCustomerDelivery(): look, *)
(* compute, publish, read back (a refused delivery is not read back).      *)

\* The wall clock is read when the call begins; nothing keeps it from going back.
Begin(c, request, t, pc) ==
  calls' = [calls EXCEPT ![c] = [pc |-> pc, request |-> request, at |-> t, written |-> 0]]
End(c, request) == Begin(c, request, 0, "told")
Answer(c) == End(c, Request(c))

\* What is there under the id is the answer, at its own clock, or the request
\* conflicts with it.
Ask(c, request, t) ==
  LET there == records[request.id] IN
  /\ calls[c].pc \in {"idle", "told"}
  /\ IF there # None
     THEN IF there.request = request /\ RecordHolds(there.request, there.at) THEN End(c, request) ELSE Refuse(c)
     ELSE IF RecordHolds(request, t) THEN Begin(c, request, t, "publish") ELSE Refuse(c)
  /\ UNCHANGED disk

\* A call that loses the link to the same request answers with the winner; a
\* delivery that loses it to another clock fails, and is answered when repeated.
PublishRecord(c) ==
  LET id == Request(c).id
      made == [request |-> Request(c), at |-> calls[c].at] IN
  /\ At(c, "publish")
  /\ records' = [records EXCEPT ![id] = IF @ = None THEN made ELSE @]
  /\ IF Request(c).kind = "delivery"
     THEN IF records'[id] = made THEN Answer(c) ELSE Refuse(c)
     ELSE IF records'[id].request = Request(c) THEN Goto(c, "verify") ELSE Refuse(c)
  /\ UNCHANGED <<intents, artifacts, releases>>

VerifyRecord(c) ==
  LET there == records[Request(c).id] IN
  /\ At(c, "verify")
  /\ IF RecordHolds(there.request, there.at) THEN Answer(c) ELSE Goto(c, "unconfirmed")
  /\ UNCHANGED disk

-----------------------------------------------------------------------------
(* build() of packages                                                     *)

AskForPackage(c, request, t) ==
  LET p == request.id IN
  /\ calls[c].pc \in {"idle", "told"}
  /\ IF releases[p] = None THEN Begin(c, request, t, "intent")
     ELSE IF Readable(p) /\ intents[p].request = request THEN End(c, request)
     ELSE Refuse(c)
  /\ UNCHANGED disk

ReadIntent(c) ==
  LET p == Request(c).id IN
  /\ At(c, "intent")
  /\ IF intents[p] = None THEN Goto(c, "begin")
     ELSE IF intents[p].request = Request(c) THEN Goto(c, "resume")
     ELSE Refuse(c)
  /\ UNCHANGED disk

\* Whether the call may derive at its own clock, from what it packages and from
\* what it compares that with.
PredecessorBoundOfItsOwn == HistoryBound   \* variation: the package itself is not counted
PredecessorBound == HistoryBound - 1
MayDerive(request, t) ==
  /\ records[request.build] # None
  /\ Permitted(Members(request), t) /\ Recent(Members(request), t)
  /\ request.previous # None =>
       /\ releases[request.previous] # None /\ ChainHolds(request.previous, PredecessorBound)
       /\ Permitted(Members(intents[request.previous].request), t)

AdmitBegunByItsIntent(c) ==     \* variation: only a new package is permitted
  /\ \/ At(c, "begin") /\ IF MayDerive(Request(c), calls[c].at) /\ Compiles(Request(c), calls[c].at)
                          THEN Goto(c, "propose") ELSE Refuse(c)
     \/ At(c, "resume") /\ Goto(c, "write")
  /\ UNCHANGED disk

AdmitBeforeItsIntent(c) ==      \* variation: the artifacts come before the intent
  /\ calls[c].pc \in {"begin", "resume"}
  /\ IF MayDerive(Request(c), calls[c].at) /\ Compiles(Request(c), calls[c].at) THEN Goto(c, "write") ELSE Refuse(c)
  /\ UNCHANGED disk

AdmitUncompiled(c) ==           \* variation: the intent is kept before it is compiled
  /\ \/ At(c, "begin") /\ IF MayDerive(Request(c), calls[c].at) THEN Goto(c, "propose") ELSE Refuse(c)
     \/ At(c, "resume") /\ IF MayDerive(Request(c), calls[c].at) THEN Goto(c, "write") ELSE Refuse(c)
  /\ UNCHANGED disk

\* A new package is compiled once before its intent is kept.
Admit(c) ==
  LET derives == MayDerive(Request(c), calls[c].at) IN
  /\ \/ At(c, "begin") /\ IF derives /\ Compiles(Request(c), calls[c].at) THEN Goto(c, "propose") ELSE Refuse(c)
     \/ At(c, "resume") /\ IF derives THEN Goto(c, "write") ELSE Refuse(c)
  /\ UNCHANGED disk

ProposeWithAnyWinner(c) ==      \* variation: the winner may have asked for something else
  LET p == Request(c).id IN
  /\ At(c, "propose")
  /\ intents' = [intents EXCEPT ![p] = IF @ = None THEN [request |-> Request(c), at |-> calls[c].at] ELSE @]
  /\ Goto(c, "write")
  /\ UNCHANGED <<records, artifacts, releases>>

\* Another call may have kept its intent first: its clock is the package's when
\* it asked for the same.
Propose(c) ==
  LET p == Request(c).id IN
  /\ At(c, "propose")
  /\ intents' = [intents EXCEPT ![p] = IF @ = None THEN [request |-> Request(c), at |-> calls[c].at] ELSE @]
  /\ IF intents'[p].request = Request(c) THEN Goto(c, "write") ELSE Refuse(c)
  /\ UNCHANGED <<records, artifacts, releases>>

\* The artifacts one by one, then the release, all compiled from the intent.  A
\* file that is there is kept, and the call ends when it has another content.
WriteArtifact(c) ==
  LET p == Request(c).id
      k == calls[c].written + 1 IN
  /\ At(c, "write") /\ k <= Artifacts
  /\ IF Compiles(intents[p].request, intents[p].at)
     THEN /\ artifacts' = [artifacts EXCEPT ![p][k] = IF @ = None THEN intents[p].request ELSE @]
          /\ IF artifacts'[p][k] = intents[p].request
             THEN calls' = [calls EXCEPT ![c].written = k] ELSE Refuse(c)
     ELSE UNCHANGED artifacts /\ Refuse(c)
  /\ UNCHANGED <<records, intents, releases>>

Release(c) ==
  LET p == Request(c).id IN
  /\ At(c, "write") /\ calls[c].written = Artifacts
  /\ releases' = [releases EXCEPT ![p] = IF @ = None THEN intents[p] ELSE @]
  /\ IF releases'[p] = intents[p] THEN Goto(c, "readback") ELSE Refuse(c)
  /\ UNCHANGED <<records, intents, artifacts>>

Readback(c) ==
  /\ At(c, "readback")
  /\ IF Readable(Request(c).id) THEN Answer(c) ELSE Goto(c, "unconfirmed")
  /\ UNCHANGED disk

\* Killed, or a storage failure, between any two files.
Working == {"publish", "verify", "intent", "begin", "resume", "propose", "write", "readback"}
Stop(c) == calls[c].pc \in Working /\ Refuse(c) /\ UNCHANGED disk

Next ==
  \E c \in Calls :
    \/ \E request \in Requests \ PackageRequests, t \in Times : Ask(c, request, t)
    \/ \E request \in PackageRequests, t \in Times : AskForPackage(c, request, t)
    \/ PublishRecord(c) \/ VerifyRecord(c)
    \/ ReadIntent(c) \/ Admit(c) \/ Propose(c)
    \/ WriteArtifact(c) \/ Release(c) \/ Readback(c) \/ Stop(c)

Spec == Init /\ [][Next]_vars

-----------------------------------------------------------------------------
Made == [request : Requests, at : Times]

\* Every file is under its own id and kind, and a call writes only the package
\* whose intent it has read.
TypeOK ==
  /\ records \in [RecordIds -> Made \cup {None}]
  /\ intents \in [Packages -> [request : PackageRequests, at : Times] \cup {None}]
  /\ releases \in [Packages -> [request : PackageRequests, at : Times] \cup {None}]
  /\ artifacts \in [Packages -> [1..Artifacts -> PackageRequests \cup {None}]]
  /\ calls \in [Calls -> [pc : {"idle", "told"} \cup Working, request : Requests \cup {None},
                          at : Times, written : 0..Artifacts]]
  /\ \A i \in RecordIds : records[i] # None => records[i].request.id = i
  /\ \A p \in Packages : intents[p] # None => intents[p].request.id = p
  /\ \A c \in Calls : calls[c].pc \in {"write", "readback"} => intents[Request(c).id] # None

\* The readers accept whatever the writers leave, however processes overlap and
\* end and wherever their clocks stand: a finished package recomputes from its
\* records at its own clock with all its predecessors, within the bound on
\* histories, and a refused delivery is not older than its release
\* (docs/BOUTIQUE_PRODUCT_MILESTONE.md).
HistoryIsReadable ==
  /\ \A i \in RecordIds : records[i] # None => RecordHolds(records[i].request, records[i].at)
  /\ \A p \in Packages : releases[p] # None => Readable(p)

\* What a resume asks of its own clock: permission for what is packaged and for
\* what that is compared with, and recent captures.
Current(request, t) ==
  /\ Permitted(Members(request), t) /\ Recent(Members(request), t)
  /\ request.previous # None => Permitted(Members(intents[request.previous].request), t)

\* Only permission and age stand between a kept intent and its release: it
\* compiles at its own clock, what there is of it is of that intent, and at each
\* clock that is current for it a resume is admitted, its predecessor being
\* readable with room for one more.  An intent is never replaced, so once its
\* policies end or its captures are too old the id stays closed, as intended
\* (census-package.ts:252-261, census-package.test.ts:126).
UnfinishedPackagesCanBeFinished ==
  \A p \in Packages :
    LET package == intents[p] IN
    IF package = None THEN releases[p] = None /\ \A k \in 1..Artifacts : artifacts[p][k] = None
    ELSE /\ Compiles(package.request, package.at)
         /\ \A k \in 1..Artifacts : artifacts[p][k] \in {None, package.request}
         /\ \A t \in Times : Current(package.request, t) => MayDerive(package.request, t)

\* Whoever finishes a package was permitted to derive from what it packages and
\* from what it is compared with, and the captures were recent, at that call's
\* own clock: the clock of an intent left behind by another call is no
\* permission to resume it.
ReleasedUnderCurrentPermission ==
  [][\A p \in Packages : releases[p] = None /\ releases'[p] # None =>
       \E c \in Calls :
         LET package == releases'[p].request
             at == calls[c].at IN
         /\ At(c, "write") /\ calls'[c].pc = "readback" /\ Request(c) = package
         /\ Permitted(Members(package), at) /\ Recent(Members(package), at)
         /\ package.previous # None => Permitted(Members(releases[package.previous].request), at)]_vars

\* A call that answers names what stands under its id, made for the request it
\* was asked, whoever else asked for that id or lost the link to it; and what
\* was published is never found unreadable.
AnswersAreConfirmed ==
  \A c \in Calls :
    /\ ~At(c, "unconfirmed")
    /\ At(c, "told") =>
         IF Request(c).kind = "package" THEN releases[Request(c).id].request = Request(c)
         ELSE records[Request(c).id].request = Request(c)
=============================================================================
