--------------------------- MODULE DossierLedger ---------------------------
(***************************************************************************)
(* The dossier ledger (src/db/dossierLedger.ts) over the artifacts of the  *)
(* discovery ledger (src/db/discoveryLedger.ts) and the records the corpus *)
(* took back (src/db/retractedRecord.ts).  A customer's question is asked  *)
(* in facets; a facet is assessed at an instant over artifacts; an         *)
(* estimate counts the assessments, a quotation prices the estimate, and   *)
(* once it is accepted a release is built that names one assessment for    *)
(* each facet and concludes from it.                                       *)
(*                                                                         *)
(* An action is one transaction of GovernanceLedger.write(): its guard is  *)
(* the conjunction of the keys, CHECKs and deferred triggers of the rows   *)
(* it inserts, and a transaction they refuse is no step.  Instants are     *)
(* columns the writer fills in, in no order; what a trigger recomputes is  *)
(* written as the recomputed value, since any other is refused.            *)
(*                                                                         *)
(* An identifier stands for its row.  Prices, recipients and the right of  *)
(* use an input declares are left out: nothing ties the last one to the    *)
(* row of the input, so the writer is free in it.                          *)
(***************************************************************************)
EXTENDS Integers, FiniteSets

CONSTANTS
  Records,            \* source records of the corpus
  KnownAt,            \* record -> the instant it was known at
  Artifacts, Runs, Subjects, Claims,
  Candidates,         \* artifact -> the rows a run may leave for it
  Facets,             \* the facets that may be asked, each of one dossier
  Dossiers, DossierOf,
  Times,
  MAX_RETRACTED, MAX_VALIDATIONS, MAX_COVERAGE, MAX_ESTIMATES, MAX_QUOTATIONS,
  MAX_RELEASES, MAX_CONCLUSIONS,            \* bounds of this model on the tables
  None

Kinds       == {"CORRECTION", "WITHDRAWAL"}
Outcomes    == {"PASSED", "FALSIFIED"}      \* PASSED: any of the outcomes of a pass
Assessments == {"PRESENT", "STALE", "CONFLICTING", "DISALLOWED"}
Levels      == {"NONE", "THIN", "SUPPORTED"}

ArtifactRow ==
  [run : Runs, subject : Subjects, claim : Claims, computed : Times,
   horizon : Times \cup {None}, deliverable : BOOLEAN]
InputRow      == [artifact : Artifacts, reads : Records \cup Artifacts]
RetractionRow == [record : Records, kind : Kinds, issued : Times]
ValidationRow == [artifact : Artifacts, outcome : Outcomes, at : Times]

ASSUME TimesAreNatural == Times \subseteq Nat /\ None \notin Times
ASSUME RowsOfTheCorpus ==
  /\ KnownAt \in [Records -> Times]
  /\ Candidates \in [Artifacts -> SUBSET ArtifactRow]
  /\ Records \cap Artifacts = {}
  /\ None \notin ArtifactRow
ASSUME FacetsHaveDossiers == DossierOf \in [Facets -> Dossiers]

VARIABLES
  artifact,      \* artifact -> its row, or None
  inputs,        \* what artifacts read
  retracted,     \* what the corpus took back
  validations,   \* the dated validation records
  asked,         \* the facets asked so far
  coverage,      \* the assessments of facets, each with its evidence rows
  estimates, quotations,
  accepted,      \* the quotations their customer has authorized
  releases, conclusions,
  amended        \* history: artifacts an input was added to after their own row

facts   == <<artifact, inputs, retracted, validations, amended>>
work    == <<asked, coverage, estimates, quotations, accepted, releases, conclusions>>
vars    == <<facts, work>>

Init ==
  /\ artifact = [a \in Artifacts |-> None]
  /\ inputs = {} /\ retracted = {} /\ validations = {} /\ amended = {}
  /\ asked = {} /\ coverage = {} /\ estimates = {} /\ quotations = {}
  /\ accepted = {} /\ releases = {} /\ conclusions = {}

Computed == {a \in Artifacts : artifact[a] # None}

-----------------------------------------------------------------------------
\* Inputs are followed through derived artifacts down to the source records:
\* the least set of artifacts that holds a and all that its members read.
Follows(S) == \A i \in inputs : i.artifact \in S => i.reads \in S \cup Records
Ancestry(a) ==
  {b \in Artifacts : \A S \in SUBSET Artifacts : a \in S /\ Follows(S) => b \in S}
Reads(a) == {r \in Records : \E i \in inputs : i.artifact \in Ancestry(a) /\ i.reads = r}

TakenBack(a, kind, t) ==
  \E r \in retracted : r.record \in Reads(a) /\ r.kind = kind /\ r.issued <= t

\* The validation standing at t: the latest record at or before it.
Refuted(a, t) ==
  \E v \in validations :
    /\ v.artifact = a /\ v.at <= t /\ v.outcome = "FALSIFIED"
    /\ \A w \in validations : w.artifact = a /\ w.at <= t => w.at <= v.at

Disagreeing(bearing, a) ==
  \E b \in bearing : /\ artifact[b].subject = artifact[a].subject
                     /\ artifact[b].claim # artifact[a].claim

\* dossier_expected_assessment(): rights, then conflict, then staleness.
Expected(bearing, t, a) ==
  IF ~artifact[a].deliverable THEN "DISALLOWED"
  ELSE IF \/ TakenBack(a, "CORRECTION", t)
          \/ Disagreeing(bearing, a)
          \/ Refuted(a, t) THEN "CONFLICTING"
  ELSE IF \/ artifact[a].horizon # None /\ artifact[a].horizon < t
          \/ TakenBack(a, "WITHDRAWAL", t) THEN "STALE"
  ELSE "PRESENT"

\* The evidence of a coverage row is what each artifact on the facet earns.
Bearing(c)  == DOMAIN c.evidence
Stands(c, a) == c.evidence[a] = Expected(Bearing(c), c.at, a)
Usable(c)   == {a \in Bearing(c) : c.evidence[a] = "PRESENT"}
Level(c) ==
  IF Usable(c) = {} THEN "NONE"
  ELSE IF /\ Cardinality(Usable(c)) >= 2
          /\ Cardinality({artifact[a].run : a \in Usable(c)}) >= 2 THEN "SUPPORTED"
  ELSE "THIN"

\* The assessment of a facet standing at t: the latest at or before it.
Latest(f, t) ==
  {c \in coverage : /\ c.facet = f /\ c.at <= t
                    /\ \A d \in coverage : d.facet = f /\ d.at <= t => d.at <= c.at}
FacetsOf(d) == {f \in asked : DossierOf[f] = d}

-----------------------------------------------------------------------------
\* A successful run leaves an artifact together with the rows of what it read:
\* records known by then and artifacts computed strictly earlier.
MayRead(a, computed, x) ==
  IF x \in Records THEN KnownAt[x] <= computed
  ELSE x \in Computed /\ artifact[x].computed < computed

Compute(a, row, read) ==
  /\ artifact[a] = None
  /\ read # {} /\ \A x \in read : MayRead(a, row.computed, x)
  /\ row.horizon # None => row.horizon > row.computed
  /\ artifact' = [artifact EXCEPT ![a] = row]
  /\ inputs' = inputs \cup {[artifact |-> a, reads |-> x] : x \in read}
  /\ UNCHANGED <<retracted, validations, amended, work>>

\* An input row inserted later: no key or trigger asks for the artifact's own
\* transaction, and none of the dossier ledger fires.
ReadAlso(a, x) ==
  /\ a \in Computed
  /\ MayRead(a, artifact[a].computed, x)
  /\ [artifact |-> a, reads |-> x] \notin inputs
  /\ inputs' = inputs \cup {[artifact |-> a, reads |-> x]}
  /\ amended' = amended \cup {a}
  /\ UNCHANGED <<artifact, retracted, validations, work>>

RetractNearby(row) ==   \* variation: only artifacts that read the record themselves
  /\ Cardinality(retracted) < MAX_RETRACTED
  /\ retracted' = retracted \cup {row}
  /\ UNCHANGED <<artifact, inputs, validations, amended, work>>
  /\ \A c \in coverage : \A a \in Bearing(c) :
       [artifact |-> a, reads |-> row.record] \in inputs => Stands(c, a)'

\* retraction_leaves_assessments_standing: every reader at any depth, with the
\* retraction known.
Retract(row) ==
  /\ Cardinality(retracted) < MAX_RETRACTED
  /\ retracted' = retracted \cup {row}
  /\ UNCHANGED <<artifact, inputs, validations, amended, work>>
  /\ \A c \in coverage : \A a \in Bearing(c) : row.record \in Reads(a) => Stands(c, a)'

\* The artifact's own state moves to its latest record in this transaction.
Validate(row) ==
  /\ Cardinality(validations) < MAX_VALIDATIONS
  /\ row.artifact \in Computed /\ row.at >= artifact[row.artifact].computed
  /\ \A v \in validations : <<v.artifact, v.at>> # <<row.artifact, row.at>>
  /\ validations' = validations \cup {row}
  /\ UNCHANGED <<artifact, inputs, retracted, amended, work>>
  /\ \A c \in coverage : \A a \in Bearing(c) : a = row.artifact => Stands(c, a)'

-----------------------------------------------------------------------------
\* Facets are asked before anything counts them.
Ask(f) ==
  /\ f \notin asked
  /\ \A e \in estimates \cup releases : e.dossier # DossierOf[f]
  /\ asked' = asked \cup {f}
  /\ UNCHANGED <<facts, coverage, estimates, quotations, accepted, releases, conclusions>>

\* What has read the facets of a dossier as of an instant.
ReadAt(d) ==
  {e.at : e \in {x \in estimates : x.dossier = d}}
    \cup {r.built : r \in {x \in releases : x.dossier = d}}

AssessBehindACount(f, bearing, t) ==   \* variation: only later than the last assessment
  /\ Cardinality(coverage) < MAX_COVERAGE
  /\ f \in asked
  /\ bearing \subseteq Computed /\ \A a \in bearing : artifact[a].computed <= t
  /\ \A c \in coverage : c.facet = f => c.at < t
  /\ coverage' = coverage \cup
       {[facet |-> f, at |-> t, evidence |-> [a \in bearing |-> Expected(bearing, t, a)]]}
  /\ UNCHANGED <<facts, asked, estimates, quotations, accepted, releases, conclusions>>

\* A coverage row and its evidence rows.  The writer chooses what bears on the
\* facet; the triggers leave no choice in what each earns.
Assess(f, bearing, t) ==
  /\ Cardinality(coverage) < MAX_COVERAGE
  /\ f \in asked
  /\ bearing \subseteq Computed /\ \A a \in bearing : artifact[a].computed <= t
  /\ \A c \in coverage : c.facet = f => c.at < t
  /\ \A read \in ReadAt(DossierOf[f]) : read < t
  /\ coverage' = coverage \cup
       {[facet |-> f, at |-> t, evidence |-> [a \in bearing |-> Expected(bearing, t, a)]]}
  /\ UNCHANGED <<facts, asked, estimates, quotations, accepted, releases, conclusions>>

\* Each facet at the level of its assessment standing at t.
Estimate(d, t) ==
  /\ Cardinality(estimates) < MAX_ESTIMATES
  /\ FacetsOf(d) # {} /\ \A f \in FacetsOf(d) : Latest(f, t) # {}
  /\ estimates' = estimates \cup
       {[dossier |-> d, at |-> t,
         level |-> [f \in FacetsOf(d) |-> Level(CHOOSE c \in Latest(f, t) : TRUE)]]}
  /\ UNCHANGED <<facts, asked, coverage, quotations, accepted, releases, conclusions>>

Quote(e, t) ==
  /\ Cardinality(quotations) < MAX_QUOTATIONS
  /\ e.at <= t
  /\ quotations' = quotations \cup {[estimate |-> e, at |-> t]}
  /\ UNCHANGED <<facts, asked, coverage, estimates, accepted, releases, conclusions>>

\* The customer's authorization of the quotation's digest.
Accept(q) ==
  /\ q \notin accepted
  /\ accepted' = accepted \cup {q}
  /\ UNCHANGED <<facts, asked, coverage, estimates, quotations, releases, conclusions>>

MovedUnderNearby(c, built) ==   \* variation: only what an artifact read itself
  LET since(t) == t > c.at /\ t <= built
  IN \E a \in Usable(c) :
       \/ \E r \in retracted :
            [artifact |-> a, reads |-> r.record] \in inputs /\ since(r.issued)
       \/ artifact[a].horizon # None /\ since(artifact[a].horizon)
       \/ \E v \in validations : /\ v.artifact = a /\ v.outcome = "FALSIFIED"
                                 /\ since(v.at)

\* The corpus moved under c after its assessment and by the build.
MovedUnder(c, built) ==
  LET since(t) == t > c.at /\ t <= built
  IN \E a \in Usable(c) :
       \/ \E r \in retracted : r.record \in Reads(a) /\ since(r.issued)
       \/ artifact[a].horizon # None /\ since(artifact[a].horizon)
       \/ \E v \in validations : /\ v.artifact = a /\ v.outcome = "FALSIFIED"
                                 /\ since(v.at)

\* A release with the assessments it names, refused unless they are, for every
\* facet, the standing one at the build, unmoved, at the level that was quoted.
\* Its review is an authorization of its own digest, used for nothing else.
Release(q, built, named) ==
  LET d == q.estimate.dossier
  IN /\ Cardinality(releases) < MAX_RELEASES
     /\ q \in accepted /\ q.at <= built
     /\ \A c \in named : /\ DossierOf[c.facet] = d
                         /\ c \in Latest(c.facet, built)
                         /\ ~MovedUnder(c, built)
                         /\ Level(c) = q.estimate.level[c.facet]
     /\ FacetsOf(d) \subseteq {c.facet : c \in named}
     /\ releases' = releases \cup
          {[dossier |-> d, quotation |-> q, built |-> built, named |-> named]}
     /\ UNCHANGED <<facts, asked, coverage, estimates, quotations, accepted, conclusions>>

ConcludeFromAnyRow(r, f, a) ==   \* variation: any row that ever existed for the facet
  /\ Cardinality(conclusions) < MAX_CONCLUSIONS
  /\ \E c \in coverage : c.facet = f /\ a \in Usable(c)
  /\ \A k \in conclusions : <<k.release, k.facet>> # <<r, f>>
  /\ conclusions' = conclusions \cup {[release |-> r, facet |-> f, artifact |-> a]}
  /\ UNCHANGED <<facts, asked, coverage, estimates, quotations, accepted, releases>>

\* A conclusion rests on evidence assessed PRESENT in the row its release names.
Conclude(r, f, a) ==
  /\ Cardinality(conclusions) < MAX_CONCLUSIONS
  /\ \E c \in r.named : c.facet = f /\ a \in Usable(c)
  /\ \A k \in conclusions : <<k.release, k.facet>> # <<r, f>>
  /\ conclusions' = conclusions \cup {[release |-> r, facet |-> f, artifact |-> a]}
  /\ UNCHANGED <<facts, asked, coverage, estimates, quotations, accepted, releases>>

-----------------------------------------------------------------------------
Next ==
  \/ \E a \in Artifacts : \E row \in Candidates[a] :
       \E read \in SUBSET (Records \cup Artifacts) : Compute(a, row, read)
  \/ \E a \in Artifacts, x \in Records \cup Artifacts : ReadAlso(a, x)
  \/ \E row \in RetractionRow : Retract(row)
  \/ \E row \in ValidationRow : Validate(row)
  \/ \E f \in Facets : Ask(f)
  \/ \E f \in Facets, bearing \in SUBSET Artifacts, t \in Times : Assess(f, bearing, t)
  \/ \E d \in Dossiers, t \in Times : Estimate(d, t)
  \/ \E e \in estimates, t \in Times : Quote(e, t)
  \/ \E q \in quotations : Accept(q)
  \/ \E q \in quotations, t \in Times, named \in SUBSET coverage : Release(q, t, named)
  \/ \E r \in releases, f \in Facets, a \in Artifacts : Conclude(r, f, a)

Spec == Init /\ [][Next]_vars

-----------------------------------------------------------------------------
CoverageRow(c) ==
  /\ c = [facet |-> c.facet, at |-> c.at, evidence |-> c.evidence]
  /\ c.facet \in asked /\ c.at \in Times
  /\ Bearing(c) \subseteq Computed
  /\ c.evidence \in [Bearing(c) -> Assessments]

\* Rows refer to rows that exist, and the keys hold: one assessment of a facet
\* and one validation of an artifact at an instant.
TypeOK ==
  /\ artifact \in [Artifacts -> ArtifactRow \cup {None}]
  /\ inputs \subseteq InputRow
  /\ \A i \in inputs : {i.artifact, i.reads} \subseteq Computed \cup Records
  /\ retracted \subseteq RetractionRow
  /\ validations \subseteq ValidationRow /\ amended \subseteq Computed
  /\ \A v, w \in validations : v.artifact = w.artifact /\ v.at = w.at => v = w
  /\ asked \subseteq Facets
  /\ \A c \in coverage : CoverageRow(c)
  /\ \A c, d \in coverage : c.facet = d.facet /\ c.at = d.at => c = d
  /\ \A e \in estimates : e.level \in [FacetsOf(e.dossier) -> Levels] /\ e.at \in Times
  /\ \A q \in quotations : q.estimate \in estimates /\ q.at \in Times
  /\ accepted \subseteq quotations
  /\ \A r \in releases : /\ r.quotation \in quotations /\ r.built \in Times
                         /\ r.dossier = r.quotation.estimate.dossier
                         /\ r.named \subseteq coverage
  /\ \A k \in conclusions : k.release \in releases /\ k.facet \in asked

\* "The assessment is a fact at its instant": whatever is retracted, validated
\* or computed afterwards, each evidence row says what its artifact earns as of
\* its instant, by all that is in the ledger now.  Only an artifact whose
\* ancestry was given another input later is beyond the guards.
AsComputed(a) == Ancestry(a) \cap amended = {}
AssessmentsStand ==
  \A c \in coverage : \A a \in Bearing(c) : AsComputed(a) => Stands(c, a)

\* "Held to the coverage as it stood": no assessment arrives behind an estimate
\* or a build, so what was counted and what was named is still, for every facet
\* of the dossier, the one standing at that instant.
CountsAndBuildsKeepTheirAssessments ==
  /\ \A e \in estimates : \A f \in FacetsOf(e.dossier) :
       \E c \in Latest(f, e.at) : e.level[f] = Level(c)
  /\ \A r \in releases :
       r.named = UNION {Latest(f, r.built) : f \in FacetsOf(r.dossier)}

\* "What was disallowed for customer delivery holds nothing up", nor what was
\* corrected, withdrawn, refuted or out of date: a conclusion rests on an
\* artifact that was usable when the assessment its release was built over was
\* made, by all that is known now of that instant.
ConclusionsRestOnUsableEvidence ==
  \A k \in conclusions :
    AsComputed(k.artifact) =>
      \E c \in Latest(k.facet, k.release.built) :
        /\ k.artifact \in Bearing(c) /\ artifact[k.artifact].deliverable
        /\ \A r \in retracted : r.record \in Reads(k.artifact) => r.issued > c.at
        /\ ~Refuted(k.artifact, c.at)
        /\ artifact[k.artifact].horizon # None => artifact[k.artifact].horizon >= c.at

\* A release "built after the corpus moved under its named row" is refused: what
\* it names as usable would be assessed PRESENT again at the build, by all that
\* is known then.  An artifact assessed at the very instant its horizon ends is
\* the exception: it counts as within it, and the build does not look again.
EvidenceIsPresentAtTheBuild ==
  [][\A r \in releases' \ releases : \A c \in r.named : \A a \in Usable(c) :
       AsComputed(a) /\ artifact[a].horizon # c.at =>
         Expected(Bearing(c), r.built, a) = "PRESENT"]_vars
=============================================================================
