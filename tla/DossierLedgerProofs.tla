------------------------ MODULE DossierLedgerProofs ------------------------
(***************************************************************************)
(* The keys and guards of the dossier ledger hold what its comments say,   *)
(* for any corpus, any artifacts and any number of rows: an assessment     *)
(* stays a fact at its instant, counts and builds keep theirs, and a       *)
(* conclusion rests on evidence that was usable then.                      *)
(***************************************************************************)
EXTENDS DossierLedger, TLAPS

-----------------------------------------------------------------------------
(* What an artifact reads, through the artifacts it read. *)

\* An artifact is of its own ancestry, which holds all that its members read.
LEMMA AncestryIsClosed ==
  ASSUME inputs \subseteq InputRow, NEW a \in Artifacts
  PROVE  a \in Ancestry(a) /\ Follows(Ancestry(a)) /\ Ancestry(a) \in SUBSET Artifacts
<1>1. a \in Ancestry(a) /\ Ancestry(a) \in SUBSET Artifacts
  BY DEF Ancestry
<1>2. ASSUME NEW i \in inputs, i.artifact \in Ancestry(a), i.reads \notin Records
      PROVE  i.reads \in Ancestry(a)
  <2>1. i.reads \in Artifacts
    BY <1>2 DEF InputRow
  <2>2. ASSUME NEW S \in SUBSET Artifacts, a \in S, Follows(S)
        PROVE  i.reads \in S
    BY <1>2, <2>2 DEF Ancestry, Follows
  <2>. QED  BY <2>1, <2>2 DEF Ancestry
<1>. QED  BY <1>1, <1>2 DEF Follows

\* The same after a step.
LEMMA AncestryIsClosedNext ==
  ASSUME inputs' \subseteq InputRow, NEW a \in Artifacts
  PROVE  a \in Ancestry(a)' /\ Follows(Ancestry(a))' /\ Ancestry(a)' \in SUBSET Artifacts
<1>1. a \in Ancestry(a)' /\ Ancestry(a)' \in SUBSET Artifacts
  BY DEF Ancestry
<1>2. ASSUME NEW i \in inputs', i.artifact \in Ancestry(a)', i.reads \notin Records
      PROVE  i.reads \in Ancestry(a)'
  <2>1. i.reads \in Artifacts
    BY <1>2 DEF InputRow
  <2>2. ASSUME NEW S \in SUBSET Artifacts, a \in S, Follows(S)'
        PROVE  i.reads \in S
    BY <1>2, <2>2 DEF Ancestry, Follows
  <2>. QED  BY <2>1, <2>2 DEF Ancestry
<1>. QED  BY <1>1, <1>2 DEF Follows

\* Inputs of n are nothing to an artifact that n is no ancestor of.
LEMMA InputsOfAnother ==
  ASSUME inputs' \subseteq InputRow, inputs \subseteq inputs',
         NEW n, \A i \in inputs' : i \notin inputs => i.artifact = n,
         NEW a \in Artifacts
  PROVE  /\ Ancestry(a) \subseteq Ancestry(a)'
         /\ n \notin Ancestry(a) => /\ Ancestry(a)' = Ancestry(a)
                                    /\ Reads(a)' = Reads(a)
<1>1. inputs \subseteq InputRow
  OBVIOUS
<1>2. Ancestry(a) \subseteq Ancestry(a)'
  <2>1. Follows(Ancestry(a)')
    BY AncestryIsClosedNext DEF Follows
  <2>. QED  BY <2>1, AncestryIsClosedNext DEF Ancestry
<1>3. ASSUME n \notin Ancestry(a)
      PROVE  Ancestry(a)' = Ancestry(a)
  <2>1. \A i \in inputs' : i.artifact \in Ancestry(a) => i.reads \in Ancestry(a) \cup Records
    BY <1>1, <1>3, AncestryIsClosed DEF Follows
  <2>2. Ancestry(a)' \subseteq Ancestry(a)
    <3>1. Ancestry(a) \in SUBSET Artifacts /\ a \in Ancestry(a)
      BY <1>1, AncestryIsClosed
    <3>2. ASSUME NEW A, A = Ancestry(a), NEW b \in Ancestry(a)'
          PROVE  b \in A
      <4>1. \A S \in SUBSET Artifacts :
              a \in S /\ (\A i \in inputs' : i.artifact \in S => i.reads \in S \cup Records)
                => b \in S
        BY <3>2 DEF Ancestry, Follows
      <4>. QED  BY <4>1, <3>1, <3>2, <2>1
    <3>. QED  BY <3>2
  <2>. QED  BY <1>2, <2>2
<1>4. ASSUME n \notin Ancestry(a)
      PROVE  Reads(a)' = Reads(a)
  BY <1>3, <1>4 DEF Reads
<1>. QED  BY <1>2, <1>3, <1>4

\* What artifacts read has been computed, so all of an ancestry has.
LEMMA AncestryIsComputed ==
  ASSUME TypeOK, NEW a \in Computed
  PROVE  Ancestry(a) \subseteq Computed
<1>1. Computed \in SUBSET Artifacts
  BY DEF Computed
<1>2. Follows(Computed)
  BY DEF TypeOK, Follows
<1>. QED  BY <1>1, <1>2 DEF Ancestry

\* What an artifact earns is decided by what it reads, by its own validations
\* and by the rows of the artifacts beside it.
LEMMA EarnedFromItsOwn ==
  ASSUME NEW bearing, bearing \subseteq Computed, NEW a \in bearing, NEW t,
         \A b \in Computed : artifact'[b] = artifact[b],
         Reads(a)' = Reads(a),
         \A r : r.record \in Reads(a) => (r \in retracted' <=> r \in retracted),
         \A v : v.artifact = a => (v \in validations' <=> v \in validations)
  PROVE  Expected(bearing, t, a)' = Expected(bearing, t, a)
<1>1. artifact'[a] = artifact[a]
  OBVIOUS
<1>2. \A kind : TakenBack(a, kind, t)' = TakenBack(a, kind, t)
  BY DEF TakenBack
<1>3. Refuted(a, t)' = Refuted(a, t)
  BY DEF Refuted
<1>4. Disagreeing(bearing, a)' = Disagreeing(bearing, a)
  BY <1>1 DEF Disagreeing
<1>. QED  BY <1>1, <1>2, <1>3, <1>4 DEF Expected

\* A row whose artifacts keep their rows keeps its level.
LEMMA LevelFromItsOwn ==
  ASSUME NEW c, Bearing(c) \subseteq Computed,
         \A b \in Computed : artifact'[b] = artifact[b]
  PROVE  Level(c)' = Level(c)
<1>1. Usable(c)' = Usable(c) /\ Usable(c) \subseteq Computed
  BY DEF Usable, Bearing
<1>2. {artifact[a].run : a \in Usable(c)}' = {artifact[a].run : a \in Usable(c)}
  BY <1>1
<1>. QED  BY <1>1, <1>2 DEF Level

-----------------------------------------------------------------------------
(* Types and keys. *)

LEMMA TypeInitially == ASSUME Init PROVE TypeOK
BY DEF Init, TypeOK, Computed, ArtifactRow

LEMMA ComputeKeepsTypes ==
  ASSUME TypeOK, NEW a \in Artifacts, NEW row \in Candidates[a],
         NEW read \in SUBSET (Records \cup Artifacts), Compute(a, row, read)
  PROVE  TypeOK' /\ Computed' = Computed \cup {a}
<1>1. row \in ArtifactRow /\ row # None
  BY RowsOfTheCorpus
<1>2. artifact' \in [Artifacts -> ArtifactRow \cup {None}]
  BY <1>1 DEF TypeOK, Compute
<1>3. Computed' = Computed \cup {a}
  BY <1>1 DEF TypeOK, Compute, Computed
<1>4. inputs' \subseteq InputRow
  BY DEF TypeOK, Compute, InputRow
<1>5. \A i \in inputs' : {i.artifact, i.reads} \subseteq Computed' \cup Records
  BY <1>3 DEF TypeOK, Compute, MayRead
<1>6. \A c \in coverage' : CoverageRow(c)'
  BY <1>3 DEF TypeOK, Compute, CoverageRow, Bearing, work
<1>7. \A e : (FacetsOf(e.dossier))' = FacetsOf(e.dossier)
  BY DEF Compute, FacetsOf, work
<1>. QED  BY <1>2, <1>3, <1>4, <1>5, <1>6, <1>7 DEF TypeOK, Compute, work

LEMMA ReadAlsoKeepsTypes ==
  ASSUME TypeOK, NEW a \in Artifacts, NEW x \in Records \cup Artifacts, ReadAlso(a, x)
  PROVE  TypeOK' /\ Computed' = Computed
<1>1. Computed' = Computed
  BY DEF ReadAlso, Computed
<1>2. inputs' \subseteq InputRow
  BY DEF TypeOK, ReadAlso, InputRow
<1>3. \A i \in inputs' : {i.artifact, i.reads} \subseteq Computed' \cup Records
  BY <1>1 DEF TypeOK, ReadAlso, MayRead
<1>4. amended' \subseteq Computed'
  BY <1>1 DEF TypeOK, ReadAlso
<1>5. \A c \in coverage' : CoverageRow(c)'
  BY <1>1 DEF TypeOK, ReadAlso, CoverageRow, Bearing, work
<1>6. \A e : (FacetsOf(e.dossier))' = FacetsOf(e.dossier)
  BY DEF ReadAlso, FacetsOf, work
<1>. QED  BY <1>1, <1>2, <1>3, <1>4, <1>5, <1>6 DEF TypeOK, ReadAlso, work

\* The other actions leave the artifacts and what they read alone.
LEMMA AncestryStays ==
  ASSUME UNCHANGED <<artifact, inputs>>
  PROVE  /\ Computed' = Computed
         /\ \A a : Ancestry(a)' = Ancestry(a) /\ Reads(a)' = Reads(a)
BY DEF Computed, Ancestry, Follows, Reads

LEMMA RetractKeepsTypes ==
  ASSUME TypeOK, NEW row \in RetractionRow, Retract(row)
  PROVE  TypeOK'
<1>1. Computed' = Computed
  BY DEF Retract, Computed
<1>2. \A c \in coverage' : CoverageRow(c)'
  BY <1>1 DEF TypeOK, Retract, CoverageRow, Bearing, work
<1>3. \A e : (FacetsOf(e.dossier))' = FacetsOf(e.dossier)
  BY DEF Retract, FacetsOf, work
<1>. QED  BY <1>1, <1>2, <1>3 DEF TypeOK, Retract, work

LEMMA ValidateKeepsTypes ==
  ASSUME TypeOK, NEW row \in ValidationRow, Validate(row)
  PROVE  TypeOK'
<1>1. Computed' = Computed
  BY DEF Validate, Computed
<1>2. \A c \in coverage' : CoverageRow(c)'
  BY <1>1 DEF TypeOK, Validate, CoverageRow, Bearing, work
<1>3. \A e : (FacetsOf(e.dossier))' = FacetsOf(e.dossier)
  BY DEF Validate, FacetsOf, work
<1>4. \A v, w \in validations' : v.artifact = w.artifact /\ v.at = w.at => v = w
  BY DEF TypeOK, Validate
<1>. QED  BY <1>1, <1>2, <1>3, <1>4 DEF TypeOK, Validate, work

\* A dossier that was counted or built over is asked no further facet.
LEMMA FacetsStay ==
  ASSUME NEW f \in Facets, Ask(f), NEW d, d # DossierOf[f]
  PROVE  FacetsOf(d)' = FacetsOf(d)
BY DEF Ask, FacetsOf

LEMMA AskKeepsTypes ==
  ASSUME TypeOK, NEW f \in Facets, Ask(f)
  PROVE  TypeOK'
<1>1. Computed' = Computed
  BY DEF Ask, Computed, facts
<1>2. \A c \in coverage' : CoverageRow(c)'
  BY <1>1 DEF TypeOK, Ask, CoverageRow, Bearing
<1>3. \A e \in estimates : (FacetsOf(e.dossier))' = FacetsOf(e.dossier)
  BY FacetsStay DEF Ask
<1>. QED  BY <1>1, <1>2, <1>3 DEF TypeOK, Ask, facts

LEMMA AssessKeepsTypes ==
  ASSUME TypeOK, NEW f \in Facets, NEW bearing \in SUBSET Artifacts, NEW t \in Times,
         Assess(f, bearing, t)
  PROVE  TypeOK'
<1>. DEFINE new == [facet |-> f, at |-> t,
                    evidence |-> [a \in bearing |-> Expected(bearing, t, a)]]
<1>1. Computed' = Computed
  BY DEF Assess, Computed, facts
<1>2. coverage' = coverage \cup {new} /\ bearing \subseteq Computed /\ f \in asked
  BY DEF Assess
<1>3. ASSUME NEW row, row = new
      PROVE  CoverageRow(row)'
  <2>1. \A a \in bearing : Expected(bearing, t, a) \in Assessments
    BY DEF Expected, Assessments
  <2>2. row.facet = f /\ row.at = t /\ Bearing(row) = bearing
    BY <1>3 DEF Bearing
  <2>3. row.evidence \in [bearing -> Assessments]
    BY <1>3, <2>1
  <2>4. row = [facet |-> row.facet, at |-> row.at, evidence |-> row.evidence]
    BY <1>3
  <2>5. asked' = asked /\ bearing \subseteq Computed'
    BY <1>1, <1>2 DEF Assess
  <2>. QED  BY <1>2, <2>2, <2>3, <2>4, <2>5 DEF CoverageRow, Bearing
<1>4. \A c \in coverage : CoverageRow(c)'
  BY <1>1 DEF TypeOK, Assess, CoverageRow, Bearing
<1>8. \A c \in coverage' : CoverageRow(c)'
  BY <1>2, <1>3, <1>4
<1>5. \A c, d \in coverage' : c.facet = d.facet /\ c.at = d.at => c = d
  <2>1. \A c \in coverage : c.facet = f => c.at # t
    BY TimesAreNatural DEF TypeOK, Assess, CoverageRow
  <2>. QED  BY <1>2, <2>1 DEF TypeOK
<1>6. \A e : (FacetsOf(e.dossier))' = FacetsOf(e.dossier)
  BY DEF Assess, FacetsOf
<1>7. \A r \in releases' : r.named \subseteq coverage'
  BY <1>2 DEF TypeOK, Assess
<1>. QED  BY <1>1, <1>2, <1>5, <1>6, <1>7, <1>8 DEF TypeOK, Assess, facts

\* What only adds to the estimates, quotations, releases and conclusions.
LEMMA CommerceKeepsTypes ==
  ASSUME TypeOK, UNCHANGED <<facts, asked, coverage>>
  PROVE  /\ Computed' = Computed
         /\ \A c \in coverage' : CoverageRow(c)'
         /\ \A d : FacetsOf(d)' = FacetsOf(d)
BY DEF TypeOK, facts, Computed, CoverageRow, Bearing, FacetsOf

LEMMA EstimateKeepsTypes ==
  ASSUME TypeOK, NEW d \in Dossiers, NEW t \in Times, Estimate(d, t)
  PROVE  TypeOK'
<1>. DEFINE new == [dossier |-> d, at |-> t,
                    level |-> [f \in FacetsOf(d) |-> Level(CHOOSE c \in Latest(f, t) : TRUE)]]
<1>1. UNCHANGED <<facts, asked, coverage, quotations, accepted, releases, conclusions>>
      /\ estimates' = estimates \cup {new}
  BY DEF Estimate
<1>2. new.level \in [FacetsOf(new.dossier) -> Levels] /\ new.at \in Times
  BY DEF Level, Levels
<1>3. \A e \in estimates' : e.level \in [(FacetsOf(e.dossier))' -> Levels] /\ e.at \in Times
  BY <1>1, <1>2, CommerceKeepsTypes DEF TypeOK
<1>. QED  BY <1>1, <1>3, CommerceKeepsTypes DEF TypeOK, facts

LEMMA SaleKeepsTypes ==
  ASSUME TypeOK,
         \/ \E e \in estimates, t \in Times : Quote(e, t)
         \/ \E q \in quotations : Accept(q)
         \/ \E q \in quotations, t \in Times, named \in SUBSET coverage : Release(q, t, named)
         \/ \E r \in releases, f \in Facets, a \in Artifacts : Conclude(r, f, a)
  PROVE  TypeOK'
<1>1. UNCHANGED <<facts, asked, coverage>>
  BY DEF Quote, Accept, Release, Conclude
<1>2. ASSUME NEW e \in estimates, NEW t \in Times, Quote(e, t)
      PROVE  TypeOK'
  BY <1>1, <1>2, CommerceKeepsTypes DEF TypeOK, Quote, facts
<1>3. ASSUME NEW q \in quotations, Accept(q)
      PROVE  TypeOK'
  BY <1>1, <1>3, CommerceKeepsTypes DEF TypeOK, Accept, facts
<1>4. ASSUME NEW q \in quotations, NEW t \in Times, NEW named \in SUBSET coverage,
             Release(q, t, named)
      PROVE  TypeOK'
  BY <1>1, <1>4, CommerceKeepsTypes DEF TypeOK, Release, facts
<1>5. ASSUME NEW r \in releases, NEW f \in Facets, NEW a \in Artifacts, Conclude(r, f, a)
      PROVE  TypeOK'
  <2>1. f \in asked
    BY <1>5 DEF Conclude, TypeOK, CoverageRow
  <2>. QED  BY <1>1, <1>5, <2>1, CommerceKeepsTypes DEF TypeOK, Conclude, facts
<1>. QED  BY <1>2, <1>3, <1>4, <1>5

LEMMA TypeKept == ASSUME TypeOK, [Next]_vars PROVE TypeOK'
<1>1. ASSUME NEW a \in Artifacts, NEW row \in Candidates[a],
             NEW read \in SUBSET (Records \cup Artifacts), Compute(a, row, read)
      PROVE  TypeOK'
  BY <1>1, ComputeKeepsTypes
<1>2. ASSUME NEW a \in Artifacts, NEW x \in Records \cup Artifacts, ReadAlso(a, x)
      PROVE  TypeOK'
  BY <1>2, ReadAlsoKeepsTypes
<1>3. ASSUME NEW row \in RetractionRow, Retract(row) PROVE TypeOK'
  BY <1>3, RetractKeepsTypes
<1>4. ASSUME NEW row \in ValidationRow, Validate(row) PROVE TypeOK'
  BY <1>4, ValidateKeepsTypes
<1>5. ASSUME NEW f \in Facets, Ask(f) PROVE TypeOK'
  BY <1>5, AskKeepsTypes
<1>6. ASSUME NEW f \in Facets, NEW bearing \in SUBSET Artifacts, NEW t \in Times,
             Assess(f, bearing, t)
      PROVE  TypeOK'
  BY <1>6, AssessKeepsTypes
<1>7. ASSUME NEW d \in Dossiers, NEW t \in Times, Estimate(d, t) PROVE TypeOK'
  BY <1>7, EstimateKeepsTypes
<1>8. CASE UNCHANGED vars
  <2>1. UNCHANGED <<facts, asked, coverage>>
    BY <1>8 DEF vars, work
  <2>. QED  BY <1>8, <2>1, CommerceKeepsTypes DEF TypeOK, vars, facts, work
<1>. QED  BY <1>1, <1>2, <1>3, <1>4, <1>5, <1>6, <1>7, <1>8, SaleKeepsTypes DEF Next

-----------------------------------------------------------------------------
(* An assessment stays a fact at its instant. *)

\* A step that touches nothing of what an artifact earns leaves it standing.
LEMMA UntouchedStands ==
  ASSUME TypeOK, NEW c \in coverage, NEW a \in Bearing(c), Stands(c, a),
         \A b \in Computed : artifact'[b] = artifact[b],
         Reads(a)' = Reads(a),
         \A r : r.record \in Reads(a) => (r \in retracted' <=> r \in retracted),
         \A v : v.artifact = a => (v \in validations' <=> v \in validations)
  PROVE  Stands(c, a)'
<1>1. Bearing(c) \subseteq Computed
  BY DEF TypeOK, CoverageRow
<1>2. Expected(Bearing(c), c.at, a)' = Expected(Bearing(c), c.at, a)
  BY <1>1, EarnedFromItsOwn
<1>. QED  BY <1>2 DEF Stands, Bearing

LEMMA ComputeKeepsAssessments ==
  ASSUME TypeOK, AssessmentsStand,
         NEW n \in Artifacts, NEW row \in Candidates[n],
         NEW read \in SUBSET (Records \cup Artifacts), Compute(n, row, read)
  PROVE  AssessmentsStand'
<1>1. TypeOK'
  BY ComputeKeepsTypes
<1>2. ASSUME NEW c \in coverage, NEW a \in Bearing(c), AsComputed(a)'
      PROVE  Stands(c, a)'
  <2>1. a \in Computed /\ a \in Artifacts
    BY DEF TypeOK, CoverageRow, Computed
  <2>2. n \notin Ancestry(a)
    BY <2>1, AncestryIsComputed DEF Compute, Computed
  <2>3. /\ inputs \subseteq inputs' /\ inputs' \subseteq InputRow
        /\ \A i \in inputs' : i \notin inputs => i.artifact = n
    BY <1>1 DEF Compute, TypeOK
  <2>4. Ancestry(a)' = Ancestry(a) /\ Reads(a)' = Reads(a)
    BY <2>1, <2>2, <2>3, InputsOfAnother
  <2>5. Stands(c, a)
    BY <1>2, <2>4 DEF AssessmentsStand, AsComputed, Compute
  <2>6. \A b \in Computed : artifact'[b] = artifact[b]
    BY DEF Compute, Computed, TypeOK
  <2>. QED  BY <2>4, <2>5, <2>6, UntouchedStands DEF Compute
<1>. QED  BY <1>2 DEF AssessmentsStand, Compute, work, Bearing

\* An artifact that stays as it was computed has no ancestor the input is added to.
LEMMA ReadAlsoKeepsAssessments ==
  ASSUME TypeOK, AssessmentsStand,
         NEW n \in Artifacts, NEW x \in Records \cup Artifacts, ReadAlso(n, x)
  PROVE  AssessmentsStand'
<1>1. TypeOK'
  BY ReadAlsoKeepsTypes
<1>2. ASSUME NEW c \in coverage, NEW a \in Bearing(c), AsComputed(a)'
      PROVE  Stands(c, a)'
  <2>1. a \in Artifacts
    BY DEF TypeOK, CoverageRow, Computed
  <2>2. /\ inputs \subseteq inputs' /\ inputs' \subseteq InputRow
        /\ \A i \in inputs' : i \notin inputs => i.artifact = n
    BY <1>1 DEF ReadAlso, TypeOK
  <2>3. n \notin Ancestry(a)'
    BY <1>2 DEF AsComputed, ReadAlso
  <2>4. Ancestry(a)' = Ancestry(a) /\ Reads(a)' = Reads(a)
    BY <2>1, <2>2, <2>3, InputsOfAnother
  <2>5. Stands(c, a)
    BY <1>2, <2>4 DEF AssessmentsStand, AsComputed, ReadAlso
  <2>. QED  BY <2>4, <2>5, UntouchedStands DEF ReadAlso
<1>. QED  BY <1>2 DEF AssessmentsStand, ReadAlso, work, Bearing

\* The trigger asks after every reader; nobody else earns anything else.
LEMMA RetractKeepsAssessments ==
  ASSUME TypeOK, AssessmentsStand, NEW row \in RetractionRow, Retract(row)
  PROVE  AssessmentsStand'
<1>1. UNCHANGED <<artifact, inputs>>
  BY DEF Retract
<1>2. ASSUME NEW c \in coverage, NEW a \in Bearing(c), AsComputed(a)'
      PROVE  Stands(c, a)'
  <2>1. CASE row.record \in Reads(a)
    BY <2>1 DEF Retract
  <2>2. CASE row.record \notin Reads(a)
    <3>1. Stands(c, a)
      BY <1>1, <1>2, AncestryStays DEF AssessmentsStand, AsComputed, Retract
    <3>2. Reads(a)' = Reads(a)
      BY <1>1, AncestryStays
    <3>. QED  BY <2>2, <3>1, <3>2, UntouchedStands DEF Retract
  <2>. QED  BY <2>1, <2>2
<1>. QED  BY <1>2 DEF AssessmentsStand, Retract, work, Bearing

LEMMA ValidateKeepsAssessments ==
  ASSUME TypeOK, AssessmentsStand, NEW row \in ValidationRow, Validate(row)
  PROVE  AssessmentsStand'
<1>1. UNCHANGED <<artifact, inputs>>
  BY DEF Validate
<1>2. ASSUME NEW c \in coverage, NEW a \in Bearing(c), AsComputed(a)'
      PROVE  Stands(c, a)'
  <2>1. CASE a = row.artifact
    BY <2>1 DEF Validate
  <2>2. CASE a # row.artifact
    <3>1. Stands(c, a)
      BY <1>1, <1>2, AncestryStays DEF AssessmentsStand, AsComputed, Validate
    <3>2. Reads(a)' = Reads(a)
      BY <1>1, AncestryStays
    <3>. QED  BY <2>2, <3>1, <3>2, UntouchedStands DEF Validate
  <2>. QED  BY <2>1, <2>2
<1>. QED  BY <1>2 DEF AssessmentsStand, Validate, work, Bearing

\* What the other actions leave alone.
LEMMA FactsKeepAssessments ==
  ASSUME TypeOK, AssessmentsStand, UNCHANGED facts
  PROVE  \A c \in coverage : \A a \in Bearing(c) : AsComputed(a)' => Stands(c, a)'
<1>1. UNCHANGED <<artifact, inputs, retracted, validations, amended>>
  BY DEF facts
<1>2. ASSUME NEW c \in coverage, NEW a \in Bearing(c), AsComputed(a)'
      PROVE  Stands(c, a)'
  <2>1. Reads(a)' = Reads(a) /\ Ancestry(a)' = Ancestry(a)
    BY <1>1, AncestryStays
  <2>2. Stands(c, a)
    BY <1>1, <1>2, <2>1 DEF AssessmentsStand, AsComputed
  <2>. QED  BY <1>1, <2>1, <2>2, UntouchedStands
<1>. QED  BY <1>2

LEMMA AssessKeepsAssessments ==
  ASSUME TypeOK, AssessmentsStand,
         NEW f \in Facets, NEW bearing \in SUBSET Artifacts, NEW t \in Times,
         Assess(f, bearing, t)
  PROVE  AssessmentsStand'
<1>. DEFINE new == [facet |-> f, at |-> t,
                    evidence |-> [a \in bearing |-> Expected(bearing, t, a)]]
<1>1. coverage' = coverage \cup {new} /\ UNCHANGED facts /\ bearing \subseteq Computed
  BY DEF Assess
<1>2. ASSUME NEW row, row = new, NEW a \in Bearing(row)
      PROVE  Stands(row, a)'
  <2>1. Bearing(row) = bearing /\ row.at = t /\ row.evidence[a] = Expected(bearing, t, a)
    BY <1>2 DEF Bearing
  <2>2. UNCHANGED <<artifact, inputs, retracted, validations>>
    BY <1>1 DEF facts
  <2>3. Expected(bearing, t, a)' = Expected(bearing, t, a)
    BY <1>1, <2>1, <2>2, AncestryStays, EarnedFromItsOwn
  <2>. QED  BY <2>1, <2>3 DEF Stands, Bearing
<1>3. \A c \in coverage' : \A a \in Bearing(c) : AsComputed(a)' => Stands(c, a)'
  BY <1>1, <1>2, FactsKeepAssessments
<1>. QED  BY <1>3 DEF AssessmentsStand, Bearing

LEMMA AssessmentsKept ==
  ASSUME TypeOK, AssessmentsStand, [Next]_vars
  PROVE  AssessmentsStand'
<1>1. ASSUME UNCHANGED <<facts, coverage>> PROVE AssessmentsStand'
  BY <1>1, FactsKeepAssessments DEF AssessmentsStand, Bearing
<1>2. CASE UNCHANGED vars
  BY <1>1, <1>2 DEF vars, work
<1>3. ASSUME NEW f \in Facets, Ask(f) PROVE AssessmentsStand'
  BY <1>1, <1>3 DEF Ask
<1>4. ASSUME NEW d \in Dossiers, NEW t \in Times, Estimate(d, t) PROVE AssessmentsStand'
  BY <1>1, <1>4 DEF Estimate
<1>5. ASSUME NEW e \in estimates, NEW t \in Times, Quote(e, t) PROVE AssessmentsStand'
  BY <1>1, <1>5 DEF Quote
<1>6. ASSUME NEW q \in quotations, Accept(q) PROVE AssessmentsStand'
  BY <1>1, <1>6 DEF Accept
<1>7. ASSUME NEW q \in quotations, NEW t \in Times, NEW named \in SUBSET coverage,
             Release(q, t, named)
      PROVE  AssessmentsStand'
  BY <1>1, <1>7 DEF Release
<1>8. ASSUME NEW r \in releases, NEW f \in Facets, NEW a \in Artifacts, Conclude(r, f, a)
      PROVE  AssessmentsStand'
  BY <1>1, <1>8 DEF Conclude
<1>. QED  BY <1>2, <1>3, <1>4, <1>5, <1>6, <1>7, <1>8, ComputeKeepsAssessments,
             ReadAlsoKeepsAssessments, RetractKeepsAssessments,
             ValidateKeepsAssessments, AssessKeepsAssessments DEF Next

-----------------------------------------------------------------------------
(* Counts and builds keep the assessments they were made over. *)

\* Of one facet, one assessment stands at an instant.
LEMMA OneLatest ==
  ASSUME TypeOK, NEW f, NEW t, NEW c \in Latest(f, t), NEW d \in Latest(f, t)
  PROVE  c = d
<1>1. c \in coverage /\ d \in coverage /\ c.facet = d.facet /\ c.at <= d.at /\ d.at <= c.at
  BY DEF Latest
<1>2. c.at \in Nat /\ d.at \in Nat
  BY <1>1, TimesAreNatural DEF TypeOK, CoverageRow
<1>3. c.at = d.at
  BY <1>1, <1>2
<1>. QED  BY <1>1, <1>3 DEF TypeOK

\* An assessment changes what stands for its own facet from its own instant on.
LEMMA LatestBefore ==
  ASSUME TypeOK, NEW f \in Facets, NEW bearing \in SUBSET Artifacts, NEW t \in Times,
         Assess(f, bearing, t), NEW g, NEW u \in Times, g # f \/ u < t
  PROVE  Latest(g, u)' = Latest(g, u)
<1>. DEFINE new == [facet |-> f, at |-> t,
                    evidence |-> [a \in bearing |-> Expected(bearing, t, a)]]
<1>1. coverage' = coverage \cup {new}
  BY DEF Assess
<1>2. ASSUME NEW row, row = new
      PROVE  ~(row.facet = g /\ row.at <= u)
  BY <1>2, TimesAreNatural
<1>. QED  BY <1>1, <1>2 DEF Latest

\* What keeps the facets of a dossier and what stands for them keeps its counts
\* and its builds.
LEMMA CountedStays ==
  ASSUME TypeOK, CountsAndBuildsKeepTheirAssessments,
         \A b \in Computed : artifact'[b] = artifact[b],
         \A e \in estimates \cup releases : FacetsOf(e.dossier)' = FacetsOf(e.dossier),
         \A e \in estimates : \A f \in FacetsOf(e.dossier) :
            Latest(f, e.at)' = Latest(f, e.at),
         \A r \in releases : \A f \in FacetsOf(r.dossier) :
            Latest(f, r.built)' = Latest(f, r.built)
  PROVE  /\ \A e \in estimates : \A f \in FacetsOf(e.dossier)' :
              \E c \in Latest(f, e.at)' : e.level[f] = Level(c)'
         /\ \A r \in releases :
              r.named = UNION {Latest(f, r.built)' : f \in FacetsOf(r.dossier)'}
<1>1. ASSUME NEW e \in estimates, NEW f \in FacetsOf(e.dossier)
      PROVE  \E c \in Latest(f, e.at)' : e.level[f] = Level(c)'
  <2>1. PICK c \in Latest(f, e.at) : e.level[f] = Level(c)
    BY DEF CountsAndBuildsKeepTheirAssessments
  <2>2. Bearing(c) \subseteq Computed
    BY DEF Latest, TypeOK, CoverageRow
  <2>3. Level(c)' = Level(c)
    BY <2>2, LevelFromItsOwn
  <2>. QED  BY <2>1, <2>3
<1>2. ASSUME NEW r \in releases
      PROVE  r.named = UNION {Latest(f, r.built)' : f \in FacetsOf(r.dossier)'}
  <2>1. r.named = UNION {Latest(f, r.built) : f \in FacetsOf(r.dossier)}
    BY DEF CountsAndBuildsKeepTheirAssessments
  <2>2. FacetsOf(r.dossier)' = FacetsOf(r.dossier)
    OBVIOUS
  <2>3. {Latest(f, r.built)' : f \in FacetsOf(r.dossier)}
          = {Latest(f, r.built) : f \in FacetsOf(r.dossier)}
    OBVIOUS
  <2>. QED  BY <2>1, <2>2, <2>3
<1>. QED  BY <1>1, <1>2

\* Steps that leave the assessments and the facets alone.
LEMMA CoverageKeepsCounts ==
  ASSUME TypeOK, CountsAndBuildsKeepTheirAssessments, UNCHANGED <<asked, coverage>>,
         \A b \in Computed : artifact'[b] = artifact[b]
  PROVE  /\ \A d : FacetsOf(d)' = FacetsOf(d)
         /\ \A f, t : Latest(f, t)' = Latest(f, t)
         /\ \A e \in estimates : \A f \in FacetsOf(e.dossier)' :
              \E c \in Latest(f, e.at)' : e.level[f] = Level(c)'
         /\ \A r \in releases :
              r.named = UNION {Latest(f, r.built)' : f \in FacetsOf(r.dossier)'}
<1>1. \A d : FacetsOf(d)' = FacetsOf(d)
  BY DEF FacetsOf
<1>2. \A f, t : Latest(f, t)' = Latest(f, t)
  BY DEF Latest
<1>. QED  BY <1>1, <1>2, CountedStays

LEMMA AssessKeepsCounts ==
  ASSUME TypeOK, CountsAndBuildsKeepTheirAssessments,
         NEW f \in Facets, NEW bearing \in SUBSET Artifacts, NEW t \in Times,
         Assess(f, bearing, t)
  PROVE  CountsAndBuildsKeepTheirAssessments'
<1>1. UNCHANGED <<artifact, estimates, releases>>
  BY DEF Assess, facts
<1>2. \A d : FacetsOf(d)' = FacetsOf(d)
  BY DEF Assess, FacetsOf
<1>3. ASSUME NEW e \in estimates, NEW g \in FacetsOf(e.dossier)
      PROVE  Latest(g, e.at)' = Latest(g, e.at)
  <2>1. g # f \/ e.at < t
    BY <1>3 DEF Assess, ReadAt, FacetsOf
  <2>. QED  BY <2>1, LatestBefore DEF TypeOK
<1>4. ASSUME NEW r \in releases, NEW g \in FacetsOf(r.dossier)
      PROVE  Latest(g, r.built)' = Latest(g, r.built)
  <2>1. g # f \/ r.built < t
    BY <1>4 DEF Assess, ReadAt, FacetsOf
  <2>2. r.built \in Times
    BY DEF TypeOK
  <2>. QED  BY <2>1, <2>2, LatestBefore
<1>. QED  BY <1>1, <1>2, <1>3, <1>4, CountedStays DEF CountsAndBuildsKeepTheirAssessments

LEMMA AskKeepsCounts ==
  ASSUME TypeOK, CountsAndBuildsKeepTheirAssessments, NEW f \in Facets, Ask(f)
  PROVE  CountsAndBuildsKeepTheirAssessments'
<1>1. UNCHANGED <<artifact, coverage, estimates, releases>>
  BY DEF Ask, facts
<1>2. \A e \in estimates \cup releases : FacetsOf(e.dossier)' = FacetsOf(e.dossier)
  BY FacetsStay DEF Ask
<1>3. \A g, t : Latest(g, t)' = Latest(g, t)
  BY <1>1 DEF Latest
<1>. QED  BY <1>1, <1>2, <1>3, CountedStays DEF CountsAndBuildsKeepTheirAssessments

LEMMA EstimateKeepsCounts ==
  ASSUME TypeOK, CountsAndBuildsKeepTheirAssessments,
         NEW d \in Dossiers, NEW t \in Times, Estimate(d, t)
  PROVE  CountsAndBuildsKeepTheirAssessments'
<1>. DEFINE new == [dossier |-> d, at |-> t,
                    level |-> [f \in FacetsOf(d) |-> Level(CHOOSE c \in Latest(f, t) : TRUE)]]
<1>1. /\ UNCHANGED <<artifact, asked, coverage, releases>>
      /\ estimates' = estimates \cup {new}
      /\ \A f \in FacetsOf(d) : Latest(f, t) # {}
  BY DEF Estimate, facts
<1>2. ASSUME NEW row, row = new, NEW f \in FacetsOf(row.dossier)'
      PROVE  \E c \in Latest(f, row.at)' : row.level[f] = Level(c)'
  <2>1. f \in FacetsOf(d) /\ row.at = t
    BY <1>1, <1>2, CoverageKeepsCounts
  <2>2. PICK c \in Latest(f, t) : c = CHOOSE x \in Latest(f, t) : TRUE
    BY <1>1, <2>1
  <2>3. row.level[f] = Level(c)
    BY <1>2, <2>1, <2>2
  <2>4. Level(c)' = Level(c)
    BY <1>1, LevelFromItsOwn DEF Latest, TypeOK, CoverageRow
  <2>. QED  BY <1>1, <2>1, <2>3, <2>4, CoverageKeepsCounts
<1>. QED  BY <1>1, <1>2, CoverageKeepsCounts DEF CountsAndBuildsKeepTheirAssessments

\* What a release names is all that stands for the facets of its dossier.
LEMMA ReleaseKeepsCounts ==
  ASSUME TypeOK, CountsAndBuildsKeepTheirAssessments,
         NEW q \in quotations, NEW t \in Times, NEW named \in SUBSET coverage,
         Release(q, t, named)
  PROVE  CountsAndBuildsKeepTheirAssessments'
<1>. DEFINE d == q.estimate.dossier
            new == [dossier |-> d, quotation |-> q, built |-> t, named |-> named]
<1>1. /\ UNCHANGED <<artifact, asked, coverage, estimates>>
      /\ releases' = releases \cup {new}
      /\ \A c \in named : DossierOf[c.facet] = d /\ c \in Latest(c.facet, t)
      /\ FacetsOf(d) \subseteq {c.facet : c \in named}
  BY DEF Release, facts
<1>2. named = UNION {Latest(f, t) : f \in FacetsOf(d)}
  <2>1. ASSUME NEW c \in named
        PROVE  c \in UNION {Latest(f, t) : f \in FacetsOf(d)}
    BY <1>1 DEF FacetsOf, TypeOK, CoverageRow
  <2>2. ASSUME NEW f \in FacetsOf(d), NEW x \in Latest(f, t)
        PROVE  x \in named
    <3>1. PICK c \in named : c.facet = f
      BY <1>1
    <3>2. c \in Latest(f, t)
      BY <1>1, <3>1
    <3>. QED  BY <3>2, OneLatest
  <2>. QED  BY <2>1, <2>2
<1>3. /\ FacetsOf(d)' = FacetsOf(d)
      /\ \A f : Latest(f, t)' = Latest(f, t)
  BY <1>1 DEF FacetsOf, Latest
<1>4. named = UNION {Latest(f, t)' : f \in FacetsOf(d)'}
  BY <1>2, <1>3
<1>5. new.named = UNION {Latest(f, new.built)' : f \in FacetsOf(new.dossier)'}
  BY <1>4
<1>. HIDE DEF new
<1>6. /\ \A e \in estimates' : \A f \in FacetsOf(e.dossier)' :
           \E c \in Latest(f, e.at)' : e.level[f] = Level(c)'
      /\ \A r \in releases :
           r.named = UNION {Latest(f, r.built)' : f \in FacetsOf(r.dossier)'}
  BY <1>1, CoverageKeepsCounts
<1>7. \A r \in releases' :
        r.named = UNION {Latest(f, r.built)' : f \in FacetsOf(r.dossier)'}
  BY <1>1, <1>5, <1>6
<1>. QED  BY <1>6, <1>7 DEF CountsAndBuildsKeepTheirAssessments

LEMMA CountsKept ==
  ASSUME TypeOK, CountsAndBuildsKeepTheirAssessments, [Next]_vars
  PROVE  CountsAndBuildsKeepTheirAssessments'
<1>1. ASSUME UNCHANGED <<asked, coverage, estimates, releases>>,
             \A b \in Computed : artifact'[b] = artifact[b]
      PROVE  CountsAndBuildsKeepTheirAssessments'
  BY <1>1, CoverageKeepsCounts DEF CountsAndBuildsKeepTheirAssessments
<1>2. CASE UNCHANGED vars
  BY <1>1, <1>2 DEF vars, work, facts
<1>3. ASSUME NEW a \in Artifacts, NEW row \in Candidates[a],
             NEW read \in SUBSET (Records \cup Artifacts), Compute(a, row, read)
      PROVE  CountsAndBuildsKeepTheirAssessments'
  <2>1. \A b \in Computed : artifact'[b] = artifact[b]
    BY <1>3 DEF Compute, Computed, TypeOK
  <2>. QED  BY <1>1, <1>3, <2>1 DEF Compute, work
<1>4. ASSUME NEW a \in Artifacts, NEW x \in Records \cup Artifacts, ReadAlso(a, x)
      PROVE  CountsAndBuildsKeepTheirAssessments'
  BY <1>1, <1>4 DEF ReadAlso, work
<1>5. ASSUME NEW row \in RetractionRow, Retract(row)
      PROVE  CountsAndBuildsKeepTheirAssessments'
  BY <1>1, <1>5 DEF Retract, work
<1>6. ASSUME NEW row \in ValidationRow, Validate(row)
      PROVE  CountsAndBuildsKeepTheirAssessments'
  BY <1>1, <1>6 DEF Validate, work
<1>7. ASSUME NEW e \in estimates, NEW t \in Times, Quote(e, t)
      PROVE  CountsAndBuildsKeepTheirAssessments'
  BY <1>1, <1>7 DEF Quote, facts
<1>8. ASSUME NEW q \in quotations, Accept(q)
      PROVE  CountsAndBuildsKeepTheirAssessments'
  BY <1>1, <1>8 DEF Accept, facts
<1>9. ASSUME NEW r \in releases, NEW f \in Facets, NEW a \in Artifacts, Conclude(r, f, a)
      PROVE  CountsAndBuildsKeepTheirAssessments'
  BY <1>1, <1>9 DEF Conclude, facts
<1>. QED  BY <1>2, <1>3, <1>4, <1>5, <1>6, <1>7, <1>8, <1>9, AskKeepsCounts,
             AssessKeepsCounts, EstimateKeepsCounts, ReleaseKeepsCounts DEF Next

-----------------------------------------------------------------------------
(* What a conclusion rests on. *)

\* It was chosen from a row its release names, which no later step renames.
ConclusionsAreNamed ==
  \A k \in conclusions :
    \E c \in k.release.named : c.facet = k.facet /\ k.artifact \in Usable(c)

LEMMA NamedKept ==
  ASSUME ConclusionsAreNamed, [Next]_vars
  PROVE  ConclusionsAreNamed'
<1>1. ASSUME UNCHANGED conclusions PROVE ConclusionsAreNamed'
  BY <1>1 DEF ConclusionsAreNamed, Usable, Bearing
<1>2. ASSUME NEW r \in releases, NEW f \in Facets, NEW a \in Artifacts, Conclude(r, f, a)
      PROVE  ConclusionsAreNamed'
  BY <1>2 DEF Conclude, ConclusionsAreNamed, Usable, Bearing
<1>. QED  BY <1>1, <1>2 DEF Next, vars, work, Compute, ReadAlso, Retract, Validate,
             Ask, Assess, Estimate, Quote, Accept, Release

IInv ==
  /\ TypeOK
  /\ AssessmentsStand
  /\ CountsAndBuildsKeepTheirAssessments
  /\ ConclusionsAreNamed

\* The named row is the one standing at the build, and it still stands: so what
\* it found usable was, by all the ledger knows.
LEMMA NamedEvidenceWasUsable ==
  ASSUME IInv
  PROVE  ConclusionsRestOnUsableEvidence
<1>1. SUFFICES ASSUME NEW k \in conclusions, AsComputed(k.artifact)
               PROVE  \E c \in Latest(k.facet, k.release.built) :
                        /\ k.artifact \in Bearing(c) /\ artifact[k.artifact].deliverable
                        /\ \A r \in retracted : r.record \in Reads(k.artifact) => r.issued > c.at
                        /\ ~Refuted(k.artifact, c.at)
                        /\ artifact[k.artifact].horizon # None
                             => artifact[k.artifact].horizon >= c.at
  BY DEF ConclusionsRestOnUsableEvidence
<1>2. PICK c \in k.release.named : c.facet = k.facet /\ k.artifact \in Usable(c)
  BY DEF IInv, ConclusionsAreNamed
<1>3. c \in Latest(k.facet, k.release.built)
  <2>1. k.release \in releases
    BY DEF IInv, TypeOK
  <2>2. PICK g : c \in Latest(g, k.release.built)
    BY <1>2, <2>1 DEF IInv, CountsAndBuildsKeepTheirAssessments
  <2>. QED  BY <1>2, <2>2 DEF Latest
<1>4. c \in coverage /\ k.artifact \in Bearing(c) /\ c.at \in Nat
  BY <1>2, <1>3, TimesAreNatural DEF Latest, Usable, IInv, TypeOK, CoverageRow
<1>5. Expected(Bearing(c), c.at, k.artifact) = "PRESENT"
  BY <1>1, <1>2, <1>4 DEF IInv, AssessmentsStand, Stands, Usable
<1>6. /\ artifact[k.artifact].deliverable
      /\ ~TakenBack(k.artifact, "CORRECTION", c.at)
      /\ ~TakenBack(k.artifact, "WITHDRAWAL", c.at)
      /\ ~Refuted(k.artifact, c.at)
      /\ ~(artifact[k.artifact].horizon # None /\ artifact[k.artifact].horizon < c.at)
  BY <1>5 DEF Expected
<1>7. ASSUME NEW r \in retracted, r.record \in Reads(k.artifact)
      PROVE  r.issued > c.at
  <2>1. r.kind \in {"CORRECTION", "WITHDRAWAL"} /\ r.issued \in Nat
    BY TimesAreNatural DEF IInv, TypeOK, RetractionRow, Kinds
  <2>2. ~(r.issued <= c.at)
    BY <1>6, <1>7, <2>1 DEF TakenBack
  <2>. QED  BY <1>4, <2>1, <2>2
<1>8. ASSUME artifact[k.artifact].horizon # None
      PROVE  artifact[k.artifact].horizon >= c.at
  <2>1. k.artifact \in Artifacts /\ artifact[k.artifact] # None
    BY <1>4 DEF IInv, TypeOK, CoverageRow, Computed
  <2>2. artifact[k.artifact] \in ArtifactRow
    BY <2>1 DEF IInv, TypeOK
  <2>3. artifact[k.artifact].horizon \in Nat
    BY <1>8, <2>2, TimesAreNatural DEF ArtifactRow
  <2>. QED  BY <1>4, <1>6, <1>8, <2>3
<1>. QED  BY <1>3, <1>4, <1>6, <1>7, <1>8

\* What was PRESENT at its assessment and has not moved since is PRESENT still.
LEMMA UnmovedIsPresent ==
  ASSUME IInv, NEW c \in coverage, NEW a \in Usable(c), AsComputed(a),
         NEW built \in Times, c.at <= built, ~MovedUnder(c, built),
         artifact[a].horizon # c.at
  PROVE  Expected(Bearing(c), built, a) = "PRESENT"
<1>1. a \in Bearing(c) /\ a \in Artifacts /\ artifact[a] # None
  BY DEF Usable, IInv, TypeOK, CoverageRow, Computed
<1>2. c.at \in Nat /\ built \in Nat
  BY TimesAreNatural DEF IInv, TypeOK, CoverageRow
<1>3. Expected(Bearing(c), c.at, a) = "PRESENT"
  BY <1>1 DEF IInv, AssessmentsStand, Stands, Usable
<1>4. /\ artifact[a].deliverable
      /\ ~TakenBack(a, "CORRECTION", c.at) /\ ~TakenBack(a, "WITHDRAWAL", c.at)
      /\ ~Disagreeing(Bearing(c), a) /\ ~Refuted(a, c.at)
      /\ ~(artifact[a].horizon # None /\ artifact[a].horizon < c.at)
  BY <1>3 DEF Expected
<1>5. ASSUME NEW kind \in Kinds
      PROVE  ~TakenBack(a, kind, built)
  <2>1. SUFFICES ASSUME NEW r \in retracted, r.record \in Reads(a), r.kind = kind,
                        r.issued <= built
                 PROVE  FALSE
    BY DEF TakenBack
  <2>2. r.issued \in Nat
    BY TimesAreNatural DEF IInv, TypeOK, RetractionRow
  <2>3. r.issued <= c.at
    BY <1>2, <2>1, <2>2 DEF MovedUnder
  <2>. QED  BY <1>4, <2>1, <2>3 DEF TakenBack, Kinds
<1>6. ~Refuted(a, built)
  <2>1. SUFFICES ASSUME NEW v \in validations, v.artifact = a, v.at <= built,
                        v.outcome = "FALSIFIED",
                        \A w \in validations : w.artifact = a /\ w.at <= built => w.at <= v.at
                 PROVE  FALSE
    BY DEF Refuted
  <2>2. \A w \in validations : w.at \in Nat
    BY TimesAreNatural DEF IInv, TypeOK, ValidationRow
  <2>3. v.at <= c.at
    BY <1>2, <2>1, <2>2 DEF MovedUnder
  <2>4. \A w \in validations : w.artifact = a /\ w.at <= c.at => w.at <= v.at
    BY <1>2, <2>1, <2>2
  <2>. QED  BY <1>4, <2>1, <2>3, <2>4 DEF Refuted
<1>7. ~(artifact[a].horizon # None /\ artifact[a].horizon < built)
  <2>1. SUFFICES ASSUME artifact[a].horizon # None, artifact[a].horizon < built
                 PROVE  FALSE
    OBVIOUS
  <2>2. artifact[a].horizon \in Nat
    BY <1>1, <2>1, TimesAreNatural DEF IInv, TypeOK, ArtifactRow
  <2>3. artifact[a].horizon > c.at
    BY <1>2, <1>4, <2>1, <2>2
  <2>. QED  BY <1>2, <2>1, <2>2, <2>3 DEF MovedUnder
<1>8. ~TakenBack(a, "CORRECTION", built) /\ ~TakenBack(a, "WITHDRAWAL", built)
  BY <1>5 DEF Kinds
<1>. QED  BY <1>4, <1>6, <1>7, <1>8 DEF Expected

\* Only a release adds one, over rows that stand unmoved at its build.
LEMMA BuildStep ==
  ASSUME IInv, [Next]_vars, NEW r \in releases' \ releases, NEW c \in r.named,
         NEW a \in Usable(c), AsComputed(a), artifact[a].horizon # c.at
  PROVE  Expected(Bearing(c), r.built, a) = "PRESENT"
<1>1. PICK q \in quotations, t \in Times, named \in SUBSET coverage : Release(q, t, named)
  BY DEF Next, vars, work, Compute, ReadAlso, Retract, Validate, Ask, Assess, Estimate,
         Quote, Accept, Conclude
<1>2. r.named = named /\ r.built = t
  BY <1>1 DEF Release
<1>3. c \in coverage /\ c.at <= t /\ ~MovedUnder(c, t)
  BY <1>1, <1>2 DEF Release, Latest
<1>. QED  BY <1>2, <1>3, UnmovedIsPresent

-----------------------------------------------------------------------------
LEMMA Inductive == Spec => []IInv
<1>1. Init => IInv
  BY TypeInitially DEF Init, IInv, AssessmentsStand,
     CountsAndBuildsKeepTheirAssessments, ConclusionsAreNamed
<1>2. IInv /\ [Next]_vars => IInv'
  BY TypeKept, AssessmentsKept, CountsKept, NamedKept DEF IInv
<1>. QED  BY <1>1, <1>2, PTL DEF Spec

\* Rows refer to rows that exist and the keys hold.
THEOREM KeysHold == Spec => []TypeOK
<1>1. IInv => TypeOK
  BY DEF IInv
<1>. QED  BY <1>1, Inductive, PTL

\* Whatever is retracted, refuted, computed or validated afterwards, an
\* assessment is what its artifacts earn at its instant.
THEOREM AssessmentsAreFacts == Spec => []AssessmentsStand
<1>1. IInv => AssessmentsStand
  BY DEF IInv
<1>. QED  BY <1>1, Inductive, PTL

\* What an estimate counted, and what a release names, stays what stood then.
THEOREM NothingArrivesBehindACount == Spec => []CountsAndBuildsKeepTheirAssessments
<1>1. IInv => CountsAndBuildsKeepTheirAssessments
  BY DEF IInv
<1>. QED  BY <1>1, Inductive, PTL

\* A conclusion rests on evidence that was usable when it was assessed, by all
\* that has become known since.
THEOREM ConclusionsHold == Spec => []ConclusionsRestOnUsableEvidence
BY Inductive, NamedEvidenceWasUsable, PTL

\* What a release is built over is PRESENT at the build as well.
THEOREM BuildsRestOnPresentEvidence == Spec => EvidenceIsPresentAtTheBuild
<1>1. IInv /\ [Next]_vars =>
        [\A r \in releases' \ releases : \A c \in r.named : \A a \in Usable(c) :
           AsComputed(a) /\ artifact[a].horizon # c.at =>
             Expected(Bearing(c), r.built, a) = "PRESENT"]_vars
  BY BuildStep
<1>. QED  BY <1>1, Inductive, PTL DEF Spec, EvidenceIsPresentAtTheBuild
=============================================================================
