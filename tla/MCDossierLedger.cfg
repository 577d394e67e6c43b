SPECIFICATION Spec
CONSTANTS
  None = None
  a1 = a1  a2 = a2  x1 = x1  x2 = x2  r1 = r1  f1 = f1  f2 = f2  d1 = d1
  s1 = s1  no = no  yes = yes
  Records = {r1}
  KnownAt <- KnownFromTheStart
  Artifacts = {a1, a2}
  Runs = {x1, x2}
  Subjects = {s1}
  Claims = {no, yes}
  Candidates <- CandidateRows
  Facets = {f1, f2}
  Dossiers = {d1}
  DossierOf <- OneDossier
  Times = {0, 1, 2}
  MAX_RETRACTED = 1
  MAX_VALIDATIONS = 1
  MAX_COVERAGE = 2
  MAX_ESTIMATES = 1
  MAX_QUOTATIONS = 1
  MAX_RELEASES = 1
  MAX_CONCLUSIONS = 1
SYMMETRY FacetSymmetry
INVARIANTS
  AssessmentsStand
  CountsAndBuildsKeepTheirAssessments
  ConclusionsRestOnUsableEvidence
PROPERTY EvidenceIsPresentAtTheBuild
CHECK_DEADLOCK FALSE
