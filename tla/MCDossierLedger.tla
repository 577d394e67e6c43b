-------------------------- MODULE MCDossierLedger --------------------------
(***************************************************************************)
(* Two artifacts over one record, and a dossier of two facets.             *)
(***************************************************************************)
EXTENDS DossierLedger, TLC

CONSTANTS a1, a2, x1, x2, r1, f1, f2, d1, s1, no, yes

Row(run, claim, computed, horizon) ==
  [run |-> run, subject |-> s1, claim |-> claim, computed |-> computed,
   horizon |-> horizon, deliverable |-> TRUE]

\* a1 expires; a2 may read it, and agrees with it or is not deliverable.
CandidateRows ==
  a1 :> {Row(x1, no, 0, 1)}
    @@ a2 :> {Row(x2, no, 1, None), [Row(x2, yes, 1, None) EXCEPT !.deliverable = FALSE]}

KnownFromTheStart == r1 :> 0
FacetSymmetry == Permutations({f1, f2})
OneDossier == f1 :> d1 @@ f2 :> d1
=============================================================================
