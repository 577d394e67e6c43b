-------------------------- MODULE MCContractReview --------------------------
(***************************************************************************)
(* Bounded instance of ContractReview: one worker, of either program,      *)
(* whose calls may outlive its passes, two requests, of which an           *)
(* inspection skips the one with a context, and a definition that changes  *)
(* the reviews of contracts.                                               *)
(***************************************************************************)
EXTENDS ContractReview, TLC

CONSTANTS k1, k2, w1

Symmetry == Permutations(Calls)

ReviewerDefinition == [id |-> "reviewer", domains |-> {"CARAVAN", "TRADEWIND"}]
AuthorDefinition == [id |-> "author", domains |-> {"CARAVAN"}]
SupplierDefinition == [id |-> "supplier", domains |-> {"CARAVAN"}]

SeedDefinitions == {AuthorDefinition}

Request(id, kind, context) ==
  PostOf([author |-> "author", request |-> <<"author", id>>, recipient |-> "reviewer", kind |-> kind,
          topic |-> "review", context |-> context, reply |-> 0, body |-> <<{}, None>>])

AuthorCommands ==
  {[operation |-> "register", definition |-> SupplierDefinition],
   Request(1, "REQUEST", "CARAVAN"), Request(2, "HANDOFF", None)}

ASSUME AuthorsActForThemselves == OthersActForThemselves
=============================================================================
