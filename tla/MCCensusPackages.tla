-------------------------- MODULE MCCensusPackages --------------------------
(* Two captures, a build of each, and a line of three packages where the   *)
(* bound admits two; the second may be asked for without a predecessor.    *)
EXTENDS CensusPackages, TLC

CONSTANTS c1, c2, n1, n2, b1, b2, p1, p2, p3, d1

Of(first, second) == n1 :> first @@ n2 :> second
MCCapturedAt == Of(0, 1)
MCPolicyEnds == Of(2, 3)
MCSourceRecord == Of("80806", "80806")
Build(b, members, known) == [kind |-> "build", id |-> b, members |-> members, knownThrough |-> known]
Package(p, b, previous) == [kind |-> "package", id |-> p, build |-> b, previous |-> previous]
MCBuildRequests == {Build(b1, {n1}, 0), Build(b2, {n2}, 1), Build(b2, {n2}, 2), Build(b2, {n1, n2}, 1)}
MCPackageRequests == {Package(p1, b1, None), Package(p2, b2, p1), Package(p2, b2, None), Package(p3, b2, p2)}
MCDeliveryRequests == {[kind |-> "delivery", id |-> d1, release |-> p2]}
Symmetry == Permutations(Calls)
=============================================================================
