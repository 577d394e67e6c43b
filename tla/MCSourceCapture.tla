-------------------------- MODULE MCSourceCapture --------------------------
(***************************************************************************)
(* Invocations of the schedule and of direct captures over one directory.  *)
(***************************************************************************)
EXTENDS SourceCapture, TLC

CONSTANTS statutory, i1, i2, i3, c1, c2, c3

\* Two runs of the schedule, and a request made directly for a third id.
MCOneRail == [s \in Sources |-> "source-capture"]
MCRunIds == <<i1, i2>>
MCRequests == {<<statutory, i3>>}
Symmetry == Permutations(Calls)
=============================================================================
