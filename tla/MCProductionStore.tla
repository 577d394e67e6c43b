------------------------- MODULE MCProductionStore -------------------------
(***************************************************************************)
(* A registration and a conflicting one, a capture, its normalization and  *)
(* a build of it.                                                          *)
(***************************************************************************)
EXTENDS ProductionStore, TLC

CONSTANTS source, register, reregister, capture, normalize, build, w1, w2

Symmetry == Permutations(Workers)

MCCommand ==
  LET command(kind, inputs) == [kind |-> kind, registers |-> None, uses |-> <<source, 1>>, inputs |-> inputs]
      registration(spec) == [kind |-> "REGISTER", registers |-> <<source, spec>>, uses |-> None, inputs |-> <<>>]
      all == (register :> registration(1)) @@ (reregister :> registration(2))
               @@ (capture :> command("ACQUIRE", <<>>))
               @@ (normalize :> command("NORMALIZE", <<capture>>))
               @@ (build :> command("BUILD_CANDIDATES", <<normalize>>))
  IN [r \in Requests |-> all[r]]
=============================================================================
