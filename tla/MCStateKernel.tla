--------------------------- MODULE MCStateKernel ---------------------------
(***************************************************************************)
(* Bounded instance of StateKernel.                                        *)
(***************************************************************************)
EXTENDS StateKernel, TLC

Symmetry == Permutations(CommandIds) \cup Permutations(Texts)
=============================================================================
