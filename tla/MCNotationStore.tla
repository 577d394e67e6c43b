-------------------------- MODULE MCNotationStore --------------------------
(***************************************************************************)
(* Bounded instance of NotationStore, and the refinement of VersionedLog.  *)
(***************************************************************************)
EXTENDS NotationStore, TLC

Symmetry == Permutations(Writers) \cup Permutations(Batches)

\* The history of files is the log; what a client was told is the confirmed set.
Log == INSTANCE VersionedLog WITH log <- versions

\* However calls interleave, are retried or are killed, and whoever holds the
\* lock, the repository is the versioned log.
ImplementsVersionedLog == Log!Spec
=============================================================================
