---------------------------- MODULE VersionedLog ----------------------------
(***************************************************************************)
(* What the notation repository promises its clients: one list of batches, *)
(* each saved once, on the version it was written against; and a save that *)
(* was confirmed is in the list, where the confirmation says, for good.    *)
(* There is no lock, file or crash here.                                   *)
(***************************************************************************)
EXTENDS Naturals, Sequences

CONSTANTS Requests, MAX_VERSIONS

VARIABLES log, confirmed

lvars == <<log, confirmed>>

Init == log = <<>> /\ confirmed = {}

Commit(r) ==
  /\ Len(log) < MAX_VERSIONS
  /\ r.base = Len(log)
  /\ \A i \in DOMAIN log : log[i].batch # r.batch
  /\ log' = Append(log, r)
  /\ UNCHANGED confirmed

Confirm(r) ==
  /\ \E i \in DOMAIN log : log[i] = r
  /\ confirmed' = confirmed \cup {r}
  /\ UNCHANGED log

Next == \E r \in Requests : Commit(r) \/ Confirm(r)

Spec == Init /\ [][Next]_lvars
=============================================================================
