--------------------------- MODULE LinearHistory ---------------------------
(***************************************************************************)
(* What the notation kernel promises: a list of assignments, a cursor in   *)
(* it, and a document that is at every moment the replay of the            *)
(* assignments before the cursor.  Undo moves the cursor back, redo moves  *)
(* it forward, an edit replaces everything behind the cursor.  No inverse  *)
(* is ever computed here.  A new object takes an identifier that nothing   *)
(* took before, discarded assignments included.                            *)
(***************************************************************************)
EXTENDS Naturals, Sequences

CONSTANTS Ids, Values, Absent

VARIABLES hist, cursor, doc, reserved

lvars == <<hist, cursor, doc, reserved>>

\* The last assignment to each identifier among the first n, or Absent.
Touching(h, n, id) == {i \in 1 .. n : h[i].id = id}
Latest(touches) == CHOOSE i \in touches : \A j \in touches : j <= i
DocumentAt(h, n) ==
  [id \in Ids |-> IF Touching(h, n, id) = {} THEN Absent
                  ELSE h[Latest(Touching(h, n, id))].value]

Init ==
  /\ hist = <<>> /\ cursor = 0 /\ reserved = {}
  /\ doc = [id \in Ids |-> Absent]

Extend(id, value) ==
  /\ hist' = Append(SubSeq(hist, 1, cursor), [id |-> id, value |-> value])
  /\ cursor' = cursor + 1

Create(id, value) ==
  /\ id \notin reserved
  /\ reserved' = reserved \cup {id}
  /\ Extend(id, value)

Update(id, value) ==
  /\ doc[id] \notin {Absent, value}
  /\ Extend(id, value)
  /\ UNCHANGED reserved

StepBack    == cursor > 0 /\ cursor' = cursor - 1 /\ UNCHANGED <<hist, reserved>>
StepForward == cursor < Len(hist) /\ cursor' = cursor + 1 /\ UNCHANGED <<hist, reserved>>

Next ==
  /\ \/ \E id \in Ids, value \in Values : Create(id, value) \/ Update(id, value)
     \/ StepBack
     \/ StepForward
  /\ doc' = DocumentAt(hist', cursor')

Spec == Init /\ [][Next]_lvars
=============================================================================
