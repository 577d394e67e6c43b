---------------------------- MODULE StateKernel ----------------------------
(***************************************************************************)
(* The native notation kernel (native/state-kernel/src/lib.rs).  One       *)
(* process replays the whole accepted history of commands from the empty   *)
(* state.  Undo and redo do not copy states: each accepted edit leaves an  *)
(* inverse record on the undo stack, an undo applies it backward and moves *)
(* it to the redo stack, and an edit discards the redo stack.              *)
(*                                                                         *)
(* The first command that is refused ends the replay with its error; the   *)
(* caller then sees the error and nothing of the state.  Identifiers and   *)
(* texts are model values: their syntax (validate_id, validate_text) and   *)
(* the byte limit of the request are not represented.                      *)
(***************************************************************************)
EXTENDS Naturals, Sequences, FiniteSets

CONSTANTS
  Ids,            \* identifiers a command may give to a notation or relation
  Texts,          \* <title, body> pairs of a notation
  CommandIds,     \* identifiers of commands
  Absent,         \* what a map holds for an identifier that is not in it
  MAX_COMMANDS, MAX_NOTATIONS, MAX_RELATIONS

Links == [from : Ids, to : Ids]      \* a relation, its label left out

ASSUME LimitsAreNatural ==
  MAX_COMMANDS \in Nat /\ MAX_NOTATIONS \in Nat /\ MAX_RELATIONS \in Nat
ASSUME AbsentIsNoValue == Absent \notin Texts /\ Absent \notin Links

VARIABLES
  notations, relations,        \* the two maps: identifier -> value or Absent
  usedObjects, usedCommands,   \* identifiers ever accepted, never released
  undo, redo,                  \* stacks of changes, the top last
  revision,                    \* commands accepted
  result,                      \* "RUNNING", "OK" or the error returned
  created                      \* history variable, read by no action: identifier ->
                               \* how many creations of it were ever accepted

kernel == <<notations, relations, usedObjects, usedCommands, undo, redo,
          revision, result, created>>

(***************************************************************************)
(* A change writes one identifier of one map.  The creation of an object   *)
(* is the change whose `before' is Absent, so that applying it backward    *)
(* removes the object; the update of a notation keeps both its values.     *)
(***************************************************************************)
Change ==
  [map : {"notation"}, id : Ids, before : Texts \cup {Absent}, after : Texts]
    \cup [map : {"relation"}, id : Ids, before : {Absent}, after : Links]

Errors == {"LIMIT_EXCEEDED", "DUPLICATE_COMMAND_ID", "ID_ALREADY_USED",
           "NOTATION_NOT_FOUND", "INVALID_RELATION", "NOTHING_TO_UNDO",
           "NOTHING_TO_REDO", "NO_CHANGE", "INTERNAL_STATE_ERROR"}

Keys(map) == {id \in Ids : map[id] # Absent}

Top(stack) == stack[Len(stack)]
Pop(stack) == SubSeq(stack, 1, Len(stack) - 1)

KernelInit ==
  /\ notations = [id \in Ids |-> Absent]
  /\ relations = [id \in Ids |-> Absent]
  /\ usedObjects = {} /\ usedCommands = {}
  /\ undo = <<>> /\ redo = <<>>
  /\ revision = 0
  /\ result = "RUNNING"
  /\ created = [id \in Ids |-> 0]

-----------------------------------------------------------------------------
\* Writing `value' at the identifier and the map of change c.
Write(c, value) ==
  /\ notations' = IF c.map = "notation"
                  THEN [notations EXCEPT ![c.id] = value] ELSE notations
  /\ relations' = IF c.map = "relation"
                  THEN [relations EXCEPT ![c.id] = value] ELSE relations

Forward(c)  == Write(c, c.after)

BackwardRemoves(c) == Write(c, Absent)   \* variation: an update is undone as a creation

Backward(c) == Write(c, c.before)

\* What validate() checks of the maps it is given.
Valid(notes, rels) ==
  /\ Cardinality(Keys(notes)) <= MAX_NOTATIONS
  /\ Cardinality(Keys(rels)) <= MAX_RELATIONS
  /\ \A id \in Keys(rels) :
       /\ rels[id].from # rels[id].to
       /\ {rels[id].from, rels[id].to} \subseteq Keys(notes)
       /\ id \notin Keys(notes)

\* The end of accept(): the state the command produced is validated.
Validated ==
  IF Valid(notations', relations')
  THEN revision' = revision + 1 /\ result' = result
  ELSE revision' = revision /\ result' = "INTERNAL_STATE_ERROR"

\* A new command of a history that is not exhausted, with a fresh identifier.
NextCommand(cmd) ==
  /\ result = "RUNNING"
  /\ revision < MAX_COMMANDS
  /\ cmd \notin usedCommands

Fail(code) ==
  /\ result' = code
  /\ UNCHANGED <<notations, relations, usedObjects, usedCommands, undo, redo,
                 revision, created>>

Count(c) ==
  created' = IF c.before = Absent THEN [created EXCEPT ![c.id] = @ + 1] ELSE created

\* An accepted edit: forward, onto the undo stack, and the redo stack goes.
EditKeepsRedo(cmd, c) ==   \* variation: a new edit leaves the redo stack
  /\ Forward(c)
  /\ undo' = Append(undo, c)
  /\ redo' = redo
  /\ usedCommands' = usedCommands \cup {cmd}
  /\ Validated
  /\ Count(c)

Edit(cmd, c) ==
  /\ Forward(c)
  /\ undo' = Append(undo, c)
  /\ redo' = <<>>
  /\ usedCommands' = usedCommands \cup {cmd}
  /\ Validated
  /\ Count(c)

CreateNotation(cmd, id, text) ==
  /\ NextCommand(cmd)
  /\ Cardinality(Keys(notations)) < MAX_NOTATIONS
  /\ id \notin usedObjects
  /\ usedObjects' = usedObjects \cup {id}
  /\ Edit(cmd, [map |-> "notation", id |-> id, before |-> Absent, after |-> text])

UpdateReleasesBranch(cmd, id, text) ==   \* variation: creations discarded with the redo
  /\ NextCommand(cmd)                    \* branch give their identifiers back
  /\ id \in Keys(notations)
  /\ notations[id] # text
  /\ Edit(cmd, [map |-> "notation", id |-> id,
                before |-> notations[id], after |-> text])
  /\ usedObjects' = usedObjects \ {redo[i].id : i \in {j \in DOMAIN redo : redo[j].before = Absent}}

UpdateNotation(cmd, id, text) ==
  /\ NextCommand(cmd)
  /\ id \in Keys(notations)
  /\ notations[id] # text
  /\ Edit(cmd, [map |-> "notation", id |-> id,
                before |-> notations[id], after |-> text])
  /\ UNCHANGED usedObjects

CreateRelation(cmd, id, link) ==
  /\ NextCommand(cmd)
  /\ link.from # link.to
  /\ {link.from, link.to} \subseteq Keys(notations)
  /\ Cardinality(Keys(relations)) < MAX_RELATIONS
  /\ id \notin usedObjects
  /\ usedObjects' = usedObjects \cup {id}
  /\ Edit(cmd, [map |-> "relation", id |-> id, before |-> Absent, after |-> link])

Undo(cmd) ==
  /\ NextCommand(cmd)
  /\ undo # <<>>
  /\ Backward(Top(undo))
  /\ undo' = Pop(undo)
  /\ redo' = Append(redo, Top(undo))
  /\ usedCommands' = usedCommands \cup {cmd}
  /\ Validated
  /\ UNCHANGED <<usedObjects, created>>

Redo(cmd) ==
  /\ NextCommand(cmd)
  /\ redo # <<>>
  /\ Forward(Top(redo))
  /\ redo' = Pop(redo)
  /\ undo' = Append(undo, Top(redo))
  /\ usedCommands' = usedCommands \cup {cmd}
  /\ Validated
  /\ UNCHANGED <<usedObjects, created>>

(***************************************************************************)
(* The refusals, in the order the code tests them.                         *)
(***************************************************************************)
RefuseCommandId(cmd) ==
  /\ result = "RUNNING" /\ revision < MAX_COMMANDS
  /\ cmd \in usedCommands
  /\ Fail("DUPLICATE_COMMAND_ID")

RefuseNotation(cmd, id) ==
  /\ NextCommand(cmd)
  /\ \/ /\ Cardinality(Keys(notations)) >= MAX_NOTATIONS
        /\ Fail("LIMIT_EXCEEDED")
     \/ /\ Cardinality(Keys(notations)) < MAX_NOTATIONS
        /\ id \in usedObjects
        /\ Fail("ID_ALREADY_USED")

RefuseUpdate(cmd, id, text) ==
  /\ NextCommand(cmd)
  /\ \/ id \notin Keys(notations) /\ Fail("NOTATION_NOT_FOUND")
     \/ notations[id] = text /\ Fail("NO_CHANGE")

Connects(link) == /\ link.from # link.to
                  /\ {link.from, link.to} \subseteq Keys(notations)

RefuseRelation(cmd, id, link) ==
  /\ NextCommand(cmd)
  /\ \/ ~Connects(link) /\ Fail("INVALID_RELATION")
     \/ /\ Connects(link)
        /\ Cardinality(Keys(relations)) >= MAX_RELATIONS
        /\ Fail("LIMIT_EXCEEDED")
     \/ /\ Connects(link)
        /\ Cardinality(Keys(relations)) < MAX_RELATIONS
        /\ id \in usedObjects
        /\ Fail("ID_ALREADY_USED")

RefuseMove(cmd) ==
  /\ NextCommand(cmd)
  /\ \/ undo = <<>> /\ Fail("NOTHING_TO_UNDO")
     \/ redo = <<>> /\ Fail("NOTHING_TO_REDO")

\* A request of more than MAX_COMMANDS commands is refused before the first.
RefuseLength ==
  /\ result = "RUNNING" /\ usedCommands = {}
  /\ Fail("LIMIT_EXCEEDED")

\* The request holds no further command: its state is returned.
ReturnState ==
  /\ result = "RUNNING"
  /\ result' = "OK"
  /\ UNCHANGED <<notations, relations, usedObjects, usedCommands, undo, redo,
                 revision, created>>

Command(cmd) ==
  \/ \E id \in Ids, text \in Texts :
       \/ CreateNotation(cmd, id, text)
       \/ UpdateNotation(cmd, id, text)
       \/ RefuseUpdate(cmd, id, text)
  \/ \E id \in Ids, link \in Links :
       CreateRelation(cmd, id, link) \/ RefuseRelation(cmd, id, link)
  \/ \E id \in Ids : RefuseNotation(cmd, id)
  \/ Undo(cmd) \/ Redo(cmd)
  \/ RefuseMove(cmd) \/ RefuseCommandId(cmd)

KernelNext == (\E cmd \in CommandIds : Command(cmd)) \/ RefuseLength \/ ReturnState

KernelSpec == KernelInit /\ [][KernelNext]_kernel

-----------------------------------------------------------------------------
(***************************************************************************)
(* The linear history the two stacks stand for: the undo stack, then the   *)
(* redo stack read from its top.                                           *)
(***************************************************************************)
Hist == [i \in 1 .. Len(undo) + Len(redo) |->
           IF i <= Len(undo) THEN undo[i]
           ELSE redo[Len(undo) + Len(redo) + 1 - i]]

\* Type invariant: every map, stack and counter of Replay has its type.
KernelTypeOK ==
  /\ notations \in [Ids -> Texts \cup {Absent}]
  /\ relations \in [Ids -> Links \cup {Absent}]
  /\ usedObjects \subseteq Ids
  /\ usedCommands \subseteq CommandIds
  /\ undo \in Seq(Change) /\ redo \in Seq(Change)
  /\ revision \in 0 .. MAX_COMMANDS
  /\ result \in Errors \cup {"RUNNING", "OK"}

\* The claim of the comment in backward() ("Later relation creation is
\* necessarily undone first in linear history"): no sequence of edits, undos
\* and redos makes validate() fail, so INTERNAL_STATE_ERROR is never returned.
NoInternalError == result # "INTERNAL_STATE_ERROR"

\* "Reserved identities survive undo and discarded redo branches": over the
\* whole replay an identifier is accepted for one creation, of whichever map,
\* and stays reserved from then on, whether that creation is applied, undone or
\* gone with a discarded branch; so no two objects of the history share one.
Creations == {i \in DOMAIN Hist : Hist[i].before = Absent}
IdentitiesAreReserved ==
  /\ \A id \in Ids : created[id] <= 1 /\ (created[id] = 1 => id \in usedObjects)
  /\ \A i \in Creations : created[Hist[i].id] = 1
  /\ \A i, j \in Creations : Hist[i].id = Hist[j].id => i = j

\* What the stacks and the maps stand for in LinearHistory: the assignments of
\* the history, with the height of the undo stack as the cursor in it, and one
\* document over both maps.
Assignments == [i \in DOMAIN Hist |-> [id |-> Hist[i].id, value |-> Hist[i].after]]
Document == [id \in Ids |-> IF notations[id] # Absent THEN notations[id]
                            ELSE relations[id]]

Linear ==
  INSTANCE LinearHistory WITH
    Values <- Texts \cup Links, hist <- Assignments, cursor <- Len(undo),
    doc <- Document, reserved <- usedObjects

\* Undoing by inverse records and redoing them gives at every step the same
\* document as replaying the assignments before the cursor.
ImplementsLinearHistory == Linear!Spec
=============================================================================
