--------------------------- MODULE ContractReview ---------------------------
(***************************************************************************)
(* The two review workers on the coordination board: contract review       *)
(* (src/coordination/contract-review.ts) and the inspection of candidate   *)
(* builds (src/coordination/candidate-build-review.ts).  The callers run   *)
(* one of them, all as participant Reviewer: passes over its inbox read a  *)
(* page, and for each request post one result unless the board has one,    *)
(* and then acknowledge the request.  The first takes the answer of the    *)
(* post for it; the second reads the board back, whatever the answer was.  *)
(* Authors send commands in the meantime.                                  *)
(*                                                                         *)
(* The body of a contract review is the set of definitions of the snapshot *)
(* it is made from, that of an inspection its assessment, for which local  *)
(* files are looked at: two results made for one request may differ.  A    *)
(* pass may end anywhere (an error is thrown, the limit is reached, the    *)
(* process is killed).                                                     *)
(***************************************************************************)
EXTENDS CoordinationBoard

CONSTANTS
  Reviewer,      \* the definition the worker registers
  TOPIC,         \* the topic of its requests
  PAGE,          \* the limit of an inbox page
  FINDINGS       \* what looking at the files may find, at each inspection anew

Assessments == {"RECOMPUTED_LOCAL", "REJECTED", "UNAVAILABLE"}

ASSUME PageIsNotEmpty == PAGE \in Nat \ {0}
ASSUME ReviewerIsNamed == Reviewer.id # None
ASSUME FindingsAreAssessments == FINDINGS \subseteq Assessments

VARIABLES
  program,       \* which of the two workers is run, once and for all
  at,            \* worker -> the step its pass is at
  cursor,        \* worker -> afterSequence
  page,          \* worker -> requests of the page it has not finished, handled in their order
  hasMore        \* worker -> whether the page said there are more

pass == <<at, cursor, page, hasMore>>
vars == <<board, pass, program>>

Programs == {"contract-review", "candidate-build-review"}
Steps == {"idle", "register", "scan", "page", "post", "acknowledge"}

Init ==
  /\ BoardInit
  /\ program \in Programs
  /\ at = [w \in Callers |-> "idle"]
  /\ cursor = [w \in Callers |-> 0]
  /\ page = [w \in Callers |-> {}]
  /\ hasMore = [w \in Callers |-> FALSE]

\* What the workers handle; other messages of their inbox they skip.
Work(b, i) ==
  /\ b.messages[i].kind \in {"REQUEST", "HANDOFF"}
  /\ b.messages[i].topic = TOPIC
  /\ b.messages[i].recipient = Reviewer.id

Inspects(b, i) == Work(b, i) /\ b.messages[i].context = None

Assigned(b, i) == IF program = "contract-review" THEN Work(b, i) ELSE Inspects(b, i)

\* The results that may be made for request i: the review of the snapshot, or
\* what an inspection of the files finds for an author of the domain.
Review(b, i) ==
  [author |-> Reviewer.id, request |-> <<Reviewer.id, i>>, recipient |-> b.messages[i].author,
   kind |-> "RESULT", topic |-> TOPIC, context |-> b.messages[i].context, reply |-> i,
   body |-> <<b.definitions, None>>]

Inspection(b, i, found) ==
  LET declared == "CARAVAN" \in Definition(b, b.messages[i].author).domains
  IN  [Review(b, i) EXCEPT !.body = <<{}, IF declared THEN found ELSE "REJECTED">>]

Reports(b, i) == IF program = "contract-review" THEN {Review(b, i)}
                 ELSE {Inspection(b, i, found) : found \in FINDINGS}

\* The result a pass finds for request i under its request id; it has to be one
\* for that request.
Saved(b, i) == {j \in DOMAIN b.messages : SamePost(b.messages[j], Review(b, i))}
Conflicting(b, i) ==
  \E j \in Saved(b, i) : [b.messages[j] EXCEPT !.body = None] # [Review(b, i) EXCEPT !.body = None]

RegisterReviewer == [operation |-> "register", definition |-> Reviewer]
PostOf(m) == [operation |-> "post", post |-> m]
AcknowledgeOf(i) == [operation |-> "acknowledge", message |-> i, by |-> Reviewer.id]

To(w, step) == at' = [at EXCEPT ![w] = step]

-----------------------------------------------------------------------------
Start(w) ==
  /\ at[w] = "idle"
  /\ Send(w, RegisterReviewer) /\ To(w, "register")
  /\ UNCHANGED <<cursor, page, hasMore>>

Registering(w) ==
  /\ at[w] = "register" /\ exchange[w] = "OK"
  /\ Hang(w) /\ To(w, "scan")
  /\ UNCHANGED <<cursor, page, hasMore>>

Scan(w) ==
  /\ at[w] = "scan"
  /\ LET b == Board
         inbox == Inbox(b, Reviewer.id, cursor[w], PAGE)
     IN  /\ page' = [page EXCEPT ![w] = {i \in inbox.messages : Assigned(b, i)}]
         /\ hasMore' = [hasMore EXCEPT ![w] = inbox.hasMore]
         /\ cursor' = [cursor EXCEPT ![w] = inbox.nextSequence]
  /\ To(w, "page")
  /\ UNCHANGED board

\* A snapshot is read: a saved result is reused, or one is made and posted.
Take(w) ==
  /\ at[w] = "page" /\ page[w] # {}
  /\ LET b == Board
         i == Min(page[w])
     IN  IF Saved(b, i) = {}
         THEN /\ \E m \in Reports(b, i) : Send(w, PostOf(m))
              /\ To(w, "post")
         ELSE /\ ~Conflicting(b, i)
              /\ Send(w, AcknowledgeOf(i)) /\ To(w, "acknowledge")
  /\ UNCHANGED <<cursor, page, hasMore>>

PostedAnyhow(w) ==   \* variation: the outcome of the post is not waited for
  /\ program = "contract-review"
  /\ at[w] = "post" /\ exchange[w] \in Answers
  /\ Send(w, AcknowledgeOf(Min(page[w]))) /\ To(w, "acknowledge")
  /\ UNCHANGED <<cursor, page, hasMore>>

Posted(w) ==
  /\ program = "contract-review"
  /\ at[w] = "post" /\ exchange[w] = "OK"
  /\ Send(w, AcknowledgeOf(Min(page[w]))) /\ To(w, "acknowledge")
  /\ UNCHANGED <<cursor, page, hasMore>>

\* "A response is not a durable receipt; read back even after an uncertain post":
\* whatever the post was answered, the request is acknowledged when a second
\* snapshot has the result; otherwise the pass ends.
ReadBack(w) ==
  /\ program = "candidate-build-review"
  /\ at[w] = "post" /\ exchange[w] \in Answers
  /\ LET b == Board
         i == Min(page[w])
     IN  Saved(b, i) # {} /\ ~Conflicting(b, i)
  /\ Send(w, AcknowledgeOf(Min(page[w]))) /\ To(w, "acknowledge")
  /\ UNCHANGED <<cursor, page, hasMore>>

Acknowledged(w) ==
  /\ at[w] = "acknowledge" /\ exchange[w] = "OK"
  /\ Hang(w) /\ To(w, "page")
  /\ page' = [page EXCEPT ![w] = @ \ {Min(@)}]
  /\ UNCHANGED <<cursor, hasMore>>

NextPage(w) ==
  /\ at[w] = "page" /\ page[w] = {} /\ hasMore[w]
  /\ To(w, "scan")
  /\ UNCHANGED <<board, cursor, page, hasMore>>

\* The scan is complete, the limit is reached, an error ends the pass, or the
\* process is killed; the next pass begins at zero.
Stop(w) ==
  /\ at[w] # "idle"
  /\ Hang(w) /\ To(w, "idle")
  /\ cursor' = [cursor EXCEPT ![w] = 0]
  /\ page' = [page EXCEPT ![w] = {}]
  /\ hasMore' = [hasMore EXCEPT ![w] = FALSE]

Pass(w) == \/ Start(w) \/ Registering(w) \/ Scan(w) \/ Take(w) \/ Posted(w) \/ ReadBack(w)
           \/ Acknowledged(w) \/ NextPage(w) \/ Stop(w)

Next ==
  /\ \/ Transport /\ UNCHANGED pass
     \/ \E w \in Callers : Pass(w)
  /\ UNCHANGED program

Spec == Init /\ [][Next]_vars

-----------------------------------------------------------------------------
(***************************************************************************)
(* Properties.                                                             *)
(***************************************************************************)

\* Who sends a command is whoever it says it is: only the workers post and
\* acknowledge as Reviewer (docs/AGENT_COORDINATION.md: identities are simulated).
OthersActForThemselves ==
  \A c \in Commands :
    /\ c.operation = "post" => c.post.author # Reviewer.id
    /\ c.operation = "acknowledge" => c.by # Reviewer.id

Results(b, i) == {j \in DOMAIN b.messages : b.messages[j].author = Reviewer.id
                    /\ b.messages[j].kind = "RESULT" /\ b.messages[j].reply = i}
Receipts(b) == {r.message : r \in {s \in b.receipts : s.by = Reviewer.id}}

\* Type invariant: the steps of the calls and of the passes, who holds the lock
\* (one call at a time, and for as long as the lock file is there).
TypeOK ==
  /\ pc \in [Calls -> {"idle", "lock", "load", "write", "unlock"}]
  /\ lock \in Calls \cup {None, Abandoned}
  /\ \A c \in Calls : pc[c] \in {"load", "write", "unlock"} => lock = c
  /\ answer \in [Calls -> Answers \cup {None}]
  /\ exchange \in [Callers -> Calls \cup Answers \cup {None}]
  /\ at \in [Callers -> Steps] /\ program \in Programs
  /\ Len(log) <= MAX_LOG

\* The board is one: what a call finds in the log it loads decides for the log
\* it replaces, so each command is applied at one moment to the board of that
\* moment and each answer is for that board, however calls overlap, are given up
\* and killed.
Atomic == INSTANCE AtomicBoard WITH
  told <- answer,
  asked <- [c \in Calls |-> IF pc[c] = "idle" THEN {} ELSE {command[c]}]
ImplementsAtomicBoard == Atomic!Spec

\* A request with the worker's receipt has exactly one result on the board, made
\* by whichever pass was first; a receipt never stands for a lost review.
ReceiptFollowsOneResult ==
  LET b == Board IN
  \A i \in Receipts(b) : Assigned(b, i) => Cardinality(Results(b, i)) = 1

\* A pass leaves no request behind its cursor: what has been scanned over has a
\* receipt or is still in the page, also when the board grew between pages.
ScanMissesNothing ==
  LET b == Board IN
  \A w \in Callers : \A i \in DOMAIN b.messages :
    at[w] \notin {"idle", "register"} /\ i <= cursor[w] /\ Assigned(b, i) =>
      i \in Receipts(b) \cup page[w]
=============================================================================
