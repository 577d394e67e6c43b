------------------------- MODULE CoordinationBoard -------------------------
(***************************************************************************)
(* The coordination board (src/coordination/ledger.ts, store.ts, inbox.ts) *)
(* and the way a client reaches it (clients/javascript/coordination.mjs).  *)
(*                                                                         *)
(* The board is what replaying the log of commands over the seed gives.  A *)
(* call to execute() takes writer.lock, loads the log, applies its command *)
(* and replaces the log file by the one it loaded with the command added.  *)
(* The caller may stop waiting while the call goes on, and then sends the  *)
(* same command again or gives up; the process of a call may be killed,    *)
(* which leaves the lock behind.                                           *)
(*                                                                         *)
(* A definition is its id and domains, a release context its domain, and a *)
(* message is known by its sequence number, which is its place on the      *)
(* board.  The messages of the seed and the syntax of commands are left    *)
(* out, and with one server-bound scope, so is the scope.                  *)
(***************************************************************************)
EXTENDS Naturals, Sequences, FiniteSets, SequencesExt

CONSTANTS
  Callers,       \* processes whose exchanges are followed; others send any command
  Calls,         \* execute() calls that may be in progress at once
  Commands,      \* the commands clients may send
  Seed,          \* the definitions of the seed
  MAX_DEFINITIONS, MAX_MESSAGES, MAX_LOG,
  None, Abandoned

Operations == {"register", "post", "acknowledge"}
Answers == {"OK", "REFUSED", "RETRY"}   \* RETRY: a status or failure the client retries

ASSUME LimitsAreNatural ==
  MAX_DEFINITIONS \in Nat /\ MAX_MESSAGES \in Nat /\ MAX_LOG \in Nat
ASSUME LockValues ==
  /\ {None, Abandoned} \cap (Calls \cup Answers) = {} /\ None # Abandoned
  /\ Calls \cap Answers = {}
ASSUME CommandsAreKnown == \A c \in Commands : c.operation \in Operations
ASSUME SeedIdsDiffer == \A d, e \in Seed : d.id = e.id => d = e

VARIABLES
  log,           \* the commands of events.json, in their order
  lock,          \* which call created writer.lock: a call, Abandoned or None
  pc,            \* call -> the step it is at
  command,       \* call -> its command, None when it is idle
  loaded,        \* call -> the log it loaded
  answer,        \* call -> the answer it is about to return, or None
  exchange,      \* caller -> the call it waits for, an answer, or None
  sent           \* caller -> the command of that exchange, None without one

server == <<log, lock, pc, command, loaded, answer>>
client == <<exchange, sent>>
board == <<server, client>>

BoardInit ==
  /\ log = <<>> /\ lock = None
  /\ pc = [c \in Calls |-> "idle"]
  /\ command = [c \in Calls |-> None]
  /\ loaded = [c \in Calls |-> <<>>]
  /\ answer = [c \in Calls |-> None]
  /\ exchange = [w \in Callers |-> None]
  /\ sent = [w \in Callers |-> None]

-----------------------------------------------------------------------------
(***************************************************************************)
(* applyCommand().                                                         *)
(***************************************************************************)

Definition(b, id) == CHOOSE d \in b.definitions : d.id = id
Registered(b, id) == \E d \in b.definitions : d.id = id
Declares(b, id, context) == context = None \/ context \in Definition(b, id).domains

SamePost(m, n) == m.author = n.author /\ m.request = n.request
Receipt(c) == [message |-> c.message, by |-> c.by]

AcceptsRegister(b, d) ==
  \/ d \in b.definitions
  \/ ~Registered(b, d.id) /\ Cardinality(b.definitions) < MAX_DEFINITIONS

Addressed(b, m) ==
  /\ Registered(b, m.author)
  /\ m.recipient = None \/ Registered(b, m.recipient)
  /\ m.kind = "HANDOFF" => m.recipient \notin {None, m.author}
  /\ Declares(b, m.author, m.context)
  /\ m.recipient # None => Declares(b, m.recipient, m.context)

Threaded(b, m) ==
  m.reply = 0 \/ /\ m.reply \in DOMAIN b.messages
                 /\ b.messages[m.reply].context = m.context
                 /\ b.messages[m.reply].topic = m.topic

AcceptsAnyPost(b, m) ==   \* variation: no search for the request id
  Addressed(b, m) /\ Threaded(b, m) /\ Len(b.messages) < MAX_MESSAGES

AcceptsPost(b, m) ==
  /\ Addressed(b, m) /\ Threaded(b, m)
  /\ \A i \in DOMAIN b.messages : SamePost(b.messages[i], m) => b.messages[i] = m
  /\ m \in ToSet(b.messages) \/ Len(b.messages) < MAX_MESSAGES

AcceptsAcknowledge(b, r) ==
  /\ Registered(b, r.by)
  /\ r.message \in DOMAIN b.messages
  /\ LET m == b.messages[r.message] IN
       /\ m.author # r.by
       /\ m.recipient \in {None, r.by}
       /\ Declares(b, r.by, m.context)

Accepts(b, c) ==
  CASE c.operation = "register" -> AcceptsRegister(b, c.definition)
    [] c.operation = "post" -> AcceptsPost(b, c.post)
    [] c.operation = "acknowledge" -> AcceptsAcknowledge(b, Receipt(c))

\* The board after an accepted command: the same board for one it already has.
Applied(b, c) ==
  CASE c.operation = "register" -> [b EXCEPT !.definitions = @ \cup {c.definition}]
    [] c.operation = "post" ->
         [b EXCEPT !.messages = IF c.post \in ToSet(@) THEN @ ELSE Append(@, c.post)]
    [] c.operation = "acknowledge" -> [b EXCEPT !.receipts = @ \cup {Receipt(c)}]

\* load(): the log is replayed over the seed.
Empty == [definitions |-> Seed, messages |-> <<>>, receipts |-> {}]
Replay(commands) == FoldLeft(Applied, Empty, commands)

Board == Replay(log)

-----------------------------------------------------------------------------
(***************************************************************************)
(* inboxFor(), for the query the workers send: directed messages that have *)
(* no receipt of the participant.                                          *)
(***************************************************************************)

Eligible(b, participant, after) ==
  {i \in DOMAIN b.messages :
     LET m == b.messages[i] IN
       /\ i > after
       /\ m.author # participant /\ m.recipient = participant
       /\ Declares(b, participant, m.context)
       /\ [message |-> i, by |-> participant] \notin b.receipts}

FirstOf(s, limit) == {i \in s : Cardinality({j \in s : j <= i}) <= limit}

InboxPast(b, participant, after, limit) ==   \* variation: always the high-water mark
  LET eligible == Eligible(b, participant, after)
  IN  [messages |-> FirstOf(eligible, limit), hasMore |-> Cardinality(eligible) > limit,
       nextSequence |-> Len(b.messages)]

\* The first messages, by their numbers; without more, the scan is past all there are.
Inbox(b, participant, after, limit) ==
  LET eligible == Eligible(b, participant, after)
      messages == FirstOf(eligible, limit)
      more == messages # eligible
  IN  [messages |-> messages, hasMore |-> more,
       nextSequence |-> IF more THEN Max(messages) ELSE Len(b.messages)]

-----------------------------------------------------------------------------
(***************************************************************************)
(* execute(), step by step.                                                *)
(***************************************************************************)

Goto(c, step) == pc' = [pc EXCEPT ![c] = step]
Answer(c, code) == answer' = [answer EXCEPT ![c] = code]

Forget(c) ==
  /\ Goto(c, "idle") /\ Answer(c, None)
  /\ command' = [command EXCEPT ![c] = None]
  /\ loaded' = [loaded EXCEPT ![c] = <<>>]

\* Whoever still waits for the call hears its answer.
Return(c, code) ==
  /\ Forget(c)
  /\ exchange' = [w \in Callers |-> IF exchange[w] = c THEN code ELSE exchange[w]]
  /\ UNCHANGED sent

LockShared(c) ==     \* variation: the lock file is opened without 'wx'
  /\ pc[c] = "lock"
  /\ lock' = c /\ Goto(c, "load")
  /\ UNCHANGED <<log, command, loaded, answer, client>>

Lock(c) ==
  /\ pc[c] = "lock"
  /\ IF lock = None
     THEN lock' = c /\ Goto(c, "load") /\ UNCHANGED <<command, loaded, answer, client>>
     ELSE lock' = lock /\ Return(c, "RETRY")   \* BOARD_BUSY
  /\ UNCHANGED log

LoadAndWrite(c) ==     \* variation: a command that changes nothing is saved as well
  /\ pc[c] = "load"
  /\ loaded' = [loaded EXCEPT ![c] = log]
  /\ IF Accepts(Board, command[c]) /\ Len(log) < MAX_LOG
     THEN Goto(c, "write") /\ UNCHANGED answer
     ELSE Goto(c, "unlock") /\ Answer(c, "REFUSED")
  /\ UNCHANGED <<log, lock, command, client>>

Load(c) ==
  /\ pc[c] = "load"
  /\ loaded' = [loaded EXCEPT ![c] = log]
  /\ LET b == Replay(log) IN
       CASE ~Accepts(b, command[c]) -> Goto(c, "unlock") /\ Answer(c, "REFUSED")
         [] Accepts(b, command[c]) /\ Applied(b, command[c]) = b ->
              Goto(c, "unlock") /\ Answer(c, "OK")
         [] Accepts(b, command[c]) /\ Applied(b, command[c]) # b ->
              IF Len(log) >= MAX_LOG
              THEN Goto(c, "unlock") /\ Answer(c, "REFUSED")
              ELSE Goto(c, "write") /\ UNCHANGED answer
  /\ UNCHANGED <<log, lock, command, client>>

\* The temporary file is renamed over events.json, or the file system fails.
Write(c) ==
  /\ pc[c] = "write"
  /\ \/ log' = Append(loaded[c], command[c]) /\ Answer(c, "OK")
     \/ log' = log /\ Answer(c, "RETRY")      \* LOCAL_STORE_UNAVAILABLE
  /\ Goto(c, "unlock")
  /\ UNCHANGED <<lock, command, loaded, client>>

\* `finally': the lock file is unlinked by its name, and the call returns.
Unlock(c) ==
  /\ pc[c] = "unlock"
  /\ lock' = None
  /\ Return(c, answer[c])
  /\ UNCHANGED log

\* The process of a call is killed: its caller has a network error.
Kill(c) ==
  /\ pc[c] # "idle"
  /\ Return(c, "RETRY")
  /\ lock' = IF lock = c THEN Abandoned ELSE lock
  /\ UNCHANGED log

\* The operator removes the lock once the writer that took it is gone.
Recover ==
  /\ lock = Abandoned
  /\ \A c \in Calls : pc[c] \in {"idle", "lock"}
  /\ lock' = None
  /\ UNCHANGED <<log, pc, command, loaded, answer, client>>

Execute(c) == Lock(c) \/ Load(c) \/ Write(c) \/ Unlock(c)

-----------------------------------------------------------------------------
(***************************************************************************)
(* The client.                                                             *)
(***************************************************************************)

Begin(c, cmd) ==
  /\ pc[c] = "idle"
  /\ Goto(c, "lock")
  /\ command' = [command EXCEPT ![c] = cmd]
  /\ UNCHANGED <<log, lock, loaded, answer>>

Send(w, cmd) ==
  \E c \in Calls :
    /\ Begin(c, cmd)
    /\ exchange' = [exchange EXCEPT ![w] = c]
    /\ sent' = [sent EXCEPT ![w] = cmd]

\* Another process sends a command, for the first time or again, whether or not
\* it has heard of an earlier attempt.
Ask(cmd) == (\E c \in Calls : Begin(c, cmd)) /\ UNCHANGED client

\* The deadline passes first; the call itself goes on.
TimeOut(w) ==
  /\ exchange[w] \in Calls
  /\ exchange' = [exchange EXCEPT ![w] = "RETRY"]
  /\ UNCHANGED <<server, sent>>

\* The next attempt: the command is sent again as it was.
Retry(w) == exchange[w] = "RETRY" /\ Send(w, sent[w])

Hang(w) ==   \* the exchange is over for its caller
  /\ exchange' = [exchange EXCEPT ![w] = None]
  /\ sent' = [sent EXCEPT ![w] = None]
  /\ UNCHANGED server

Transport == (\E c \in Calls : Execute(c) \/ Kill(c)) \/ Recover
             \/ (\E w \in Callers : TimeOut(w) \/ Retry(w))
             \/ \E cmd \in Commands : Ask(cmd)

-----------------------------------------------------------------------------
(***************************************************************************)
(* Properties.                                                             *)
(***************************************************************************)

\* The command is on the board: sending it again changes nothing.
IsOn(b, c) == Accepts(b, c) /\ Applied(b, c) = b

\* A call answers "OK" only for a command that is on the board at that moment, and
\* a command that is on the board stays on it, long after the call that brought it
\* there has returned: no writer replaces the log by one without it.
AnswersStand ==
  /\ \A c \in Calls : answer[c] # "OK" /\ answer'[c] = "OK" => IsOn(Board', command'[c])
  /\ log' # log =>
       LET before == Board
           after == Replay(log')
       IN  \A cmd \in Commands \cup ToSet(log) : IsOn(before, cmd) => IsOn(after, cmd)
AnsweredCommandsStayOnTheBoard == [][AnswersStand]_board

\* An author's request id names one message, however often the post was sent
\* and however late an earlier attempt of it is carried out.
OneMessagePerRequest ==
  LET messages == Board.messages IN
  \A i, j \in DOMAIN messages : SamePost(messages[i], messages[j]) => i = j
=============================================================================
