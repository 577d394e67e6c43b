-------------------------- MODULE ProductionStore --------------------------
(***************************************************************************)
(* The local production store (src/production/store.ts) and the worker     *)
(* processes a server runs it in (worker.ts).  A request is claimed by an  *)
(* intent under catalog.lock, carried out by stages that publish           *)
(* create-only artifacts, and closed by a run receipt, COMPLETED,          *)
(* QUARANTINED or FAILED, which run() validates against the disk whenever  *)
(* it is read.  A worker may be killed anywhere; a request with an intent  *)
(* and no run is never carried out again.  Bytes differ from capture to    *)
(* capture, and corpora and sources are registrations of one folder.       *)
(***************************************************************************)
EXTENDS Integers, FiniteSets, Sequences, SequencesExt

CONSTANTS
  Workers,           \* the worker slots of the server
  Requests,          \* request identities
  Command,           \* Requests -> [kind, registers, uses, inputs]: the <<name, spec>> a
                     \*   registration makes, the one a command refers to, and the
                     \*   requests whose outputs it names
  MaxIntents, MaxNames,
  MaxFaults,         \* bound of this model on failures of storage and killed workers
  None

Kinds == {"REGISTER", "ACQUIRE", "NORMALIZE", "BUILD_CANDIDATES"}
Kind(r) == Command[r].kind
Names == {Command[r].registers[1] : r \in {q \in Requests : Kind(q) = "REGISTER"}}

Artifacts == {"CONTENT", "ACQUISITION", "NORMALIZED", "QUARANTINED", "CANDIDATE_BUILD"}
Codes == {"PRODUCTION_BUSY", "REGISTRATION_CONFLICT", "CATALOG_CAPACITY", "REFERENCE_NOT_FOUND",
          "REFERENCE_MISMATCH", "INGEST_DISALLOWED", "DERIVATION_DISALLOWED", "MEMBER_NOT_ELIGIBLE",
          "STAGE_FAILED", "EVIDENCE_INTEGRITY_FAILED", "DEPENDENCY_INTEGRITY_FAILED"}

ASSUME ProductionAssumption ==
  /\ MaxIntents \in Nat /\ MaxNames \in Nat
  /\ \A r \in Requests : Kind(r) \in Kinds

\* parseProductionCommand(): a registration makes a named record and has no
\* inputs, a normalization names one acquisition and a build one normalization or
\* more, each of them once.  A reference is resolved among the records of its kind: one
\* to anything else is a reference to a request of that kind that nobody makes.
ASSUME CommandsAreParsed ==
  \A r \in Requests :
    LET inputs == Command[r].inputs IN
    /\ Kind(r) \in {"REGISTER", "ACQUIRE"} => inputs = <<>>
    /\ Kind(r) = "REGISTER" => Command[r].registers[2] # None
    /\ Kind(r) = "NORMALIZE" => \E q \in Requests : Kind(q) = "ACQUIRE" /\ inputs = <<q>>
    /\ Kind(r) = "BUILD_CANDIDATES" =>
         inputs \in Seq({q \in Requests : Kind(q) = "NORMALIZE"}) \ {<<>>} /\ IsInjective(inputs)

ASSUME NoneIsNothing == None \notin Artifacts \cup Codes \cup [permitted : BOOLEAN]

VARIABLES
  lock,          \* whether catalog.lock is there
  permitted,     \* whether the declared policy allows an operation begun now
  intents,       \* request -> its intent: whether the policy allowed it at startedAt
  registered,    \* name -> spec
  artifacts,     \* request -> what it left: CONTENT, ACQUISITION, NORMALIZED, ...
  runs,          \* request -> run receipt
  calls,         \* slot -> what its worker is doing
  executed,      \* request -> how often its stages began
  faults         \* how often storage has failed or a worker been killed

disk == <<permitted, lock, intents, registered, artifacts, runs>>
history == <<executed, faults>>
vars == <<disk, calls, history>>

Fresh == [pc |-> "idle", request |-> None, permitted |-> TRUE, outputs |-> <<>>,
          claimed |-> FALSE, stage |-> None, code |-> None, unconfirmed |-> FALSE]

Init ==
  /\ lock = FALSE /\ permitted = TRUE
  /\ intents = [r \in Requests |-> None]
  /\ registered = [n \in Names |-> None]
  /\ artifacts = [r \in Requests |-> None]
  /\ runs = [r \in Requests |-> None]
  /\ calls = [c \in Workers |-> Fresh]
  /\ executed = [r \in Requests |-> 0] /\ faults = 0

At(c, pc) == calls[c].pc = pc
Goto(c, pc) == calls' = [calls EXCEPT ![c].pc = pc]
R(c) == calls[c].request
Written(table) == {id \in DOMAIN table : table[id] # None}

Fails == faults < MaxFaults /\ faults' = faults + 1

-----------------------------------------------------------------------------
(* runProductionWork(): a slot is held until the child has exited.  A      *)
(* client told of a timeout may retry while the child it gave up runs on,  *)
(* until that is killed.                                                   *)

Answer(c) == calls' = [calls EXCEPT ![c] = Fresh]
Kill(c) == ~At(c, "idle") /\ Fails /\ Answer(c) /\ UNCHANGED <<disk, executed>>

\* An operator removes a lock after verifying that its owner is gone.
Holds(c) == calls[c].pc \in {"claim", "release", "registerReserved"}
Recover ==
  /\ lock /\ \A c \in Workers : ~Holds(c)
  /\ lock' = FALSE
  /\ UNCHANGED <<permitted, intents, registered, artifacts, runs, calls, history>>

\* The period of the declared policy ends.
Lapse == permitted /\ permitted' = FALSE
           /\ UNCHANGED <<lock, intents, registered, artifacts, runs, calls, history>>

-----------------------------------------------------------------------------
(* execute(): the claim.                                                   *)

There(registration) == registered[registration[1]] = registration[2]
Usable(r) == Command[r].uses # None => There(Command[r].uses)
NoRoomFor(name) == registered[name] = None /\ Cardinality(Written(registered)) >= MaxNames

\* A request with an intent is answered from its history, the run or
\* OPERATION_INCOMPLETE.  A registration is checked before the claim too.  The
\* clock is read here: the policy is asked for this instant in every stage.
Look(c, r) ==
  /\ At(c, "idle") /\ intents[r] = None
  /\ Kind(r) = "REGISTER" => Usable(r) /\ ~NoRoomFor(Command[r].registers[1])
  /\ calls' = [calls EXCEPT ![c].pc = "reserve", ![c].request = r, ![c].permitted = permitted]
  /\ UNCHANGED <<disk, history>>

\* openSync(catalog.lock, 'wx'): PRODUCTION_BUSY is an answer, not a wait.
Reserve(c) ==
  /\ At(c, "reserve")
  /\ IF ~lock THEN lock' = TRUE /\ Goto(c, "claim")
     ELSE UNCHANGED lock /\ Answer(c)
  /\ UNCHANGED <<permitted, intents, registered, artifacts, runs, history>>

ClaimUnread(c) ==    \* variation: nothing is looked for again under the lock
  /\ At(c, "claim")
  /\ intents' = [intents EXCEPT ![R(c)] = [permitted |-> calls[c].permitted]]
  /\ calls' = [calls EXCEPT ![c].pc = "release", ![c].claimed = TRUE]
  /\ UNCHANGED <<permitted, lock, registered, artifacts, runs, history>>

\* Under the lock the intent is looked for and the intents counted again.
Claim(c) ==
  LET free == intents[R(c)] = None /\ Cardinality(Written(intents)) < MaxIntents IN
  /\ At(c, "claim")
  /\ intents' = IF free THEN [intents EXCEPT ![R(c)] = [permitted |-> calls[c].permitted]] ELSE intents
  /\ calls' = [calls EXCEPT ![c].pc = "release", ![c].claimed = free]
  /\ UNCHANGED <<permitted, lock, registered, artifacts, runs, history>>

FirstStage(r) ==
  CASE Kind(r) = "REGISTER" -> "REGISTRATION"
    [] Kind(r) = "ACQUIRE" -> "CAPTURE"
    [] Kind(r) = "NORMALIZE" -> "EVIDENCE_INSPECTION"
    [] Kind(r) = "BUILD_CANDIDATES" -> "CANDIDATE_ASSEMBLY"

\* The winner begins its stages; the others answer from the history they find,
\* and so does a winner that cannot remove its lock: its intent is never run.
Release(c) ==
  /\ At(c, "release")
  /\ \/ /\ lock' = FALSE /\ calls[c].claimed /\ UNCHANGED faults
        /\ executed' = [executed EXCEPT ![R(c)] = @ + 1]
        /\ calls' = [calls EXCEPT ![c].stage = FirstStage(R(c)), ![c].pc =
             IF Kind(R(c)) = "REGISTER" THEN "register" ELSE "depend"]
     \/ lock' = FALSE /\ ~calls[c].claimed /\ UNCHANGED history /\ Answer(c)
     \/ UNCHANGED <<lock, executed>> /\ Fails /\ Answer(c)
  /\ UNCHANGED <<permitted, intents, registered, artifacts, runs>>

-----------------------------------------------------------------------------
(* The stages.  An error in one makes the run FAILED, with the outputs     *)
(* this request is then found to have left.                                *)

Own(r) == <<artifacts[r], r>>
Derives(r) == Kind(r) \in {"NORMALIZE", "BUILD_CANDIDATES"}

SearchesAnyCapture(r, code) == Kind(r) # "REGISTER"    \* variation: after any error

\* A derivation looks for what it left after any error, a capture after one
\* that is not known; the search may fail itself.
Searches(r, code) == Derives(r) \/ (Kind(r) = "ACQUIRE" /\ code = "STAGE_FAILED")

\* An output that cannot be read back again is taken off the list, where what the
\* request made itself is last.
Found(call, code, unconfirmed) ==
  LET r == call.request
      listed == Contains(call.outputs, Own(r)) IN
  IF ~Searches(r, code) \/ artifacts[r] = None \/ listed = ~unconfirmed THEN call.outputs
  ELSE IF listed THEN Front(call.outputs) ELSE Append(call.outputs, Own(r))

Fail(c, call, code, unconfirmed) ==
  calls' = [calls EXCEPT ![c] = [call EXCEPT !.pc = "save", !.code = code,
              !.unconfirmed = unconfirmed, !.outputs = Found(call, code, unconfirmed)]]
Refuse(c, call, code) == Fail(c, call, code, FALSE)

\* register() takes the lock again; here PRODUCTION_BUSY is the run's failure.
ReserveName(c) ==
  /\ At(c, "register")
  /\ IF ~lock THEN lock' = TRUE /\ Goto(c, "registerReserved")
     ELSE UNCHANGED lock /\ Refuse(c, calls[c], "PRODUCTION_BUSY")
  /\ UNCHANGED <<permitted, intents, registered, artifacts, runs, history>>

\* Published or not, a lock that cannot be removed makes the registration fail.
RegisterReserved(c) ==
  LET made == Command[R(c)].registers
      taken == registered[made[1]] # None IN
  /\ At(c, "registerReserved")
  /\ registered' = IF taken \/ NoRoomFor(made[1]) THEN registered
                   ELSE [registered EXCEPT ![made[1]] = made[2]]
  /\ \/ UNCHANGED lock /\ Fails /\ Refuse(c, calls[c], "STAGE_FAILED")
     \/ /\ lock' = FALSE /\ UNCHANGED faults
        /\ IF registered'[made[1]] = made[2]
           THEN calls' = [calls EXCEPT ![c].pc = "save", ![c].outputs = <<<<"REGISTRATION", made[1]>>>>]
           ELSE Refuse(c, calls[c], IF taken THEN "REGISTRATION_CONFLICT" ELSE "CATALOG_CAPACITY")
  /\ UNCHANGED <<permitted, intents, artifacts, runs, executed>>

\* The exact dependencies one by one, and the policy at the start of the request.
\* REFERENCE_MISMATCH stands for every refusal of a dependency.
RetainedBytes(r) == artifacts[r] # None    \* variation: a capture counts before its receipt

Retained(r) == artifacts[r] \notin {None, "CONTENT"}

Depend(c) ==
  LET r == R(c)
      next == Len(calls[c].outputs) + 1
      inspected == [calls[c] EXCEPT
        !.stage = IF Kind(r) = "NORMALIZE" THEN "NORMALIZATION" ELSE @,
        !.outputs = Append(@, Own(Command[r].inputs[next]))]
  IN
  /\ At(c, "depend")
  /\ CASE ~Usable(r) -> Refuse(c, calls[c], "REFERENCE_NOT_FOUND")
       [] Usable(r) /\ next <= Len(Command[r].inputs) ->
            IF ~Retained(Command[r].inputs[next]) THEN Refuse(c, calls[c], "REFERENCE_MISMATCH")
            ELSE IF artifacts[Command[r].inputs[next]] = "QUARANTINED" THEN Refuse(c, inspected, "MEMBER_NOT_ELIGIBLE")
            ELSE IF ~calls[c].permitted THEN Refuse(c, inspected, "DERIVATION_DISALLOWED")
            ELSE calls' = [calls EXCEPT ![c] = inspected]
       [] OTHER -> IF Kind(r) = "ACQUIRE" /\ ~calls[c].permitted THEN Refuse(c, calls[c], "INGEST_DISALLOWED")
                   ELSE Goto(c, "publish")
  /\ UNCHANGED <<disk, history>>

\* A capture keeps the bytes before their receipt; a normalization may quarantine.
Products(r) ==
  CASE Kind(r) = "REGISTER" -> {}
    [] Kind(r) = "ACQUIRE" -> {"ACQUISITION"}
    [] Kind(r) = "NORMALIZE" -> {"NORMALIZED", "QUARANTINED"}
    [] Kind(r) = "BUILD_CANDIDATES" -> {"CANDIDATE_BUILD"}
Publishes(r) == IF Kind(r) = "ACQUIRE" /\ artifacts[r] = None THEN {"CONTENT"} ELSE Products(r)

Publish(c) ==
  /\ At(c, "publish")
  /\ \E artifact \in Publishes(R(c)) :
       /\ artifacts' = [artifacts EXCEPT ![R(c)] = artifact]
       /\ IF artifact = "CONTENT" THEN UNCHANGED calls ELSE Goto(c, "published")
  /\ UNCHANGED <<permitted, lock, intents, registered, runs, history>>

\* A build is listed before it is read back, an acquisition or normalization after.
Listed(call) == [call EXCEPT !.outputs = Append(@, Own(call.request))]
Inspecting(call) ==
  IF Kind(call.request) = "BUILD_CANDIDATES" THEN [Listed(call) EXCEPT !.stage = "BUILD_INSPECTION"] ELSE call

Readback(c) ==
  /\ At(c, "published")
  /\ calls' = [calls EXCEPT ![c] = [Listed(@) EXCEPT !.pc = "save"]]
  /\ UNCHANGED <<disk, history>>

\* Storage fails around a publication or at the readback.
Fault(c) ==
  /\ Fails
  /\ \E unconfirmed \in BOOLEAN :
       \/ /\ At(c, "publish") \/ At(c, "published")
          /\ Fail(c, calls[c], "STAGE_FAILED", unconfirmed)
       \/ /\ At(c, "published") /\ (unconfirmed => Derives(R(c)))
          /\ Fail(c, Inspecting(calls[c]), IF Derives(R(c)) THEN "DEPENDENCY_INTEGRITY_FAILED"
                                           ELSE "EVIDENCE_INTEGRITY_FAILED", unconfirmed)
  /\ UNCHANGED <<disk, executed>>

-----------------------------------------------------------------------------
(* The run receipt.                                                        *)

Run(call) ==
  [state |-> IF call.code # None THEN "FAILED"
             ELSE IF Contains(call.outputs, <<"QUARANTINED", call.request>>) THEN "QUARANTINED"
             ELSE "COMPLETED",
   stage |-> call.stage, code |-> call.code, outputs |-> call.outputs,
   unconfirmed |-> call.unconfirmed]

\* The clock may have gone back or storage fail: the answer comes without a receipt.
Save(c) ==
  /\ At(c, "save")
  /\ \/ runs' = [runs EXCEPT ![R(c)] = Run(calls[c])] /\ UNCHANGED faults
     \/ UNCHANGED runs /\ Fails
  /\ Answer(c)
  /\ UNCHANGED <<permitted, lock, intents, registered, artifacts, executed>>

Next ==
  \/ Recover \/ Lapse
  \/ \E c \in Workers :
       \/ \E r \in Requests : Look(c, r)
       \/ Reserve(c) \/ Claim(c) \/ Release(c)
       \/ ReserveName(c) \/ RegisterReserved(c) \/ Depend(c)
       \/ Publish(c) \/ Readback(c) \/ Fault(c) \/ Save(c) \/ Kill(c)

Spec == Init /\ [][Next]_vars

-----------------------------------------------------------------------------
(* run(): every listed output is inspected, then the outcome is compared   *)
(* with what the command can have led to.                                  *)

Inspectable(output) ==
  CASE output[1] = "REGISTRATION" -> registered[output[2]] # None
    [] output[1] = "CONTENT" -> artifacts[output[2]] # None
    [] OTHER -> artifacts[output[2]] = output[1]

Inputs(r) == [i \in DOMAIN Command[r].inputs |-> Own(Command[r].inputs[i])]

ValidSuccess(r, run) ==
  CASE Kind(r) = "REGISTER" -> run.state = "COMPLETED" /\ run.outputs = <<<<"REGISTRATION", Command[r].registers[1]>>>>
                                 /\ There(Command[r].registers)
    [] Kind(r) = "ACQUIRE" -> run.state = "COMPLETED" /\ run.outputs = <<<<"ACQUISITION", r>>>>
    [] Kind(r) = "NORMALIZE" -> /\ run.outputs = Append(Inputs(r), Own(r))
                                /\ (run.state = "QUARANTINED") = (artifacts[r] = "QUARANTINED")
    [] Kind(r) = "BUILD_CANDIDATES" -> run.state = "COMPLETED" /\ run.outputs = Append(Inputs(r), <<"CANDIDATE_BUILD", r>>)

\* validateFailedOutcome()
ValidFailure(r, run) ==
  LET built == Contains(run.outputs, <<"CANDIDATE_BUILD", r>>)
      members == IF built THEN Front(run.outputs) ELSE run.outputs
  IN
  /\ run.code = "INGEST_DISALLOWED" => Kind(r) = "ACQUIRE" /\ ~intents[r].permitted
  /\ run.code = "DERIVATION_DISALLOWED" =>
       \/ Kind(r) = "NORMALIZE" /\ run.stage = "NORMALIZATION" /\ ~intents[r].permitted
       \/ Kind(r) = "BUILD_CANDIDATES" /\ run.stage = "CANDIDATE_ASSEMBLY"
  /\ run.code = "MEMBER_NOT_ELIGIBLE" =>
       /\ Kind(r) = "BUILD_CANDIDATES" /\ run.stage = "CANDIDATE_ASSEMBLY" /\ ~built
       /\ members # <<>> /\ members[Len(members)][1] = "QUARANTINED"
  /\ CASE Kind(r) = "REGISTER" -> run.stage = "REGISTRATION" /\ run.outputs = <<>>
       [] Kind(r) = "ACQUIRE" ->
            /\ run.stage = "CAPTURE"
            /\ \/ run.outputs = <<>>
               \/ run.code = "STAGE_FAILED" /\ run.outputs \in {<<<<"CONTENT", r>>>>, <<<<"ACQUISITION", r>>>>}
       [] Kind(r) = "NORMALIZE" ->
            \/ run.stage = "EVIDENCE_INSPECTION" /\ run.outputs = <<>>
            \/ /\ run.stage = "NORMALIZATION"
               /\ \/ run.outputs = Inputs(r)
                  \/ /\ run.outputs = Append(Inputs(r), Own(r)) /\ ~run.unconfirmed
                     /\ run.code \in {"STAGE_FAILED", "DEPENDENCY_INTEGRITY_FAILED"}
       [] Kind(r) = "BUILD_CANDIDATES" ->
            /\ IsPrefix(members, Inputs(r))
            /\ built => members = Inputs(r) /\ ~run.unconfirmed
            /\ \/ run.stage = "CANDIDATE_ASSEMBLY" /\ (built => run.code = "STAGE_FAILED")
               \/ run.stage = "BUILD_INSPECTION" /\ members = Inputs(r) /\ (built \/ run.unconfirmed)

Valid(r, run) ==
  /\ intents[r] # None
  /\ \A i \in DOMAIN run.outputs : Inspectable(run.outputs[i])
  /\ IsInjective(run.outputs)
  /\ IF run.state = "FAILED" THEN ValidFailure(r, run) ELSE ValidSuccess(r, run)

-----------------------------------------------------------------------------
(* Properties.                                                             *)

\* The folders hold records of their kinds, never more of them than names() will
\* enumerate again: the limits hold for workers that raced past the first look.
TypeOK ==
  /\ lock \in BOOLEAN /\ (\A c \in Workers : Holds(c) => lock)
  /\ \A r \in Requests :
       /\ intents[r] \in {None} \cup [permitted : BOOLEAN]
       /\ artifacts[r] \in Artifacts \cup {None}
       /\ runs[r] # None => runs[r].state \in {"COMPLETED", "QUARANTINED", "FAILED"}
  /\ Cardinality(Written(intents)) <= MaxIntents /\ Cardinality(Written(registered)) <= MaxNames

\* A request is carried out at most once, by one worker, for concurrent and
\* retried executions, timeouts and killed workers: an artifact or a run is
\* always of that one execution.
RequestsRunOnce ==
  \A r \in Requests :
    /\ executed[r] <= 1
    /\ executed[r] = 1 => intents[r] # None
    /\ artifacts[r] # None \/ runs[r] # None => executed[r] = 1
    /\ \A c, d \in Workers : calls[c].claimed /\ calls[d].claimed /\ R(c) = R(d) => c = d

\* Whatever fails and wherever, the receipt execute() saves is one that run()
\* accepts, then and later: its outputs are on disk, belong to the request, and
\* could have preceded the failure it names.
RunsValidate == \A r \in Written(runs) : Valid(r, runs[r])

\* How far a request has come, what its intent says of the policy, and what there
\* is of it: the bytes of a capture without their receipt are nothing yet.
Status(r) ==
  IF runs[r] # None THEN runs[r].state
  ELSE IF executed[r] # 0 THEN "BEGUN"
  ELSE IF intents[r] # None THEN "CLAIMED" ELSE "ABSENT"
Statuses == [r \in Requests |-> Status(r)]
Permissions == [r \in Requests |-> IF intents[r] = None THEN None ELSE intents[r].permitted]
Produced == [r \in Requests |-> IF artifacts[r] = "CONTENT" THEN None ELSE artifacts[r]]

Abstract == INSTANCE ProductionRequests WITH
  MaxRequests <- MaxIntents,
  Sources   <- [r \in Requests |-> ToSet(Command[r].inputs)],
  Results   <- [r \in Requests |-> Products(r)],
  Registers <- [r \in Requests |-> IF Kind(r) = "REGISTER" THEN {Command[r].registers} ELSE {}],
  status    <- Statuses,
  allowed   <- Permissions,
  product   <- Produced

\* Killed and rival workers, stale first looks, failures between a publication and
\* its receipt: execute() does nothing to a request but what ProductionRequests
\* does.  A product is made for one claim that the policy allowed, of products that
\* are there and not quarantined, and what closes the request is what it has made.
ImplementsProductionRequests == Abstract!Spec
=============================================================================
