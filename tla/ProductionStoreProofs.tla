----------------------- MODULE ProductionStoreProofs -----------------------
(***************************************************************************)
(* What the production store promises of a request and of its receipt, for *)
(* every set of workers, requests and commands.                            *)
(*                                                                         *)
(* Two facts carry the proof.  At most one worker has claimed a request,   *)
(* and none has once the request has a run, so nobody touches what a       *)
(* worker or a receipt lists as its own.  And what a stage lists as its    *)
(* dependencies is on disk for good when it is listed: the call's outputs  *)
(* are the first of its command's inputs, in their order, followed by what *)
(* the request made itself once it has.  RunFits says which of these lists *)
(* goes with which stage and error; it is stable, and implies what run()   *)
(* asks of a receipt.                                                      *)
(***************************************************************************)
EXTENDS ProductionStore, FiniteSetTheorems, SequenceTheorems, TLAPS

Specs == {Command[r].registers[2] : r \in {q \in Requests : Kind(q) = "REGISTER"}}
Outputs == Seq((Artifacts \cup {"REGISTRATION", None}) \X (Requests \cup Names))

Stages == {"REGISTRATION", "CAPTURE", "EVIDENCE_INSPECTION", "NORMALIZATION",
           "CANDIDATE_ASSEMBLY", "BUILD_INSPECTION"}
Before == {"idle", "reserve", "claim", "release"}
Running == {"register", "registerReserved", "depend", "publish", "published", "save"}
Registers == {"register", "registerReserved"}
Makes == {"depend", "publish", "published"}

Call == [pc : Before \cup Running, request : Requests \cup {None}, permitted : BOOLEAN,
         outputs : Outputs, claimed : BOOLEAN, stage : Stages \cup {None},
         code : Codes \cup {None}, unconfirmed : BOOLEAN]
Receipt == [state : {"COMPLETED", "QUARANTINED", "FAILED"}, stage : Stages \cup {None},
            code : Codes \cup {None}, outputs : Outputs, unconfirmed : BOOLEAN]

\* The folders and the calls are tables.
Tables ==
  /\ lock \in BOOLEAN /\ permitted \in BOOLEAN
  /\ intents \in [Requests -> [permitted : BOOLEAN] \cup {None}]
  /\ registered \in [Names -> Specs \cup {None}]
  /\ artifacts \in [Requests -> Artifacts \cup {None}]
  /\ runs \in [Requests -> Receipt \cup {None}]
  /\ calls \in [Workers -> Call]
  /\ executed \in [Requests -> {0, 1}]
  /\ faults \in Nat

\* catalog.lock is there while somebody holds it, and one does at most.
LockIsExclusive ==
  \A c \in Workers : Holds(c) => lock /\ \A d \in Workers : Holds(d) => c = d

\* What a claim means to the worker that has it and to the others.
ClaimFits(c) ==
  LET r == R(c) IN
  /\ ~At(c, "idle") => r \in Requests
  /\ calls[c].pc \in Running => calls[c].claimed /\ executed[r] = 1
  /\ calls[c].claimed =>
       /\ calls[c].pc \in Running \cup {"release"} /\ r \in Requests
       /\ intents[r] # None /\ calls[c].permitted = intents[r].permitted
       /\ runs[r] = None
       /\ At(c, "release") => executed[r] = 0
       /\ \A d \in Workers : calls[d].claimed /\ R(d) = r => c = d

RequestFits(r) ==
  /\ executed[r] = 1 => intents[r] # None
  /\ artifacts[r] # None \/ runs[r] # None => executed[r] = 1

ClaimsFit == (\A c \in Workers : ClaimFits(c)) /\ \A r \in Requests : RequestFits(r)

Bounded(table, max) == IsFiniteSet(Written(table)) /\ Cardinality(Written(table)) <= max
FoldersAreBounded == Bounded(intents, MaxIntents) /\ Bounded(registered, MaxNames)

-----------------------------------------------------------------------------
(* What a call and a receipt list.                                         *)

Size(r) == Len(Command[r].inputs)
Known(r, k) == \A i \in 1..k : Retained(Command[r].inputs[i])
Listing(r, k) == [i \in 1..k |-> Own(Command[r].inputs[i])]

Partly(r) == IF Kind(r) = "ACQUIRE" THEN {None, "CONTENT"} ELSE {None}
ArtifactsFit == \A r \in Requests : artifacts[r] \in Products(r) \cup Partly(r)

\* The stage that lists its k-th dependency.
StageAt(r, k) == IF Kind(r) = "NORMALIZE" /\ k > 0 THEN "NORMALIZATION" ELSE FirstStage(r)

Refusals == {"REFERENCE_NOT_FOUND", "REFERENCE_MISMATCH"}

Success(r, run) ==
  /\ run.code = None
  /\ run.state = IF artifacts[r] = "QUARANTINED" THEN "QUARANTINED" ELSE "COMPLETED"
  /\ Known(r, Size(r)) /\ artifacts[r] \in Products(r)
  /\ run.outputs = Append(Listing(r, Size(r)), Own(r))

\* The policy or a dependency was refused, after the first k of them.
Refused(r, run) ==
  \E k \in 0..Size(r) :
    /\ Known(r, k) /\ run.outputs = Listing(r, k) /\ run.stage = StageAt(r, k)
    /\ \/ run.code \in Refusals
       \/ run.code = "INGEST_DISALLOWED" /\ Kind(r) = "ACQUIRE" /\ ~intents[r].permitted
       \/ run.code = "DERIVATION_DISALLOWED" /\ k > 0 /\ ~intents[r].permitted
       \/ run.code = "MEMBER_NOT_ELIGIBLE" /\ k > 0 /\ artifacts[Command[r].inputs[k]] = "QUARANTINED"

\* Storage failed, before or after the artifact was there.
Faulted(r, run) ==
  LET others == Listing(r, Size(r)) IN
  /\ Known(r, Size(r))
  /\ \/ run.stage = StageAt(r, Size(r)) /\ run.outputs = others
        /\ run.code \in IF Kind(r) = "BUILD_CANDIDATES" THEN {"STAGE_FAILED"}
                        ELSE {"STAGE_FAILED", "DEPENDENCY_INTEGRITY_FAILED", "EVIDENCE_INTEGRITY_FAILED"}
     \/ /\ run.stage = StageAt(r, Size(r)) /\ run.outputs = Append(others, Own(r))
        /\ artifacts[r] \in Products(r) \cup (Partly(r) \ {None}) /\ ~run.unconfirmed
        /\ run.code \in IF Kind(r) = "NORMALIZE" THEN {"STAGE_FAILED", "DEPENDENCY_INTEGRITY_FAILED"}
                        ELSE {"STAGE_FAILED"}
     \/ /\ Kind(r) = "BUILD_CANDIDATES" /\ run.stage = "BUILD_INSPECTION"
        /\ run.code = "DEPENDENCY_INTEGRITY_FAILED" /\ artifacts[r] \in Products(r)
        /\ run.outputs = IF run.unconfirmed THEN others ELSE Append(others, Own(r))

Registration(r, run) ==
  LET made == Command[r].registers IN
  \/ run.code = None /\ run.state = "COMPLETED" /\ There(made)
     /\ run.outputs = <<<<"REGISTRATION", made[1]>>>>
  \/ /\ run.code \in {"PRODUCTION_BUSY", "STAGE_FAILED", "REGISTRATION_CONFLICT", "CATALOG_CAPACITY"}
     /\ run.state = "FAILED" /\ run.stage = "REGISTRATION" /\ run.outputs = <<>>

RunFits(r, run) ==
  IF Kind(r) = "REGISTER" THEN Registration(r, run)
  ELSE \/ Success(r, run)
       \/ run.state = "FAILED" /\ (Refused(r, run) \/ Faulted(r, run))

StageFits(c) ==
  LET call == calls[c]
      r == R(c)
      k == Len(call.outputs) IN
  /\ calls[c].pc \in Registers =>
       Kind(r) = "REGISTER" /\ call.stage = "REGISTRATION" /\ call.outputs = <<>>
  /\ calls[c].pc \in Makes =>
       /\ Kind(r) # "REGISTER" /\ call.stage = StageAt(r, k)
       /\ k <= Size(r) /\ Known(r, k) /\ call.outputs = Listing(r, k)
  /\ At(c, "depend") => artifacts[r] = None
  /\ At(c, "publish") => k = Size(r) /\ artifacts[r] \in Partly(r)
  /\ At(c, "published") => k = Size(r) /\ artifacts[r] \in Products(r)
  /\ ~At(c, "save") => call.code = None /\ ~call.unconfirmed
  /\ ~(calls[c].pc \in Running) => call.outputs = <<>>
  /\ At(c, "save") => RunFits(r, Run(call))

StagesFit ==
  /\ ArtifactsFit
  /\ \A c \in Workers : StageFits(c)
  /\ \A r \in Requests : runs[r] # None => RunFits(r, runs[r])

Inv == Tables /\ LockIsExclusive /\ ClaimsFit /\ FoldersAreBounded /\ StagesFit
-----------------------------------------------------------------------------
(* Sequences.                                                              *)

LEMMA ASequence ==
  ASSUME NEW S, NEW n \in Nat, NEW f \in [1..n -> S]
  PROVE  f \in Seq(S) /\ Len(f) = n
<1>1. f \in Seq(S)
  BY SeqDef
<1>2. DOMAIN f = 1..Len(f) /\ Len(f) \in Nat
  BY <1>1, LenProperties
<1> QED BY <1>1, <1>2

LEMMA FrontOfAppend ==
  ASSUME NEW S, NEW s \in Seq(S), NEW e \in S
  PROVE  Front(Append(s, e)) = s
<1> DEFINE t == Append(s, e)
<1>1. Len(s) \in Nat /\ Len(t) = Len(s) + 1 /\ \A i \in 1..Len(s) : t[i] = s[i]
  BY AppendProperties, LenProperties
<1>2. \A i \in 1..Len(s) : s[i] \in S
  BY ElementOfSeq
<1>3. Len(t) - 1 = Len(s) /\ 1 \in Int /\ Len(s) \in Int
  BY <1>1
<1> DEFINE u == SubSeq(t, 1, Len(s))
<1>4. /\ u \in Seq(S) /\ Len(u) = IF 1 <= Len(s) THEN Len(s) - 1 + 1 ELSE 0
      /\ \A i \in 1 .. Len(s) - 1 + 1 : u[i] = t[1 + i - 1]
  <2>1. \A i \in 1..Len(s) : t[i] \in S
    BY <1>1, <1>2
  <2> HIDE DEF t
  <2> QED BY <2>1, <1>3, SubSeqProperties
<1>5. Len(u) = Len(s) /\ \A i \in 1..Len(u) : u[i] = s[i]
  <2>1. Len(u) = Len(s)
    BY <1>1, <1>4
  <2>2. ASSUME NEW i \in 1..Len(s) PROVE u[i] = s[i]
    <3> HIDE DEF t, u
    <3>1. i \in Int /\ 1 + i - 1 = i /\ Len(s) - 1 + 1 = Len(s)
      BY <1>1
    <3> QED BY <3>1, <1>1, <1>4
  <2> QED BY <2>1, <2>2
<1>6. u = s
  <2> HIDE DEF u
  <2> QED BY <1>4, <1>5, SeqEqual
<1> QED BY <1>3, <1>6 DEF Front

LEMMA FrontIsASequence ==
  ASSUME NEW S, NEW s \in Seq(S), s # <<>>
  PROVE  Front(s) \in Seq(S)
<1>1. Len(s) \in Nat \ {0}
  BY EmptySeq
<1>2. \A i \in 1..Len(s) - 1 : s[i] \in S
  BY <1>1, ElementOfSeq
<1>3. 1 \in Int /\ Len(s) - 1 \in Int
  BY <1>1
<1> QED BY <1>2, <1>3, SubSeqProperties DEF Front

-----------------------------------------------------------------------------
(* Commands.                                                               *)

\* What a registration makes.
LEMMA Registrations ==
  ASSUME NEW r \in Requests, Kind(r) = "REGISTER"
  PROVE  /\ Command[r].registers[1] \in Names
         /\ Command[r].registers[2] \in Specs /\ Command[r].registers[2] # None
BY CommandsAreParsed DEF Names, Specs

\* The inputs of a command are other requests, each of them once.
LEMMA InputsAreOthers ==
  ASSUME NEW r \in Requests
  PROVE  /\ Command[r].inputs \in Seq(Requests) /\ Size(r) \in Nat
         /\ IsInjective(Command[r].inputs)
         /\ DOMAIN Command[r].inputs = 1..Size(r)
         /\ ~Derives(r) => Size(r) = 0
         /\ Kind(r) = "NORMALIZE" => Size(r) = 1
         /\ Derives(r) => Size(r) > 0
         /\ \A i \in 1..Size(r) :
              /\ Command[r].inputs[i] \in Requests /\ Command[r].inputs[i] # r
              /\ Kind(r) = "NORMALIZE" => Kind(Command[r].inputs[i]) = "ACQUIRE"
              /\ Kind(r) = "BUILD_CANDIDATES" => Kind(Command[r].inputs[i]) = "NORMALIZE"
<1>0. Kind(r) \in Kinds
  BY ProductionAssumption
<1>1. CASE Kind(r) \in {"REGISTER", "ACQUIRE"}
  <2>1. Command[r].inputs = <<>>
    BY <1>1, CommandsAreParsed
  <2> QED BY <1>1, <2>1, EmptySeq DEF Size, Derives, IsInjective
<1>2. CASE Kind(r) = "NORMALIZE"
  <2>1. PICK q \in Requests : Kind(q) = "ACQUIRE" /\ Command[r].inputs = <<q>>
    BY <1>2, CommandsAreParsed
  <2>2. /\ <<q>> \in Seq(Requests) /\ Len(<<q>>) = 1 /\ DOMAIN <<q>> = 1..1
        /\ \A i \in 1..1 : <<q>>[i] = q
    OBVIOUS
  <2>3. q # r
    BY <1>2, <2>1
  <2>4. IsInjective(<<q>>)
    BY DEF IsInjective
  <2> QED BY <1>2, <2>1, <2>2, <2>3, <2>4 DEF Size, Derives
<1>3. CASE Kind(r) = "BUILD_CANDIDATES"
  <2> DEFINE S == {q \in Requests : Kind(q) = "NORMALIZE"}
             inputs == Command[r].inputs
  <2>1. inputs \in Seq(S) /\ IsInjective(inputs) /\ inputs # <<>>
    BY <1>3, CommandsAreParsed
  <2>6. Len(inputs) > 0
    BY <2>1, EmptySeq, LenProperties
  <2>2. inputs \in Seq(Requests)
    BY <2>1
  <2>3. Len(inputs) \in Nat /\ DOMAIN inputs = 1..Len(inputs)
    BY <2>1, LenProperties
  <2>4. \A i \in 1..Len(inputs) : inputs[i] \in S
    BY <2>1, ElementOfSeq
  <2>5. \A i \in 1..Len(inputs) : inputs[i] \in Requests /\ inputs[i] # r
                                    /\ Kind(inputs[i]) = "NORMALIZE"
    BY <1>3, <2>4
  <2> HIDE DEF S
  <2> QED BY <1>3, <2>1, <2>2, <2>3, <2>5, <2>6 DEF Size, Derives
<1> QED BY <1>0, <1>1, <1>2, <1>3 DEF Kinds

-----------------------------------------------------------------------------
(* Outputs.                                                                *)

LEMMA OwnIsAnOutput ==
  ASSUME Tables, NEW r \in Requests
  PROVE  /\ Own(r) \in (Artifacts \cup {"REGISTRATION", None}) \X (Requests \cup Names)
         /\ Own(r)[1] = artifacts[r] /\ Own(r)[2] = r
BY DEF Tables, Own

LEMMA Listings ==
  ASSUME Tables, NEW r \in Requests, NEW k \in 0..Size(r)
  PROVE  /\ Listing(r, k) \in Outputs /\ Len(Listing(r, k)) = k
         /\ \A i \in 1..k : Listing(r, k)[i] = Own(Command[r].inputs[i])
<1>0. k \in Nat /\ Size(r) \in Nat /\ \A i \in 1..k : i \in 1..Size(r)
  BY InputsAreOthers
<1> DEFINE Out == (Artifacts \cup {"REGISTRATION", None}) \X (Requests \cup Names)
<1>1. \A i \in 1..k : Own(Command[r].inputs[i]) \in Out
  BY <1>0, InputsAreOthers, OwnIsAnOutput
<1>2. Listing(r, k) \in [1..k -> Out]
  <2> HIDE DEF Out
  <2> QED BY <1>1 DEF Listing
<1>3. Listing(r, k) \in Seq(Out) /\ Len(Listing(r, k)) = k
  <2> HIDE DEF Out
  <2> QED BY <1>0, <1>2, ASequence
<1>4. \A i \in 1..k : Listing(r, k)[i] = Own(Command[r].inputs[i])
  BY DEF Listing
<1> QED BY <1>3, <1>4 DEF Outputs

LEMMA NothingListed ==
  ASSUME NEW r
  PROVE  Listing(r, 0) = <<>>
BY DEF Listing

LEMMA ListingGrows ==
  ASSUME Tables, NEW r \in Requests, NEW k \in 0..Size(r), k + 1 <= Size(r)
  PROVE  Append(Listing(r, k), Own(Command[r].inputs[k + 1])) = Listing(r, k + 1)
<1>0. k \in Nat /\ k + 1 \in 0..Size(r) /\ k + 1 \in 1..Size(r) /\ Size(r) \in Nat
  BY InputsAreOthers
<1> DEFINE Out == (Artifacts \cup {"REGISTRATION", None}) \X (Requests \cup Names)
           e == Own(Command[r].inputs[k + 1])
           s == Listing(r, k)
           t == Listing(r, k + 1)
<1>1. e \in Out
  BY <1>0, InputsAreOthers, OwnIsAnOutput
<1>2. /\ s \in Seq(Out) /\ Len(s) = k
      /\ \A i \in 1..k : s[i] = Own(Command[r].inputs[i])
  BY Listings DEF Outputs
<1>3. /\ t \in Seq(Out) /\ Len(t) = k + 1
      /\ \A i \in 1..k + 1 : t[i] = Own(Command[r].inputs[i])
  BY <1>0, Listings DEF Outputs
<1>4. /\ Append(s, e) \in Seq(Out) /\ Len(Append(s, e)) = k + 1
      /\ \A i \in 1..k : Append(s, e)[i] = s[i]
      /\ Append(s, e)[k + 1] = e
  <2> HIDE DEF Out, e, s, t
  <2> QED BY <1>1, <1>2, AppendProperties
<1>5. ASSUME NEW i \in 1..k + 1 PROVE Append(s, e)[i] = t[i]
  <2>1. i \in 1..k \/ i = k + 1
    BY <1>0
  <2>2. CASE i \in 1..k
    <3> HIDE DEF s, t
    <3> QED BY <2>2, <1>0, <1>2, <1>3, <1>4
  <2>3. CASE i = k + 1
    <3>1. t[k + 1] = e
      BY <1>0, <1>3
    <3> HIDE DEF s, t, e
    <3> QED BY <2>3, <3>1, <1>4
  <2> QED BY <2>1, <2>2, <2>3
<1> HIDE DEF Out, e, s, t
<1>6. Append(s, e) = t
  BY <1>3, <1>4, <1>5, SeqEqual
<1> QED BY <1>6 DEF s, e, t
-----------------------------------------------------------------------------
(* Calls.  Every step changes the call of one worker.                      *)

Moves(c, call) ==
  /\ call \in Call /\ calls' \in [Workers -> Call] /\ calls'[c] = call
  /\ \A d \in Workers : d # c => calls'[d] = calls[d]

LEMMA CallBecomes ==
  ASSUME Tables, NEW c \in Workers, NEW call \in Call, calls' = [calls EXCEPT ![c] = call]
  PROVE  Moves(c, call)
BY DEF Tables, Moves

LEMMA CallGoes ==
  ASSUME Tables, NEW c \in Workers, NEW pc \in Before \cup Running, Goto(c, pc)
  PROVE  Moves(c, [calls[c] EXCEPT !.pc = pc])
<1>1. calls[c] \in Call
  BY DEF Tables
<1>2. [calls[c] EXCEPT !.pc = pc] \in Call
  BY <1>1 DEF Call
<1>3. calls' = [calls EXCEPT ![c] = [calls[c] EXCEPT !.pc = pc]]
  BY DEF Goto, Tables
<1> QED BY <1>2, <1>3, CallBecomes

LEMMA FreshIsACall ==
  /\ Fresh \in Call /\ Fresh.pc = "idle" /\ ~Fresh.claimed
  /\ Fresh.code = None /\ ~Fresh.unconfirmed /\ Fresh.outputs = <<>>
BY EmptySeq DEF Fresh, Call, Before, Outputs

LEMMA AnswerMoves ==
  ASSUME Tables, NEW c \in Workers, Answer(c)
  PROVE  Moves(c, Fresh)
BY FreshIsACall, CallBecomes DEF Answer

LEMMA FoundAreOutputs ==
  ASSUME Tables, NEW call \in Call, call.request \in Requests,
         NEW code, NEW unconfirmed \in BOOLEAN
  PROVE  Found(call, code, unconfirmed) \in Outputs
<1> DEFINE Out == (Artifacts \cup {"REGISTRATION", None}) \X (Requests \cup Names)
           own == Own(call.request)
           s == call.outputs
<1>1. s \in Seq(Out) /\ own \in Out
  BY OwnIsAnOutput DEF Call, Outputs
<1>2. Append(s, own) \in Seq(Out)
  <2> HIDE DEF Out, own, s
  <2> QED BY <1>1, AppendProperties
<1>3. ASSUME Contains(s, own) PROVE Front(s) \in Seq(Out)
  <2> HIDE DEF Out, own, s
  <2>1. s # <<>>
    BY <1>3, EmptySeq DEF Contains
  <2> QED BY <1>1, <2>1, FrontIsASequence
<1> QED BY <1>1, <1>2, <1>3 DEF Found, Outputs

LEMMA FailMoves ==
  ASSUME Tables, NEW c \in Workers, NEW call \in Call, call.request \in Requests,
         NEW code \in Codes, NEW unconfirmed \in BOOLEAN,
         Fail(c, call, code, unconfirmed)
  PROVE  Moves(c, [call EXCEPT !.pc = "save", !.code = code, !.unconfirmed = unconfirmed,
                               !.outputs = Found(call, code, unconfirmed)])
<1> DEFINE failed == [call EXCEPT !.pc = "save", !.code = code, !.unconfirmed = unconfirmed,
                                  !.outputs = Found(call, code, unconfirmed)]
<1>1. Found(call, code, unconfirmed) \in Outputs
  BY FoundAreOutputs
<1>2. failed \in Call
  BY <1>1 DEF Call, Running
<1>3. calls' = [calls EXCEPT ![c] = failed]
  BY DEF Fail
<1> HIDE DEF failed
<1>4. Moves(c, failed)
  BY <1>2, <1>3, CallBecomes
<1> QED BY <1>4 DEF failed

\* What a worker that carries a request out leaves alone.
Advances(c) ==
  /\ Tables'
  /\ calls[c].pc \in Running /\ calls'[c].pc \in Running
  /\ calls'[c].request = R(c) /\ calls'[c].permitted = calls[c].permitted
  /\ calls'[c].claimed = calls[c].claimed
  /\ \A d \in Workers : d # c => calls'[d] = calls[d]
  /\ UNCHANGED <<intents, runs, executed>>
  /\ \A r \in Requests : r # R(c) => artifacts'[r] = artifacts[r]

Sets(c, call) == call.pc \in Running /\ call.request = R(c)
                   /\ call.permitted = calls[c].permitted /\ call.claimed = calls[c].claimed

LEMMA MovesAdvances ==
  ASSUME Tables, NEW c \in Workers, calls[c].pc \in Running, NEW call, Moves(c, call), Sets(c, call),
         UNCHANGED <<permitted, intents, runs, executed>>, lock' \in BOOLEAN, faults' \in Nat,
         registered' \in [Names -> Specs \cup {None}],
         artifacts' \in [Requests -> Artifacts \cup {None}],
         \A r \in Requests : r # R(c) => artifacts'[r] = artifacts[r]
  PROVE  Advances(c)
BY DEF Tables, Moves, Sets, Advances

LEMMA FailAdvances ==
  ASSUME Tables, NEW c \in Workers, calls[c].pc \in Running, NEW call \in Call, R(c) \in Requests,
         Sets(c, [call EXCEPT !.pc = "save"]),
         NEW code \in Codes, NEW unconfirmed \in BOOLEAN, Fail(c, call, code, unconfirmed),
         UNCHANGED <<permitted, intents, runs, executed, artifacts>>, lock' \in BOOLEAN, faults' \in Nat,
         registered' \in [Names -> Specs \cup {None}]
  PROVE  Advances(c)
<1> DEFINE failed == [call EXCEPT !.pc = "save", !.code = code, !.unconfirmed = unconfirmed,
                                  !.outputs = Found(call, code, unconfirmed)]
<1>1. call.request = R(c)
  BY DEF Sets, Call
<1>2. Moves(c, failed)
  BY <1>1, FailMoves
<1>3. Sets(c, failed)
  BY DEF Sets, Call
<1>4. artifacts' \in [Requests -> Artifacts \cup {None}] /\ \A r \in Requests : artifacts'[r] = artifacts[r]
  BY DEF Tables
<1> HIDE DEF failed
<1> QED BY <1>2, <1>3, <1>4, MovesAdvances
-----------------------------------------------------------------------------
(* The steps that carry a request out.                                     *)

LEMMA Carried ==
  ASSUME Inv, NEW c \in Workers, ~At(c, "idle")
  PROVE  /\ R(c) \in Requests /\ calls[c] \in Call
         /\ Kind(R(c)) \in Kinds
         /\ calls[c].pc \in Registers => Kind(R(c)) = "REGISTER"
         /\ calls[c].pc \in Makes => Kind(R(c)) # "REGISTER"
BY ProductionAssumption DEF Inv, Tables, ClaimsFit, ClaimFits, StagesFit, StageFits

Faulty == faults' \in Nat
LEMMA FaultsAreCounted ==
  ASSUME Tables, Fails \/ UNCHANGED faults
  PROVE  Faulty
BY DEF Tables, Fails, Faulty

\* The actions that write no table of records.
LEMMA ReadersWriteNothing ==
  ASSUME NEW c \in Workers
  PROVE  /\ \A r \in Requests : Look(c, r) => UNCHANGED <<intents, registered, artifacts, runs, executed>>
         /\ \/ Reserve(c) \/ ReserveName(c) \/ Depend(c) \/ Readback(c) \/ Fault(c) \/ Kill(c)
               => UNCHANGED <<intents, registered, artifacts, runs, executed>>
<1>1. ASSUME NEW r \in Requests, Look(c, r)
      PROVE  UNCHANGED <<intents, registered, artifacts, runs, executed>>
  BY <1>1 DEF Look, disk, history
<1>2. Reserve(c) => UNCHANGED <<intents, registered, artifacts, runs, executed>>
  BY DEF Reserve, history
<1>3. ReserveName(c) => UNCHANGED <<intents, registered, artifacts, runs, executed>>
  BY DEF ReserveName, history
<1>4. Depend(c) => UNCHANGED <<intents, registered, artifacts, runs, executed>>
  BY DEF Depend, disk, history
<1>5. Readback(c) => UNCHANGED <<intents, registered, artifacts, runs, executed>>
  BY DEF Readback, disk, history
<1>6. Fault(c) => UNCHANGED <<intents, registered, artifacts, runs, executed>>
  BY DEF Fault, disk
<1>7. Kill(c) => UNCHANGED <<intents, registered, artifacts, runs, executed>>
  BY DEF Kill, disk
<1> QED BY <1>1, <1>2, <1>3, <1>4, <1>5, <1>6, <1>7

\* The others write one table each.
LEMMA WritersWriteOneTable ==
  ASSUME NEW c \in Workers
  PROVE  /\ Claim(c) => UNCHANGED <<registered, artifacts, runs, executed>>
         /\ Release(c) => UNCHANGED <<intents, registered, artifacts, runs>>
         /\ RegisterReserved(c) => UNCHANGED <<intents, artifacts, runs, executed>>
         /\ Publish(c) => UNCHANGED <<intents, registered, runs, executed>>
         /\ Save(c) => UNCHANGED <<intents, registered, artifacts, executed>>
<1>1. Claim(c) => UNCHANGED <<registered, artifacts, runs, executed>>
  BY DEF Claim, history
<1>2. Release(c) => UNCHANGED <<intents, registered, artifacts, runs>>
  BY DEF Release
<1>3. RegisterReserved(c) => UNCHANGED <<intents, artifacts, runs, executed>>
  BY DEF RegisterReserved
<1>4. Publish(c) => UNCHANGED <<intents, registered, runs, executed>>
  BY DEF Publish, history
<1>5. Save(c) => UNCHANGED <<intents, registered, artifacts, executed>>
  BY DEF Save
<1> QED BY <1>1, <1>2, <1>3, <1>4, <1>5

\* Whatever a step changes of the tables, one of the writers changed it.
LEMMA WhoWrites ==
  ASSUME [Next]_vars
  PROVE  \/ UNCHANGED <<intents, registered, artifacts, runs, executed>>
         \/ \E c \in Workers : Claim(c) \/ Release(c) \/ RegisterReserved(c) \/ Publish(c) \/ Save(c)
<1>1. Recover \/ Lapse => UNCHANGED <<intents, registered, artifacts, runs, executed>>
  BY DEF Recover, Lapse, history
<1>2. UNCHANGED vars => UNCHANGED <<intents, registered, artifacts, runs, executed>>
  BY DEF vars, disk, history
<1> QED BY <1>1, <1>2, ReadersWriteNothing DEF Next

LEMMA ReserveNameAdvances ==
  ASSUME Inv, NEW c \in Workers, ReserveName(c)
  PROVE  Advances(c)
<1>1. Tables /\ At(c, "register") /\ calls[c] \in Call /\ R(c) \in Requests /\ calls[c].pc \in Running
  BY Carried DEF Inv, ReserveName, At, Running
<1>2. UNCHANGED <<permitted, intents, registered, artifacts, runs, executed, faults>> /\ lock' \in BOOLEAN
  BY <1>1 DEF ReserveName, history, Tables
<1>3. /\ registered' \in [Names -> Specs \cup {None}] /\ faults' \in Nat
      /\ artifacts' \in [Requests -> Artifacts \cup {None}] /\ \A r \in Requests : artifacts'[r] = artifacts[r]
  BY <1>1, <1>2 DEF Tables
<1>4. CASE Goto(c, "registerReserved")
  <2>1. Moves(c, [calls[c] EXCEPT !.pc = "registerReserved"])
    BY <1>1, <1>4, CallGoes DEF Running
  <2>2. Sets(c, [calls[c] EXCEPT !.pc = "registerReserved"])
    BY <1>1 DEF Sets, Call, Running, R
  <2> QED BY <1>1, <1>2, <1>3, <2>1, <2>2, MovesAdvances
<1>5. CASE Fail(c, calls[c], "PRODUCTION_BUSY", FALSE)
  <2>1. Sets(c, [calls[c] EXCEPT !.pc = "save"])
    BY <1>1 DEF Sets, Call, Running, R
  <2>2. "PRODUCTION_BUSY" \in Codes
    BY DEF Codes
  <2> QED BY <1>1, <1>2, <1>3, <1>5, <2>1, <2>2, FailAdvances
<1> QED BY <1>4, <1>5 DEF ReserveName, Refuse

LEMMA RegisterAdvances ==
  ASSUME Inv, NEW c \in Workers, RegisterReserved(c)
  PROVE  Advances(c)
<1> DEFINE made == Command[R(c)].registers
<1>1. /\ Tables /\ At(c, "registerReserved") /\ calls[c] \in Call /\ R(c) \in Requests
      /\ calls[c].pc \in Running /\ Kind(R(c)) = "REGISTER"
  BY Carried DEF Inv, RegisterReserved, At, Running, Registers
<1>2. made[1] \in Names /\ made[2] \in Specs
  BY <1>1, Registrations
<1>3. UNCHANGED <<permitted, intents, artifacts, runs, executed>> /\ lock' \in BOOLEAN /\ faults' \in Nat
  <2>1. UNCHANGED lock \/ lock' = FALSE
    BY DEF RegisterReserved
  <2>2. Fails \/ UNCHANGED faults
    BY DEF RegisterReserved
  <2>3. faults' \in Nat
    BY <1>1, <2>2, FaultsAreCounted DEF Faulty
  <2> QED BY <1>1, <2>1, <2>3 DEF RegisterReserved, Tables
<1>4. /\ registered' \in [Names -> Specs \cup {None}]
      /\ artifacts' \in [Requests -> Artifacts \cup {None}] /\ \A r \in Requests : artifacts'[r] = artifacts[r]
  <2>1. registered' = registered \/ registered' = [registered EXCEPT ![made[1]] = made[2]]
    BY DEF RegisterReserved
  <2> QED BY <1>1, <1>2, <1>3, <2>1 DEF Tables
<1>5. Sets(c, [calls[c] EXCEPT !.pc = "save"])
  BY <1>1 DEF Sets, Call, Running, R
<1>6. ASSUME NEW code \in Codes, Fail(c, calls[c], code, FALSE) PROVE Advances(c)
  BY <1>1, <1>3, <1>4, <1>5, <1>6, FailAdvances
<1>7. ASSUME calls' = [calls EXCEPT ![c].pc = "save", ![c].outputs = <<<<"REGISTRATION", made[1]>>>>]
      PROVE  Advances(c)
  <2> DEFINE call == [calls[c] EXCEPT !.pc = "save", !.outputs = <<<<"REGISTRATION", made[1]>>>>]
  <2>1. <<<<"REGISTRATION", made[1]>>>> \in Outputs
    BY <1>2 DEF Outputs
  <2>2. call \in Call /\ Sets(c, call)
    BY <1>1, <2>1 DEF Call, Running, Sets, R
  <2>3. calls' = [calls EXCEPT ![c] = call]
    BY <1>1, <1>7 DEF Tables
  <2> HIDE DEF call
  <2>4. Moves(c, call)
    BY <1>1, <2>2, <2>3, CallBecomes
  <2> QED BY <1>1, <1>3, <1>4, <2>2, <2>4, MovesAdvances
<1>8. \/ Fail(c, calls[c], "STAGE_FAILED", FALSE)
      \/ calls' = [calls EXCEPT ![c].pc = "save", ![c].outputs = <<<<"REGISTRATION", made[1]>>>>]
      \/ Fail(c, calls[c], "REGISTRATION_CONFLICT", FALSE)
      \/ Fail(c, calls[c], "CATALOG_CAPACITY", FALSE)
  BY DEF RegisterReserved, Refuse
<1>9. "STAGE_FAILED" \in Codes /\ "REGISTRATION_CONFLICT" \in Codes /\ "CATALOG_CAPACITY" \in Codes
  BY DEF Codes
<1> QED BY <1>6, <1>7, <1>8, <1>9

\* The call that has listed one more dependency.
Inspected(c) ==
  LET r == R(c)
      next == Len(calls[c].outputs) + 1 IN
  [calls[c] EXCEPT !.stage = IF Kind(r) = "NORMALIZE" THEN "NORMALIZATION" ELSE @,
                   !.outputs = Append(@, Own(Command[r].inputs[next]))]

LEMMA InspectedIsACall ==
  ASSUME Inv, NEW c \in Workers, At(c, "depend"), Len(calls[c].outputs) + 1 <= Size(R(c))
  PROVE  /\ Inspected(c) \in Call /\ Sets(c, Inspected(c))
         /\ Inspected(c).pc = "depend"
         /\ Inspected(c).code = calls[c].code /\ Inspected(c).unconfirmed = calls[c].unconfirmed
         /\ Inspected(c).outputs = Append(calls[c].outputs, Own(Command[R(c)].inputs[Len(calls[c].outputs) + 1]))
         /\ Inspected(c).stage = IF Kind(R(c)) = "NORMALIZE" THEN "NORMALIZATION" ELSE calls[c].stage
<1> DEFINE Out == (Artifacts \cup {"REGISTRATION", None}) \X (Requests \cup Names)
           s == calls[c].outputs
           q == Command[R(c)].inputs[Len(s) + 1]
<1>1. Tables /\ calls[c] \in Call /\ R(c) \in Requests
  BY Carried DEF Inv, At
<1>2. s \in Seq(Out) /\ Len(s) \in Nat
  <2>1. s \in Seq(Out)
    BY <1>1 DEF Call, Outputs
  <2> QED BY <2>1, LenProperties
<1>3. q \in Requests
  <2>1. Len(s) + 1 \in 1..Size(R(c))
    BY <1>1, <1>2, InputsAreOthers
  <2> QED BY <1>1, <2>1, InputsAreOthers
<1>4. Own(q) \in Out
  BY <1>1, <1>3, OwnIsAnOutput
<1>5. Append(s, Own(q)) \in Outputs
  <2>1. Append(s, Own(q)) \in Seq(Out)
    <3> HIDE DEF Out, s, q
    <3> QED BY <1>2, <1>4, AppendProperties
  <2> QED BY <2>1 DEF Outputs
<1> HIDE DEF Out
<1> HIDE DEF s
<1>6. Inspected(c).outputs = Append(calls[c].outputs, Own(Command[R(c)].inputs[Len(calls[c].outputs) + 1]))
  BY <1>1 DEF Inspected, Call
<1>7. /\ Inspected(c).pc = "depend" /\ Inspected(c).request = R(c)
      /\ Inspected(c).code = calls[c].code /\ Inspected(c).unconfirmed = calls[c].unconfirmed
      /\ Inspected(c).claimed = calls[c].claimed /\ Inspected(c).permitted = calls[c].permitted
      /\ Inspected(c).stage = IF Kind(R(c)) = "NORMALIZE" THEN "NORMALIZATION" ELSE calls[c].stage
  BY <1>1 DEF Inspected, Call, At, R
<1>8. Inspected(c) \in Call
  <2> DEFINE outputs == Append(calls[c].outputs, Own(Command[R(c)].inputs[Len(calls[c].outputs) + 1]))
             stage == IF Kind(R(c)) = "NORMALIZE" THEN "NORMALIZATION" ELSE calls[c].stage
  <2>1. outputs \in Outputs /\ stage \in Stages \cup {None}
    BY <1>1, <1>5 DEF Call, Stages, s, q
  <2>2. Inspected(c) = [calls[c] EXCEPT !.stage = stage, !.outputs = outputs]
    BY <1>1 DEF Inspected, Call
  <2> HIDE DEF outputs, stage
  <2> QED BY <1>1, <2>1, <2>2 DEF Call
<1> QED BY <1>6, <1>7, <1>8 DEF Sets, Running

LEMMA DependAdvances ==
  ASSUME Inv, NEW c \in Workers, Depend(c)
  PROVE  Advances(c)
<1> DEFINE r == R(c)
           next == Len(calls[c].outputs) + 1
<1>1. Tables /\ At(c, "depend") /\ calls[c] \in Call /\ r \in Requests /\ calls[c].pc \in Running
  BY Carried DEF Inv, Depend, At, Running
<1>2. UNCHANGED <<permitted, intents, registered, artifacts, runs, executed, faults>> /\ lock' \in BOOLEAN
  BY <1>1 DEF Depend, history, disk, Tables
<1>3. /\ registered' \in [Names -> Specs \cup {None}] /\ faults' \in Nat
      /\ artifacts' \in [Requests -> Artifacts \cup {None}] /\ \A q \in Requests : artifacts'[q] = artifacts[q]
  BY <1>1, <1>2 DEF Tables
<1>4. ASSUME NEW code \in Codes, NEW call \in Call, Sets(c, call), Fail(c, call, code, FALSE)
      PROVE  Advances(c)
  <2>1. Sets(c, [call EXCEPT !.pc = "save"])
    BY <1>4 DEF Sets, Call, Running
  <2> QED BY <1>1, <1>2, <1>3, <1>4, <2>1, FailAdvances
<1>5. Sets(c, calls[c])
  BY <1>1 DEF Sets, R
<1>6. CASE ~Usable(r)
  <2>1. Fail(c, calls[c], "REFERENCE_NOT_FOUND", FALSE) /\ "REFERENCE_NOT_FOUND" \in Codes
    BY <1>6 DEF Depend, Refuse, Codes
  <2> QED BY <1>1, <1>4, <1>5, <2>1
<1>7. CASE Usable(r) /\ next <= Size(r)
  <2>1. Inspected(c) \in Call /\ Sets(c, Inspected(c))
    BY <1>1, <1>7, InspectedIsACall
  <2>2. \/ Fail(c, calls[c], "REFERENCE_MISMATCH", FALSE)
        \/ Fail(c, Inspected(c), "MEMBER_NOT_ELIGIBLE", FALSE)
        \/ Fail(c, Inspected(c), "DERIVATION_DISALLOWED", FALSE)
        \/ calls' = [calls EXCEPT ![c] = Inspected(c)]
    BY <1>7 DEF Depend, Refuse, Inspected, Size
  <2>3. CASE calls' = [calls EXCEPT ![c] = Inspected(c)]
    <3>1. Moves(c, Inspected(c))
      BY <1>1, <2>1, <2>3, CallBecomes
    <3> QED BY <1>1, <1>2, <1>3, <2>1, <3>1, MovesAdvances
  <2>4. "REFERENCE_MISMATCH" \in Codes /\ "MEMBER_NOT_ELIGIBLE" \in Codes /\ "DERIVATION_DISALLOWED" \in Codes
    BY DEF Codes
  <2> QED BY <1>1, <1>4, <1>5, <2>1, <2>2, <2>3, <2>4
<1>8. CASE Usable(r) /\ ~(next <= Size(r))
  <2>1. Fail(c, calls[c], "INGEST_DISALLOWED", FALSE) \/ Goto(c, "publish")
    BY <1>8 DEF Depend, Refuse, Size
  <2>2. CASE Goto(c, "publish")
    <3>1. Moves(c, [calls[c] EXCEPT !.pc = "publish"])
      BY <1>1, <2>2, CallGoes DEF Running
    <3>2. Sets(c, [calls[c] EXCEPT !.pc = "publish"])
      BY <1>1 DEF Sets, Call, Running, R
    <3> QED BY <1>1, <1>2, <1>3, <3>1, <3>2, MovesAdvances
  <2>3. "INGEST_DISALLOWED" \in Codes
    BY DEF Codes
  <2> QED BY <1>1, <1>4, <1>5, <2>1, <2>2, <2>3
<1> QED BY <1>6, <1>7, <1>8

LEMMA PublishAdvances ==
  ASSUME Inv, NEW c \in Workers, Publish(c)
  PROVE  Advances(c)
<1> DEFINE r == R(c)
<1>1. /\ Tables /\ At(c, "publish") /\ calls[c] \in Call /\ r \in Requests /\ calls[c].pc \in Running
      /\ Kind(r) \in Kinds /\ Kind(r) # "REGISTER"
  BY Carried DEF Inv, Publish, At, Running, Makes
<1>2. PICK artifact \in Publishes(r) :
        /\ artifacts' = [artifacts EXCEPT ![r] = artifact]
        /\ IF artifact = "CONTENT" THEN UNCHANGED calls ELSE Goto(c, "published")
  BY DEF Publish
<1>3. artifact \in Artifacts
  BY <1>1, <1>2 DEF Publishes, Products, Artifacts, Kinds
<1>4. UNCHANGED <<permitted, lock, intents, registered, runs, executed, faults>>
  BY DEF Publish, history
<1>5. /\ registered' \in [Names -> Specs \cup {None}] /\ faults' \in Nat /\ lock' \in BOOLEAN
      /\ artifacts' \in [Requests -> Artifacts \cup {None}]
      /\ \A q \in Requests : q # r => artifacts'[q] = artifacts[q]
  BY <1>1, <1>2, <1>3, <1>4 DEF Tables
<1>6. CASE Goto(c, "published")
  <2>1. Moves(c, [calls[c] EXCEPT !.pc = "published"])
    BY <1>1, <1>6, CallGoes DEF Running
  <2>2. Sets(c, [calls[c] EXCEPT !.pc = "published"])
    BY <1>1 DEF Sets, Call, Running, R
  <2> QED BY <1>1, <1>4, <1>5, <2>1, <2>2, MovesAdvances
<1>7. CASE UNCHANGED calls
  <2>1. Moves(c, calls[c])
    BY <1>1, <1>7 DEF Moves, Tables
  <2>2. Sets(c, calls[c])
    BY <1>1 DEF Sets, R
  <2> QED BY <1>1, <1>4, <1>5, <2>1, <2>2, MovesAdvances
<1> QED BY <1>2, <1>6, <1>7

LEMMA ListedIsACall ==
  ASSUME Tables, NEW call \in Call, call.request \in Requests
  PROVE  Listed(call) \in Call /\ Inspecting(call) \in Call
<1> DEFINE Out == (Artifacts \cup {"REGISTRATION", None}) \X (Requests \cup Names)
           s == call.outputs
           e == Own(call.request)
<1>1. s \in Seq(Out) /\ e \in Out
  BY OwnIsAnOutput DEF Call, Outputs
<1>2. Append(s, e) \in Seq(Out)
  <2> HIDE DEF Out, s, e
  <2> QED BY <1>1, AppendProperties
<1>3. Append(call.outputs, Own(call.request)) \in Outputs
  BY <1>2 DEF Outputs
<1>4. Listed(call) \in Call
  <2> HIDE DEF Out, s, e
  <2> QED BY <1>3 DEF Listed, Call
<1>5. [Listed(call) EXCEPT !.stage = "BUILD_INSPECTION"] \in Call
  BY <1>4 DEF Call, Stages
<1> QED BY <1>4, <1>5 DEF Inspecting

LEMMA ReadbackAdvances ==
  ASSUME Inv, NEW c \in Workers, Readback(c)
  PROVE  Advances(c)
<1>1. Tables /\ At(c, "published") /\ calls[c] \in Call /\ R(c) \in Requests /\ calls[c].pc \in Running
  BY Carried DEF Inv, Readback, At, Running
<1>2. UNCHANGED <<permitted, lock, intents, registered, artifacts, runs, executed, faults>>
  BY DEF Readback, history, disk
<1>3. /\ registered' \in [Names -> Specs \cup {None}] /\ faults' \in Nat /\ lock' \in BOOLEAN
      /\ artifacts' \in [Requests -> Artifacts \cup {None}] /\ \A q \in Requests : artifacts'[q] = artifacts[q]
  BY <1>1, <1>2 DEF Tables
<1> DEFINE call == [Listed(calls[c]) EXCEPT !.pc = "save"]
<1>4. Listed(calls[c]) \in Call
  BY <1>1, ListedIsACall DEF R
<1>5. call \in Call /\ Sets(c, call)
  BY <1>1, <1>4 DEF Listed, Call, Sets, Running, R
<1>6. calls' = [calls EXCEPT ![c] = call]
  BY <1>1 DEF Readback, Tables
<1> HIDE DEF call
<1>7. Moves(c, call)
  BY <1>1, <1>5, <1>6, CallBecomes
<1> QED BY <1>1, <1>2, <1>3, <1>5, <1>7, MovesAdvances

LEMMA FaultAdvances ==
  ASSUME Inv, NEW c \in Workers, Fault(c)
  PROVE  Advances(c)
<1>1. Tables /\ calls[c] \in Call /\ R(c) \in Requests /\ calls[c].pc \in Running
  BY Carried DEF Inv, Fault, At, Running
<1>2. UNCHANGED <<permitted, lock, intents, registered, artifacts, runs, executed>> /\ faults' \in Nat
  <2>1. faults' \in Nat
    BY <1>1, FaultsAreCounted DEF Faulty, Fault
  <2> QED BY <2>1 DEF Fault, disk
<1>3. /\ registered' \in [Names -> Specs \cup {None}] /\ lock' \in BOOLEAN
      /\ artifacts' \in [Requests -> Artifacts \cup {None}] /\ \A q \in Requests : artifacts'[q] = artifacts[q]
  BY <1>1, <1>2 DEF Tables
<1>4. PICK unconfirmed \in BOOLEAN, code \in Codes, call \in {calls[c], Inspecting(calls[c])} :
        Fail(c, call, code, unconfirmed)
  <2>1. PICK unconfirmed \in BOOLEAN :
          \/ Fail(c, calls[c], "STAGE_FAILED", unconfirmed)
          \/ Fail(c, Inspecting(calls[c]), IF Derives(R(c)) THEN "DEPENDENCY_INTEGRITY_FAILED"
                                            ELSE "EVIDENCE_INTEGRITY_FAILED", unconfirmed)
    BY DEF Fault
  <2>2. \A code \in {"STAGE_FAILED", "DEPENDENCY_INTEGRITY_FAILED", "EVIDENCE_INTEGRITY_FAILED"} : code \in Codes
    BY DEF Codes
  <2> QED BY <2>1, <2>2
<1>5. call \in Call
  BY <1>1, <1>4, ListedIsACall DEF R
<1>6. Sets(c, [call EXCEPT !.pc = "save"])
  BY <1>1, <1>4 DEF Sets, Call, Running, R, Inspecting, Listed
<1> QED BY <1>1, <1>2, <1>3, <1>4, <1>5, <1>6, FailAdvances
-----------------------------------------------------------------------------
(* Claims.                                                                 *)

LEMMA AdvancesKeepsClaims ==
  ASSUME Inv, NEW c \in Workers, Advances(c)
  PROVE  ClaimsFit'
<1>1. Tables /\ Tables' /\ ClaimFits(c) /\ R(c) \in Requests /\ executed[R(c)] = 1 /\ calls[c].claimed
  BY DEF Inv, ClaimsFit, ClaimFits, Advances, Running, At
<1>2. \A d \in Workers : R(d)' = R(d) /\ calls'[d].claimed = calls[d].claimed
                           /\ calls'[d].permitted = calls[d].permitted
  BY DEF Advances, R
<1>3. ASSUME NEW d \in Workers PROVE ClaimFits(d)'
  <2>1. ClaimFits(d)
    BY DEF Inv, ClaimsFit
  <2>2. UNCHANGED <<intents, runs, executed>>
    BY DEF Advances
  <2>3. CASE d = c
    <3>1. calls'[d].pc \in Running /\ calls[d].pc \in Running
      BY <2>3 DEF Advances
    <3> QED BY <1>2, <2>1, <2>2, <3>1 DEF ClaimFits, At, Running, Before
  <2>4. CASE d # c
    <3>1. calls'[d] = calls[d]
      BY <2>4 DEF Advances
    <3> QED BY <1>2, <2>1, <2>2, <3>1 DEF ClaimFits, At
  <2> QED BY <2>3, <2>4
<1>4. ASSUME NEW r \in Requests PROVE RequestFits(r)'
  <2>1. RequestFits(r) /\ UNCHANGED <<intents, runs, executed>>
    BY DEF Inv, ClaimsFit, Advances
  <2>2. r # R(c) => artifacts'[r] = artifacts[r]
    BY DEF Advances
  <2> QED BY <1>1, <2>1, <2>2 DEF RequestFits
<1> QED BY <1>3, <1>4 DEF ClaimsFit

\* A call that ends gives nothing up that anybody else has.
LEMMA EndKeepsClaims ==
  ASSUME Inv, NEW c \in Workers, Moves(c, Fresh), UNCHANGED <<intents, executed, artifacts>>,
         \A r \in Requests : runs'[r] = runs[r] \/ (r = R(c) /\ calls[c].pc \in Running)
  PROVE  ClaimsFit'
<1>1. \A d \in Workers : calls'[d] = IF d = c THEN Fresh ELSE calls[d]
  BY DEF Moves
<1>2. ASSUME NEW d \in Workers PROVE ClaimFits(d)'
  <2>1. CASE d = c
    BY <1>1, <2>1, FreshIsACall DEF ClaimFits, At, Running
  <2>2. CASE d # c
    <3>1. ClaimFits(d) /\ ClaimFits(c) /\ calls'[d] = calls[d]
      BY <1>1, <2>2 DEF Inv, ClaimsFit
    <3>2. calls[d].claimed => R(d) \in Requests /\ runs'[R(d)] = runs[R(d)]
      BY <2>2, <3>1 DEF ClaimFits
    <3>3. \A e \in Workers : calls'[e].claimed => calls[e].claimed /\ R(e)' = R(e)
      BY <1>1, FreshIsACall DEF R
    <3> QED BY <3>1, <3>2, <3>3 DEF ClaimFits, At, R
  <2> QED BY <2>1, <2>2
<1>3. ASSUME NEW r \in Requests PROVE RequestFits(r)'
  <2>1. RequestFits(r) /\ ClaimFits(c)
    BY DEF Inv, ClaimsFit
  <2> QED BY <2>1 DEF RequestFits, ClaimFits
<1> QED BY <1>2, <1>3 DEF ClaimsFit

\* A call that has claimed nothing yet, and does not now.
LEMMA LooksKeepClaims ==
  ASSUME Inv, NEW c \in Workers, NEW call, Moves(c, call), ~call.claimed,
         ~(call.pc \in Running), call.request \in Requests,
         UNCHANGED <<intents, executed, artifacts, runs>>
  PROVE  ClaimsFit'
<1>1. \A d \in Workers : calls'[d] = IF d = c THEN call ELSE calls[d]
  BY DEF Moves
<1>2. ASSUME NEW d \in Workers PROVE ClaimFits(d)'
  <2>1. CASE d = c
    BY <1>1, <2>1 DEF ClaimFits, At, R
  <2>2. CASE d # c
    <3>1. ClaimFits(d) /\ calls'[d] = calls[d]
      BY <1>1, <2>2 DEF Inv, ClaimsFit
    <3>3. \A e \in Workers : calls'[e].claimed => calls[e].claimed /\ R(e)' = R(e)
      BY <1>1 DEF R
    <3> QED BY <3>1, <3>3 DEF ClaimFits, At, R
  <2> QED BY <2>1, <2>2
<1>3. ASSUME NEW r \in Requests PROVE RequestFits(r)'
  BY DEF Inv, ClaimsFit, RequestFits
<1> QED BY <1>2, <1>3 DEF ClaimsFit

LEMMA LookMoves ==
  ASSUME Inv, NEW c \in Workers, NEW r \in Requests, Look(c, r)
  PROVE  \E call \in Call : Moves(c, call) /\ call.pc = "reserve" /\ ~call.claimed /\ call.request = r
                              /\ call.code = None /\ ~call.unconfirmed /\ call.outputs = <<>>
<1> DEFINE call == [calls[c] EXCEPT !.pc = "reserve", !.request = r, !.permitted = permitted]
<1>1. Tables /\ calls[c] \in Call /\ permitted \in BOOLEAN /\ ClaimFits(c) /\ StageFits(c) /\ At(c, "idle")
  BY DEF Inv, Tables, ClaimsFit, StagesFit, Look
<1>2. call \in Call /\ call.pc = "reserve" /\ call.request = r
  BY <1>1 DEF Call, Before
<1>3. call.claimed = calls[c].claimed /\ call.code = calls[c].code
      /\ call.unconfirmed = calls[c].unconfirmed /\ call.outputs = calls[c].outputs
  BY <1>1 DEF Call
<1>4. ~calls[c].claimed /\ calls[c].code = None /\ ~calls[c].unconfirmed /\ calls[c].outputs = <<>>
  BY <1>1 DEF ClaimFits, StageFits, At, Running
<1>5. calls' = [calls EXCEPT ![c] = call]
  BY <1>1 DEF Look, Tables
<1> HIDE DEF call
<1>6. Moves(c, call)
  BY <1>1, <1>2, <1>5, CallBecomes
<1> QED BY <1>2, <1>3, <1>4, <1>6

LEMMA LookKeepsClaims ==
  ASSUME Inv, NEW c \in Workers, NEW r \in Requests, Look(c, r)
  PROVE  Tables' /\ ClaimsFit'
<1>1. PICK call \in Call : Moves(c, call) /\ call.pc = "reserve" /\ ~call.claimed /\ call.request = r
  BY LookMoves
<1>2. UNCHANGED <<permitted, lock, intents, registered, artifacts, runs, executed, faults>>
  BY DEF Look, disk, history
<1>3. Tables'
  BY <1>1, <1>2 DEF Inv, Tables, Moves
<1>4. ~(call.pc \in Running)
  BY <1>1 DEF Running
<1> QED BY <1>1, <1>2, <1>3, <1>4, LooksKeepClaims

LEMMA ReserveKeepsClaims ==
  ASSUME Inv, NEW c \in Workers, Reserve(c)
  PROVE  /\ Tables' /\ ClaimsFit'
         /\ \/ Moves(c, Fresh)
            \/ Moves(c, [calls[c] EXCEPT !.pc = "claim"])
<1>1. Tables /\ calls[c] \in Call /\ ClaimFits(c) /\ At(c, "reserve") /\ R(c) \in Requests
  BY DEF Inv, Tables, ClaimsFit, ClaimFits, Reserve, At
<1>2. UNCHANGED <<permitted, intents, registered, artifacts, runs, executed, faults>> /\ lock' \in BOOLEAN
  BY <1>1 DEF Reserve, history, Tables
<1>3. CASE Goto(c, "claim")
  <2> DEFINE call == [calls[c] EXCEPT !.pc = "claim"]
  <2>1. Moves(c, call)
    BY <1>1, <1>3, CallGoes DEF Before
  <2>2. ~call.claimed /\ ~(call.pc \in Running) /\ call.request \in Requests
    BY <1>1 DEF Call, ClaimFits, At, Running, R
  <2>3. Tables'
    BY <1>1, <1>2, <2>1 DEF Tables, Moves
  <2> QED BY <1>2, <2>1, <2>2, <2>3, LooksKeepClaims
<1>4. CASE Answer(c)
  <2>1. Moves(c, Fresh)
    BY <1>1, <1>4, AnswerMoves
  <2>2. Tables'
    BY <1>1, <1>2, <2>1 DEF Tables, Moves
  <2> QED BY <1>2, <2>1, <2>2, EndKeepsClaims
<1> QED BY <1>3, <1>4 DEF Reserve

\* The call after the intents were looked at under the lock.
Claiming(c, free) == [calls[c] EXCEPT !.pc = "release", !.claimed = free]

LEMMA ClaimMoves ==
  ASSUME Inv, NEW c \in Workers, NEW free \in BOOLEAN, At(c, "claim"),
         calls' = [calls EXCEPT ![c].pc = "release", ![c].claimed = free]
  PROVE  /\ Moves(c, Claiming(c, free)) /\ Claiming(c, free).pc = "release"
         /\ Claiming(c, free).claimed = free /\ Claiming(c, free).request = R(c)
         /\ Claiming(c, free).permitted = calls[c].permitted
         /\ Claiming(c, free).outputs = calls[c].outputs
         /\ Claiming(c, free).code = calls[c].code /\ Claiming(c, free).unconfirmed = calls[c].unconfirmed
<1>1. Tables /\ calls[c] \in Call
  BY DEF Inv, Tables
<1>2. Claiming(c, free) \in Call
  BY <1>1 DEF Call, Before, Claiming
<1>3. calls' = [calls EXCEPT ![c] = Claiming(c, free)]
  BY <1>1 DEF Tables, Claiming
<1>4. Moves(c, Claiming(c, free))
  BY <1>1, <1>2, <1>3, CallBecomes
<1> QED BY <1>1, <1>4 DEF Claiming, Call, R

LEMMA ClaimKeepsClaims ==
  ASSUME Inv, NEW c \in Workers, Claim(c)
  PROVE  Tables' /\ ClaimsFit'
<1> DEFINE r == R(c)
           free == intents[r] = None /\ Cardinality(Written(intents)) < MaxIntents
           intent == [permitted |-> calls[c].permitted]
<1>1. Tables /\ calls[c] \in Call /\ ClaimFits(c) /\ At(c, "claim") /\ r \in Requests
  BY DEF Inv, Tables, ClaimsFit, ClaimFits, Claim, At
<1>2. UNCHANGED <<permitted, lock, registered, artifacts, runs, executed, faults>>
  BY DEF Claim, history
<1>3. intents' = IF free THEN [intents EXCEPT ![r] = intent] ELSE intents
  BY DEF Claim
<1>4. intent \in [permitted : BOOLEAN] /\ intent # None /\ intent.permitted = calls[c].permitted
  BY <1>1, NoneIsNothing DEF Call
<1>5. intents' \in [Requests -> [permitted : BOOLEAN] \cup {None}]
  <2> HIDE DEF intent, free
  <2> QED BY <1>1, <1>3, <1>4 DEF Tables
<1>6. calls' = [calls EXCEPT ![c].pc = "release", ![c].claimed = free] /\ free \in BOOLEAN
  BY DEF Claim
<1> HIDE DEF free, intent
<1> DEFINE call == Claiming(c, free)
<1>7. /\ Moves(c, call) /\ call.pc = "release" /\ call.claimed = free /\ call.request = r
      /\ call.permitted = calls[c].permitted
  BY <1>1, <1>6, ClaimMoves
<1> HIDE DEF call
<1>8. Tables'
  BY <1>1, <1>2, <1>5, <1>7 DEF Tables, Moves
<1>9. CASE ~free
  BY <1>1, <1>2, <1>3, <1>7, <1>8, <1>9, LooksKeepClaims DEF Running
<1>10. CASE free
  <2>0. intents[r] = None
    BY <1>10 DEF free
  <2>1. RequestFits(r) /\ executed[r] \in {0, 1}
    BY <1>1 DEF Inv, ClaimsFit, Tables
  <2>2. executed[r] = 0 /\ artifacts[r] = None /\ runs[r] = None
    BY <2>0, <2>1 DEF RequestFits
  <2>3. \A q \in Requests : intents'[q] = IF q = r THEN intent ELSE intents[q]
    BY <1>1, <1>3, <1>10 DEF Tables
  <2>4. \A d \in Workers : calls'[d] = IF d = c THEN call ELSE calls[d]
    BY <1>7 DEF Moves
  <2>5. \A d \in Workers : calls[d].claimed => R(d) \in Requests /\ R(d) # r
    BY <2>0 DEF Inv, ClaimsFit, ClaimFits
  <2>6. \A d \in Workers : d # c => calls'[d].claimed = calls[d].claimed /\ R(d)' = R(d)
    BY <2>4 DEF R
  <2>7. R(c)' = r
    BY <1>7, <2>4 DEF R
  <2>8. ClaimFits(c)'
    <3>1. /\ calls'[c].claimed /\ calls'[c].pc = "release" /\ intents'[r] = intent
          /\ calls'[c].permitted = intent.permitted /\ runs'[r] = None /\ executed'[r] = 0
      BY <1>1, <1>2, <1>4, <1>7, <1>10, <2>2, <2>3, <2>4
    <3>2. \A d \in Workers : calls'[d].claimed /\ R(d)' = r => c = d
      BY <2>5, <2>6
    <3> QED BY <1>1, <1>4, <2>7, <3>1, <3>2 DEF ClaimFits, At, Running
  <2>9. ASSUME NEW d \in Workers, d # c PROVE ClaimFits(d)'
    <3>1. ClaimFits(d) /\ calls'[d] = calls[d] /\ R(d)' = R(d)
      BY <2>4, <2>9 DEF Inv, ClaimsFit, R
    <3>2. calls[d].claimed => intents'[R(d)] = intents[R(d)]
      BY <2>3, <2>5
    <3>3. ASSUME calls[d].claimed, NEW e \in Workers, calls'[e].claimed, R(e)' = R(d) PROVE d = e
      <4>1. e # c
        BY <3>3, <2>5, <2>7
      <4> QED BY <3>1, <3>3, <4>1, <2>6 DEF ClaimFits
    <3> QED BY <1>2, <3>1, <3>2, <3>3 DEF ClaimFits, At
  <2>10. ASSUME NEW q \in Requests PROVE RequestFits(q)'
    <3>1. RequestFits(q) /\ UNCHANGED <<artifacts, runs, executed>>
      BY <1>2 DEF Inv, ClaimsFit
    <3>2. intents[q] # None => intents'[q] # None
      BY <1>4, <2>3
    <3> QED BY <3>1, <3>2 DEF RequestFits
  <2> QED BY <1>8, <2>8, <2>9, <2>10 DEF ClaimsFit
<1> QED BY <1>9, <1>10
\* The call that begins its stages.
Beginning(c) ==
  [calls[c] EXCEPT !.stage = FirstStage(R(c)),
                   !.pc = IF Kind(R(c)) = "REGISTER" THEN "register" ELSE "depend"]

Begins(c) ==
  /\ calls[c].claimed /\ executed' = [executed EXCEPT ![R(c)] = @ + 1]
  /\ Moves(c, Beginning(c)) /\ lock' = FALSE

LEMMA BeginningIsACall ==
  ASSUME Inv, NEW c \in Workers, At(c, "release")
  PROVE  /\ Beginning(c) \in Call /\ Beginning(c).request = R(c)
         /\ Beginning(c).pc = IF Kind(R(c)) = "REGISTER" THEN "register" ELSE "depend"
         /\ Beginning(c).stage = FirstStage(R(c))
         /\ Beginning(c).claimed = calls[c].claimed /\ Beginning(c).permitted = calls[c].permitted
         /\ Beginning(c).outputs = calls[c].outputs /\ Beginning(c).code = calls[c].code
         /\ Beginning(c).unconfirmed = calls[c].unconfirmed
<1>1. calls[c] \in Call /\ Kind(R(c)) \in Kinds
  BY Carried DEF At
<1>2. FirstStage(R(c)) \in Stages
  BY <1>1 DEF FirstStage, Stages, Kinds
<1>3. (IF Kind(R(c)) = "REGISTER" THEN "register" ELSE "depend") \in Before \cup Running
  BY DEF Running
<1> QED BY <1>1, <1>2, <1>3 DEF Beginning, Call, R

LEMMA ReleaseMoves ==
  ASSUME Inv, NEW c \in Workers, Release(c)
  PROVE  /\ Begins(c) \/ (Moves(c, Fresh) /\ UNCHANGED executed)
         /\ UNCHANGED <<permitted, intents, registered, artifacts, runs>>
         /\ lock' \in BOOLEAN /\ faults' \in Nat
<1>1. Tables /\ At(c, "release") /\ calls[c] \in Call
  BY DEF Inv, Tables, Release
<1>2. Beginning(c) \in Call
  BY <1>1, BeginningIsACall
<1>3. Fails \/ UNCHANGED faults
  BY DEF Release, history
<1>4. faults' \in Nat
  BY <1>1, <1>3, FaultsAreCounted DEF Faulty
<1>5. CASE Answer(c) /\ UNCHANGED executed
  BY <1>1, <1>4, <1>5, AnswerMoves DEF Release, Tables
<1>6. CASE /\ calls[c].claimed /\ executed' = [executed EXCEPT ![R(c)] = @ + 1] /\ lock' = FALSE
           /\ calls' = [calls EXCEPT ![c].stage = FirstStage(R(c)), ![c].pc =
                IF Kind(R(c)) = "REGISTER" THEN "register" ELSE "depend"]
  <2>1. calls' = [calls EXCEPT ![c] = Beginning(c)]
    BY <1>1, <1>6 DEF Beginning, Tables
  <2>2. Moves(c, Beginning(c))
    BY <1>1, <1>2, <2>1, CallBecomes
  <2> QED BY <1>4, <1>6, <2>2 DEF Release, Begins
<1> QED BY <1>5, <1>6 DEF Release, history

LEMMA ReleaseKeepsClaims ==
  ASSUME Inv, NEW c \in Workers, Release(c)
  PROVE  Tables' /\ ClaimsFit'
<1> DEFINE r == R(c)
<1>1. /\ Tables /\ ClaimFits(c) /\ At(c, "release") /\ r \in Requests
      /\ calls[c] \in Call
  BY DEF Inv, Tables, ClaimsFit, ClaimFits, Release, At
<1>2. /\ Begins(c) \/ (Moves(c, Fresh) /\ UNCHANGED executed)
      /\ UNCHANGED <<permitted, intents, registered, artifacts, runs>>
      /\ lock' \in BOOLEAN /\ faults' \in Nat
  BY ReleaseMoves
<1>3. CASE Moves(c, Fresh) /\ UNCHANGED executed
  <2>1. Tables'
    BY <1>1, <1>2, <1>3 DEF Tables, Moves
  <2> QED BY <1>2, <1>3, <2>1, EndKeepsClaims
<1>4. CASE Begins(c)
  <2> DEFINE call == Beginning(c)
  <2>1. /\ Moves(c, call) /\ call.request = r /\ call.claimed /\ call.permitted = calls[c].permitted
        /\ call.claimed = calls[c].claimed
        /\ call.pc \in Running /\ calls[c].claimed
    BY <1>1, <1>4, BeginningIsACall DEF Begins, Running
  <2> HIDE DEF call
  <2>2. executed[r] = 0 /\ intents[r] # None
    BY <1>1, <2>1 DEF ClaimFits
  <2>3. executed' = [executed EXCEPT ![r] = 1]
    BY <1>1, <1>4, <2>2 DEF Begins, Tables
  <2>4. \A q \in Requests : executed'[q] = IF q = r THEN 1 ELSE executed[q]
    BY <2>3 DEF Inv, Tables
  <2>5. Tables'
    BY <1>1, <1>2, <2>1, <2>3 DEF Tables, Moves
  <2>6. \A d \in Workers : calls'[d] = IF d = c THEN call ELSE calls[d]
    BY <2>1 DEF Moves
  <2>7. \A d \in Workers : R(d)' = R(d) /\ calls'[d].claimed = calls[d].claimed
    BY <2>1, <2>6 DEF R
  <2>8. ClaimFits(c)'
    BY <1>1, <1>2, <2>1, <2>4, <2>6, <2>7 DEF ClaimFits, At, Running
  <2>9. ASSUME NEW d \in Workers, d # c PROVE ClaimFits(d)'
    <3>1. ClaimFits(d) /\ calls'[d] = calls[d]
      BY <2>6, <2>9 DEF Inv, ClaimsFit
    <3>2. calls[d].claimed => R(d) \in Requests /\ R(d) # r
      BY <1>1, <2>1, <2>9, <3>1 DEF ClaimFits
    <3>3. R(d) \in Requests => executed'[R(d)] = executed[R(d)] \/ executed'[R(d)] = 1
      BY <2>4
    <3>4. calls[d].claimed => executed'[R(d)] = executed[R(d)]
      BY <2>4, <3>2
    <3> QED BY <1>2, <2>7, <3>1, <3>2, <3>4 DEF ClaimFits, At
  <2>10. ASSUME NEW q \in Requests PROVE RequestFits(q)'
    <3>1. RequestFits(q)
      BY DEF Inv, ClaimsFit
    <3> QED BY <1>2, <2>2, <2>4, <3>1 DEF RequestFits
  <2> QED BY <2>5, <2>8, <2>9, <2>10 DEF ClaimsFit
<1> QED BY <1>2, <1>3, <1>4

LEMMA SaveMoves ==
  ASSUME Inv, NEW c \in Workers, Save(c)
  PROVE  /\ Moves(c, Fresh) /\ Tables' /\ UNCHANGED <<permitted, lock, intents, registered, artifacts, executed>>
         /\ calls[c].pc \in Running /\ R(c) \in Requests
         /\ \A r \in Requests : runs'[r] = runs[r] \/ (r = R(c) /\ runs'[r] = Run(calls[c]))
<1>1. Tables /\ ClaimFits(c) /\ At(c, "save") /\ R(c) \in Requests /\ calls[c] \in Call
  BY DEF Inv, Tables, ClaimsFit, ClaimFits, Save, At
<1>2. Run(calls[c]) \in Receipt
  BY <1>1 DEF Run, Receipt, Call
<1>3. /\ runs' \in [Requests -> Receipt \cup {None}]
      /\ \A r \in Requests : runs'[r] = runs[r] \/ (r = R(c) /\ runs'[r] = Run(calls[c]))
  <2>1. runs' = [runs EXCEPT ![R(c)] = Run(calls[c])] \/ runs' = runs
    BY DEF Save
  <2> HIDE DEF R
  <2> QED BY <1>1, <1>2, <2>1 DEF Tables
<1>4. Moves(c, Fresh) /\ UNCHANGED <<permitted, lock, intents, registered, artifacts, executed>>
  BY <1>1, AnswerMoves DEF Save
<1>5. faults' \in Nat
  <2>1. Fails \/ UNCHANGED faults
    BY DEF Save
  <2> QED BY <1>1, <2>1, FaultsAreCounted DEF Faulty
<1>6. Tables'
  BY <1>1, <1>3, <1>4, <1>5 DEF Tables, Moves
<1> QED BY <1>1, <1>3, <1>4, <1>6 DEF At, Running

LEMMA SaveKeepsClaims ==
  ASSUME Inv, NEW c \in Workers, Save(c)
  PROVE  Tables' /\ ClaimsFit'
BY SaveMoves, EndKeepsClaims

LEMMA KillMoves ==
  ASSUME Inv, NEW c \in Workers, Kill(c)
  PROVE  /\ Moves(c, Fresh) /\ Tables' /\ UNCHANGED disk /\ UNCHANGED executed
<1>1. Tables /\ Moves(c, Fresh) /\ UNCHANGED disk /\ UNCHANGED executed
  BY AnswerMoves DEF Inv, Kill
<1>2. faults' \in Nat
  BY <1>1, FaultsAreCounted DEF Kill, Faulty
<1> QED BY <1>1, <1>2 DEF Tables, Moves, disk

LEMMA KillKeepsClaims ==
  ASSUME Inv, NEW c \in Workers, Kill(c)
  PROVE  Tables' /\ ClaimsFit'
BY KillMoves, EndKeepsClaims DEF disk

LEMMA OperatorKeepsClaims ==
  ASSUME Inv, Recover \/ Lapse
  PROVE  Tables' /\ ClaimsFit'
<1>1. UNCHANGED <<intents, registered, artifacts, runs, calls, history>>
      /\ lock' \in BOOLEAN /\ permitted' \in BOOLEAN
  BY DEF Inv, Tables, Recover, Lapse
<1>2. Tables'
  BY <1>1 DEF Inv, Tables, history
<1>3. ClaimsFit'
  BY <1>1 DEF Inv, ClaimsFit, ClaimFits, RequestFits, At, R, history
<1> QED BY <1>2, <1>3

\* The steps of one worker that carry a request out.
StageStep(c) ==
  ReserveName(c) \/ RegisterReserved(c) \/ Depend(c) \/ Publish(c) \/ Readback(c) \/ Fault(c)

LEMMA StageAdvances ==
  ASSUME Inv, NEW c \in Workers, StageStep(c)
  PROVE  Advances(c)
BY ReserveNameAdvances, RegisterAdvances, DependAdvances, PublishAdvances, ReadbackAdvances,
   FaultAdvances DEF StageStep

LEMMA ClaimsAreKept ==
  ASSUME Inv, Next
  PROVE  Tables' /\ ClaimsFit'
<1>1. ASSUME NEW c \in Workers,
             \/ \E r \in Requests : Look(c, r)
             \/ Reserve(c) \/ Claim(c) \/ Release(c) \/ StageStep(c) \/ Save(c) \/ Kill(c)
      PROVE  Tables' /\ ClaimsFit'
  <2>1. CASE StageStep(c)
    <3>1. Advances(c)
      BY <2>1, StageAdvances
    <3> QED BY <3>1, AdvancesKeepsClaims DEF Advances
  <2> QED BY <1>1, <2>1, LookKeepsClaims, ReserveKeepsClaims, ClaimKeepsClaims, ReleaseKeepsClaims,
             SaveKeepsClaims, KillKeepsClaims
<1> QED BY <1>1, OperatorKeepsClaims DEF Next, StageStep
-----------------------------------------------------------------------------
(* Locks and limits.                                                       *)

\* Only a worker that finds no lock becomes its holder.
LEMMA LockIsKept ==
  ASSUME Inv, NEW c \in Workers, \A d \in Workers : d # c => calls'[d] = calls[d],
         \/ Holds(c)' /\ ~Holds(c) /\ ~lock /\ lock'
         \/ Holds(c)' /\ Holds(c) /\ lock' = lock
         \/ ~Holds(c)' /\ Holds(c)
         \/ ~Holds(c)' /\ lock' = lock
  PROVE  LockIsExclusive'
<1>1. \A d \in Workers : d # c => (Holds(d)' <=> Holds(d))
  BY DEF Holds
<1>2. LockIsExclusive
  BY DEF Inv
<1> QED BY <1>1, <1>2 DEF LockIsExclusive

LEMMA LocksAreKept ==
  ASSUME Inv, Next
  PROVE  LockIsExclusive'
<1>1. CASE Recover
  BY <1>1 DEF Inv, LockIsExclusive, Recover, Holds
<1>2. CASE Lapse
  BY <1>2 DEF Inv, LockIsExclusive, Lapse, Holds
<1> SUFFICES ASSUME NEW c \in Workers,
                    \/ \E r \in Requests : Look(c, r)
                    \/ Reserve(c) \/ Claim(c) \/ Release(c) \/ ReserveName(c) \/ RegisterReserved(c)
                    \/ Depend(c) \/ Publish(c) \/ Readback(c) \/ Fault(c) \/ Save(c) \/ Kill(c)
             PROVE  LockIsExclusive'
  BY <1>1, <1>2 DEF Next
<1>3. calls[c] \in Call /\ calls \in [Workers -> Call] /\ lock \in BOOLEAN
  BY DEF Inv, Tables
<1>4. CASE \E r \in Requests : Look(c, r)
  <2>1. PICK r \in Requests : Look(c, r)
    BY <1>4
  <2>2. UNCHANGED lock /\ \E call \in Call : Moves(c, call) /\ call.pc = "reserve"
    BY <2>1, LookMoves DEF Look, disk
  <2> QED BY <2>2, LockIsKept DEF Moves, Holds
<1>5. CASE Reserve(c)
  <2>1. CASE ~lock
    <3>1. lock' = TRUE /\ Goto(c, "claim") /\ At(c, "reserve")
      BY <1>5, <2>1 DEF Reserve
    <3>2. Moves(c, [calls[c] EXCEPT !.pc = "claim"])
      BY <3>1, CallGoes DEF Inv, Before
    <3>3. calls'[c].pc = "claim"
      BY <1>3, <3>2 DEF Moves, Call
    <3> QED BY <2>1, <3>1, <3>2, <3>3, LockIsKept DEF Moves, Holds, At
  <2>2. CASE lock
    <3>1. UNCHANGED lock /\ Answer(c)
      BY <1>5, <2>2 DEF Reserve
    <3> QED BY <3>1, AnswerMoves, FreshIsACall, LockIsKept DEF Inv, Moves, Holds
  <2> QED BY <2>1, <2>2
<1>6. CASE Claim(c)
  <2> DEFINE free == intents[R(c)] = None /\ Cardinality(Written(intents)) < MaxIntents
  <2>1. /\ At(c, "claim") /\ UNCHANGED lock /\ free \in BOOLEAN
        /\ calls' = [calls EXCEPT ![c].pc = "release", ![c].claimed = free]
    BY <1>6 DEF Claim
  <2> HIDE DEF free
  <2>2. Moves(c, Claiming(c, free)) /\ Claiming(c, free).pc = "release"
    BY <2>1, ClaimMoves
  <2> QED BY <2>1, <2>2, LockIsKept DEF Moves, Holds, At
<1>7. CASE Release(c)
  <2>1. At(c, "release")
    BY <1>7 DEF Release
  <2>2. Begins(c) \/ Moves(c, Fresh)
    BY <1>7, ReleaseMoves
  <2>3. ~Holds(c)'
    BY <2>1, <2>2, BeginningIsACall, FreshIsACall DEF Begins, Moves, Holds
  <2> QED BY <2>1, <2>2, <2>3, LockIsKept DEF Begins, Moves, Holds, At
<1>8. CASE ReserveName(c)
  <2>0. Advances(c) /\ At(c, "register")
    BY <1>8, ReserveNameAdvances DEF ReserveName
  <2>1. CASE ~lock
    <3>1. lock' = TRUE /\ Goto(c, "registerReserved")
      BY <1>8, <2>1 DEF ReserveName
    <3>2. Moves(c, [calls[c] EXCEPT !.pc = "registerReserved"])
      BY <3>1, CallGoes DEF Inv, Running
    <3>3. calls'[c].pc = "registerReserved"
      BY <1>3, <3>2 DEF Moves, Call
    <3> QED BY <2>0, <2>1, <3>1, <3>2, <3>3, LockIsKept DEF Moves, Holds, At
  <2>2. CASE lock
    <3>1. UNCHANGED lock /\ Fail(c, calls[c], "PRODUCTION_BUSY", FALSE)
      BY <1>8, <2>2 DEF ReserveName, Refuse
    <3>2. calls'[c].pc = "save"
      BY <1>3, <3>1 DEF Fail, Call
    <3> QED BY <2>0, <3>1, <3>2, LockIsKept DEF Advances, Holds, At
  <2> QED BY <2>1, <2>2
<1>9. CASE RegisterReserved(c)
  <2>1. Advances(c) /\ At(c, "registerReserved")
    BY <1>9, RegisterAdvances DEF RegisterReserved
  <2>2. calls'[c].pc = "save"
    <3>1. ASSUME NEW code, Fail(c, calls[c], code, FALSE)
          PROVE  calls'[c].pc = "save"
      BY <1>3, <3>1 DEF Fail, Call
    <3>2. ASSUME NEW outputs, calls' = [calls EXCEPT ![c].pc = "save", ![c].outputs = outputs]
          PROVE  calls'[c].pc = "save"
      BY <1>3, <3>2 DEF Call
    <3>3. \/ \E code : Fail(c, calls[c], code, FALSE)
          \/ \E outputs : calls' = [calls EXCEPT ![c].pc = "save", ![c].outputs = outputs]
      BY <1>9 DEF RegisterReserved, Refuse
    <3> QED BY <3>1, <3>2, <3>3
  <2> QED BY <2>1, <2>2, LockIsKept DEF Advances, Holds, At
<1>10. CASE Depend(c) \/ Publish(c) \/ Readback(c) \/ Fault(c)
  <2>1. Advances(c) /\ UNCHANGED lock
    BY <1>10, DependAdvances, PublishAdvances, ReadbackAdvances, FaultAdvances
    DEF Depend, Publish, Readback, Fault, disk
  <2>2. ~Holds(c)'
    <3>1. CASE Depend(c)
      <4>1. calls'[c].pc \in {"depend", "publish", "save"}
        <5>1. \/ \E call : call \in {calls[c], Inspected(c)} /\ \E code : Fail(c, call, code, FALSE)
              \/ calls' = [calls EXCEPT ![c] = Inspected(c)]
              \/ Goto(c, "publish")
          BY <3>1 DEF Depend, Refuse, Inspected
        <5>2. DOMAIN calls[c] = DOMAIN Inspected(c) /\ "pc" \in DOMAIN calls[c]
              /\ Inspected(c).pc = calls[c].pc /\ calls[c].pc = "depend"
          BY <1>3, <3>1 DEF Inspected, Call, Depend, At
        <5>3. ASSUME NEW call \in {calls[c], Inspected(c)}, NEW code, Fail(c, call, code, FALSE)
              PROVE  calls'[c].pc = "save"
          BY <1>3, <5>2, <5>3 DEF Fail
        <5> QED BY <1>3, <5>1, <5>2, <5>3 DEF Goto
      <4> QED BY <4>1 DEF Holds
    <3>2. CASE Publish(c)
      <4>1. calls'[c].pc \in {"publish", "published"}
        BY <1>3, <3>2 DEF Publish, Goto, Call, At
      <4> QED BY <4>1 DEF Holds
    <3>3. CASE Readback(c)
      <4>1. calls'[c].pc = "save"
        BY <1>3, <3>3 DEF Readback, Listed, Call
      <4> QED BY <4>1 DEF Holds
    <3>4. CASE Fault(c)
      <4>1. calls'[c].pc = "save"
        <5>1. PICK call \in {calls[c], Inspecting(calls[c])} :
                \E code, unconfirmed : Fail(c, call, code, unconfirmed)
          BY <3>4 DEF Fault
        <5>2. "pc" \in DOMAIN call
          BY <1>3 DEF Inspecting, Listed, Call
        <5> QED BY <1>3, <5>1, <5>2 DEF Fail
      <4> QED BY <4>1 DEF Holds
    <3> QED BY <1>10, <3>1, <3>2, <3>3, <3>4
  <2> QED BY <2>1, <2>2, LockIsKept DEF Advances
<1>11. CASE Save(c)
  BY <1>11, SaveMoves, FreshIsACall, LockIsKept DEF Moves, Holds
<1>12. CASE Kill(c)
  BY <1>12, KillMoves, FreshIsACall, LockIsKept DEF Moves, Holds, disk
<1> QED BY <1>4, <1>5, <1>6, <1>7, <1>8, <1>9, <1>10, <1>11, <1>12

\* A folder with room takes one record more.
LEMMA FolderGrows ==
  ASSUME NEW table, NEW table2, NEW key \in DOMAIN table, NEW record, NEW max \in Nat,
         Bounded(table, max), table2 = [table EXCEPT ![key] = record], record # None,
         table[key] = None, Cardinality(Written(table)) < max
  PROVE  Bounded(table2, max)
<1>1. Written(table2) = Written(table) \cup {key} /\ key \notin Written(table)
  BY DEF Written
<1>2. IsFiniteSet(Written(table)) /\ Cardinality(Written(table)) \in Nat
  BY FS_CardinalityType DEF Bounded
<1>3. /\ IsFiniteSet(Written(table) \cup {key})
      /\ Cardinality(Written(table) \cup {key}) = Cardinality(Written(table)) + 1
  BY <1>1, <1>2, FS_AddElement
<1>4. Cardinality(Written(table)) + 1 <= max
  BY <1>2
<1>5. IsFiniteSet(Written(table2)) /\ Cardinality(Written(table2)) = Cardinality(Written(table)) + 1
  BY <1>1, <1>3
<1> QED BY <1>4, <1>5 DEF Bounded

LEMMA FoldersStayBounded ==
  ASSUME Inv, Next
  PROVE  FoldersAreBounded'
<1>0. FoldersAreBounded /\ Tables /\ MaxIntents \in Nat /\ MaxNames \in Nat
  BY ProductionAssumption DEF Inv
<1>1. CASE UNCHANGED <<intents, registered>>
  BY <1>0, <1>1 DEF FoldersAreBounded, Bounded, Written
<1>2. ASSUME NEW c \in Workers, Claim(c) PROVE FoldersAreBounded'
  <2> DEFINE r == R(c)
             free == intents[r] = None /\ Cardinality(Written(intents)) < MaxIntents
             intent == [permitted |-> calls[c].permitted]
  <2>1. r \in Requests /\ calls[c] \in Call
    BY <1>2, Carried DEF Claim, At
  <2>2. intent # None
    BY <2>1, NoneIsNothing DEF Call
  <2>3. UNCHANGED registered /\ intents' = IF free THEN [intents EXCEPT ![r] = intent] ELSE intents
    BY <1>2 DEF Claim
  <2>4. DOMAIN intents = Requests
    BY <1>0 DEF Tables
  <2>5. Bounded(intents, MaxIntents) /\ Bounded(registered, MaxNames)
    BY <1>0 DEF FoldersAreBounded
  <2>6. PICK table : table = intents'
    OBVIOUS
  <2>7. Bounded(table, MaxIntents)
    <3>1. CASE free
      <4>1. table = [intents EXCEPT ![r] = intent] /\ intents[r] = None
            /\ Cardinality(Written(intents)) < MaxIntents
        BY <2>3, <2>6, <3>1
      <4> HIDE DEF intent, r, free
      <4> QED BY <1>0, <2>1, <2>2, <2>4, <2>5, <4>1, FolderGrows
    <3>2. CASE ~free
      BY <2>3, <2>5, <2>6, <3>2
    <3> QED BY <3>1, <3>2
  <2>8. Bounded(intents, MaxIntents)'
    BY <2>6, <2>7 DEF Bounded, Written
  <2>9. Bounded(registered, MaxNames)'
    BY <2>3, <2>5 DEF Bounded, Written
  <2> QED BY <2>8, <2>9 DEF FoldersAreBounded
<1>3. ASSUME NEW c \in Workers, RegisterReserved(c) PROVE FoldersAreBounded'
  <2> DEFINE made == Command[R(c)].registers
  <2>1. R(c) \in Requests /\ Kind(R(c)) = "REGISTER"
    BY <1>3, Carried DEF RegisterReserved, At, Registers
  <2>2. made[1] \in Names /\ made[2] # None
    BY <2>1, Registrations
  <2>3. /\ UNCHANGED intents
        /\ registered' = IF registered[made[1]] # None \/ NoRoomFor(made[1]) THEN registered
                         ELSE [registered EXCEPT ![made[1]] = made[2]]
    BY <1>3 DEF RegisterReserved
  <2>4. DOMAIN registered = Names
    BY <1>0 DEF Tables
  <2>5. Bounded(intents, MaxIntents) /\ Bounded(registered, MaxNames)
    BY <1>0 DEF FoldersAreBounded
  <2>6. PICK table : table = registered'
    OBVIOUS
  <2>7. Bounded(table, MaxNames)
    <3>1. CASE registered[made[1]] = None /\ ~NoRoomFor(made[1])
      <4>1. table = [registered EXCEPT ![made[1]] = made[2]] /\ registered[made[1]] = None
        BY <2>3, <2>6, <3>1
      <4>2. Cardinality(Written(registered)) \in Nat
        BY <2>5, FS_CardinalityType DEF Bounded
      <4>3. Cardinality(Written(registered)) < MaxNames
        BY <1>0, <3>1, <4>2 DEF NoRoomFor
      <4> HIDE DEF made
      <4>4. MaxNames \in Nat /\ made[1] \in DOMAIN registered
        BY <1>0, <2>2, <2>4
      <4> DEFINE name == made[1]
                 spec == made[2]
      <4>5. /\ name \in DOMAIN registered /\ spec # None /\ registered[name] = None
            /\ table = [registered EXCEPT ![name] = spec]
        BY <2>2, <4>1, <4>4
      <4> HIDE DEF name, spec
      <4> QED BY <2>5, <4>3, <4>4, <4>5, FolderGrows
    <3>2. CASE ~(registered[made[1]] = None /\ ~NoRoomFor(made[1]))
      BY <2>3, <2>5, <2>6, <3>2
    <3> QED BY <3>1, <3>2
  <2>8. Bounded(registered, MaxNames)'
    BY <2>6, <2>7 DEF Bounded, Written
  <2>9. Bounded(intents, MaxIntents)'
    BY <2>3, <2>5 DEF Bounded, Written
  <2> QED BY <2>8, <2>9 DEF FoldersAreBounded
<1> QED BY <1>1, <1>2, <1>3, WhoWrites, WritersWriteOneTable
-----------------------------------------------------------------------------
(* What is retained and registered stays, and with it what was listed.     *)

Grows ==
  /\ \A q \in Requests : Retained(q) => artifacts'[q] = artifacts[q]
  /\ \A name \in Names : registered[name] # None => registered'[name] = registered[name]

Keeps(r) == intents'[r] = intents[r] /\ artifacts'[r] = artifacts[r] /\ Grows

LEMMA ListingStays ==
  ASSUME Tables, Tables', Grows, NEW r \in Requests, NEW k \in 0..Size(r), Known(r, k)
  PROVE  Listing(r, k)' = Listing(r, k) /\ Known(r, k)'
<1>1. \A i \in 1..k : Command[r].inputs[i] \in Requests
  BY InputsAreOthers
<1>2. \A i \in 1..k : artifacts'[Command[r].inputs[i]] = artifacts[Command[r].inputs[i]]
  BY <1>1 DEF Grows, Known
<1>3. Known(r, k)'
  BY <1>2 DEF Known, Retained
<1>4. \A i \in 1..k : Own(Command[r].inputs[i])' = Own(Command[r].inputs[i])
  BY <1>2 DEF Own
<1>5. Listing(r, k)' = Listing(r, k)
  BY <1>4 DEF Listing
<1> QED BY <1>3, <1>5

LEMMA RunFitsStays ==
  ASSUME Tables, Tables', NEW r \in Requests, Keeps(r), NEW CONSTANT run, RunFits(r, run)
  PROVE  RunFits(r, run)'
<1>0. Size(r) \in Nat /\ Size(r) \in 0..Size(r) /\ Grows
  BY InputsAreOthers DEF Keeps
<1>1. Own(r)' = Own(r) /\ artifacts'[r] = artifacts[r] /\ intents'[r] = intents[r]
  BY DEF Keeps, Own
<1>2. \A k \in 0..Size(r) : Known(r, k) => Listing(r, k)' = Listing(r, k) /\ Known(r, k)'
  BY <1>0, ListingStays
<1>3. CASE Kind(r) = "REGISTER"
  <2>1. Registration(r, run)
    BY <1>3 DEF RunFits
  <2>2. There(Command[r].registers) => There(Command[r].registers)'
    <3>1. Command[r].registers[1] \in Names /\ Command[r].registers[2] # None
      BY <1>3, Registrations
    <3> QED BY <1>0, <3>1 DEF There, Grows
  <2>3. Registration(r, run)'
    BY <2>1, <2>2 DEF Registration
  <2> QED BY <1>3, <2>3 DEF RunFits
<1>4. CASE Kind(r) # "REGISTER" /\ Success(r, run)
  <2>1. Success(r, run)'
    BY <1>0, <1>1, <1>2, <1>4 DEF Success
  <2> QED BY <1>4, <2>1 DEF RunFits
<1>5. CASE Kind(r) # "REGISTER" /\ run.state = "FAILED" /\ Refused(r, run)
  <2>1. PICK k \in 0..Size(r) :
          /\ Known(r, k) /\ run.outputs = Listing(r, k) /\ run.stage = StageAt(r, k)
          /\ \/ run.code \in Refusals
             \/ run.code = "INGEST_DISALLOWED" /\ Kind(r) = "ACQUIRE" /\ ~intents[r].permitted
             \/ run.code = "DERIVATION_DISALLOWED" /\ k > 0 /\ ~intents[r].permitted
             \/ run.code = "MEMBER_NOT_ELIGIBLE" /\ k > 0 /\ artifacts[Command[r].inputs[k]] = "QUARANTINED"
    BY <1>5 DEF Refused
  <2>2. Known(r, k)' /\ Listing(r, k)' = Listing(r, k)
    BY <1>2, <2>1
  <2>3. k > 0 => artifacts'[Command[r].inputs[k]] = artifacts[Command[r].inputs[k]]
    <3>1. ASSUME k > 0 PROVE k \in 1..k /\ k \in 1..Size(r)
      BY <1>0, <3>1
    <3>2. ASSUME k > 0 PROVE Command[r].inputs[k] \in Requests /\ Retained(Command[r].inputs[k])
      BY <2>1, <3>1, <3>2, InputsAreOthers DEF Known
    <3> QED BY <1>0, <3>2 DEF Grows
  <2>4. Refused(r, run)'
    BY <1>1, <2>1, <2>2, <2>3 DEF Refused
  <2> QED BY <1>5, <2>4 DEF RunFits
<1>6. CASE Kind(r) # "REGISTER" /\ run.state = "FAILED" /\ Faulted(r, run)
  <2>1. Known(r, Size(r)) /\ Known(r, Size(r))' /\ Listing(r, Size(r))' = Listing(r, Size(r))
    BY <1>0, <1>2, <1>6 DEF Faulted
  <2>2. Faulted(r, run)'
    BY <1>1, <1>6, <2>1 DEF Faulted, Products, Partly
  <2> QED BY <1>6, <2>2 DEF RunFits
<1> QED BY <1>3, <1>4, <1>5, <1>6 DEF RunFits

\* Nothing retained is published again, nothing registered is registered again.
LEMMA StepsGrow ==
  ASSUME Inv, [Next]_vars
  PROVE  Grows
<1>0. Tables
  BY DEF Inv
<1>1. CASE UNCHANGED <<artifacts, registered>>
  BY <1>1 DEF Grows
<1>2. ASSUME NEW c \in Workers, Publish(c) PROVE Grows
  <2>1. R(c) \in Requests /\ StageFits(c) /\ At(c, "publish")
    BY <1>2, Carried DEF Inv, StagesFit, Publish, At
  <2>2. ~Retained(R(c))
    BY <2>1 DEF StageFits, Partly, Retained
  <2>3. PICK artifact : artifacts' = [artifacts EXCEPT ![R(c)] = artifact]
    BY <1>2 DEF Publish
  <2>4. UNCHANGED registered
    BY <1>2 DEF Publish
  <2> QED BY <1>0, <2>2, <2>3, <2>4 DEF Grows, Tables
<1>3. ASSUME NEW c \in Workers, RegisterReserved(c) PROVE Grows
  <2> DEFINE made == Command[R(c)].registers
  <2>1. UNCHANGED artifacts
        /\ registered' = IF registered[made[1]] # None \/ NoRoomFor(made[1]) THEN registered
                         ELSE [registered EXCEPT ![made[1]] = made[2]]
    BY <1>3 DEF RegisterReserved
  <2> QED BY <1>0, <2>1 DEF Grows, Tables
<1> QED BY <1>1, <1>2, <1>3, WhoWrites, WritersWriteOneTable

\* The call of a worker that does not step.
LEMMA CallFitsStays ==
  ASSUME Inv, Tables', Grows, NEW c \in Workers, calls'[c] = calls[c],
         calls[c].pc \in Running => Keeps(R(c))
  PROVE  StageFits(c)'
<1>1. StageFits(c) /\ Tables /\ calls[c] \in Call /\ R(c)' = R(c)
  BY DEF Inv, StagesFit, Tables, R
<1>2. CASE ~(calls[c].pc \in Running)
  BY <1>1, <1>2 DEF StageFits, At, Running, Registers, Makes
<1>3. CASE calls[c].pc \in Running
  <2> DEFINE r == R(c)
             k == Len(calls[c].outputs)
  <2>1. r \in Requests /\ Keeps(r)
    BY <1>3, Carried DEF At, Running
  <2>2. calls[c].pc \in Registers => StageFits(c)'
    BY <1>1 DEF StageFits, At, Registers, Makes, Running
  <2>3. ASSUME calls[c].pc \in Makes PROVE StageFits(c)'
    <3>1. k <= Size(r) /\ Known(r, k) /\ calls[c].outputs = Listing(r, k)
      BY <1>1, <2>3 DEF StageFits
    <3>2. k \in 0..Size(r)
      <4>1. k \in Nat
        BY <1>1, LenProperties DEF Call, Outputs
      <4> QED BY <2>1, <3>1, <4>1, InputsAreOthers
    <3>3. Listing(r, k)' = Listing(r, k) /\ Known(r, k)'
      BY <1>1, <2>1, <3>1, <3>2, ListingStays
    <3>4. artifacts'[r] = artifacts[r]
      BY <2>1 DEF Keeps
    <3> QED BY <1>1, <2>3, <3>1, <3>3, <3>4 DEF StageFits, At, Registers, Makes, Running, Products, Partly
  <2>4. ASSUME At(c, "save") PROVE StageFits(c)'
    <3>1. PICK run : run = Run(calls[c])
      OBVIOUS
    <3>2. RunFits(r, run)
      BY <1>1, <2>4, <3>1 DEF StageFits
    <3>3. RunFits(r, run)'
      BY <1>1, <2>1, <3>2, RunFitsStays
    <3>4. Run(calls[c])' = run
      BY <3>1 DEF Run
    <3> QED BY <1>1, <2>4, <3>3, <3>4 DEF StageFits, At, Registers, Makes, Running
  <2> QED BY <1>3, <2>2, <2>3, <2>4 DEF At, Running, Registers, Makes
<1> QED BY <1>2, <1>3

LEMMA ReceiptStays ==
  ASSUME Inv, Tables', NEW r \in Requests, Keeps(r), runs'[r] = runs[r]
  PROVE  runs'[r] # None => RunFits(r, runs[r])'
<1>1. PICK run : run = runs[r]
  OBVIOUS
<1>2. CASE run # None
  <2>1. RunFits(r, run)
    BY <1>1, <1>2 DEF Inv, StagesFit
  <2>2. RunFits(r, run)'
    BY <2>1, RunFitsStays DEF Inv
  <2>3. run = runs'[r]
    BY <1>1
  <2> QED BY <2>2, <2>3
<1> QED BY <1>1, <1>2
-----------------------------------------------------------------------------
(* What a step lists.                                                      *)

\* Dependencies are other requests: none of them is the request's own output.
LEMMA OwnIsNoDependency ==
  ASSUME Tables, NEW r \in Requests, NEW k \in 0..Size(r)
  PROVE  \A i \in 1..k : Listing(r, k)[i][2] = Command[r].inputs[i] /\ Listing(r, k)[i][2] # r
<1>1. \A i \in 1..k : i \in 1..Size(r)
  BY InputsAreOthers
<1> QED BY <1>1, InputsAreOthers, Listings, OwnIsAnOutput

LEMMA ListingContains ==
  ASSUME Tables, NEW r \in Requests, NEW k \in 0..Size(r), NEW kind
  PROVE  /\ ~Contains(Listing(r, k), <<kind, r>>)
         /\ Append(Listing(r, k), Own(r)) \in Outputs
         /\ Contains(Append(Listing(r, k), Own(r)), Own(r))
         /\ Contains(Append(Listing(r, k), Own(r)), <<kind, r>>) => artifacts[r] = kind
         /\ Front(Append(Listing(r, k), Own(r))) = Listing(r, k)
<1> DEFINE Out == (Artifacts \cup {"REGISTRATION", None}) \X (Requests \cup Names)
           s == Listing(r, k)
           t == Append(s, Own(r))
<1>1. s \in Seq(Out) /\ Len(s) = k /\ k \in Nat
  BY Listings, InputsAreOthers DEF Outputs
<1>2. Own(r) \in Out /\ Own(r) = <<artifacts[r], r>>
  BY OwnIsAnOutput DEF Own
<1>3. \A i \in 1..k : s[i][2] # r
  BY OwnIsNoDependency
<1> HIDE DEF Out, s
<1>4. /\ t \in Seq(Out) /\ Len(t) = k + 1
      /\ \A i \in 1..k : t[i] = s[i]
      /\ t[k + 1] = Own(r)
  BY <1>1, <1>2, AppendProperties
<1>5. Front(t) = s
  BY <1>1, <1>2, FrontOfAppend
<1> HIDE DEF t
<1>6. ~Contains(s, <<kind, r>>)
  <2>1. ASSUME NEW i \in 1..Len(s), s[i] = <<kind, r>> PROVE FALSE
    BY <1>1, <1>3, <2>1
  <2> QED BY <2>1 DEF Contains
<1>7. Contains(t, Own(r))
  <2>1. k + 1 \in 1..Len(t)
    BY <1>1, <1>4
  <2> QED BY <1>4, <2>1 DEF Contains
<1>8. ASSUME Contains(t, <<kind, r>>) PROVE artifacts[r] = kind
  <2>1. PICK i \in 1..Len(t) : t[i] = <<kind, r>>
    BY <1>8 DEF Contains
  <2>2. i \in 1..k \/ i = k + 1
    BY <1>1, <1>4
  <2>3. i \notin 1..k
    BY <1>3, <1>4, <2>1
  <2>4. Own(r) = <<kind, r>>
    BY <1>4, <2>1, <2>2, <2>3
  <2> QED BY <1>2, <2>4
<1> QED BY <1>4, <1>5, <1>6, <1>7, <1>8 DEF Out, s, t, Outputs

\* What a failed stage is found to have left.
LEMMA FoundAfterListing ==
  ASSUME Tables, NEW call \in Call, call.request \in Requests, NEW k \in 0..Size(call.request),
         call.outputs = Listing(call.request, k), NEW code, NEW unconfirmed \in BOOLEAN
  PROVE  Found(call, code, unconfirmed) =
           IF ~Searches(call.request, code) \/ artifacts[call.request] = None \/ unconfirmed
           THEN Listing(call.request, k)
           ELSE Append(Listing(call.request, k), Own(call.request))
<1>1. ~Contains(call.outputs, Own(call.request))
  BY ListingContains DEF Own
<1>2. Contains(call.outputs, Own(call.request)) = FALSE
  BY <1>1 DEF Contains
<1> QED BY <1>2 DEF Found

LEMMA FoundAfterOwn ==
  ASSUME Tables, NEW call \in Call, call.request \in Requests, NEW k \in 0..Size(call.request),
         call.outputs = Append(Listing(call.request, k), Own(call.request)),
         NEW code, NEW unconfirmed \in BOOLEAN,
         Searches(call.request, code), artifacts[call.request] # None
  PROVE  Found(call, code, unconfirmed) =
           IF unconfirmed THEN Listing(call.request, k)
           ELSE Append(Listing(call.request, k), Own(call.request))
<1>1. Contains(call.outputs, Own(call.request)) /\ Front(call.outputs) = Listing(call.request, k)
  BY ListingContains
<1>2. Contains(call.outputs, Own(call.request)) = TRUE
  BY <1>1 DEF Contains
<1> QED BY <1>1, <1>2 DEF Found

Failed(call, code, unconfirmed) ==
  [state |-> "FAILED", stage |-> call.stage, code |-> code,
   outputs |-> Found(call, code, unconfirmed), unconfirmed |-> unconfirmed]

\* A failure fits when the receipt it leads to does.
LEMMA FailFits ==
  ASSUME Inv, Tables', NEW c \in Workers, NEW call \in Call, call.request = R(c), R(c) \in Requests,
         NEW code \in Codes, NEW unconfirmed \in BOOLEAN, Fail(c, call, code, unconfirmed),
         Keeps(R(c)), RunFits(R(c), Failed(call, code, unconfirmed))
  PROVE  StageFits(c)'
<1>1. Tables /\ code # None
  BY NoneIsNothing DEF Inv
<1> DEFINE failed == [call EXCEPT !.pc = "save", !.code = code, !.unconfirmed = unconfirmed,
                                  !.outputs = Found(call, code, unconfirmed)]
<1>2. Moves(c, failed)
  BY <1>1, FailMoves
<1>3. /\ failed.pc = "save" /\ failed.code = code /\ failed.unconfirmed = unconfirmed
      /\ failed.stage = call.stage /\ failed.request = R(c)
      /\ failed.outputs = Found(call, code, unconfirmed)
  BY DEF Call
<1> HIDE DEF failed
<1>4. calls'[c] = failed
  BY <1>2 DEF Moves
<1>5. PICK run : run = Failed(call, code, unconfirmed)
  OBVIOUS
<1>6. RunFits(R(c), run)'
  <2>1. RunFits(R(c), run)
    BY <1>5
  <2>2. PICK r : r = R(c)
    OBVIOUS
  <2>3. RunFits(r, run)'
    BY <1>1, <2>1, <2>2, RunFitsStays
  <2>4. R(c)' = r
    BY <1>3, <1>4, <2>2 DEF R
  <2> QED BY <2>3, <2>4
<1>7. Run(calls[c])' = run
  BY <1>1, <1>3, <1>4, <1>5 DEF Run, Failed
<1> QED BY <1>3, <1>4, <1>6, <1>7 DEF StageFits, At, Registers, Makes, Running

LEMMA ReserveNameFits ==
  ASSUME Inv, Tables', NEW c \in Workers, ReserveName(c)
  PROVE  StageFits(c)'
<1>1. /\ Tables /\ At(c, "register") /\ calls[c] \in Call /\ R(c) \in Requests /\ StageFits(c)
      /\ Kind(R(c)) = "REGISTER"
  BY Carried DEF Inv, StagesFit, ReserveName, At, Registers
<1>2. UNCHANGED <<intents, registered, artifacts>>
  BY DEF ReserveName
<1>3. CASE Goto(c, "registerReserved")
  <2>1. calls'[c] = [calls[c] EXCEPT !.pc = "registerReserved"]
    BY <1>1, <1>3, CallGoes DEF Running, Moves
  <2>2. calls'[c].pc = "registerReserved" /\ R(c)' = R(c) /\ calls'[c].outputs = calls[c].outputs
        /\ calls'[c].code = calls[c].code /\ calls'[c].unconfirmed = calls[c].unconfirmed
        /\ calls'[c].stage = calls[c].stage
    BY <1>1, <2>1 DEF Call, R
  <2> QED BY <1>1, <2>2 DEF StageFits, At, Registers, Makes, Running
<1>4. CASE Fail(c, calls[c], "PRODUCTION_BUSY", FALSE)
  <2>1. Found(calls[c], "PRODUCTION_BUSY", FALSE) = <<>>
    BY <1>1 DEF Found, Searches, Derives, StageFits, At, Registers, R
  <2>2. RunFits(R(c), Failed(calls[c], "PRODUCTION_BUSY", FALSE))
    BY <1>1, <2>1 DEF RunFits, Registration, Failed, StageFits, At, Registers
  <2>3. Keeps(R(c))
    BY <1>2 DEF Keeps, Grows
  <2>4. "PRODUCTION_BUSY" \in Codes /\ calls[c].request = R(c)
    BY DEF Codes, R
  <2> QED BY <1>1, <1>4, <2>2, <2>3, <2>4, FailFits
<1> QED BY <1>3, <1>4 DEF ReserveName, Refuse

LEMMA RegisterFits ==
  ASSUME Inv, Tables', NEW c \in Workers, RegisterReserved(c)
  PROVE  StageFits(c)'
<1> DEFINE made == Command[R(c)].registers
<1>1. /\ Tables /\ At(c, "registerReserved") /\ calls[c] \in Call /\ R(c) \in Requests /\ StageFits(c)
      /\ Kind(R(c)) = "REGISTER"
  BY Carried DEF Inv, StagesFit, RegisterReserved, At, Registers
<1>2. Keeps(R(c))
  <2>1. Grows
    BY StepsGrow DEF Next
  <2> QED BY <2>1 DEF Keeps, RegisterReserved
<1>3. ASSUME NEW code \in {"STAGE_FAILED", "REGISTRATION_CONFLICT", "CATALOG_CAPACITY"},
             Fail(c, calls[c], code, FALSE)
      PROVE  StageFits(c)'
  <2>1. Found(calls[c], code, FALSE) = <<>>
    BY <1>1 DEF Found, Searches, Derives, StageFits, At, Registers, R
  <2>2. RunFits(R(c), Failed(calls[c], code, FALSE))
    BY <1>1, <2>1 DEF RunFits, Registration, Failed, StageFits, At, Registers
  <2>3. code \in Codes /\ calls[c].request = R(c)
    BY DEF Codes, R
  <2> QED BY <1>1, <1>2, <1>3, <2>2, <2>3, FailFits
<1>4. ASSUME registered'[made[1]] = made[2],
             calls' = [calls EXCEPT ![c].pc = "save", ![c].outputs = <<<<"REGISTRATION", made[1]>>>>]
      PROVE  StageFits(c)'
  <2>1. /\ calls'[c].pc = "save" /\ calls'[c].outputs = <<<<"REGISTRATION", made[1]>>>>
        /\ calls'[c].code = None /\ R(c)' = R(c)
    BY <1>1, <1>4 DEF Tables, Call, R, StageFits, At
  <2>2. ~Contains(<<<<"REGISTRATION", made[1]>>>>, <<"QUARANTINED", R(c)>>)
    BY DEF Contains
  <2>3. Run(calls[c])'.code = None /\ Run(calls[c])'.state = "COMPLETED"
        /\ Run(calls[c])'.outputs = <<<<"REGISTRATION", made[1]>>>>
    BY <2>1, <2>2 DEF Run, R
  <2>4. There(Command[R(c)].registers)'
    BY <1>4, <2>1 DEF There
  <2>5. RunFits(R(c), Run(calls[c]))'
    BY <1>1, <2>1, <2>3, <2>4 DEF RunFits, Registration
  <2> QED BY <2>1, <2>5 DEF StageFits, At, Registers, Makes, Running
<1>5. \/ Fail(c, calls[c], "STAGE_FAILED", FALSE)
      \/ /\ registered'[made[1]] = made[2]
         /\ calls' = [calls EXCEPT ![c].pc = "save", ![c].outputs = <<<<"REGISTRATION", made[1]>>>>]
      \/ Fail(c, calls[c], "REGISTRATION_CONFLICT", FALSE)
      \/ Fail(c, calls[c], "CATALOG_CAPACITY", FALSE)
  BY DEF RegisterReserved, Refuse
<1> QED BY <1>3, <1>4, <1>5
LEMMA Unchanged ==
  ASSUME UNCHANGED <<intents, artifacts, registered>>, NEW r
  PROVE  Keeps(r)
BY DEF Keeps, Grows

\* A call among its dependencies, or after the last of them.
LEMMA Depending ==
  ASSUME Inv, NEW c \in Workers, calls[c].pc \in Makes
  PROVE  LET r == R(c)
             k == Len(calls[c].outputs) IN
         /\ r \in Requests /\ calls[c] \in Call /\ calls[c].request = r /\ Tables
         /\ Kind(r) \in Kinds /\ Kind(r) # "REGISTER"
         /\ k \in 0..Size(r) /\ Size(r) \in Nat /\ k \in Nat
         /\ Known(r, k) /\ calls[c].outputs = Listing(r, k) /\ calls[c].stage = StageAt(r, k)
         /\ calls[c].code = None /\ ~calls[c].unconfirmed
         /\ calls[c].permitted = intents[r].permitted
<1>1. StageFits(c) /\ ClaimFits(c) /\ Tables /\ ~At(c, "idle") /\ ~At(c, "save") /\ calls[c].pc \in Running
  BY DEF Inv, StagesFit, ClaimsFit, Makes, At, Running
<1>2. R(c) \in Requests /\ calls[c] \in Call /\ Kind(R(c)) \in Kinds
  BY <1>1, Carried
<1>3. Len(calls[c].outputs) \in Nat
  BY <1>2, LenProperties DEF Call, Outputs
<1>4. Size(R(c)) \in Nat /\ Len(calls[c].outputs) <= Size(R(c))
  BY <1>1, <1>2, InputsAreOthers DEF StageFits
<1> QED BY <1>1, <1>2, <1>3, <1>4 DEF StageFits, ClaimFits, R

\* A call that goes on with what it has listed.
LEMMA StageGoesOn ==
  ASSUME Tables, Tables', Grows, NEW c \in Workers, NEW r \in Requests, NEW k \in 0..Size(r),
         Known(r, k), Kind(r) # "REGISTER", NEW call, calls'[c] = call,
         call.pc \in Makes, call.request = r, call.outputs = Listing(r, k), call.stage = StageAt(r, k),
         call.code = None, ~call.unconfirmed,
         call.pc = "depend" => artifacts'[r] = None,
         call.pc = "publish" => k = Size(r) /\ artifacts'[r] \in Partly(r),
         call.pc = "published" => k = Size(r) /\ artifacts'[r] \in Products(r)
  PROVE  StageFits(c)'
<1>1. Known(r, k)' /\ Listing(r, k)' = Listing(r, k) /\ Len(Listing(r, k)) = k
  BY ListingStays, Listings
<1>2. R(c)' = r
  BY DEF R
<1>3. k <= Size(r)
  BY InputsAreOthers
<1> QED BY <1>1, <1>2, <1>3 DEF StageFits, At, Registers, Makes, Running, Partly, Products

LEMMA DependFits ==
  ASSUME Inv, Tables', NEW c \in Workers, Depend(c)
  PROVE  StageFits(c)'
<1> DEFINE r == R(c)
           k == Len(calls[c].outputs)
<1>1. At(c, "depend") /\ calls[c].pc \in Makes /\ artifacts[r] = None
  BY DEF Inv, StagesFit, StageFits, Depend, At, Makes
<1>2. /\ r \in Requests /\ calls[c] \in Call /\ calls[c].request = r /\ Tables
      /\ Kind(r) \in Kinds /\ Kind(r) # "REGISTER"
      /\ k \in 0..Size(r) /\ Size(r) \in Nat /\ k \in Nat
      /\ Known(r, k) /\ calls[c].outputs = Listing(r, k) /\ calls[c].stage = StageAt(r, k)
      /\ calls[c].code = None /\ ~calls[c].unconfirmed
      /\ calls[c].permitted = intents[r].permitted
  BY <1>1, Depending
<1>3. Keeps(r)
  BY Unchanged DEF Depend, disk
<1> HIDE DEF r
<1>4. ASSUME NEW call \in Call, call.request = r, NEW n \in 0..Size(r), Known(r, n),
             call.outputs = Listing(r, n), call.stage = StageAt(r, n), NEW code \in Codes,
             \/ code \in Refusals
             \/ code = "INGEST_DISALLOWED" /\ Kind(r) = "ACQUIRE" /\ ~intents[r].permitted
             \/ code = "DERIVATION_DISALLOWED" /\ n > 0 /\ ~intents[r].permitted
             \/ code = "MEMBER_NOT_ELIGIBLE" /\ n > 0 /\ artifacts[Command[r].inputs[n]] = "QUARANTINED",
             Fail(c, call, code, FALSE)
      PROVE  StageFits(c)'
  <2>1. Found(call, code, FALSE) = Listing(r, n)
    <3>1. /\ Tables /\ call.request \in Requests /\ artifacts[call.request] = None
          /\ n \in 0..Size(call.request) /\ call.outputs = Listing(call.request, n)
      BY <1>1, <1>2, <1>4
    <3>2. Found(call, code, FALSE) =
            IF ~Searches(call.request, code) \/ artifacts[call.request] = None \/ FALSE
            THEN Listing(call.request, n)
            ELSE Append(Listing(call.request, n), Own(call.request))
      BY <3>1, FoundAfterListing
    <3> QED BY <1>4, <3>1, <3>2
  <2> DEFINE run == Failed(call, code, FALSE)
  <2>2. run.state = "FAILED" /\ run.outputs = Listing(r, n) /\ run.stage = StageAt(r, n) /\ run.code = code
    BY <1>4, <2>1 DEF Failed
  <2> HIDE DEF run
  <2>3. Refused(r, run)
    BY <1>4, <2>2 DEF Refused
  <2>4. RunFits(r, run)
    BY <1>2, <2>2, <2>3 DEF RunFits
  <2> QED BY <1>2, <1>3, <1>4, <2>4, FailFits DEF run, r
<1>5. CASE ~Usable(r)
  <2>1. Fail(c, calls[c], "REFERENCE_NOT_FOUND", FALSE)
    BY <1>5 DEF Depend, Refuse, r
  <2> QED BY <1>2, <1>4, <2>1 DEF Codes, Refusals
<1>6. CASE Usable(r) /\ k + 1 <= Size(r)
  <2> DEFINE q == Command[r].inputs[k + 1]
  <2>1. /\ Inspected(c) \in Call /\ Sets(c, Inspected(c)) /\ Inspected(c).pc = "depend"
        /\ Inspected(c).code = calls[c].code /\ Inspected(c).unconfirmed = calls[c].unconfirmed
        /\ Inspected(c).outputs = Append(calls[c].outputs, Own(q))
        /\ Inspected(c).stage = IF Kind(r) = "NORMALIZE" THEN "NORMALIZATION" ELSE calls[c].stage
    BY <1>1, <1>6, InspectedIsACall DEF r
  <2>2. Inspected(c).request = r
    BY <2>1 DEF Sets, r
  <2>3. Inspected(c).outputs = Listing(r, k + 1)
    BY <1>2, <1>6, <2>1, ListingGrows
  <2>4. Inspected(c).stage = StageAt(r, k + 1)
    BY <1>2, <2>1 DEF StageAt
  <2>5. k + 1 \in 0..Size(r) /\ k + 1 > 0 /\ k + 1 \in Nat
    BY <1>2, <1>6
  <2>6. Retained(q) => Known(r, k + 1)
    <3>1. \A i \in 1..k + 1 : i \in 1..k \/ i = k + 1
      BY <1>2
    <3> QED BY <1>2, <3>1 DEF Known
  <2>7. \/ Fail(c, calls[c], "REFERENCE_MISMATCH", FALSE)
        \/ /\ Retained(q)
           /\ \/ artifacts[q] = "QUARANTINED" /\ Fail(c, Inspected(c), "MEMBER_NOT_ELIGIBLE", FALSE)
              \/ ~calls[c].permitted /\ Fail(c, Inspected(c), "DERIVATION_DISALLOWED", FALSE)
              \/ calls' = [calls EXCEPT ![c] = Inspected(c)]
    BY <1>6 DEF Depend, Refuse, Inspected, Size, r
  <2>8. CASE Fail(c, calls[c], "REFERENCE_MISMATCH", FALSE)
    BY <1>2, <1>4, <2>8 DEF Codes, Refusals
  <2>9. CASE Retained(q) /\ artifacts[q] = "QUARANTINED" /\ Fail(c, Inspected(c), "MEMBER_NOT_ELIGIBLE", FALSE)
    BY <1>4, <2>1, <2>2, <2>3, <2>4, <2>5, <2>6, <2>9 DEF Codes
  <2>10. CASE Retained(q) /\ ~calls[c].permitted /\ Fail(c, Inspected(c), "DERIVATION_DISALLOWED", FALSE)
    BY <1>2, <1>4, <2>1, <2>2, <2>3, <2>4, <2>5, <2>6, <2>10 DEF Codes
  <2>11. CASE Retained(q) /\ calls' = [calls EXCEPT ![c] = Inspected(c)]
    <3>1. calls'[c] = Inspected(c)
      BY <1>2, <2>11 DEF Tables
    <3>2. Grows /\ artifacts'[r] = None /\ Known(r, k + 1) /\ Inspected(c).pc \in Makes
      BY <1>1, <1>3, <2>1, <2>6, <2>11 DEF Keeps, Makes
    <3> HIDE DEF k, q
    <3> QED BY <1>2, <2>1, <2>2, <2>3, <2>4, <2>5, <3>1, <3>2, StageGoesOn
  <2> QED BY <2>7, <2>8, <2>9, <2>10, <2>11
<1>7. CASE Usable(r) /\ ~(k + 1 <= Size(r))
  <2>1. \/ Kind(r) = "ACQUIRE" /\ ~calls[c].permitted /\ Fail(c, calls[c], "INGEST_DISALLOWED", FALSE)
        \/ Goto(c, "publish")
    BY <1>7 DEF Depend, Refuse, Size, r
  <2>2. CASE Kind(r) = "ACQUIRE" /\ ~calls[c].permitted /\ Fail(c, calls[c], "INGEST_DISALLOWED", FALSE)
    BY <1>2, <1>4, <2>2 DEF Codes
  <2>3. CASE Goto(c, "publish")
    <3>1. calls'[c] = [calls[c] EXCEPT !.pc = "publish"]
      BY <1>2, <2>3, CallGoes DEF Running, Moves
    <3> DEFINE call == [calls[c] EXCEPT !.pc = "publish"]
    <3>2. /\ call.pc = "publish" /\ call.pc \in Makes /\ call.request = r /\ call.outputs = Listing(r, k)
          /\ call.code = None /\ ~call.unconfirmed /\ call.stage = StageAt(r, k)
      BY <1>2 DEF Call, Makes
    <3>3. k = Size(r) /\ Grows /\ artifacts'[r] \in Partly(r)
      BY <1>1, <1>2, <1>3, <1>7 DEF Keeps, Partly
    <3>4. calls'[c] = call
      BY <3>1
    <3> HIDE DEF k, call
    <3> QED BY <1>2, <3>2, <3>3, <3>4, StageGoesOn
  <2> QED BY <2>1, <2>2, <2>3
<1> QED BY <1>5, <1>6, <1>7

LEMMA PublishFits ==
  ASSUME Inv, Tables', NEW c \in Workers, Publish(c)
  PROVE  StageFits(c)' /\ artifacts'[R(c)] \in Products(R(c)) \cup Partly(R(c))
<1> DEFINE r == R(c)
           k == Len(calls[c].outputs)
<1>1. /\ At(c, "publish") /\ calls[c].pc \in Makes /\ k = Size(r) /\ artifacts[r] \in Partly(r)
  BY DEF Inv, StagesFit, StageFits, Publish, At, Makes
<1>2. /\ r \in Requests /\ calls[c] \in Call /\ calls[c].request = r /\ Tables
      /\ Kind(r) \in Kinds /\ Kind(r) # "REGISTER"
      /\ k \in 0..Size(r) /\ Size(r) \in Nat /\ k \in Nat
      /\ Known(r, k) /\ calls[c].outputs = Listing(r, k) /\ calls[c].stage = StageAt(r, k)
      /\ calls[c].code = None /\ ~calls[c].unconfirmed
      /\ calls[c].permitted = intents[r].permitted
  BY <1>1, Depending
<1>3. Grows
  BY StepsGrow DEF Next
<1>5. PICK artifact \in Publishes(r) :
        /\ artifacts' = [artifacts EXCEPT ![r] = artifact]
        /\ IF artifact = "CONTENT" THEN UNCHANGED calls ELSE Goto(c, "published")
  BY DEF Publish
<1>6. artifacts'[r] = artifact
  BY <1>2, <1>5 DEF Tables
<1> HIDE DEF r, k
<1>7. CASE artifact = "CONTENT"
  <2>1. Kind(r) = "ACQUIRE" /\ UNCHANGED calls
    BY <1>2, <1>5, <1>7 DEF Publishes, Products, Kinds
  <2>2. artifacts'[r] \in Partly(r)
    BY <1>6, <1>7, <2>1 DEF Partly
  <2>3. calls'[c] = calls[c] /\ calls[c].pc = "publish"
    BY <1>1, <2>1 DEF At
  <2>4. StageFits(c)'
    BY <1>1, <1>2, <1>3, <2>2, <2>3, StageGoesOn
  <2> QED BY <2>2, <2>4 DEF r
<1>8. CASE artifact # "CONTENT"
  <2>1. artifact \in Products(r)
    BY <1>2, <1>5, <1>8 DEF Publishes, Products, Kinds
  <2> DEFINE call == [calls[c] EXCEPT !.pc = "published"]
  <2>2. calls'[c] = call
    BY <1>2, <1>5, <1>8, CallGoes DEF Running, Moves
  <2>3. /\ call.pc = "published" /\ call.pc \in Makes /\ call.request = r /\ call.outputs = Listing(r, k)
        /\ call.code = None /\ ~call.unconfirmed /\ call.stage = StageAt(r, k)
    BY <1>2 DEF Call, Makes
  <2> HIDE DEF call
  <2>4. StageFits(c)'
    BY <1>1, <1>2, <1>3, <1>6, <2>1, <2>2, <2>3, StageGoesOn
  <2> QED BY <1>6, <2>1, <2>4 DEF r
<1> QED BY <1>7, <1>8

LEMMA ReadbackFits ==
  ASSUME Inv, Tables', NEW c \in Workers, Readback(c)
  PROVE  StageFits(c)'
<1> DEFINE r == R(c)
           k == Len(calls[c].outputs)
<1>1. /\ At(c, "published") /\ calls[c].pc \in Makes /\ k = Size(r) /\ artifacts[r] \in Products(r)
  BY DEF Inv, StagesFit, StageFits, Readback, At, Makes
<1>2. /\ r \in Requests /\ calls[c] \in Call /\ calls[c].request = r /\ Tables
      /\ Kind(r) \in Kinds /\ Kind(r) # "REGISTER"
      /\ k \in 0..Size(r) /\ Size(r) \in Nat /\ k \in Nat
      /\ Known(r, k) /\ calls[c].outputs = Listing(r, k) /\ calls[c].stage = StageAt(r, k)
      /\ calls[c].code = None /\ ~calls[c].unconfirmed
      /\ calls[c].permitted = intents[r].permitted
  BY <1>1, Depending
<1>3. Keeps(r)
  BY Unchanged DEF Readback, disk
<1> DEFINE call == [Listed(calls[c]) EXCEPT !.pc = "save"]
           all == Append(Listing(r, Size(r)), Own(r))
<1>4. Listed(calls[c]) \in Call
  BY <1>2, ListedIsACall
<1>5. /\ call.pc = "save" /\ call.outputs = all /\ call.code = None /\ call.request = r
      /\ call.unconfirmed = calls[c].unconfirmed
  BY <1>1, <1>2, <1>4 DEF Listed, Call
<1>6. calls'[c] = call
  BY <1>2 DEF Readback, Tables
<1> DEFINE made == Run(call)
<1>7. Contains(all, <<"QUARANTINED", r>>) <=> artifacts[r] = "QUARANTINED"
  <2>1. Contains(all, <<"QUARANTINED", r>>) => artifacts[r] = "QUARANTINED"
    BY <1>1, <1>2, ListingContains
  <2>2. Contains(all, Own(r))
    BY <1>1, <1>2, ListingContains
  <2>3. artifacts[r] = "QUARANTINED" => Own(r) = <<"QUARANTINED", r>>
    BY DEF Own
  <2> HIDE DEF r, all
  <2> QED BY <2>1, <2>2, <2>3
<1> HIDE DEF call, all
<1>8. /\ made.code = None /\ made.outputs = all
      /\ made.state = IF artifacts[r] = "QUARANTINED" THEN "QUARANTINED" ELSE "COMPLETED"
  BY <1>5, <1>7 DEF Run
<1> HIDE DEF made
<1>9. Success(r, made)
  BY <1>1, <1>2, <1>8 DEF Success, all
<1>10. RunFits(r, made)
  BY <1>2, <1>9 DEF RunFits
<1>11. PICK run, q : run = made /\ q = r
  OBVIOUS
<1>12. RunFits(q, run)'
  BY <1>2, <1>3, <1>10, <1>11, RunFitsStays
<1>13. Run(calls[c])' = run /\ R(c)' = q
  BY <1>5, <1>6, <1>11 DEF made, Run, R
<1> QED BY <1>5, <1>6, <1>12, <1>13 DEF StageFits, At, Registers, Makes, Running
LEMMA FaultFits ==
  ASSUME Inv, Tables', NEW c \in Workers, Fault(c)
  PROVE  StageFits(c)'
<1> DEFINE r == R(c)
           k == Len(calls[c].outputs)
           others == Listing(r, Size(r))
           all == Append(others, Own(r))
<1>1. /\ calls[c].pc \in Makes /\ k = Size(r)
      /\ At(c, "publish") => artifacts[r] \in Partly(r)
      /\ At(c, "published") => artifacts[r] \in Products(r)
  BY DEF Inv, StagesFit, StageFits, Fault, At, Makes
<1>2. /\ r \in Requests /\ calls[c] \in Call /\ calls[c].request = r /\ Tables
      /\ Kind(r) \in Kinds /\ Kind(r) # "REGISTER"
      /\ k \in 0..Size(r) /\ Size(r) \in Nat /\ k \in Nat
      /\ Known(r, k) /\ calls[c].outputs = Listing(r, k) /\ calls[c].stage = StageAt(r, k)
      /\ calls[c].code = None /\ ~calls[c].unconfirmed
      /\ calls[c].permitted = intents[r].permitted
  BY <1>1, Depending
<1>3. Keeps(r)
  BY Unchanged DEF Fault, disk
<1>4. Size(r) \in 0..Size(r) /\ Known(r, Size(r)) /\ calls[c].outputs = others
  BY <1>1, <1>2
<1>5. None \notin Products(r)
  BY <1>2, NoneIsNothing DEF Products, Artifacts, Kinds
<1> HIDE DEF r, others, all
<1>6. ASSUME NEW unconfirmed \in BOOLEAN, Fail(c, calls[c], "STAGE_FAILED", unconfirmed),
             At(c, "publish") \/ At(c, "published")
      PROVE  StageFits(c)'
  <2> DEFINE run == Failed(calls[c], "STAGE_FAILED", unconfirmed)
  <2>1. Searches(r, "STAGE_FAILED")
    BY <1>2 DEF Searches, Derives, Kinds
  <2>2. Found(calls[c], "STAGE_FAILED", unconfirmed) =
          IF artifacts[r] = None \/ unconfirmed THEN others ELSE all
    BY <1>2, <1>4, <2>1, FoundAfterListing DEF others, all
  <2>3. /\ run.state = "FAILED" /\ run.stage = StageAt(r, Size(r)) /\ run.code = "STAGE_FAILED"
        /\ run.unconfirmed = unconfirmed
        /\ run.outputs = IF artifacts[r] = None \/ unconfirmed THEN others ELSE all
    BY <1>1, <1>2, <2>2 DEF Failed, r
  <2>4. artifacts[r] # None => artifacts[r] \in Products(r) \cup (Partly(r) \ {None})
    BY <1>1, <1>6
  <2> HIDE DEF run
  <2>5. Faulted(r, run)
    BY <1>4, <2>3, <2>4 DEF Faulted, others, all
  <2>6. RunFits(r, run) /\ "STAGE_FAILED" \in Codes
    BY <1>2, <2>3, <2>5 DEF RunFits, Codes
  <2> QED BY <1>2, <1>3, <1>6, <2>6, FailFits DEF run, r
<1>7. ASSUME NEW unconfirmed \in BOOLEAN, At(c, "published"), unconfirmed => Derives(r),
             Fail(c, Inspecting(calls[c]), IF Derives(r) THEN "DEPENDENCY_INTEGRITY_FAILED"
                                           ELSE "EVIDENCE_INTEGRITY_FAILED", unconfirmed)
      PROVE  StageFits(c)'
  <2>0. artifacts[r] \in Products(r) /\ artifacts[r] # None
    BY <1>1, <1>5, <1>7
  <2>1. CASE Kind(r) = "ACQUIRE"
    <3> DEFINE run == Failed(calls[c], "EVIDENCE_INTEGRITY_FAILED", unconfirmed)
    <3>1. ~Derives(r) /\ Inspecting(calls[c]) = calls[c] /\ ~Searches(r, "EVIDENCE_INTEGRITY_FAILED")
      BY <1>2, <2>1 DEF Derives, Inspecting, Searches
    <3>2. Found(calls[c], "EVIDENCE_INTEGRITY_FAILED", unconfirmed) = others
      BY <1>2, <1>4, <3>1 DEF Found
    <3>3. /\ run.state = "FAILED" /\ run.stage = StageAt(r, Size(r)) /\ run.outputs = others
          /\ run.code = "EVIDENCE_INTEGRITY_FAILED"
      BY <1>1, <1>2, <3>2 DEF Failed, r
    <3> HIDE DEF run
    <3>4. Faulted(r, run)
      BY <1>4, <2>1, <3>3 DEF Faulted, others
    <3>5. RunFits(r, run) /\ "EVIDENCE_INTEGRITY_FAILED" \in Codes
      BY <1>2, <3>3, <3>4 DEF RunFits, Codes
    <3>6. Fail(c, calls[c], "EVIDENCE_INTEGRITY_FAILED", unconfirmed)
      BY <1>7, <3>1
    <3> QED BY <1>2, <1>3, <3>5, <3>6, FailFits DEF run, r
  <2>2. CASE Kind(r) = "NORMALIZE"
    <3> DEFINE run == Failed(calls[c], "DEPENDENCY_INTEGRITY_FAILED", unconfirmed)
    <3>1. Derives(r) /\ Inspecting(calls[c]) = calls[c] /\ Searches(r, "DEPENDENCY_INTEGRITY_FAILED")
      BY <1>2, <2>2 DEF Derives, Inspecting, Searches
    <3>2. Found(calls[c], "DEPENDENCY_INTEGRITY_FAILED", unconfirmed) = IF unconfirmed THEN others ELSE all
      BY <1>2, <1>4, <2>0, <3>1, FoundAfterListing DEF others, all
    <3>3. /\ run.state = "FAILED" /\ run.stage = StageAt(r, Size(r)) /\ run.unconfirmed = unconfirmed
          /\ run.outputs = IF unconfirmed THEN others ELSE all
          /\ run.code = "DEPENDENCY_INTEGRITY_FAILED"
      BY <1>1, <1>2, <3>2 DEF Failed, r
    <3> HIDE DEF run
    <3>4. Faulted(r, run)
      BY <1>4, <2>0, <2>2, <3>3 DEF Faulted, others, all
    <3>5. RunFits(r, run) /\ "DEPENDENCY_INTEGRITY_FAILED" \in Codes
      BY <1>2, <3>3, <3>4 DEF RunFits, Codes
    <3>6. Fail(c, calls[c], "DEPENDENCY_INTEGRITY_FAILED", unconfirmed)
      BY <1>7, <3>1
    <3> QED BY <1>2, <1>3, <3>5, <3>6, FailFits DEF run, r
  <2>3. CASE Kind(r) = "BUILD_CANDIDATES"
    <3> DEFINE call == Inspecting(calls[c])
               run == Failed(call, "DEPENDENCY_INTEGRITY_FAILED", unconfirmed)
    <3>1. Derives(r) /\ Searches(r, "DEPENDENCY_INTEGRITY_FAILED")
      BY <1>2, <2>3 DEF Derives, Searches
    <3>2. call \in Call
      BY <1>2, ListedIsACall
    <3>3. call.request = r /\ call.outputs = all /\ call.stage = "BUILD_INSPECTION"
      BY <1>2, <1>4, <2>3 DEF Inspecting, Listed, Call, all
    <3> HIDE DEF call
    <3>4. Found(call, "DEPENDENCY_INTEGRITY_FAILED", unconfirmed) = IF unconfirmed THEN others ELSE all
      BY <1>2, <1>4, <2>0, <3>1, <3>2, <3>3, FoundAfterOwn DEF others, all
    <3>5. /\ run.state = "FAILED" /\ run.stage = "BUILD_INSPECTION" /\ run.unconfirmed = unconfirmed
          /\ run.outputs = IF unconfirmed THEN others ELSE all
          /\ run.code = "DEPENDENCY_INTEGRITY_FAILED"
      BY <3>3, <3>4 DEF Failed
    <3> HIDE DEF run
    <3>6. Faulted(r, run)
      BY <1>4, <2>0, <2>3, <3>5 DEF Faulted, others, all
    <3>7. RunFits(r, run) /\ "DEPENDENCY_INTEGRITY_FAILED" \in Codes
      BY <1>2, <3>5, <3>6 DEF RunFits, Codes
    <3>8. Fail(c, call, "DEPENDENCY_INTEGRITY_FAILED", unconfirmed)
      BY <1>7, <3>1 DEF call
    <3> QED BY <1>2, <1>3, <3>2, <3>3, <3>7, <3>8, FailFits DEF run, r
  <2> QED BY <1>2, <2>1, <2>2, <2>3 DEF Kinds
<1> QED BY <1>6, <1>7 DEF Fault, r

LEMMA ReleaseFits ==
  ASSUME Inv, Tables', NEW c \in Workers, Release(c)
  PROVE  StageFits(c)'
<1>1. /\ Begins(c) \/ (Moves(c, Fresh) /\ UNCHANGED executed)
      /\ UNCHANGED <<permitted, intents, registered, artifacts, runs>>
  BY ReleaseMoves
<1>2. CASE Moves(c, Fresh)
  BY <1>2, FreshIsACall DEF Moves, StageFits, At, Registers, Makes, Running
<1>3. CASE Begins(c)
  <2> DEFINE r == R(c)
             call == Beginning(c)
  <2>1. At(c, "release") /\ Tables /\ ClaimFits(c) /\ StageFits(c) /\ r \in Requests /\ Kind(r) \in Kinds
    BY Carried DEF Inv, ClaimsFit, StagesFit, Release, At
  <2>2. /\ call.request = r /\ call.pc = IF Kind(r) = "REGISTER" THEN "register" ELSE "depend"
        /\ call.stage = FirstStage(r) /\ call.outputs = calls[c].outputs /\ call.code = calls[c].code
        /\ call.unconfirmed = calls[c].unconfirmed
    BY <2>1, BeginningIsACall
  <2>3. calls'[c] = call /\ calls[c].claimed
    BY <1>3 DEF Begins, Moves
  <2>4. calls[c].outputs = <<>> /\ calls[c].code = None /\ ~calls[c].unconfirmed
    BY <2>1 DEF StageFits, At, Running
  <2>5. artifacts[r] = None
    <3>1. executed[r] = 0
      BY <2>1, <2>3 DEF ClaimFits
    <3>2. RequestFits(r)
      BY <2>1 DEF Inv, ClaimsFit
    <3> QED BY <3>1, <3>2 DEF RequestFits
  <2> HIDE DEF call, r
  <2>6. CASE Kind(r) = "REGISTER"
    <3>1. R(c)' = r /\ calls'[c].stage = "REGISTRATION"
      BY <2>2, <2>3, <2>6 DEF R, FirstStage
    <3> QED BY <2>2, <2>3, <2>4, <2>6, <3>1 DEF StageFits, At, Registers, Makes, Running
  <2>7. CASE Kind(r) # "REGISTER"
    <3>1. 0 \in 0..Size(r) /\ Known(r, 0) /\ Listing(r, 0) = <<>> /\ StageAt(r, 0) = FirstStage(r)
      BY <2>1, NothingListed, InputsAreOthers DEF Known, StageAt
    <3>2. Grows /\ artifacts'[r] = None
      BY <1>1, <2>5 DEF Grows
    <3>3. call.pc = "depend" /\ call.pc \in Makes
      BY <2>2, <2>7 DEF Makes
    <3> QED BY <2>1, <2>2, <2>3, <2>4, <2>7, <3>1, <3>2, <3>3, StageGoesOn
  <2> QED BY <2>6, <2>7
<1> QED BY <1>1, <1>2, <1>3

LEMMA StageStepFits ==
  ASSUME Inv, Tables', NEW c \in Workers, StageStep(c)
  PROVE  StageFits(c)'
BY ReserveNameFits, RegisterFits, DependFits, PublishFits, ReadbackFits, FaultFits DEF StageStep

\* A call that has not begun its stages lists nothing.
LEMMA IdlesFit ==
  ASSUME NEW c \in Workers, ~(calls'[c].pc \in Running),
         calls'[c].code = None, ~calls'[c].unconfirmed, calls'[c].outputs = <<>>
  PROVE  StageFits(c)'
BY DEF StageFits, At, Registers, Makes, Running

\* Every step of one worker leaves its own call fit and touches no other.
WorkerStep(c) ==
  \/ \E r \in Requests : Look(c, r)
  \/ Reserve(c) \/ Claim(c) \/ Release(c) \/ StageStep(c) \/ Save(c) \/ Kill(c)

LEMMA OwnCallFits ==
  ASSUME Inv, Tables', NEW c \in Workers, WorkerStep(c)
  PROVE  /\ StageFits(c)'
         /\ \A d \in Workers : d # c => calls'[d] = calls[d]
         /\ \A r \in Requests : artifacts'[r] = artifacts[r] \/ (r = R(c) /\ calls[c].pc \in Running)
         /\ UNCHANGED intents \/ Claim(c)
<1>0. Tables /\ StageFits(c) /\ calls[c] \in Call /\ ClaimFits(c)
  BY DEF Inv, Tables, StagesFit, ClaimsFit
<1>1. CASE \E r \in Requests : Look(c, r)
  <2>1. PICK r \in Requests : Look(c, r)
    BY <1>1
  <2>2. PICK call \in Call : Moves(c, call) /\ call.pc = "reserve"
                              /\ call.code = None /\ ~call.unconfirmed /\ call.outputs = <<>>
    BY <2>1, LookMoves
  <2>3. UNCHANGED <<intents, artifacts>>
    BY <2>1 DEF Look, disk
  <2> QED BY <2>2, <2>3, IdlesFit DEF Moves, Running
<1>2. CASE Reserve(c)
  <2>1. Moves(c, Fresh) \/ Moves(c, [calls[c] EXCEPT !.pc = "claim"])
    BY <1>2, ReserveKeepsClaims
  <2>2. UNCHANGED <<intents, artifacts>> /\ At(c, "reserve")
    BY <1>2 DEF Reserve
  <2>3. CASE Moves(c, Fresh)
    BY <2>2, <2>3, FreshIsACall, IdlesFit DEF Moves, Running
  <2>4. CASE Moves(c, [calls[c] EXCEPT !.pc = "claim"])
    <3>1. /\ calls'[c].pc = "claim" /\ calls'[c].code = calls[c].code
          /\ calls'[c].unconfirmed = calls[c].unconfirmed /\ calls'[c].outputs = calls[c].outputs
      BY <1>0, <2>4 DEF Moves, Call
    <3>2. calls[c].code = None /\ ~calls[c].unconfirmed /\ calls[c].outputs = <<>>
      BY <1>0, <2>2 DEF StageFits, At, Running
    <3> QED BY <2>2, <2>4, <3>1, <3>2, IdlesFit DEF Moves, Running
  <2> QED BY <2>1, <2>3, <2>4
<1>3. CASE Claim(c)
  <2> DEFINE free == intents[R(c)] = None /\ Cardinality(Written(intents)) < MaxIntents
  <2>1. /\ At(c, "claim") /\ UNCHANGED artifacts /\ free \in BOOLEAN
        /\ calls' = [calls EXCEPT ![c].pc = "release", ![c].claimed = free]
    BY <1>3 DEF Claim
  <2> HIDE DEF free
  <2> DEFINE call == Claiming(c, free)
  <2>2. /\ Moves(c, call) /\ call.pc = "release" /\ call.outputs = calls[c].outputs
        /\ call.code = calls[c].code /\ call.unconfirmed = calls[c].unconfirmed
    BY <2>1, ClaimMoves
  <2> HIDE DEF call
  <2>3. calls[c].code = None /\ ~calls[c].unconfirmed /\ calls[c].outputs = <<>>
    BY <1>0, <2>1 DEF StageFits, At, Running
  <2> QED BY <1>3, <2>1, <2>2, <2>3, IdlesFit DEF Moves, Running
<1>4. CASE Release(c)
  <2>1. Begins(c) \/ Moves(c, Fresh)
    BY <1>4, ReleaseMoves
  <2>2. UNCHANGED <<intents, artifacts>>
    BY <1>4, ReleaseMoves
  <2> QED BY <1>4, <2>1, <2>2, ReleaseFits DEF Begins, Moves
<1>5. CASE StageStep(c)
  <2>1. Advances(c)
    BY <1>5, StageAdvances
  <2> QED BY <1>5, <2>1, StageStepFits DEF Advances
<1>6. CASE Save(c)
  BY <1>6, SaveMoves, FreshIsACall, IdlesFit DEF Moves, Running
<1>7. CASE Kill(c)
  BY <1>7, KillMoves, FreshIsACall, IdlesFit DEF Moves, Running, disk
<1> QED BY <1>1, <1>2, <1>3, <1>4, <1>5, <1>6, <1>7 DEF WorkerStep
-----------------------------------------------------------------------------
(* The invariant is inductive.                                             *)

LEMMA IntentsStay ==
  ASSUME Inv, NEW c \in Workers, UNCHANGED intents \/ Claim(c), NEW r \in Requests, intents[r] # None
  PROVE  intents'[r] = intents[r]
<1>1. UNCHANGED intents \/ (intents[R(c)] = None /\ \E intent : intents' = [intents EXCEPT ![R(c)] = intent])
  BY DEF Claim
<1> QED BY <1>1 DEF Inv, Tables

LEMMA ArtifactsStayFit ==
  ASSUME Inv, Tables', NEW c \in Workers, WorkerStep(c)
  PROVE  ArtifactsFit'
<1>1. ArtifactsFit /\ Tables
  BY DEF Inv, StagesFit
<1>2. CASE UNCHANGED artifacts
  BY <1>1, <1>2 DEF ArtifactsFit, Products, Partly
<1>3. CASE Publish(c)
  <2>1. artifacts'[R(c)] \in Products(R(c)) \cup Partly(R(c))
    BY <1>3, PublishFits
  <2>2. \A r \in Requests : r # R(c) => artifacts'[r] = artifacts[r]
    BY <1>3, PublishAdvances DEF Advances
  <2>3. \A r \in Requests : artifacts'[r] \in Products(r) \cup Partly(r)
    BY <1>1, <2>1, <2>2 DEF ArtifactsFit
  <2> QED BY <2>3 DEF ArtifactsFit, Products, Partly
<1>4. UNCHANGED artifacts \/ Publish(c)
  BY DEF WorkerStep, StageStep, Look, Reserve, Claim, Release, ReserveName, RegisterReserved, Depend,
         Readback, Fault, Save, Kill, disk
<1> QED BY <1>2, <1>3, <1>4

LEMMA WorkerStepFits ==
  ASSUME Inv, Tables', NEW c \in Workers, WorkerStep(c), Grows
  PROVE  StagesFit'
<1>1. /\ StageFits(c)'
      /\ \A d \in Workers : d # c => calls'[d] = calls[d]
      /\ \A r \in Requests : artifacts'[r] = artifacts[r] \/ (r = R(c) /\ calls[c].pc \in Running)
      /\ UNCHANGED intents \/ Claim(c)
  BY OwnCallFits
<1>2. ClaimFits(c) /\ Tables
  BY DEF Inv, ClaimsFit
<1>3. ASSUME NEW d \in Workers, d # c PROVE StageFits(d)'
  <2>1. ClaimFits(d) /\ calls'[d] = calls[d]
    BY <1>1, <1>3 DEF Inv, ClaimsFit
  <2>2. ASSUME calls[d].pc \in Running PROVE Keeps(R(d))
    <3>1. calls[d].claimed /\ R(d) \in Requests /\ intents[R(d)] # None
      BY <2>1, <2>2 DEF ClaimFits
    <3>2. intents'[R(d)] = intents[R(d)]
      BY <1>1, <3>1, IntentsStay
    <3>3. artifacts'[R(d)] = artifacts[R(d)]
      BY <1>1, <1>2, <1>3, <2>1, <3>1 DEF ClaimFits
    <3> QED BY <3>2, <3>3 DEF Keeps
  <2> QED BY <2>1, <2>2, CallFitsStays
<1>4. ASSUME NEW r \in Requests PROVE runs'[r] # None => RunFits(r, runs[r])'
  <2>1. CASE runs'[r] = runs[r] /\ runs[r] # None
    <3>1. executed[r] = 1 /\ intents[r] # None
      BY <2>1 DEF Inv, ClaimsFit, RequestFits
    <3>2. intents'[r] = intents[r]
      BY <1>1, <3>1, IntentsStay
    <3>3. artifacts'[r] = artifacts[r]
      BY <1>1, <1>2, <2>1 DEF ClaimFits
    <3>4. Keeps(r)
      BY <3>2, <3>3 DEF Keeps
    <3> QED BY <2>1, <3>4, ReceiptStays
  <2>2. CASE runs'[r] # runs[r]
    <3>1. Save(c)
      BY <2>2, ReadersWriteNothing, WritersWriteOneTable DEF WorkerStep, StageStep
    <3>2. /\ UNCHANGED <<intents, registered, artifacts>> /\ r = R(c) /\ runs'[r] = Run(calls[c])
          /\ At(c, "save")
      BY <2>2, <3>1, SaveMoves DEF Save
    <3>3. PICK run : run = Run(calls[c])
      OBVIOUS
    <3>4. RunFits(r, run)
      BY <3>2, <3>3 DEF Inv, StagesFit, StageFits
    <3>5. Keeps(r)
      BY <3>2, Unchanged
    <3>6. RunFits(r, run)'
      BY <1>2, <3>4, <3>5, RunFitsStays
    <3>7. run = runs'[r]
      BY <3>2, <3>3
    <3> QED BY <3>6, <3>7
  <2> QED BY <2>1, <2>2
<1>5. ArtifactsFit'
  BY ArtifactsStayFit
<1> QED BY <1>1, <1>3, <1>4, <1>5 DEF StagesFit

LEMMA OtherStepFits ==
  ASSUME Inv, Tables', Grows, UNCHANGED <<intents, registered, artifacts, runs, calls>>
  PROVE  StagesFit'
<1>1. \A c \in Workers : StageFits(c)'
  BY Unchanged, CallFitsStays
<1>2. \A r \in Requests : runs'[r] # None => RunFits(r, runs[r])'
  BY Unchanged, ReceiptStays
<1>3. ArtifactsFit'
  BY DEF Inv, StagesFit, ArtifactsFit, Products, Partly
<1> QED BY <1>1, <1>2, <1>3 DEF StagesFit

LEMMA InvHolds == Spec => []Inv
<1>1. Init => Inv
  <2> SUFFICES ASSUME Init PROVE Inv
    OBVIOUS
  <2>1. \A c \in Workers : calls[c] = Fresh
    BY DEF Init
  <2>2. Tables
    BY FreshIsACall DEF Init, Tables
  <2>3. LockIsExclusive
    BY <2>1, FreshIsACall DEF LockIsExclusive, Holds
  <2>4. ClaimsFit
    BY <2>1, FreshIsACall DEF ClaimsFit, ClaimFits, RequestFits, At, Running, Init
  <2>5. FoldersAreBounded
    <3>1. Written(intents) = {} /\ Written(registered) = {}
      BY DEF Init, Written
    <3> QED BY <3>1, FS_EmptySet, ProductionAssumption DEF FoldersAreBounded, Bounded
  <2>6. StagesFit
    <3>1. \A c \in Workers : StageFits(c)
      BY <2>1, FreshIsACall DEF StageFits, At, Registers, Makes, Running
    <3>2. ArtifactsFit
      BY DEF Init, ArtifactsFit, Partly
    <3> QED BY <3>1, <3>2 DEF StagesFit, Init
  <2> QED BY <2>2, <2>3, <2>4, <2>5, <2>6 DEF Inv
<1>2. Inv /\ [Next]_vars => Inv'
  <2> SUFFICES ASSUME Inv, [Next]_vars PROVE Inv'
    OBVIOUS
  <2>1. Grows
    BY StepsGrow
  <2>2. CASE Next
    <3>1. Tables' /\ ClaimsFit'
      BY <2>2, ClaimsAreKept
    <3>2. LockIsExclusive' /\ FoldersAreBounded'
      BY <2>2, LocksAreKept, FoldersStayBounded
    <3>3. StagesFit'
      <4>1. CASE Recover \/ Lapse
        BY <2>1, <3>1, <4>1, OtherStepFits DEF Recover, Lapse
      <4>2. CASE \E c \in Workers : WorkerStep(c)
        BY <2>1, <3>1, <4>2, WorkerStepFits
      <4> QED BY <2>2, <4>1, <4>2 DEF Next, WorkerStep, StageStep
    <3> QED BY <3>1, <3>2, <3>3 DEF Inv
  <2>3. CASE UNCHANGED vars
    <3>1. UNCHANGED <<permitted, lock, intents, registered, artifacts, runs, calls, executed, faults>>
      BY <2>3 DEF vars, disk, history
    <3>2. Tables' /\ LockIsExclusive' /\ ClaimsFit' /\ FoldersAreBounded'
      BY <3>1 DEF Inv, Tables, LockIsExclusive, Holds, ClaimsFit, ClaimFits, RequestFits, At, R,
                  FoldersAreBounded, Bounded, Written
    <3>3. StagesFit'
      BY <2>1, <3>1, <3>2, OtherStepFits
    <3> QED BY <3>2, <3>3 DEF Inv
  <2> QED BY <2>2, <2>3
<1> QED BY <1>1, <1>2, PTL DEF Spec

-----------------------------------------------------------------------------
(* The theorems.                                                           *)

\* The folders hold records of their kinds and never more of them than names()
\* will enumerate, and catalog.lock is there while somebody holds it, for every
\* number of workers that raced past the first look (src/production/store.ts).
THEOREM ProductionTypes == Spec => []TypeOK
<1>1. Inv => TypeOK
  BY DEF Inv, Tables, LockIsExclusive, FoldersAreBounded, Bounded, TypeOK, Receipt
<1> QED BY <1>1, InvHolds, PTL

\* A request is carried out at most once, by one worker, whoever retries it and
\* whoever is killed: the intent is taken under the lock and never given back.
THEOREM RequestsAreRunOnce == Spec => []RequestsRunOnce
<1>1. Inv => RequestsRunOnce
  BY DEF Inv, Tables, ClaimsFit, ClaimFits, RequestFits, RequestsRunOnce
<1> QED BY <1>1, InvHolds, PTL
-----------------------------------------------------------------------------
(* What RunFits says of a receipt is what run() asks of it.                *)

LEMMA OwnIsInspectable ==
  ASSUME Tables, NEW r \in Requests, artifacts[r] # None
  PROVE  Inspectable(Own(r))
BY DEF Tables, Inspectable, Own, Artifacts

LEMMA ListedOutputs ==
  ASSUME Tables, NEW r \in Requests, NEW k \in 0..Size(r), Known(r, k)
  PROVE  /\ \A i \in DOMAIN Listing(r, k) : Inspectable(Listing(r, k)[i])
         /\ IsInjective(Listing(r, k))
<1>1. /\ DOMAIN Listing(r, k) = 1..k
      /\ \A i \in 1..k : i \in 1..Size(r) /\ Listing(r, k)[i] = Own(Command[r].inputs[i])
  BY InputsAreOthers DEF Listing
<1>2. ASSUME NEW i \in 1..k PROVE Inspectable(Listing(r, k)[i])
  <2>1. Command[r].inputs[i] \in Requests /\ artifacts[Command[r].inputs[i]] # None
    BY <1>1, InputsAreOthers DEF Known, Retained
  <2> QED BY <1>1, <2>1, OwnIsInspectable
<1>3. ASSUME NEW i \in 1..k, NEW j \in 1..k, Listing(r, k)[i] = Listing(r, k)[j] PROVE i = j
  <2>1. Command[r].inputs[i] = Command[r].inputs[j]
    BY <1>1, <1>3 DEF Own
  <2> QED BY <1>1, <2>1, InputsAreOthers DEF IsInjective
<1> QED BY <1>1, <1>2, <1>3 DEF IsInjective

LEMMA AllOutputs ==
  ASSUME Tables, NEW r \in Requests, NEW k \in 0..Size(r), Known(r, k), artifacts[r] # None
  PROVE  LET all == Append(Listing(r, k), Own(r)) IN
         /\ \A i \in DOMAIN all : Inspectable(all[i])
         /\ IsInjective(all)
<1> DEFINE Out == (Artifacts \cup {"REGISTRATION", None}) \X (Requests \cup Names)
           s == Listing(r, k)
           t == Append(s, Own(r))
<1>1. s \in Seq(Out) /\ Len(s) = k /\ k \in Nat /\ DOMAIN s = 1..k
  BY Listings, InputsAreOthers DEF Outputs, Listing
<1>2. Own(r) \in Out /\ Own(r)[2] = r
  BY OwnIsAnOutput
<1>3. \A i \in 1..k : s[i][2] # r
  BY OwnIsNoDependency
<1>4. (\A i \in DOMAIN s : Inspectable(s[i])) /\ IsInjective(s)
  BY ListedOutputs
<1> HIDE DEF Out, s
<1>5. /\ t \in Seq(Out) /\ Len(t) = k + 1
      /\ \A i \in 1..k : t[i] = s[i]
      /\ t[k + 1] = Own(r)
  BY <1>1, <1>2, AppendProperties
<1>6. DOMAIN t = 1..k + 1
  BY <1>5, LenProperties
<1> HIDE DEF t
<1>7. \A i \in 1..k + 1 : i \in 1..k \/ i = k + 1
  BY <1>1
<1>8. ASSUME NEW i \in 1..k + 1 PROVE Inspectable(t[i])
  BY <1>1, <1>4, <1>5, <1>7, OwnIsInspectable
<1>9. ASSUME NEW i \in 1..k + 1, NEW j \in 1..k + 1, t[i] = t[j] PROVE i = j
  <2>1. CASE i \in 1..k /\ j \in 1..k
    BY <1>1, <1>4, <1>5, <1>9, <2>1 DEF IsInjective
  <2>2. CASE i = k + 1 /\ j \in 1..k
    BY <1>2, <1>3, <1>5, <1>9, <2>2
  <2>3. CASE j = k + 1 /\ i \in 1..k
    BY <1>2, <1>3, <1>5, <1>9, <2>3
  <2> QED BY <1>7, <2>1, <2>2, <2>3
<1>10. (\A i \in DOMAIN t : Inspectable(t[i])) /\ IsInjective(t)
  BY <1>6, <1>8, <1>9 DEF IsInjective
<1> QED BY <1>10 DEF t, s

LEMMA ListingIsPrefix ==
  ASSUME Tables, NEW r \in Requests, NEW k \in 0..Size(r)
  PROVE  /\ IsPrefix(Listing(r, k), Inputs(r)) /\ Inputs(r) = Listing(r, Size(r))
<1> DEFINE Out == (Artifacts \cup {"REGISTRATION", None}) \X (Requests \cup Names)
           s == Listing(r, k)
           t == Listing(r, Size(r))
           n == Size(r)
<1>0. k \in Nat /\ n \in Nat /\ k <= n /\ k \in Int /\ n \in 0..n /\ 1 \in Int
      /\ \A i \in 1..k : i \in 1..n
  BY InputsAreOthers
<1>1. Inputs(r) = t
  BY InputsAreOthers DEF Inputs, Listing
<1>2. s \in Seq(Out) /\ Len(s) = k /\ \A i \in 1..k : s[i] = Own(Command[r].inputs[i])
  BY Listings DEF Outputs
<1>3. t \in Seq(Out) /\ Len(t) = n /\ \A i \in 1..n : t[i] = Own(Command[r].inputs[i])
  BY <1>0, Listings DEF Outputs
<1>4. \A i \in 1..k : s[i] \in Out /\ t[i] \in Out /\ t[i] = s[i]
  <2>1. \A i \in 1..k : s[i] = t[i]
    BY <1>0, <1>2, <1>3
  <2>2. \A i \in 1..k : s[i] \in Out
    <3> HIDE DEF s, Out
    <3> QED BY <1>2, ElementOfSeq
  <2> QED BY <2>1, <2>2
<1> HIDE DEF Out, s, t, n
<1> DEFINE a == SubSeq(s, 1, k)
           b == SubSeq(t, 1, k)
<1>5. /\ a \in Seq(Out) /\ Len(a) = IF 1 <= k THEN k - 1 + 1 ELSE 0
      /\ \A i \in 1 .. k - 1 + 1 : a[i] = s[1 + i - 1]
  BY <1>0, <1>4, SubSeqProperties
<1>6. /\ b \in Seq(Out) /\ Len(b) = IF 1 <= k THEN k - 1 + 1 ELSE 0
      /\ \A i \in 1 .. k - 1 + 1 : b[i] = t[1 + i - 1]
  BY <1>0, <1>4, SubSeqProperties
<1> HIDE DEF a, b
<1>7. Len(a) = k /\ Len(b) = k
  BY <1>0, <1>5, <1>6
<1>8. ASSUME NEW i \in 1..k PROVE a[i] = b[i]
  <2>1. i \in 1 .. k - 1 + 1 /\ 1 + i - 1 = i
    BY <1>0
  <2>2. a[i] = s[i] /\ b[i] = t[i]
    BY <1>5, <1>6, <2>1
  <2> QED BY <1>4, <2>2
<1>9. a = b
  BY <1>5, <1>6, <1>7, <1>8, SeqEqual
<1> QED BY <1>0, <1>1, <1>2, <1>3, <1>9 DEF IsPrefix, a, b, s, t, n

LEMMA SuccessIsValid ==
  ASSUME Tables, NEW r \in Requests, Kind(r) # "REGISTER", NEW run, Success(r, run)
  PROVE  ValidSuccess(r, run) /\ run.state # "FAILED"
<1>1. /\ Kind(r) \in Kinds /\ artifacts[r] \in Products(r) /\ Inputs(r) = Listing(r, Size(r))
      /\ run.outputs = Append(Listing(r, Size(r)), Own(r))
      /\ run.state = IF artifacts[r] = "QUARANTINED" THEN "QUARANTINED" ELSE "COMPLETED"
  BY ProductionAssumption, ListingIsPrefix, InputsAreOthers DEF Success
<1>2. CASE Kind(r) = "ACQUIRE"
  <2>1. Listing(r, Size(r)) = <<>>
    BY <1>2, InputsAreOthers, NothingListed DEF Derives
  <2>2. artifacts[r] = "ACQUISITION" /\ Own(r) = <<"ACQUISITION", r>>
    BY <1>1, <1>2 DEF Products, Own
  <2> QED BY <1>1, <1>2, <2>1, <2>2 DEF ValidSuccess
<1>3. CASE Kind(r) = "NORMALIZE"
  BY <1>1, <1>3 DEF ValidSuccess
<1>4. CASE Kind(r) = "BUILD_CANDIDATES"
  <2>1. artifacts[r] = "CANDIDATE_BUILD" /\ Own(r) = <<"CANDIDATE_BUILD", r>>
    BY <1>1, <1>4 DEF Products, Own
  <2> QED BY <1>1, <1>4, <2>1 DEF ValidSuccess
<1> QED BY <1>1, <1>2, <1>3, <1>4 DEF Kinds

\* Whether a failed receipt lists a build of its own, and its other outputs.
LEMMA BuiltOutputs ==
  ASSUME Tables, NEW r \in Requests, NEW k \in 0..Size(r)
  PROVE  /\ ~Contains(Listing(r, k), <<"CANDIDATE_BUILD", r>>)
         /\ Contains(Append(Listing(r, k), Own(r)), <<"CANDIDATE_BUILD", r>>)
              <=> artifacts[r] = "CANDIDATE_BUILD"
         /\ Front(Append(Listing(r, k), Own(r))) = Listing(r, k)
<1>1. artifacts[r] = "CANDIDATE_BUILD" => Own(r) = <<"CANDIDATE_BUILD", r>>
  BY DEF Own
<1> QED BY <1>1, ListingContains

LEMMA RefusedIsValid ==
  ASSUME Tables, ArtifactsFit, NEW r \in Requests, Kind(r) # "REGISTER", NEW run, Refused(r, run)
  PROVE  ValidFailure(r, run)
<1>1. PICK k \in 0..Size(r) :
        /\ Known(r, k) /\ run.outputs = Listing(r, k) /\ run.stage = StageAt(r, k)
        /\ \/ run.code \in Refusals
           \/ run.code = "INGEST_DISALLOWED" /\ Kind(r) = "ACQUIRE" /\ ~intents[r].permitted
           \/ run.code = "DERIVATION_DISALLOWED" /\ k > 0 /\ ~intents[r].permitted
           \/ run.code = "MEMBER_NOT_ELIGIBLE" /\ k > 0 /\ artifacts[Command[r].inputs[k]] = "QUARANTINED"
  BY DEF Refused
<1>2. /\ Kind(r) \in Kinds /\ Size(r) \in Nat /\ k \in Nat /\ k <= Size(r) /\ Size(r) \in 0..Size(r)
      /\ ~Contains(run.outputs, <<"CANDIDATE_BUILD", r>>)
      /\ IsPrefix(Listing(r, k), Inputs(r)) /\ Inputs(r) = Listing(r, Size(r))
  BY <1>1, ProductionAssumption, InputsAreOthers, BuiltOutputs, ListingIsPrefix
<1>3. k > 0 => /\ k \in 1..Size(r) /\ k \in 1..k /\ Len(run.outputs) = k /\ run.outputs # <<>>
               /\ run.outputs[k] = Own(Command[r].inputs[k])
  <2>1. Len(Listing(r, k)) = k /\ \A i \in 1..k : Listing(r, k)[i] = Own(Command[r].inputs[i])
    BY Listings
  <2> QED BY <1>1, <1>2, <2>1
<1>4. CASE Kind(r) = "ACQUIRE"
  <2>1. Size(r) = 0
    BY <1>4, InputsAreOthers DEF Derives
  <2>2. k = 0 /\ run.outputs = <<>> /\ run.stage = "CAPTURE"
    BY <1>1, <1>2, <1>4, <2>1, NothingListed DEF StageAt, FirstStage
  <2> QED BY <1>1, <1>2, <1>4, <2>2 DEF ValidFailure, Refusals
<1>5. CASE Kind(r) = "NORMALIZE"
  <2>1. Size(r) = 1
    BY <1>5, InputsAreOthers
  <2>2. run.code # "MEMBER_NOT_ELIGIBLE"
    <3>1. ASSUME k > 0, artifacts[Command[r].inputs[k]] = "QUARANTINED" PROVE FALSE
      <4>1. Command[r].inputs[k] \in Requests /\ Kind(Command[r].inputs[k]) = "ACQUIRE"
        BY <1>3, <1>5, <3>1, InputsAreOthers
      <4> QED BY <3>1, <4>1, NoneIsNothing DEF ArtifactsFit, Products, Partly, Artifacts
    <3> QED BY <1>1, <3>1 DEF Refusals
  <2>3. \/ k = 0 /\ run.outputs = <<>> /\ run.stage = "EVIDENCE_INSPECTION"
        \/ k = Size(r) /\ k > 0 /\ run.outputs = Inputs(r) /\ run.stage = "NORMALIZATION"
    BY <1>1, <1>2, <1>5, <2>1, NothingListed DEF StageAt, FirstStage
  <2> QED BY <1>1, <1>2, <1>5, <2>2, <2>3 DEF ValidFailure, Refusals
<1>6. CASE Kind(r) = "BUILD_CANDIDATES"
  <2>1. run.stage = "CANDIDATE_ASSEMBLY"
    BY <1>1, <1>6 DEF StageAt, FirstStage
  <2>2. run.code = "MEMBER_NOT_ELIGIBLE" => run.outputs # <<>> /\ run.outputs[Len(run.outputs)][1] = "QUARANTINED"
    BY <1>1, <1>3 DEF Refusals, Own
  <2> QED BY <1>1, <1>2, <1>6, <2>1, <2>2 DEF ValidFailure, Refusals
<1> QED BY <1>2, <1>4, <1>5, <1>6 DEF Kinds

LEMMA FaultedIsValid ==
  ASSUME Tables, NEW r \in Requests, Kind(r) # "REGISTER", NEW run, Faulted(r, run)
  PROVE  ValidFailure(r, run)
<1> DEFINE others == Listing(r, Size(r))
           all == Append(others, Own(r))
           built == Contains(run.outputs, <<"CANDIDATE_BUILD", r>>)
<1>1. /\ Kind(r) \in Kinds /\ Size(r) \in Nat /\ Size(r) \in 0..Size(r)
      /\ IsPrefix(others, Inputs(r)) /\ Inputs(r) = others
  BY ProductionAssumption, InputsAreOthers, ListingIsPrefix
<1>2. /\ ~Contains(others, <<"CANDIDATE_BUILD", r>>)
      /\ Contains(all, <<"CANDIDATE_BUILD", r>>) <=> artifacts[r] = "CANDIDATE_BUILD"
      /\ Front(all) = others
  BY <1>1, BuiltOutputs
<1>3. run.code \in {"STAGE_FAILED", "DEPENDENCY_INTEGRITY_FAILED", "EVIDENCE_INTEGRITY_FAILED"}
  BY DEF Faulted
<1>4. CASE Kind(r) = "ACQUIRE"
  <2>1. Size(r) = 0 /\ others = <<>>
    BY <1>4, InputsAreOthers, NothingListed DEF Derives
  <2>2. run.stage = "CAPTURE"
    BY <1>4 DEF Faulted, StageAt, FirstStage
  <2>3. \/ run.outputs = <<>>
        \/ /\ run.outputs = <<Own(r)>> /\ run.code = "STAGE_FAILED"
           /\ artifacts[r] \in {"ACQUISITION", "CONTENT"}
    BY <1>4, <2>1 DEF Faulted, Products, Partly
  <2>4. artifacts[r] \in {"ACQUISITION", "CONTENT"} =>
          <<Own(r)>> \in {<<<<"CONTENT", r>>>>, <<<<"ACQUISITION", r>>>>}
    BY DEF Own
  <2> HIDE DEF others, all
  <2> QED BY <1>3, <1>4, <2>2, <2>3, <2>4 DEF ValidFailure
<1>5. CASE Kind(r) = "NORMALIZE"
  <2>1. Size(r) = 1 /\ run.stage = "NORMALIZATION"
    BY <1>5, InputsAreOthers DEF Faulted, StageAt
  <2>2. \/ run.outputs = others
        \/ run.outputs = all /\ ~run.unconfirmed
             /\ run.code \in {"STAGE_FAILED", "DEPENDENCY_INTEGRITY_FAILED"}
    BY <1>5 DEF Faulted
  <2> HIDE DEF others
  <2> QED BY <1>1, <1>3, <1>5, <2>1, <2>2 DEF ValidFailure
<1>6. CASE Kind(r) = "BUILD_CANDIDATES"
  <2>1. StageAt(r, Size(r)) = "CANDIDATE_ASSEMBLY"
    BY <1>6 DEF StageAt, FirstStage
  <2>2. \/ run.stage = "CANDIDATE_ASSEMBLY" /\ run.outputs = others
        \/ /\ run.stage = "CANDIDATE_ASSEMBLY" /\ run.outputs = all /\ ~run.unconfirmed
           /\ artifacts[r] = "CANDIDATE_BUILD" /\ run.code = "STAGE_FAILED"
        \/ /\ run.stage = "BUILD_INSPECTION" /\ artifacts[r] = "CANDIDATE_BUILD"
           /\ \/ run.outputs = others /\ run.unconfirmed
              \/ run.outputs = all /\ ~run.unconfirmed
    BY <1>6, <2>1 DEF Faulted, Products, Partly
  <2> HIDE DEF others, all
  <2>3. CASE run.stage = "CANDIDATE_ASSEMBLY" /\ run.outputs = others
    BY <1>1, <1>2, <1>3, <1>6, <2>3 DEF ValidFailure
  <2>4. CASE /\ run.stage = "CANDIDATE_ASSEMBLY" /\ run.outputs = all /\ ~run.unconfirmed
             /\ artifacts[r] = "CANDIDATE_BUILD" /\ run.code = "STAGE_FAILED"
    BY <1>1, <1>2, <1>6, <2>4 DEF ValidFailure
  <2>5. CASE run.stage = "BUILD_INSPECTION" /\ run.outputs = others /\ run.unconfirmed
    BY <1>1, <1>2, <1>3, <1>6, <2>5 DEF ValidFailure
  <2>6. CASE run.stage = "BUILD_INSPECTION" /\ artifacts[r] = "CANDIDATE_BUILD"
             /\ run.outputs = all /\ ~run.unconfirmed
    BY <1>1, <1>2, <1>3, <1>6, <2>6 DEF ValidFailure
  <2> QED BY <2>2, <2>3, <2>4, <2>5, <2>6
<1> QED BY <1>1, <1>4, <1>5, <1>6 DEF Kinds

LEMMA FittingRunIsValid ==
  ASSUME Tables, ArtifactsFit, NEW r \in Requests, intents[r] # None, NEW run, RunFits(r, run)
  PROVE  Valid(r, run)
<1>0. Size(r) \in Nat /\ Size(r) \in 0..Size(r) /\ Kind(r) \in Kinds
  BY ProductionAssumption, InputsAreOthers
<1>1. CASE Kind(r) = "REGISTER"
  <2> DEFINE made == Command[r].registers
  <2>1. Registration(r, run) /\ made[2] # None
    BY <1>1, Registrations DEF RunFits
  <2>2. CASE run.code = None /\ run.state = "COMPLETED" /\ There(made)
             /\ run.outputs = <<<<"REGISTRATION", made[1]>>>>
    <3>1. ValidSuccess(r, run)
      BY <1>1, <2>2 DEF ValidSuccess
    <3>2. Inspectable(<<"REGISTRATION", made[1]>>)
      BY <2>1, <2>2 DEF Inspectable, There
    <3>3. /\ DOMAIN run.outputs = 1..1 /\ \A i \in 1..1 : run.outputs[i] = <<"REGISTRATION", made[1]>>
      BY <2>2
    <3>4. (\A i \in DOMAIN run.outputs : Inspectable(run.outputs[i])) /\ IsInjective(run.outputs)
      BY <3>2, <3>3 DEF IsInjective
    <3> QED BY <2>2, <3>1, <3>4 DEF Valid
  <2>3. CASE /\ run.code \in {"PRODUCTION_BUSY", "STAGE_FAILED", "REGISTRATION_CONFLICT", "CATALOG_CAPACITY"}
             /\ run.state = "FAILED" /\ run.stage = "REGISTRATION" /\ run.outputs = <<>>
    <3>1. ~Contains(run.outputs, <<"CANDIDATE_BUILD", r>>)
      BY <2>3 DEF Contains
    <3>2. ValidFailure(r, run)
      BY <1>1, <2>3, <3>1 DEF ValidFailure
    <3>3. DOMAIN run.outputs = {}
      BY <2>3
    <3> QED BY <2>3, <3>2, <3>3 DEF Valid, IsInjective
  <2> QED BY <2>1, <2>2, <2>3 DEF Registration
<1>2. CASE Kind(r) # "REGISTER" /\ Success(r, run)
  <2>1. ValidSuccess(r, run) /\ run.state # "FAILED"
    BY <1>2, SuccessIsValid
  <2>2. artifacts[r] # None
    BY <1>0, <1>2, NoneIsNothing DEF Success, Products, Artifacts, Kinds
  <2>3. (\A i \in DOMAIN run.outputs : Inspectable(run.outputs[i])) /\ IsInjective(run.outputs)
    BY <1>0, <1>2, <2>2, AllOutputs DEF Success
  <2> QED BY <2>1, <2>3 DEF Valid
<1>3. CASE Kind(r) # "REGISTER" /\ run.state = "FAILED" /\ Refused(r, run)
  <2>1. (\A i \in DOMAIN run.outputs : Inspectable(run.outputs[i])) /\ IsInjective(run.outputs)
    BY <1>3, ListedOutputs DEF Refused
  <2> QED BY <1>3, <2>1, RefusedIsValid DEF Valid
<1>4. CASE Kind(r) # "REGISTER" /\ run.state = "FAILED" /\ Faulted(r, run)
  <2>1. \/ run.outputs = Listing(r, Size(r))
        \/ run.outputs = Append(Listing(r, Size(r)), Own(r)) /\ artifacts[r] # None
    BY <1>0, <1>4, NoneIsNothing DEF Faulted, Products, Artifacts, Kinds
  <2>2. Known(r, Size(r))
    BY <1>4 DEF Faulted
  <2>3. (\A i \in DOMAIN run.outputs : Inspectable(run.outputs[i])) /\ IsInjective(run.outputs)
    BY <1>0, <2>1, <2>2, ListedOutputs, AllOutputs
  <2> QED BY <1>4, <2>3, FaultedIsValid DEF Valid
<1> QED BY <1>1, <1>2, <1>3, <1>4 DEF RunFits

\* Whatever fails and wherever, the receipt execute() saves is one that run()
\* accepts, then and ever after: its outputs are on disk, belong to the request,
\* and could have preceded the failure it names (src/production/store.ts).
THEOREM RunsAreValid == Spec => []RunsValidate
<1>1. Inv => RunsValidate
  <2> SUFFICES ASSUME Inv, NEW r \in Requests, runs[r] # None PROVE Valid(r, runs[r])
    BY DEF RunsValidate, Written, Inv, Tables
  <2>1. RunFits(r, runs[r]) /\ ArtifactsFit /\ Tables
    BY DEF Inv, StagesFit
  <2>2. intents[r] # None
    BY DEF Inv, ClaimsFit, RequestFits
  <2> QED BY <2>1, <2>2, FittingRunIsValid
<1> QED BY <1>1, InvHolds, PTL

-----------------------------------------------------------------------------
(* Create-only files.                                                      *)

\* The model writes artifacts and receipts without looking whether one is there.
FilesAreFinal ==
  \A r \in Requests :
    /\ intents[r] # None => intents'[r] = intents[r]
    /\ Retained(r) => artifacts'[r] = artifacts[r]
    /\ runs[r] # None => runs'[r] = runs[r]

LEMMA NextKeepsFiles == Inv /\ Next => FilesAreFinal
<1> SUFFICES ASSUME Inv, Next, NEW r \in Requests
             PROVE  /\ intents[r] # None => intents'[r] = intents[r]
                    /\ Retained(r) => artifacts'[r] = artifacts[r]
                    /\ runs[r] # None => runs'[r] = runs[r]
  BY DEF FilesAreFinal
<1>1. Retained(r) => artifacts'[r] = artifacts[r]
  BY StepsGrow DEF Grows
<1>2. intents[r] # None => intents'[r] = intents[r]
  <2>1. UNCHANGED intents \/ \E c \in Workers : Claim(c)
    BY WhoWrites, WritersWriteOneTable
  <2> QED BY <2>1, IntentsStay
<1>3. runs[r] # None => runs'[r] = runs[r]
  <2>1. UNCHANGED runs \/ \E c \in Workers : Save(c)
    BY WhoWrites, WritersWriteOneTable
  <2>2. ASSUME NEW c \in Workers, Save(c), runs[r] # None PROVE runs'[r] = runs[r]
    <3>1. runs[R(c)] = None
      BY <2>2 DEF Inv, ClaimsFit, ClaimFits, Save, At, Running
    <3> QED BY <2>2, <3>1 DEF Save, Inv, Tables
  <2> QED BY <2>1, <2>2
<1> QED BY <1>1, <1>2, <1>3

\* An intent, an artifact and a receipt stay what they were when they were
\* written: no publication of execute() meets a file of the same name, so that
\* whoever reads one later reads what its writer knew (src/production/store.ts).
THEOREM FilesStay == Spec => [][FilesAreFinal]_vars
<1>1. Inv /\ [Next]_vars => [FilesAreFinal]_vars
  BY NextKeepsFiles
<1> QED BY <1>1, InvHolds, PTL DEF Spec

-----------------------------------------------------------------------------
(* Only eligible members and allowed operations get past the dependencies. *)

Eligible(c) ==
  calls[c].pc \in Makes =>
    /\ \A i \in 1..Len(calls[c].outputs) : artifacts[Command[R(c)].inputs[i]] # "QUARANTINED"
    /\ Len(calls[c].outputs) > 0 \/ ~At(c, "depend") => calls[c].permitted

AllEligible == \A c \in Workers : Eligible(c)

\* What a call has listed stays what it is.
LEMMA EligibleStays ==
  ASSUME Inv, Grows, NEW c \in Workers, Eligible(c),
         calls'[c].pc \in Makes =>
           /\ calls[c].pc \in Makes /\ calls'[c].request = R(c)
           /\ calls'[c].outputs = calls[c].outputs /\ calls'[c].permitted = calls[c].permitted
           /\ (calls'[c].pc = "depend") = (calls[c].pc = "depend")
  PROVE  Eligible(c)'
<1> SUFFICES ASSUME calls'[c].pc \in Makes PROVE Eligible(c)'
  BY DEF Eligible
<1>1. R(c) \in Requests /\ Known(R(c), Len(calls[c].outputs)) /\ Len(calls[c].outputs) \in 0..Size(R(c))
  BY Depending
<1>2. \A i \in 1..Len(calls[c].outputs) : Command[R(c)].inputs[i] \in Requests
  BY <1>1, InputsAreOthers
<1>3. \A i \in 1..Len(calls[c].outputs) :
        artifacts'[Command[R(c)].inputs[i]] = artifacts[Command[R(c)].inputs[i]]
  BY <1>1, <1>2 DEF Known, Grows
<1>4. R(c)' = R(c)
  BY DEF R
<1> QED BY <1>3, <1>4 DEF Eligible, At

LEMMA DependKeepsEligible ==
  ASSUME Inv, Grows, AllEligible, NEW c \in Workers, Depend(c)
  PROVE  Eligible(c)'
<1> DEFINE r == R(c)
           k == Len(calls[c].outputs)
<1>1. At(c, "depend") /\ calls[c].pc \in Makes /\ Eligible(c) /\ UNCHANGED artifacts
  BY DEF Depend, At, Makes, AllEligible, disk
<1>2. /\ r \in Requests /\ calls[c] \in Call /\ Tables /\ Kind(r) \in Kinds /\ Kind(r) # "REGISTER"
      /\ k \in 0..Size(r) /\ Size(r) \in Nat /\ k \in Nat
  BY <1>1, Depending
<1>3. ASSUME calls'[c].pc = "save" PROVE Eligible(c)'
  BY <1>3 DEF Eligible, Makes
<1>4. ASSUME NEW call, NEW code, Refuse(c, call, code) PROVE calls'[c].pc = "save" \/ call \notin Call
  BY <1>2, <1>4 DEF Refuse, Fail, Tables, Call
<1>5. CASE Usable(r) /\ k + 1 <= Size(r) /\ calls' = [calls EXCEPT ![c] = Inspected(c)]
             /\ artifacts[Command[r].inputs[k + 1]] # "QUARANTINED" /\ calls[c].permitted
  <2>1. /\ Inspected(c) \in Call /\ Sets(c, Inspected(c))
        /\ Inspected(c).outputs = Append(calls[c].outputs, Own(Command[r].inputs[k + 1]))
    BY <1>1, <1>5, InspectedIsACall
  <2>2. calls'[c] = Inspected(c)
    BY <1>2, <1>5 DEF Tables
  <2>3. Len(Inspected(c).outputs) = k + 1
    <3>1. Command[r].inputs[k + 1] \in Requests
      BY <1>2, <1>5, InputsAreOthers
    <3>2. calls[c].outputs \in Outputs
      BY <1>2 DEF Call
    <3>3. Own(Command[r].inputs[k + 1]) \in (Artifacts \cup {"REGISTRATION", None}) \X (Requests \cup Names)
      BY <1>2, <3>1, OwnIsAnOutput
    <3> QED BY <2>1, <3>2, <3>3, AppendProperties DEF Outputs
  <2>4. R(c)' = r /\ calls'[c].permitted
    BY <1>5, <2>1, <2>2 DEF Sets, R
  <2>5. \A i \in 1..k + 1 : i \in 1..k \/ i = k + 1
    BY <1>2
  <2>6. \A i \in 1..k + 1 : artifacts'[Command[r].inputs[i]] # "QUARANTINED"
    BY <1>1, <1>5, <2>5 DEF Eligible
  <2> HIDE DEF r, k
  <2> QED BY <2>2, <2>3, <2>4, <2>6 DEF Eligible
<1>6. CASE Usable(r) /\ ~(k + 1 <= Size(r)) /\ Goto(c, "publish") /\ (Kind(r) = "ACQUIRE" => calls[c].permitted)
  <2>1. calls'[c] = [calls[c] EXCEPT !.pc = "publish"]
    BY <1>2, <1>6, CallGoes DEF Running, Moves
  <2>2. /\ calls'[c].outputs = calls[c].outputs /\ calls'[c].permitted = calls[c].permitted
        /\ R(c)' = r /\ calls'[c].pc = "publish"
    BY <1>2, <2>1 DEF Call, R
  <2>3. calls[c].permitted
    <3>1. CASE Kind(r) = "ACQUIRE"
      BY <1>6, <3>1
    <3>2. CASE Kind(r) # "ACQUIRE"
      <4>1. Derives(r)
        BY <1>2, <3>2 DEF Derives, Kinds
      <4>2. k > 0
        BY <1>2, <1>6, <4>1, InputsAreOthers
      <4> QED BY <1>1, <4>2 DEF Eligible
    <3> QED BY <3>1, <3>2
  <2> QED BY <1>1, <2>2, <2>3 DEF Eligible, Makes
<1>7. CASE ~Usable(r)
  <2>1. Refuse(c, calls[c], "REFERENCE_NOT_FOUND")
    BY <1>7 DEF Depend
  <2> QED BY <1>2, <1>3, <1>4, <2>1
<1>8. CASE Usable(r) /\ k + 1 <= Size(r)
  <2> DEFINE q == Command[r].inputs[k + 1]
  <2>1. \/ Refuse(c, calls[c], "REFERENCE_MISMATCH")
        \/ Refuse(c, Inspected(c), "MEMBER_NOT_ELIGIBLE") \/ Refuse(c, Inspected(c), "DERIVATION_DISALLOWED")
        \/ artifacts[q] # "QUARANTINED" /\ calls[c].permitted /\ calls' = [calls EXCEPT ![c] = Inspected(c)]
    BY <1>8 DEF Depend, Inspected, Size
  <2>2. Inspected(c) \in Call
    BY <1>1, <1>8, InspectedIsACall
  <2> QED BY <1>2, <1>3, <1>4, <1>5, <1>8, <2>1, <2>2
<1>9. CASE Usable(r) /\ ~(k + 1 <= Size(r))
  <2>1. \/ Refuse(c, calls[c], "INGEST_DISALLOWED")
        \/ Goto(c, "publish") /\ (Kind(r) = "ACQUIRE" => calls[c].permitted)
    BY <1>9 DEF Depend, Size
  <2> QED BY <1>2, <1>3, <1>4, <1>6, <1>9, <2>1
<1> QED BY <1>7, <1>8, <1>9

LEMMA EligibleIsKept ==
  ASSUME Inv, Grows, AllEligible, [Next]_vars
  PROVE  AllEligible'
<1>1. CASE UNCHANGED calls
  <2>1. \A c \in Workers : calls'[c].request = R(c)
    BY <1>1 DEF R
  <2> QED BY <1>1, <2>1, EligibleStays DEF AllEligible
<1>2. ASSUME NEW c \in Workers, WorkerStep(c) PROVE AllEligible'
  <2>1. \A d \in Workers : d # c => calls'[d] = calls[d]
    <3>1. CASE StageStep(c)
      BY <3>1, StageAdvances DEF Advances
    <3>2. CASE Save(c)
      BY <3>2 DEF Save, Answer, Inv, Tables
    <3>3. CASE ~StageStep(c) /\ ~Save(c)
      BY <1>2, <3>3 DEF WorkerStep, Look, Reserve, Claim, Release, Kill, Answer, Goto, Inv, Tables
    <3> QED BY <3>1, <3>2, <3>3
  <2>2. ASSUME NEW d \in Workers, d # c PROVE Eligible(d)'
    <3>1. calls'[d] = calls[d]
      BY <2>1, <2>2
    <3> QED BY <3>1, EligibleStays DEF AllEligible, R
  <2>3. Eligible(c)'
    <3>1. ASSUME calls'[c].pc \notin Makes PROVE Eligible(c)'
      BY <3>1 DEF Eligible
    <3>2. calls[c] \in Call /\ Tables
      BY DEF Inv, Tables
    <3>3. ASSUME Answer(c) PROVE Eligible(c)'
      <4>1. calls'[c].pc = "idle"
        BY <3>2, <3>3, AnswerMoves, FreshIsACall DEF Moves
      <4> QED BY <3>1, <4>1 DEF Makes
    <3>4. ASSUME NEW pc \in {"claim", "registerReserved"}, Goto(c, pc) PROVE Eligible(c)'
      <4>1. calls'[c] = [calls[c] EXCEPT !.pc = pc]
        BY <3>2, <3>4, CallGoes DEF Moves, Before, Running
      <4>2. calls'[c].pc = pc
        BY <3>2, <4>1 DEF Call
      <4> QED BY <3>1, <4>2 DEF Makes
    <3>5. ASSUME NEW call \in Call, NEW code, NEW unconfirmed, Fail(c, call, code, unconfirmed) PROVE Eligible(c)'
      <4>1. calls'[c].pc = "save"
        BY <3>2, <3>5 DEF Fail, Tables, Call
      <4> QED BY <3>1, <4>1 DEF Makes
    <3>6. CASE \E r \in Requests : Look(c, r)
      <4>1. calls'[c].pc = "reserve"
        BY <3>6, LookMoves, <3>2 DEF Moves
      <4> QED BY <3>1, <4>1 DEF Makes
    <3>7. CASE Reserve(c)
      BY <3>3, <3>4, <3>7 DEF Reserve
    <3>8. CASE Claim(c)
      <4>1. calls'[c].pc = "release"
        BY <3>2, <3>8 DEF Claim, Tables, Call
      <4> QED BY <3>1, <4>1 DEF Makes
    <3>9. CASE Release(c)
      <4>1. Begins(c) \/ Moves(c, Fresh)
        BY <3>9, ReleaseMoves
      <4>2. CASE Begins(c)
        <5>1. calls'[c] = Beginning(c) /\ At(c, "release")
          BY <3>9, <4>2 DEF Begins, Moves, Release
        <5>2. calls'[c].pc \in {"register", "depend"} /\ calls'[c].outputs = calls[c].outputs
          BY <5>1, BeginningIsACall
        <5>3. calls[c].outputs = <<>>
          BY <5>1 DEF Inv, StagesFit, StageFits, At, Running
        <5>4. Len(calls'[c].outputs) = 0
          BY <5>2, <5>3, EmptySeq
        <5> QED BY <5>2, <5>4 DEF Eligible, At, Makes
      <4>3. CASE Moves(c, Fresh)
        BY <3>1, <4>3, FreshIsACall DEF Moves, Makes
      <4> QED BY <4>1, <4>2, <4>3
    <3>10. CASE ReserveName(c)
      BY <3>2, <3>4, <3>5, <3>10 DEF ReserveName, Refuse
    <3>11. CASE RegisterReserved(c)
      <4>1. \/ \E code : Refuse(c, calls[c], code)
            \/ calls' = [calls EXCEPT ![c].pc = "save", ![c].outputs = <<<<"REGISTRATION", Command[R(c)].registers[1]>>>>]
        BY <3>11 DEF RegisterReserved
      <4>2. CASE \E code : Refuse(c, calls[c], code)
        BY <3>2, <3>5, <4>2 DEF Refuse
      <4>3. CASE calls' = [calls EXCEPT ![c].pc = "save", ![c].outputs = <<<<"REGISTRATION", Command[R(c)].registers[1]>>>>]
        <5>1. calls'[c].pc = "save"
          BY <3>2, <4>3 DEF Tables, Call
        <5> QED BY <3>1, <5>1 DEF Makes
      <4> QED BY <4>1, <4>2, <4>3
    <3>12. CASE Depend(c)
      BY <3>12, DependKeepsEligible
    <3>13. CASE Publish(c)
      <4>1. UNCHANGED calls \/ Goto(c, "published")
        BY <3>13 DEF Publish
      <4>2. CASE Goto(c, "published")
        <5>1. calls'[c] = [calls[c] EXCEPT !.pc = "published"]
          BY <3>2, <4>2, CallGoes DEF Running, Moves
        <5>2. /\ calls'[c].pc = "published" /\ calls'[c].request = R(c)
              /\ calls'[c].outputs = calls[c].outputs /\ calls'[c].permitted = calls[c].permitted
              /\ calls[c].pc = "publish"
          BY <3>2, <3>13, <5>1 DEF Call, R, Publish, At
        <5> QED BY <5>2, EligibleStays DEF AllEligible, Makes
      <4> QED BY <1>1, <4>1, <4>2 DEF AllEligible
    <3>14. CASE Readback(c)
      <4>1. calls'[c].pc = "save"
        BY <3>2, <3>14 DEF Readback, Listed, Tables, Call
      <4> QED BY <3>1, <4>1 DEF Makes
    <3>15. CASE Fault(c)
      <4>1. PICK call \in {calls[c], Inspecting(calls[c])} :
              \E code, unconfirmed : Fail(c, call, code, unconfirmed)
        BY <3>15 DEF Fault
      <4>2. R(c) \in Requests
        BY <3>15, Carried DEF Fault, At
      <4>3. call \in Call
        BY <3>2, <4>1, <4>2, ListedIsACall DEF R
      <4> QED BY <3>5, <4>1, <4>3
    <3>16. CASE Save(c) \/ Kill(c)
      BY <3>3, <3>16 DEF Save, Kill
    <3> QED BY <1>2, <3>6, <3>7, <3>8, <3>9, <3>10, <3>11, <3>12, <3>13, <3>14, <3>15, <3>16
           DEF WorkerStep, StageStep
  <2> QED BY <2>2, <2>3 DEF AllEligible
<1>3. UNCHANGED calls \/ \E c \in Workers : WorkerStep(c)
  BY DEF Next, Recover, Lapse, WorkerStep, StageStep, vars
<1> QED BY <1>1, <1>2, <1>3

LEMMA EligibleHolds == Spec => []AllEligible
<1>1. Init => AllEligible
  BY FreshIsACall DEF Init, AllEligible, Eligible, Makes
<1>2. Inv /\ AllEligible /\ [Next]_vars => AllEligible'
  BY StepsGrow, EligibleIsKept
<1> QED BY <1>1, <1>2, InvHolds, PTL DEF Spec

-----------------------------------------------------------------------------
(* A request of the store is a request of ProductionRequests.              *)

\* A table that changes at one key.
LEMMA OneKeyChanges ==
  ASSUME NEW S, NEW k \in S, NEW v, NEW f, NEW g,
         f = [i \in S |-> f[i]], g = [i \in S |-> g[i]],
         g[k] = v, \A i \in S : i # k => g[i] = f[i]
  PROVE  g = [f EXCEPT ![k] = v]
OBVIOUS

\* What the tables say of one request.
LEMMA StatusIs ==
  ASSUME Inv, NEW r \in Requests
  PROVE  /\ Statuses[r] = Status(r) /\ Produced[r] = (IF artifacts[r] = "CONTENT" THEN None ELSE artifacts[r])
         /\ Permissions[r] = (IF intents[r] = None THEN None ELSE intents[r].permitted)
         /\ Statuses[r] = "ABSENT" <=> intents[r] = None
         /\ intents[r] # None /\ executed[r] = 0 => Statuses[r] = "CLAIMED"
         /\ executed[r] = 1 /\ runs[r] = None => Statuses[r] = "BEGUN"
<1>1. /\ executed[r] \in {0, 1}
      /\ executed[r] = 1 => intents[r] # None
      /\ runs[r] # None => executed[r] = 1 /\ runs[r].state \in {"COMPLETED", "QUARANTINED", "FAILED"}
  BY DEF Inv, Tables, ClaimsFit, RequestFits, Receipt
<1>2. Statuses[r] = Status(r)
  BY DEF Statuses
<1>3. /\ Produced[r] = IF artifacts[r] = "CONTENT" THEN None ELSE artifacts[r]
      /\ Permissions[r] = IF intents[r] = None THEN None ELSE intents[r].permitted
  BY DEF Produced, Permissions
<1> QED BY <1>1, <1>2, <1>3 DEF Status

\* A status changes with the intent, the beginning or the run of its request only.
LEMMA StatusMoves ==
  ASSUME NEW r \in Requests, NEW to, Status(r)' = to,
         \A q \in Requests : q # r => intents'[q] = intents[q] /\ executed'[q] = executed[q] /\ runs'[q] = runs[q]
  PROVE  Statuses' = [Statuses EXCEPT ![r] = to]
<1>1. /\ Statuses = [q \in Requests |-> Statuses[q]]
      /\ Statuses' = [q \in Requests |-> Statuses'[q]]
  BY DEF Statuses
<1>2. Statuses'[r] = to
  BY DEF Statuses
<1>3. ASSUME NEW q \in Requests, q # r PROVE Statuses'[q] = Statuses[q]
  BY <1>3 DEF Statuses, Status
<1> QED BY <1>1, <1>2, <1>3, OneKeyChanges

\* The cardinality of the instance is the cardinality.
LEMMA SameCardinality ==
  ASSUME NEW S
  PROVE  Abstract!Cardinality(S) = Cardinality(S)
BY DEF Abstract!Cardinality, Cardinality

LEMMA StatusStays ==
  ASSUME UNCHANGED <<intents, executed, runs>>
  PROVE  UNCHANGED Statuses
BY DEF Statuses, Status

LEMMA ClaimIsAClaim ==
  ASSUME Inv, NEW c \in Workers, Claim(c)
  PROVE  Abstract!Next \/ UNCHANGED Abstract!rvars
<1>1. PICK r : r = R(c)
  OBVIOUS
<1>2. r \in Requests /\ calls[c].permitted \in BOOLEAN /\ intents \in [Requests -> [permitted : BOOLEAN] \cup {None}]
  BY <1>1, Carried DEF Claim, At, Inv, Tables, Call
<1>3. UNCHANGED <<registered, artifacts, runs, executed>>
  BY DEF Claim, history
<1>4. UNCHANGED Produced
  BY <1>3 DEF Produced
<1>5. CASE intents[r] = None /\ Cardinality(Written(intents)) < MaxIntents
  <2>1. intents' = [intents EXCEPT ![r] = [permitted |-> calls[c].permitted]]
    BY <1>1, <1>5 DEF Claim
  <2>2. intents'[r] = [permitted |-> calls[c].permitted] /\ intents'[r] # None
    BY <1>2, <2>1, NoneIsNothing
  <2>3. executed[r] = 0 /\ runs[r] = None
    BY <1>2, <1>5 DEF Inv, Tables, ClaimsFit, RequestFits
  <2>4. Status(r)' = "CLAIMED"
    BY <1>3, <2>2, <2>3 DEF Status
  <2>5. Statuses[r] = "ABSENT" /\ Statuses' = [Statuses EXCEPT ![r] = "CLAIMED"]
    <3>1. \A q \in Requests : q # r => intents'[q] = intents[q]
      BY <1>2, <2>1
    <3> QED BY <1>2, <1>3, <1>5, <2>4, <3>1, StatusIs, StatusMoves
  <2>6. Permissions' = [Permissions EXCEPT ![r] = calls[c].permitted]
    <3>1. /\ Permissions = [q \in Requests |-> Permissions[q]]
          /\ Permissions' = [q \in Requests |-> Permissions'[q]]
      BY DEF Permissions
    <3>2. Permissions'[r] = calls[c].permitted
      BY <1>2, <2>2 DEF Permissions
    <3>3. \A q \in Requests : q # r => Permissions'[q] = Permissions[q]
      BY <1>2, <2>1 DEF Permissions
    <3> QED BY <1>2, <3>1, <3>2, <3>3, OneKeyChanges
  <2>7. {q \in Requests : Statuses[q] # "ABSENT"} = Written(intents)
    <3>1. DOMAIN intents = Requests
      BY <1>2
    <3> QED BY <3>1, StatusIs DEF Written
  <2>8. Cardinality({q \in Requests : Statuses[q] # "ABSENT"}) < MaxIntents
    BY <1>5, <2>7
  <2>9. Abstract!Becomes(r, "ABSENT", "CLAIMED")
    BY <2>5 DEF Abstract!Becomes
  <2>10. \E answer \in BOOLEAN : Permissions' = [Permissions EXCEPT ![r] = answer]
    BY <1>2, <2>6
  <2>11. Abstract!Claim(r)
    BY <1>3, <1>4, <2>8, SameCardinality, <2>9, <2>10 DEF Abstract!Claim
  <2> QED BY <1>2, <2>11 DEF Abstract!Next
<1>6. CASE ~(intents[r] = None /\ Cardinality(Written(intents)) < MaxIntents)
  <2>1. UNCHANGED intents
    BY <1>1, <1>6 DEF Claim
  <2>2. UNCHANGED <<Statuses, Permissions>>
    BY <1>3, <2>1, StatusStays DEF Permissions
  <2> QED BY <1>3, <1>4, <2>2 DEF Abstract!rvars
<1> QED BY <1>5, <1>6

LEMMA ReleaseIsABeginning ==
  ASSUME Inv, NEW c \in Workers, Release(c)
  PROVE  Abstract!Next \/ UNCHANGED Abstract!rvars
<1>1. PICK r : r = R(c)
  OBVIOUS
<1>2. UNCHANGED <<intents, registered, artifacts, runs>>
  BY ReleaseMoves
<1>3. UNCHANGED <<Permissions, Produced>>
  BY <1>2 DEF Permissions, Produced
<1>4. CASE Begins(c)
  <2>1. /\ r \in Requests /\ intents[r] # None /\ runs[r] = None /\ executed[r] = 0
    BY <1>1, <1>4 DEF Begins, Release, Inv, ClaimsFit, ClaimFits
  <2>2. executed'[r] = 1 /\ \A q \in Requests : q # r => executed'[q] = executed[q]
    BY <1>1, <1>4, <2>1 DEF Begins, Inv, Tables
  <2>3. Status(r)' = "BEGUN"
    BY <1>2, <2>1, <2>2 DEF Status
  <2>4. Statuses[r] = "CLAIMED" /\ Statuses' = [Statuses EXCEPT ![r] = "BEGUN"]
    BY <1>2, <2>1, <2>2, <2>3, StatusIs, StatusMoves
  <2>5. Abstract!Becomes(r, "CLAIMED", "BEGUN")
    BY <2>4 DEF Abstract!Becomes
  <2>6. Abstract!Begin(r)
    BY <1>2, <1>3, <2>5 DEF Abstract!Begin
  <2> QED BY <2>1, <2>6 DEF Abstract!Next
<1>5. CASE UNCHANGED executed
  BY <1>2, <1>3, <1>5, StatusStays DEF Abstract!rvars
<1> QED BY <1>4, <1>5, ReleaseMoves

LEMMA RegistrationIsARegistration ==
  ASSUME Inv, NEW c \in Workers, RegisterReserved(c)
  PROVE  Abstract!Next \/ UNCHANGED Abstract!rvars
<1>1. PICK r : r = R(c)
  OBVIOUS
<1> DEFINE made == Command[r].registers
<1>2. /\ r \in Requests /\ Kind(r) = "REGISTER" /\ At(c, "registerReserved")
  BY <1>1, Carried DEF RegisterReserved, At, Registers
<1>3. UNCHANGED <<intents, artifacts, runs, executed>>
  BY DEF RegisterReserved
<1>4. UNCHANGED <<Statuses, Permissions, Produced>>
  BY <1>3, StatusStays DEF Permissions, Produced
<1>5. CASE registered[made[1]] = None /\ ~NoRoomFor(made[1])
  <2>1. registered' = [registered EXCEPT ![made[1]] = made[2]]
    BY <1>1, <1>5 DEF RegisterReserved
  <2>2. Statuses[r] = "BEGUN"
    BY <1>1, <1>2, StatusIs DEF Inv, ClaimsFit, ClaimFits, At, Running
  <2>3. Cardinality({n \in Names : registered[n] # None}) < MaxNames
    <3>1. Written(registered) = {n \in Names : registered[n] # None}
      BY DEF Inv, Tables, Written
    <3>2. Cardinality(Written(registered)) \in Nat /\ MaxNames \in Nat
      BY FS_CardinalityType, ProductionAssumption DEF Inv, FoldersAreBounded, Bounded
    <3>3. ~(Cardinality(Written(registered)) >= MaxNames)
      BY <1>5 DEF NoRoomFor
    <3> QED BY <3>1, <3>2, <3>3
  <2>4. \E entry \in {made} : registered[entry[1]] = None /\ registered' = [registered EXCEPT ![entry[1]] = entry[2]]
    BY <1>5, <2>1
  <2>5. Abstract!Register(r)
    BY <1>2, <1>4, <2>2, <2>3, <2>4, SameCardinality DEF Abstract!Register
  <2> QED BY <1>2, <2>5 DEF Abstract!Next
<1>6. CASE ~(registered[made[1]] = None /\ ~NoRoomFor(made[1]))
  <2>1. UNCHANGED registered
    BY <1>1, <1>6 DEF RegisterReserved
  <2> QED BY <1>4, <2>1 DEF Abstract!rvars
<1> QED BY <1>5, <1>6

LEMMA PublicationIsAProduct ==
  ASSUME Inv, AllEligible, NEW c \in Workers, Publish(c)
  PROVE  Abstract!Next \/ UNCHANGED Abstract!rvars
<1>1. PICK r : r = R(c)
  OBVIOUS
<1>2. /\ r \in Requests /\ Kind(r) # "REGISTER" /\ At(c, "publish") /\ calls[c].pc \in Makes
      /\ StageFits(c) /\ ClaimFits(c) /\ Eligible(c)
  BY <1>1, Carried DEF Publish, At, Makes, Inv, StagesFit, ClaimsFit, AllEligible
<1>3. UNCHANGED <<intents, registered, runs, executed>>
  BY DEF Publish, history
<1>4. UNCHANGED <<Statuses, Permissions>>
  BY <1>3, StatusStays DEF Permissions
<1>5. PICK artifact \in Publishes(r) : artifacts' = [artifacts EXCEPT ![r] = artifact]
  BY <1>1 DEF Publish
<1>6. artifacts[r] \in {None, "CONTENT"} /\ artifacts \in [Requests -> Artifacts \cup {None}]
  BY <1>1, <1>2 DEF StageFits, Partly, Inv, Tables
<1>7. artifacts'[r] = artifact /\ \A q \in Requests : q # r => artifacts'[q] = artifacts[q]
  BY <1>2, <1>5, <1>6
<1>8. /\ Produced = [q \in Requests |-> Produced[q]] /\ Produced' = [q \in Requests |-> Produced'[q]]
      /\ \A q \in Requests : q # r => Produced'[q] = Produced[q]
  BY <1>7 DEF Produced
<1>9. Produced[r] = None
  BY <1>2, <1>6, StatusIs
<1>10. CASE artifact = "CONTENT"
  <2>1. Produced'[r] = None
    BY <1>2, <1>7, <1>10 DEF Produced
  <2>2. Produced' = Produced
    <3>1. \A q \in Requests : Produced'[q] = Produced[q]
      BY <1>8, <1>9, <2>1
    <3> QED BY <1>8, <3>1
  <2> QED BY <1>3, <1>4, <2>2 DEF Abstract!rvars
<1>11. CASE artifact # "CONTENT"
  <2>1. artifact \in Products(r)
    BY <1>5, <1>11 DEF Publishes
  <2>2. Produced'[r] = artifact
    BY <1>2, <1>7, <1>11 DEF Produced
  <2>3. Produced' = [Produced EXCEPT ![r] = artifact]
    BY <1>2, <1>8, <2>2, OneKeyChanges
  <2>4. Statuses[r] = "BEGUN"
    BY <1>1, <1>2, StatusIs DEF ClaimFits, At, Running
  <2>5. Permissions[r]
    <3>1. calls[c].permitted
      BY <1>2 DEF Eligible, At
    <3>2. intents[r] # None /\ calls[c].permitted = intents[r].permitted
      BY <1>1, <1>2 DEF ClaimFits, At, Running
    <3> QED BY <1>2, <3>1, <3>2, StatusIs
  <2>6. ASSUME NEW q \in ToSet(Command[r].inputs) PROVE Produced[q] \notin {None, "QUARANTINED"}
    <3>1. PICK i \in 1..Size(r) : q = Command[r].inputs[i]
      BY <1>2, InputsAreOthers DEF ToSet
    <3>2. Len(calls[c].outputs) = Size(r) /\ Known(r, Size(r))
      BY <1>1, <1>2 DEF StageFits
    <3>3. q \in Requests /\ Retained(q) /\ artifacts[q] # "QUARANTINED"
      BY <1>1, <1>2, <3>1, <3>2, InputsAreOthers DEF Known, Eligible
    <3> QED BY <3>3, StatusIs DEF Retained
  <2>7. Abstract!Make(r)
    BY <1>2, <1>3, <1>4, <1>9, <2>1, <2>3, <2>4, <2>5, <2>6 DEF Abstract!Make
  <2> QED BY <1>2, <2>7 DEF Abstract!Next
<1> QED BY <1>10, <1>11

\* What the receipt says is what the request has made.
LEMMA OutcomeIsEarned ==
  ASSUME Inv, NEW r \in Requests, NEW run, RunFits(r, run),
         run.state \in {"COMPLETED", "QUARANTINED", "FAILED"}
  PROVE  run.state \in Abstract!Outcomes(r)
<1>1. Produced[r] = IF artifacts[r] = "CONTENT" THEN None ELSE artifacts[r]
  BY StatusIs
<1>2. CASE Kind(r) = "REGISTER"
  <2>1. artifacts[r] = None
    BY <1>2 DEF Inv, StagesFit, ArtifactsFit, Products, Partly
  <2>2. Produced[r] = None /\ None # "QUARANTINED"
    BY <1>1, <2>1, NoneIsNothing DEF Artifacts
  <2>3. run.state = "FAILED" \/ (run.state = "COMPLETED" /\ There(Command[r].registers))
    BY <1>2 DEF RunFits, Registration
  <2>4. ASSUME There(Command[r].registers) PROVE Abstract!Made(r)
    BY <1>2, <2>4 DEF Abstract!Made, There
  <2> QED BY <2>2, <2>3, <2>4 DEF Abstract!Outcomes
<1>3. CASE Kind(r) # "REGISTER" /\ Success(r, run)
  <2>1. artifacts[r] \in {"ACQUISITION", "NORMALIZED", "QUARANTINED", "CANDIDATE_BUILD"}
    BY <1>3, ProductionAssumption DEF Success, Products, Kinds
  <2>2. Produced[r] = artifacts[r] /\ Produced[r] # None
    BY <1>1, <2>1, NoneIsNothing DEF Artifacts
  <2>3. Abstract!Made(r)
    BY <2>2 DEF Abstract!Made
  <2>4. run.state = IF Produced[r] = "QUARANTINED" THEN "QUARANTINED" ELSE "COMPLETED"
    BY <1>3, <2>2 DEF Success
  <2> QED BY <2>3, <2>4 DEF Abstract!Outcomes
<1>4. CASE run.state = "FAILED"
  BY <1>4 DEF Abstract!Outcomes
<1> QED BY <1>2, <1>3, <1>4 DEF RunFits

LEMMA SavingIsAClosing ==
  ASSUME Inv, NEW c \in Workers, Save(c)
  PROVE  Abstract!Next \/ UNCHANGED Abstract!rvars
<1>1. PICK r, run : r = R(c) /\ run = Run(calls[c])
  OBVIOUS
<1>2. r \in Requests /\ RunFits(r, run) /\ executed[r] = 1 /\ runs[r] = None
  BY <1>1, Carried DEF Save, At, Inv, StagesFit, StageFits, ClaimsFit, ClaimFits, Running
<1>3. UNCHANGED <<intents, registered, artifacts, executed>>
  BY DEF Save
<1>4. UNCHANGED <<Permissions, Produced>>
  BY <1>3 DEF Permissions, Produced
<1>5. CASE run # None /\ runs' = [runs EXCEPT ![r] = run]
  <2>1. runs'[r] = run /\ \A q \in Requests : q # r => runs'[q] = runs[q]
    BY <1>2, <1>5 DEF Inv, Tables
  <2>2. PICK outcome : outcome = run.state
    OBVIOUS
  <2>3. outcome \in {"COMPLETED", "QUARANTINED", "FAILED"}
    BY <1>1, <2>2 DEF Run
  <2>4. outcome \in Abstract!Outcomes(r)
    BY <1>2, <2>2, <2>3, OutcomeIsEarned
  <2>5. Status(r)' = outcome
    BY <1>5, <2>1, <2>2 DEF Status
  <2>6. Statuses[r] = "BEGUN" /\ Statuses' = [Statuses EXCEPT ![r] = outcome]
    BY <1>2, <1>3, <2>1, <2>5, StatusIs, StatusMoves
  <2>7. Abstract!Becomes(r, "BEGUN", outcome)
    BY <2>6 DEF Abstract!Becomes
  <2>8. Abstract!Close(r)
    BY <1>3, <1>4, <2>4, <2>7 DEF Abstract!Close
  <2> QED BY <1>2, <2>8 DEF Abstract!Next
<1>6. CASE UNCHANGED runs
  <2>1. UNCHANGED Statuses
    BY <1>3, <1>6, StatusStays
  <2> QED BY <1>3, <1>4, <2>1 DEF Abstract!rvars
<1>7. run = None /\ runs' = [runs EXCEPT ![r] = run] => UNCHANGED runs
  BY <1>2 DEF Inv, Tables
<1> QED BY <1>1, <1>5, <1>6, <1>7 DEF Save

\* Killed and rival workers, stale first looks, failures between a publication and
\* its receipt: execute() does nothing to a request but what ProductionRequests
\* does.  A request is claimed, begun and closed once; its product is made for that
\* claim, if the policy allowed it, of products that are there and not quarantined.
THEOREM StoreImplementsRequests == Spec => ImplementsProductionRequests
<1>1. Init => Abstract!Init
  <2> SUFFICES ASSUME Init PROVE Abstract!Init
    OBVIOUS
  <2>1. \A r \in Requests : intents[r] = None /\ runs[r] = None /\ executed[r] = 0 /\ artifacts[r] = None
    BY DEF Init
  <2>2. None # "CONTENT"
    BY NoneIsNothing DEF Artifacts
  <2>3. /\ Statuses = [r \in Requests |-> "ABSENT"] /\ Permissions = [r \in Requests |-> None]
        /\ Produced = [r \in Requests |-> None] /\ registered = [n \in Names |-> None]
    BY <2>1, <2>2 DEF Init, Statuses, Status, Permissions, Produced
  <2> QED BY <2>3 DEF Abstract!Init
<1>2. Inv /\ AllEligible /\ [Next]_vars => [Abstract!Next]_(Abstract!rvars)
  <2> SUFFICES ASSUME Inv, AllEligible, [Next]_vars PROVE Abstract!Next \/ UNCHANGED Abstract!rvars
    OBVIOUS
  <2>1. CASE UNCHANGED <<intents, registered, artifacts, runs, executed>>
    <3>1. UNCHANGED <<Statuses, Permissions, Produced>>
      BY <2>1, StatusStays DEF Permissions, Produced
    <3> QED BY <2>1, <3>1 DEF Abstract!rvars
  <2>2. \/ UNCHANGED <<intents, registered, artifacts, runs, executed>>
        \/ \E c \in Workers : Claim(c) \/ Release(c) \/ RegisterReserved(c) \/ Publish(c) \/ Save(c)
    BY WhoWrites
  <2> QED BY <2>1, <2>2, ClaimIsAClaim, ReleaseIsABeginning, RegistrationIsARegistration,
             PublicationIsAProduct, SavingIsAClosing
<1> QED BY <1>1, <1>2, InvHolds, EligibleHolds, PTL DEF Spec, ImplementsProductionRequests, Abstract!Spec
=============================================================================
