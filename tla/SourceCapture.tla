--------------------------- MODULE SourceCapture ---------------------------
(***************************************************************************)
(* Operator-run collection from public sources (src/acquisition/store.ts)  *)
(* and the schedule that decides when a run may collect (schedule.ts,      *)
(* statutoryRun.ts).  Every invocation of the CLI is a process of its own; *)
(* all they share is a directory of create-only files: an intent and a     *)
(* receipt per source and request id, an acquisition per evidence id, and  *)
(* permanent budget slots per source, minute and day.  A process may end   *)
(* between any two files; what it leaves is INCOMPLETE and never resumed.  *)
(***************************************************************************)
EXTENDS Integers, FiniteSets

CONSTANTS
  Calls,        \* the invocations; each seals at most one intent, under its own nonce
  Sources, Ids,
  Rail,         \* the namespace in which a source's acquisition ids are made
  Requests,     \* the <<source, id>> operators may ask for themselves
  RunIds,       \* S-1, S-2, ...: the ids of the schedule's runs; Len = maxRuns
  ScheduledSource, Interval, Opens, Closes,
  MinuteLength, DayLength, DaySlots, PolicyEnds,
  MaxTime, None

MaxRuns == Cardinality(DOMAIN RunIds)
Keys == Sources \X Ids

ASSUME ScheduleAssumption ==
  /\ {Interval, MinuteLength, DayLength} \subseteq Nat \ {0}
  /\ {DaySlots, PolicyEnds, MaxTime, MaxRuns, Opens, Closes} \subseteq Nat
  /\ RunIds \in [1..MaxRuns -> Ids] /\ (\A m, n \in 1..MaxRuns : RunIds[m] = RunIds[n] => m = n)
  /\ ScheduledSource \in Sources /\ Requests \subseteq Keys
  /\ None \notin Calls

VARIABLES
  now,          \* the wall clock, which may be set back once
  setBack,
  intents,      \* <<source, id>> -> the call that owns the intent
  receipts,     \* <<source, id>> -> receipt
  evidence,     \* <<rail, id>> -> acquisition record
  minutes,      \* <<source, minute>> -> the call that claimed it
  days,         \* <<source, day>> -> [slot -> the call that claimed it]
  contacted,    \* calls that sent their request to the source
  calls         \* the invocations

disk == <<intents, receipts, evidence, minutes, days>>
vars == <<now, setBack, disk, contacted, calls>>

MinuteOf(t) == t \div MinuteLength
DayOf(t) == t \div DayLength
Minutes == Sources \X (0..MinuteOf(MaxTime))
Days == Sources \X (0..DayOf(MaxTime))
Places == {Rail[s] : s \in Sources} \X Ids
Key(c) == calls[c].request
EvidenceOf(key) == evidence[<<Rail[key[1]], key[2]>>]
MinuteKey(c) == <<Key(c)[1], MinuteOf(calls[c].startedAt)>>
DayKey(c) == <<Key(c)[1], DayOf(calls[c].startedAt)>>

Fresh == [pc |-> "idle", request |-> None, at |-> 0, run |-> 0, unfinished |-> FALSE,
          last |-> None, startedAt |-> 0, slot |-> 1, capturedAt |-> None,
          outcome |-> None]

Init ==
  /\ now = 0 /\ setBack = FALSE /\ contacted = {}
  /\ intents = [k \in Keys |-> None]
  /\ receipts = [k \in Keys |-> None]
  /\ evidence = [k \in Places |-> None]
  /\ minutes = [k \in Minutes |-> None]
  /\ days = [k \in Days |-> [slot \in 1..DaySlots |-> None]]
  /\ calls = [c \in Calls |-> Fresh]

At(c, pc) == calls[c].pc = pc
Goto(c, pc) == calls' = [calls EXCEPT ![c].pc = pc]

\* The process ends, with an answer or without one; of what it knew only the
\* intent it owns remains.
End(c) ==
  calls' = [calls EXCEPT ![c] =
    [Fresh EXCEPT !.pc = "ended", !.startedAt = calls[c].startedAt,
                  !.request = IF \E key \in Keys : intents[key] = c THEN calls[c].request ELSE None]]

-----------------------------------------------------------------------------
(* inspect(): everything on disk is recomputed and related.                *)

\* validateBudget
Granted(c) ==
  /\ minutes[MinuteKey(c)] = c
  /\ \E slot \in 1..DaySlots : days[DayKey(c)][slot] = c

\* validateBudgetDenial: another owner of the minute, or every slot of the day another's.
DenialShown(c) ==
  /\ minutes[MinuteKey(c)] # None
  /\ minutes[MinuteKey(c)] = c => \A slot \in 1..DaySlots : days[DayKey(c)][slot] \notin {None, c}

Acquired == {"CAPTURED", "QUARANTINED"}
ReceiptHolds(c, receipt, acquired) ==
  /\ receipt.at >= calls[c].startedAt
  /\ receipt.code = "LOCAL_BUDGET_EXHAUSTED" => acquired = None /\ DenialShown(c)
  /\ receipt.code = "FETCH_FAILED" => acquired = None /\ Granted(c)
  /\ receipt.code \in Acquired =>
       /\ Granted(c) /\ acquired # None
       /\ receipt.at >= acquired.at /\ acquired.at < PolicyEnds
       /\ receipt.state = "CAPTURED" <=> acquired.parses

Valid(key) ==
  LET acquired == EvidenceOf(key) IN
  /\ intents[key] = None => receipts[key] = None /\ acquired = None
  /\ \A c \in Calls : intents[key] = c =>
       /\ calls[c].startedAt < PolicyEnds
       /\ acquired # None => acquired.source = key[1] /\ acquired.at >= calls[c].startedAt /\ Granted(c)
       /\ receipts[key] # None => ReceiptHolds(c, receipts[key], acquired)

Incomplete(key) == receipts[key] = None

-----------------------------------------------------------------------------
(* runScheduledCapture(): the history is read run by run, then planned on. *)

RunKey(n) == <<ScheduledSource, RunIds[n]>>

Invoke(c) ==
  /\ At(c, "idle") /\ MaxRuns > 0
  /\ calls' = [calls EXCEPT ![c].pc = "history", ![c].at = now]
  /\ UNCHANGED <<now, setBack, disk, contacted>>

Later(a, b) == IF a = None \/ b > a THEN b ELSE a

\* One inspect(); an absent intent is only absent once the rest is looked for.
ReadRun(c) ==
  LET n == calls[c].run + 1 IN
  /\ At(c, "history") /\ n <= MaxRuns /\ intents[RunKey(n)] # None
  /\ IF Valid(RunKey(n))
     THEN calls' = [calls EXCEPT ![c].run = n,
            ![c].unfinished = @ \/ Incomplete(RunKey(n)),
            ![c].last = Later(@, calls[intents[RunKey(n)]].startedAt)]
     ELSE End(c)
  /\ UNCHANGED <<now, setBack, disk, contacted>>

EndOfHistory(c) ==
  /\ At(c, "history")
  /\ IF calls[c].run = MaxRuns THEN Goto(c, "plan")
     ELSE intents[RunKey(calls[c].run + 1)] = None /\ Goto(c, "gap")
  /\ UNCHANGED <<now, setBack, disk, contacted>>

Orphaned(key) == receipts[key] # None \/ EvidenceOf(key) # None

\* planCapture, in the order of its refusals
DecideAnyway(call) ==
  CASE call.run >= MaxRuns -> "RUN_BUDGET_SPENT"
    [] call.at < Opens -> "WINDOW_NOT_OPEN"
    [] call.at >= Closes -> "WINDOW_CLOSED"
    [] call.last # None /\ call.at < call.last + Interval -> "NOT_DUE"
    [] OTHER -> "DUE"
Decide(call) == IF call.unfinished THEN "HISTORY_INCOMPLETE" ELSE DecideAnyway(call)

\* The beginning of capture(): history that is there is returned (or the conflict,
\* when the request had another scope) and never collected again.
Look(c, request) ==
  calls' = [calls EXCEPT ![c] =
    IF intents[request] # None THEN [Fresh EXCEPT !.pc = "ended"]
    ELSE [Fresh EXCEPT !.pc = "absent", !.request = request, !.at = calls[c].at]]

Plan(c) ==
  /\ At(c, "plan") \/ At(c, "gap")
  /\ IF (At(c, "gap") /\ Orphaned(RunKey(calls[c].run + 1))) \/ Decide(calls[c]) # "DUE" THEN End(c)
     ELSE Look(c, RunKey(calls[c].run + 1))
  /\ UNCHANGED <<now, setBack, disk, contacted>>

\* The schedule, or collection itself, may be switched off at any invocation.
Disabled(c) ==
  /\ \/ At(c, "plan") /\ ~calls[c].unfinished
     \/ At(c, "gap") /\ ~calls[c].unfinished /\ ~Orphaned(RunKey(calls[c].run + 1))
     \/ At(c, "absent") /\ ~Orphaned(Key(c))
  /\ End(c)
  /\ UNCHANGED <<now, setBack, disk, contacted>>

-----------------------------------------------------------------------------
(* capture()                                                               *)

Ask(c, request) ==
  /\ At(c, "idle")
  /\ Look(c, request)
  /\ UNCHANGED <<now, setBack, disk, contacted>>

Seal(c) ==
  /\ At(c, "absent")
  /\ IF Orphaned(Key(c)) \/ now >= PolicyEnds THEN End(c)
     ELSE calls' = [calls EXCEPT ![c].pc = "claim", ![c].startedAt = now]
  /\ UNCHANGED <<now, setBack, disk, contacted>>

\* A link either makes the intent or meets the one of another call: its history
\* is the answer.
Claim(c) ==
  /\ At(c, "claim")
  /\ IF intents[Key(c)] = None
     THEN intents' = [intents EXCEPT ![Key(c)] = c] /\ Goto(c, "minute")
     ELSE UNCHANGED intents /\ End(c)
  /\ UNCHANGED <<now, setBack, receipts, evidence, minutes, days, contacted>>

Denied(c) == calls' = [calls EXCEPT ![c].pc = "finish", ![c].outcome = "LOCAL_BUDGET_EXHAUSTED"]

ReserveMinuteExisting(c) ==
  /\ At(c, "minute")
  /\ minutes' = [minutes EXCEPT ![MinuteKey(c)] = IF @ = None THEN c ELSE @]
  /\ Goto(c, "day")
  /\ UNCHANGED <<now, setBack, intents, receipts, evidence, days, contacted>>

ReserveMinute(c) ==
  /\ At(c, "minute")
  /\ IF minutes[MinuteKey(c)] = None
     THEN minutes' = [minutes EXCEPT ![MinuteKey(c)] = c] /\ Goto(c, "day")
     ELSE UNCHANGED minutes /\ Denied(c)
  /\ UNCHANGED <<now, setBack, intents, receipts, evidence, days, contacted>>

\* The slots of a day are tried one file at a time; the minute stays taken when
\* none is left.  With a slot the request is sent.
ReserveDay(c) ==
  /\ At(c, "day")
  /\ LET slot == calls[c].slot IN
     IF slot > DaySlots THEN UNCHANGED <<days, contacted>> /\ Denied(c)
     ELSE IF days[DayKey(c)][slot] = None
     THEN days' = [days EXCEPT ![DayKey(c)][slot] = c] /\ contacted' = contacted \cup {c} /\ Goto(c, "waiting")
     ELSE UNCHANGED <<days, contacted>> /\ calls' = [calls EXCEPT ![c].slot = slot + 1]
  /\ UNCHANGED <<now, setBack, intents, receipts, evidence, minutes>>

\* FETCH_FAILED stands for RATE_LIMITED too, and for bytes no adapter accepts.
Respond(c, outcome) ==
  /\ At(c, "waiting")
  /\ IF outcome = "FETCH_FAILED"
     THEN calls' = [calls EXCEPT ![c].pc = "finish", ![c].outcome = outcome]
     ELSE /\ now >= calls[c].startedAt
          /\ calls' = [calls EXCEPT ![c].pc = "retain", ![c].outcome = outcome, ![c].capturedAt = now]
  /\ UNCHANGED <<now, setBack, disk, contacted>>

\* LocalEvidenceIntake.capture(): the policy is asked again at the time of
\* capture, and an acquisition id that is taken refuses other evidence.
Retain(c) ==
  LET place == <<Rail[Key(c)[1]], Key(c)[2]>>
      admitted == calls[c].capturedAt < PolicyEnds /\ evidence[place] = None IN
  /\ At(c, "retain")
  /\ IF admitted
     THEN evidence' = [evidence EXCEPT ![place] =
            [source |-> Key(c)[1], at |-> calls[c].capturedAt, parses |-> calls[c].outcome = "CAPTURED"]]
          /\ Goto(c, "finish")
     ELSE UNCHANGED evidence /\ End(c)
  /\ UNCHANGED <<now, setBack, intents, receipts, minutes, days, contacted>>

EarliestFinish(call) ==
  IF call.outcome \in Acquired THEN call.capturedAt ELSE call.startedAt

FinishAnyway(c) ==
  /\ At(c, "finish")
  /\ receipts' = [receipts EXCEPT ![Key(c)] =
       [state |-> IF calls[c].outcome \in Acquired THEN calls[c].outcome ELSE "FAILED",
        code |-> calls[c].outcome, at |-> now]]
  /\ End(c)
  /\ UNCHANGED <<now, setBack, intents, evidence, minutes, days, contacted>>

Finish(c) == now >= EarliestFinish(calls[c]) /\ FinishAnyway(c)

\* Killed, a storage failure, or the clock gone back: nothing more is written.
Working == {"minute", "day", "waiting", "retain", "finish"}
Stop(c) ==
  /\ calls[c].pc \in Working
  /\ End(c)
  /\ UNCHANGED <<now, setBack, disk, contacted>>

Tick == now < MaxTime /\ now' = now + 1 /\ UNCHANGED <<setBack, disk, contacted, calls>>
SetBack ==
  /\ ~setBack /\ setBack' = TRUE
  /\ \E t \in 0..(now - 1) : now' = t
  /\ UNCHANGED <<disk, contacted, calls>>

Next ==
  \/ Tick \/ SetBack
  \/ \E c \in Calls :
       \/ Invoke(c) \/ ReadRun(c) \/ EndOfHistory(c) \/ Disabled(c) \/ Plan(c)
       \/ \E request \in Requests : Ask(c, request)
       \/ Seal(c) \/ Claim(c) \/ ReserveMinute(c) \/ ReserveDay(c)
       \/ \E outcome \in {"FETCH_FAILED", "CAPTURED", "QUARANTINED"} : Respond(c, outcome)
       \/ Retain(c) \/ Finish(c) \/ Stop(c)

Spec == Init /\ [][Next]_vars

-----------------------------------------------------------------------------
Times == 0..MaxTime
Outcomes == Acquired \cup {"FETCH_FAILED", "LOCAL_BUDGET_EXHAUSTED"}
Receipt == [state : Acquired \cup {"FAILED"}, at : Times, code : Outcomes]
Acquisition == [source : Sources, at : Times, parses : BOOLEAN]
ASSUME NoneIsNothing == None \notin Acquisition \cup Receipt \cup Times

Call ==
  [pc : {"idle", "history", "gap", "plan", "absent", "claim", "ended"} \cup Working,
   request : Keys \cup {None}, at : Times, run : 0..MaxRuns, unfinished : BOOLEAN,
   last : Times \cup {None}, startedAt : Times, slot : 1..(DaySlots + 1),
   capturedAt : Times \cup {None}, outcome : Outcomes \cup {None}]

Typed ==
  /\ now \in Times /\ setBack \in BOOLEAN
  /\ intents \in [Keys -> Calls \cup {None}]
  /\ receipts \in [Keys -> Receipt \cup {None}]
  /\ evidence \in [Places -> Acquisition \cup {None}]
  /\ minutes \in [Minutes -> Calls \cup {None}]
  /\ days \in [Days -> [1..DaySlots -> Calls \cup {None}]]
  /\ calls \in [Calls -> Call] /\ contacted \subseteq Calls

\* Every file holds what its readers parse, and a source was contacted only by
\* a call that owns an intent.
TypeOK ==
  /\ Typed
  /\ \A c \in contacted : Key(c) \in Keys /\ intents[Key(c)] = c

\* inspect() accepts whatever capture() can leave on disk, at every step of it,
\* however processes overlap, end and have their clock set back: what the writer
\* does and what the reader recomputes agree, for the proof of a denied budget too.
HistoryValidates == \A key \in Keys : Valid(key)

\* The budget of reserveBudget(): a source is contacted at most once for an id,
\* for requests begun in one minute once, and for those begun in one day as
\* often as the day has slots, by any number of processes.
ContactsAreBudgeted ==
  \A c \in contacted :
    LET sameSource == {d \in contacted : Key(d)[1] = Key(c)[1]} IN
    /\ \A d \in sameSource \ {c} : Key(d) # Key(c) /\ MinuteKey(d) # MinuteKey(c)
    /\ Cardinality({d \in sameSource : DayKey(d) = DayKey(c)}) <= DaySlots

\* The run of a call may begin: it was planned inside the window, all runs
\* before it have their receipt and, unless the clock was set back, it begins no
\* earlier than it was planned and an interval after the last one began.
MayBegin(c, n) ==
  LET started(m) == calls[intents[RunKey(m)]].startedAt IN
  /\ Opens <= calls[c].at /\ calls[c].at < Closes
  /\ n > 1 => intents[RunKey(n - 1)] # None /\ receipts[RunKey(n - 1)] # None
  /\ ~setBack =>
       /\ calls[c].startedAt >= calls[c].at
       /\ n > 1 => calls[c].startedAt >= started(n - 1) + Interval

\* Whenever an intent of the schedule is linked, what planCapture() granted is
\* still so, for overlapping invocations that planned on different histories:
\* no run over an unfinished one, none within the interval of the last, none
\* before the window.  The window's end is asked only of the clock read before
\* the history (statutoryRun.ts:125): the exception is a run whose intent is
\* sealed at or after notAfter, though schedule.ts:67 and :202 have none.
RunsFollowFinishedRuns ==
  [][\A n \in 1..MaxRuns :
       \A c \in Calls : intents[RunKey(n)] = None /\ intents'[RunKey(n)] = c => MayBegin(c, n)]_vars
=============================================================================
