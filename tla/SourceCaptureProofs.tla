------------------------ MODULE SourceCaptureProofs ------------------------
(***************************************************************************)
(* For any invocations, sources, budgets and clocks.                       *)
(*                                                                         *)
(* The argument for the budget (BInv): a file that is made is never made   *)
(* again, so that an intent, a minute and a slot of a day have one owner   *)
(* for good; a call that sent its request owns one of each, and calls map  *)
(* one to one into the slots of a day.                                     *)
(* The argument for inspect() (HInv): an id whose intent is a call's is    *)
(* written to by that call alone, which knows at each step what it will    *)
(* have to show: that it was let through, or what kept it out.  A denial   *)
(* stays shown because the slots that prove it are other calls' for good.  *)
(* The argument for the schedule (SInv): what made a run due when it was   *)
(* planned still holds when its intent is linked.                          *)
(***************************************************************************)
EXTENDS SourceCapture, FiniteSetTheorems, TLAPS

\* Quotients by one divisor follow their dividends.
LEMMA Quotients ==
  ASSUME NEW d \in Nat \ {0}, NEW t \in Nat, NEW max \in Nat, t <= max
  PROVE  t \div d \in 0..(max \div d)
<1>1. /\ t \div d \in Int /\ max \div d \in Int
      /\ d * (t \div d) <= t /\ t < d * (t \div d) + d
      /\ d * (max \div d) <= max /\ max < d * (max \div d) + d
  OBVIOUS
<1>2. ASSUME NEW q \in Int, NEW r \in Int, q < r PROVE d * q + d <= d * r
  <2>1. r - q - 1 \in Nat BY <1>2
  <2>2. d * (r - q - 1) >= 0 BY <2>1
  <2>. QED BY <2>2
<1>3. ~ (max \div d < t \div d) BY <1>1, <1>2
<1>4. ~ (t \div d < 0) BY <1>1, <1>2
<1>. QED BY <1>1, <1>3, <1>4

\* What a call knows at each of its steps is so.
CallIsBudgeted(c) ==
  /\ calls[c].pc = "gap" => calls[c].run < MaxRuns
  /\ calls[c].pc \in {"absent", "claim"} \cup Working => Key(c) \in Keys
  /\ calls[c].pc \in Working => intents[Key(c)] = c
  /\ calls[c].pc = "day" => minutes[MinuteKey(c)] = c
  /\ calls[c].pc = "retain" => calls[c].outcome \in Acquired /\ calls[c].capturedAt \in Times
  /\ calls[c].pc = "finish" => calls[c].outcome \in Outcomes
  /\ c \in contacted => /\ Key(c) \in Keys /\ intents[Key(c)] = c /\ Granted(c)
                        /\ calls[c].pc \in {"waiting", "retain", "finish", "ended"}

BInv == Typed /\ \A c \in Calls : CallIsBudgeted(c)

\* Nothing that is on disk is taken away or overwritten.
DiskKept ==
  /\ \A k \in Keys : intents[k] # None => intents'[k] = intents[k]
  /\ \A k \in Minutes : minutes[k] # None => minutes'[k] = minutes[k]
  /\ \A k \in Days, slot \in 1..DaySlots :
       days[k][slot] # None => days'[k][slot] = days[k][slot]

-----------------------------------------------------------------------------
LEMMA KeysInRange ==
  ASSUME Typed, NEW c \in Calls, Key(c) \in Keys
  PROVE  MinuteKey(c) \in Minutes /\ DayKey(c) \in Days /\ <<Rail[Key(c)[1]], Key(c)[2]>> \in Places
<1>1. /\ calls[c].startedAt \in Times /\ MaxTime \in Nat
      /\ MinuteLength \in Nat \ {0} /\ DayLength \in Nat \ {0}
  BY ScheduleAssumption DEF Typed, Call
<1>2. /\ calls[c].startedAt \div MinuteLength \in 0..(MaxTime \div MinuteLength)
      /\ calls[c].startedAt \div DayLength \in 0..(MaxTime \div DayLength)
  BY <1>1, Quotients DEF Times
<1>. QED BY <1>2 DEF Keys, Minutes, Days, Places, MinuteKey, DayKey, MinuteOf, DayOf

LEMMA RunKeysAreKeys == ASSUME NEW n \in 1..MaxRuns PROVE RunKey(n) \in Keys
BY ScheduleAssumption DEF RunKey, Keys

LEMMA FreshIsACall == Fresh \in Call
BY ScheduleAssumption DEF Fresh, Call, Times

\* The run a call has read up to, and the clock it began at.
LEMMA RunsOfCalls ==
  ASSUME NEW call \in Call
  PROVE  /\ MaxRuns \in Nat /\ call.run \in 0..MaxRuns /\ call.run \in Nat
         /\ (~(call.run >= MaxRuns) => call.run + 1 \in 1..MaxRuns)
<1>1. MaxRuns \in Nat BY ScheduleAssumption
<1>2. call.run \in 0..MaxRuns BY DEF Call
<1>. QED BY <1>1, <1>2

LEMMA ClocksOfCalls ==
  ASSUME NEW call \in Call
  PROVE  Times \subseteq Nat /\ call.at \in Nat
<1>1. MaxTime \in Nat BY ScheduleAssumption
<1>2. call.at \in Times BY DEF Call
<1>. QED BY <1>1, <1>2 DEF Times

\* A call that does nothing is not disturbed by what others write.
LEMMA OtherIsBudgeted ==
  ASSUME Typed, DiskKept, NEW d \in Calls, CallIsBudgeted(d), None \notin Calls,
         calls'[d] = calls[d], d \in contacted' <=> d \in contacted
  PROVE  CallIsBudgeted(d)'
<1>1. Key(d)' = Key(d) /\ MinuteKey(d)' = MinuteKey(d) /\ DayKey(d)' = DayKey(d)
  BY DEF Key, MinuteKey, DayKey
<1>2. ASSUME Key(d) \in Keys
      PROVE  /\ intents[Key(d)] = d => intents'[Key(d)] = d
             /\ minutes[MinuteKey(d)] = d => minutes'[MinuteKey(d)] = d
             /\ Granted(d) => Granted(d)'
  <2>1. MinuteKey(d) \in Minutes /\ DayKey(d) \in Days BY <1>2, KeysInRange
  <2>. QED BY <1>1, <1>2, <2>1 DEF DiskKept, Granted
<1>3. Key(d) \in Keys => (intents[Key(d)] = d => intents[Key(d)]' = d)
  BY <1>1, <1>2
<1>4. Key(d) \in Keys => (minutes[MinuteKey(d)] = d => minutes[MinuteKey(d)]' = d)
  BY <1>1, <1>2
<1>. QED BY <1>1, <1>2, <1>3, <1>4 DEF CallIsBudgeted, Working

\* A call ends, wherever it was; what it wrote remains.
LEMMA EndIsBudgeted ==
  ASSUME Typed, DiskKept, NEW c \in Calls, CallIsBudgeted(c), End(c), calls[c].pc # "ended",
         c \in contacted' <=> c \in contacted
  PROVE  calls' \in [Calls -> Call] /\ CallIsBudgeted(c)'
         /\ \A d \in Calls \ {c} : calls'[d] = calls[d]
<1> DEFINE row == [Fresh EXCEPT !.pc = "ended", !.startedAt = calls[c].startedAt,
             !.request = IF \E key \in Keys : intents[key] = c THEN calls[c].request ELSE None]
<1>1. row \in Call BY FreshIsACall DEF Fresh, Call, Typed
<1>2. calls' = [calls EXCEPT ![c] = row] BY DEF End
<1>3. calls'[c] = row /\ \A d \in Calls \ {c} : calls'[d] = calls[d]
  BY <1>2 DEF Typed
<1>4. calls' \in [Calls -> Call] BY <1>1, <1>2 DEF Typed
<1>5. row.pc = "ended" /\ row.startedAt = calls[c].startedAt BY DEF Fresh
<1>6. ASSUME c \in contacted
      PROVE  Key(c) \in Keys /\ intents'[Key(c)] = c /\ Granted(c)' /\ Key(c)' = Key(c)
  <2>1. Key(c) \in Keys /\ intents[Key(c)] = c /\ Granted(c) BY <1>6 DEF CallIsBudgeted
  <2>2. row.request = Key(c) BY <2>1 DEF Fresh, Key
  <2>3. Key(c)' = Key(c) /\ MinuteKey(c)' = MinuteKey(c) /\ DayKey(c)' = DayKey(c)
    BY <1>3, <1>5, <2>2 DEF Key, MinuteKey, DayKey
  <2>4. MinuteKey(c) \in Minutes /\ DayKey(c) \in Days BY <2>1, KeysInRange
  <2>5. c # None BY ScheduleAssumption
  <2>. QED BY <2>1, <2>3, <2>4, <2>5 DEF DiskKept, Granted
<1>7. CallIsBudgeted(c)'
  <2>1. calls'[c].pc = "ended" BY <1>3, <1>5
  <2>2. c \in contacted' => intents[Key(c)]' = c BY <1>6
  <2>. QED BY <1>6, <2>1, <2>2 DEF CallIsBudgeted, Working
<1>. QED BY <1>3, <1>4, <1>7

\* A step of one call: what is to be shown of it.
LEMMA OneCallSteps ==
  ASSUME BInv, DiskKept, Typed', NEW c \in Calls, CallIsBudgeted(c)',
         \A d \in Calls \ {c} : calls'[d] = calls[d],
         \A d \in Calls \ {c} : d \in contacted' <=> d \in contacted
  PROVE  BInv'
<1>1. ASSUME NEW d \in Calls PROVE CallIsBudgeted(d)'
  <2>1. CASE d = c BY <2>1
  <2>2. CASE d # c BY <2>2, OtherIsBudgeted, ScheduleAssumption DEF BInv
  <2>. QED BY <2>1, <2>2
<1>. QED BY <1>1 DEF BInv

\* A call that owns nothing goes on without owning anything.
LEMMA QuietStep ==
  ASSUME BInv, NEW c \in Calls, NEW row \in Call, UNCHANGED <<now, setBack, disk, contacted>>,
         calls' = [calls EXCEPT ![c] = row],
         calls[c].pc \notin {"ended"} \cup Working, row.pc \notin Working,
         row.pc = "gap" => row.run < MaxRuns,
         row.pc \in {"absent", "claim"} => row.request \in Keys
  PROVE  BInv'
<1>1. calls'[c] = row /\ \A d \in Calls \ {c} : calls'[d] = calls[d]
  BY DEF BInv, Typed
<1>2. Typed' BY DEF BInv, Typed, disk
<1>3. c \notin contacted BY DEF BInv, CallIsBudgeted, Working
<1>4. c \notin contacted' /\ contacted' = contacted BY <1>3
<1>5. CallIsBudgeted(c)' BY <1>1, <1>4 DEF CallIsBudgeted, Key, Working
<1>6. DiskKept BY DEF DiskKept, disk
<1>. QED BY <1>1, <1>2, <1>4, <1>5, <1>6, OneCallSteps

\* Every End of a call that owns nothing is such a step, and so is every Look.
LEMMA QuietEnd ==
  ASSUME BInv, NEW c \in Calls, End(c), UNCHANGED <<now, setBack, disk, contacted>>,
         calls[c].pc # "ended"
  PROVE  BInv'
<1>1. DiskKept BY DEF DiskKept, disk
<1>2. /\ calls' \in [Calls -> Call] /\ CallIsBudgeted(c)'
      /\ \A d \in Calls \ {c} : calls'[d] = calls[d]
  BY <1>1, EndIsBudgeted DEF BInv
<1>3. Typed' BY <1>2 DEF BInv, Typed, disk
<1>. QED BY <1>1, <1>2, <1>3, OneCallSteps

LEMMA QuietLook ==
  ASSUME BInv, NEW c \in Calls, NEW request \in Keys, Look(c, request),
         UNCHANGED <<now, setBack, disk, contacted>>, calls[c].pc \notin {"ended"} \cup Working
  PROVE  BInv'
<1> DEFINE row == IF intents[request] # None THEN [Fresh EXCEPT !.pc = "ended"]
                  ELSE [Fresh EXCEPT !.pc = "absent", !.request = request, !.at = calls[c].at]
<1>0. calls[c].at \in Times BY DEF BInv, Typed, Call
<1>1. row \in Call BY <1>0, FreshIsACall DEF Fresh, Call
<1>2. /\ row.pc \notin Working /\ row.pc # "gap"
      /\ row.pc \in {"absent", "claim"} => row.request \in Keys
  BY DEF Fresh, Working
<1>3. calls' = [calls EXCEPT ![c] = row] BY DEF Look
<1>. QED BY <1>1, <1>2, <1>3, QuietStep

-----------------------------------------------------------------------------
(* The schedule, and the beginning of capture().                           *)

LEMMA InvokeKeeps == ASSUME BInv, NEW c \in Calls, Invoke(c) PROVE BInv'
<1> DEFINE row == [calls[c] EXCEPT !.pc = "history", !.at = now]
<1>1. calls[c] \in Call /\ now \in Times BY DEF BInv, Typed
<1>2. row \in Call BY <1>1 DEF Call
<1>3. row.pc = "history" BY <1>1 DEF Call
<1>4. calls[c].pc = "idle" BY DEF Invoke, At
<1>5. calls' = [calls EXCEPT ![c] = row] BY DEF Invoke
<1>. QED BY <1>2, <1>3, <1>4, <1>5, QuietStep DEF Invoke, Working

LEMMA HistoryIsACall ==
  ASSUME NEW call \in Call, NEW n \in 0..MaxRuns, NEW unfinished \in BOOLEAN,
         NEW last \in Times \cup {None}
  PROVE  [call EXCEPT !.run = n, !.unfinished = unfinished, !.last = last] \in Call
BY DEF Call

LEMMA ReadRunKeeps == ASSUME BInv, NEW c \in Calls, ReadRun(c) PROVE BInv'
<1> DEFINE n == calls[c].run + 1
           row == [calls[c] EXCEPT !.run = n, !.unfinished = @ \/ Incomplete(RunKey(n)),
                     !.last = Later(@, calls[intents[RunKey(n)]].startedAt)]
<1>1. calls[c] \in Call /\ calls[c].pc = "history" BY DEF BInv, Typed, ReadRun, At
<1>2. CASE ~Valid(RunKey(n))
  BY <1>1, <1>2, QuietEnd DEF ReadRun
<1>3. CASE Valid(RunKey(n))
  <2>1. n \in 1..MaxRuns
    <3>1. n <= MaxRuns BY DEF ReadRun
    <3>. QED BY <1>1, <3>1, RunsOfCalls
  <2>2. RunKey(n) \in Keys BY <2>1, RunKeysAreKeys
  <2>3. intents[RunKey(n)] \in Calls BY <2>2 DEF ReadRun, BInv, Typed
  <2>4. calls[intents[RunKey(n)]].startedAt \in Times BY <2>3 DEF BInv, Typed, Call
  <2>5. Later(calls[c].last, calls[intents[RunKey(n)]].startedAt) \in Times \cup {None}
    BY <1>1, <2>4 DEF Later, Call
  <2>6. (calls[c].unfinished \/ Incomplete(RunKey(n))) \in BOOLEAN OBVIOUS
  <2>0. n \in 0..MaxRuns BY <2>1, ScheduleAssumption
  <2>7. row \in Call BY <1>1, <2>0, <2>5, <2>6, HistoryIsACall, Zenon
  <2>8. row.pc = "history" BY <1>1 DEF Call
  <2>9. calls' = [calls EXCEPT ![c] = row] BY <1>3 DEF ReadRun
  <2>. QED BY <1>1, <2>7, <2>8, <2>9, QuietStep DEF ReadRun, Working
<1>. QED BY <1>2, <1>3

LEMMA EndOfHistoryKeeps == ASSUME BInv, NEW c \in Calls, EndOfHistory(c) PROVE BInv'
<1>1. calls[c] \in Call /\ calls[c].pc = "history" BY DEF BInv, Typed, EndOfHistory, At
<1>2. PICK pc \in {"plan", "gap"} : Goto(c, pc) /\ (pc = "gap" => calls[c].run # MaxRuns)
  BY DEF EndOfHistory
<1> DEFINE row == [calls[c] EXCEPT !.pc = pc]
<1>3. row \in Call /\ row.pc = pc /\ row.run = calls[c].run BY <1>1 DEF Call
<1>4. calls[c].run \in 0..MaxRuns BY <1>1 DEF Call
<1>5. pc = "gap" => row.run < MaxRuns BY <1>2, <1>3, <1>4, ScheduleAssumption
<1>6. calls' = [calls EXCEPT ![c] = row] BY <1>2 DEF Goto
<1>. QED BY <1>1, <1>3, <1>5, <1>6, QuietStep DEF EndOfHistory, Working

LEMMA PlanKeeps == ASSUME BInv, NEW c \in Calls, Plan(c) PROVE BInv'
<1>1. calls[c] \in Call /\ calls[c].pc \in {"plan", "gap"} BY DEF BInv, Typed, Plan, At
<1>2. CASE End(c) BY <1>1, <1>2, QuietEnd DEF Plan
<1>3. CASE Decide(calls[c]) = "DUE" /\ Look(c, RunKey(calls[c].run + 1))
  <2>1. ~(calls[c].run >= MaxRuns) BY <1>3 DEF Decide, DecideAnyway
  <2>2. calls[c].run + 1 \in 1..MaxRuns BY <1>1, <2>1, RunsOfCalls
  <2>3. RunKey(calls[c].run + 1) \in Keys BY <2>2, RunKeysAreKeys
  <2>. QED BY <1>1, <1>3, <2>3, QuietLook DEF Plan, Working
<1>. QED BY <1>2, <1>3 DEF Plan

LEMMA DisabledKeeps == ASSUME BInv, NEW c \in Calls, Disabled(c) PROVE BInv'
BY QuietEnd DEF Disabled, At

LEMMA AskKeeps ==
  ASSUME BInv, NEW c \in Calls, NEW request \in Requests, Ask(c, request) PROVE BInv'
<1>1. request \in Keys BY ScheduleAssumption
<1>. QED BY <1>1, QuietLook DEF Ask, At, Working

LEMMA SealKeeps == ASSUME BInv, NEW c \in Calls, Seal(c) PROVE BInv'
<1>1. calls[c] \in Call /\ calls[c].pc = "absent" /\ now \in Times BY DEF BInv, Typed, Seal, At
<1>2. CASE End(c) BY <1>1, <1>2, QuietEnd DEF Seal
<1>3. CASE calls' = [calls EXCEPT ![c].pc = "claim", ![c].startedAt = now]
  <2> DEFINE row == [calls[c] EXCEPT !.pc = "claim", !.startedAt = now]
  <2>1. row \in Call /\ row.pc = "claim" /\ row.request = calls[c].request BY <1>1 DEF Call
  <2>2. row.request \in Keys BY <1>1, <2>1 DEF BInv, CallIsBudgeted, Key
  <2>3. calls' = [calls EXCEPT ![c] = row] BY <1>3
  <2>. QED BY <1>1, <2>1, <2>2, <2>3, QuietStep DEF Seal, Working
<1>. QED BY <1>2, <1>3 DEF Seal

-----------------------------------------------------------------------------
(* capture(), once it may write.                                           *)

LEMMA StopKeeps == ASSUME BInv, NEW c \in Calls, Stop(c) PROVE BInv'
BY QuietEnd DEF Stop, Working

\* A link finds no intent or changes nothing.
LEMMA ClaimKeeps == ASSUME BInv, NEW c \in Calls, Claim(c) PROVE BInv'
<1>1. calls[c] \in Call /\ calls[c].pc = "claim" /\ Key(c) \in Keys
  BY DEF BInv, Typed, Claim, At, CallIsBudgeted
<1>2. CASE intents[Key(c)] # None
  BY <1>1, <1>2, QuietEnd DEF Claim, disk
<1>3. CASE intents[Key(c)] = None
  <2>1. intents' = [intents EXCEPT ![Key(c)] = c] /\ Goto(c, "minute") BY <1>3 DEF Claim
  <2>2. DiskKept BY <1>3, <2>1 DEF DiskKept, Claim, BInv, Typed
  <2>3. [calls[c] EXCEPT !.pc = "minute"] \in Call BY <1>1 DEF Call, Working
  <2>4. /\ calls'[c] = [calls[c] EXCEPT !.pc = "minute"]
        /\ \A d \in Calls \ {c} : calls'[d] = calls[d]
        /\ calls' \in [Calls -> Call]
    BY <2>1, <2>3 DEF BInv, Typed, Goto
  <2>5. intents' \in [Keys -> Calls \cup {None}] /\ intents'[Key(c)] = c
    BY <1>1, <2>1 DEF BInv, Typed
  <2>6. Typed' BY <2>4, <2>5 DEF BInv, Typed, Claim
  <2>7. calls'[c].pc = "minute" /\ Key(c)' = Key(c) BY <1>1, <2>4 DEF Call, Key
  <2>8. intents[Key(c)]' = c BY <2>5, <2>7
  <2>9. c \notin contacted BY <1>1 DEF BInv, CallIsBudgeted
  <2>10. c \notin contacted' /\ contacted' = contacted BY <2>9 DEF Claim
  <2>11. CallIsBudgeted(c)' BY <1>1, <2>7, <2>8, <2>10 DEF CallIsBudgeted
  <2>. QED BY <2>2, <2>4, <2>6, <2>10, <2>11, OneCallSteps
<1>. QED BY <1>2, <1>3

\* A step of capture() that sets what it knows and, it may be, a slot.
LEMMA WorkingStep ==
  ASSUME BInv, DiskKept, NEW c \in Calls, calls[c].pc \in Working, NEW row \in Call,
         calls' = [calls EXCEPT ![c] = row],
         row.request = calls[c].request, row.startedAt = calls[c].startedAt,
         row.pc \in Working,
         row.pc = "day" => minutes'[MinuteKey(c)] = c,
         row.pc = "retain" => row.outcome \in Acquired /\ row.capturedAt \in Times,
         row.pc = "finish" => row.outcome \in Outcomes,
         c \in contacted' => row.pc \in {"waiting", "retain", "finish"},
         c \in contacted' /\ c \notin contacted =>
           /\ minutes'[MinuteKey(c)] = c
           /\ \E slot \in 1..DaySlots : days'[DayKey(c)][slot] = c,
         \A d \in Calls \ {c} : d \in contacted' <=> d \in contacted,
         calls' \in [Calls -> Call] => Typed'
  PROVE  BInv'
<1>1. calls'[c] = row /\ \A d \in Calls \ {c} : calls'[d] = calls[d]
  BY DEF BInv, Typed
<1>2. Typed' BY DEF BInv, Typed
<1>3. Key(c)' = Key(c) /\ MinuteKey(c)' = MinuteKey(c) /\ DayKey(c)' = DayKey(c)
  BY <1>1 DEF Key, MinuteKey, DayKey
<1>4. Key(c) \in Keys /\ intents[Key(c)] = c /\ c # None
  BY ScheduleAssumption DEF BInv, CallIsBudgeted
<1>5. intents[Key(c)]' = c BY <1>3, <1>4 DEF DiskKept
<1>6. MinuteKey(c) \in Minutes /\ DayKey(c) \in Days BY <1>4, KeysInRange DEF BInv
<1>7. c \in contacted => Granted(c) BY DEF BInv, CallIsBudgeted
<1>8. c \in contacted => minutes'[MinuteKey(c)] = c
                        /\ \E slot \in 1..DaySlots : days'[DayKey(c)][slot] = c
  BY <1>4, <1>6, <1>7 DEF DiskKept, Granted
<1>9. c \in contacted' => Granted(c)' BY <1>3, <1>8 DEF Granted
<1>10. minutes[MinuteKey(c)]' = minutes'[MinuteKey(c)] BY <1>3
<1>11. CallIsBudgeted(c)' BY <1>1, <1>3, <1>4, <1>5, <1>9, <1>10 DEF CallIsBudgeted, Working
<1>. QED BY <1>1, <1>2, <1>11, OneCallSteps

LEMMA DeniedRow ==
  ASSUME NEW call \in Call
  PROVE  LET row == [call EXCEPT !.pc = "finish", !.outcome = "LOCAL_BUDGET_EXHAUSTED"] IN
         /\ row \in Call /\ row.pc = "finish" /\ row.outcome \in Outcomes
         /\ row.request = call.request /\ row.startedAt = call.startedAt
BY DEF Call, Working, Outcomes

LEMMA PassedRow ==
  ASSUME NEW call \in Call, NEW pc \in Working
  PROVE  LET row == [call EXCEPT !.pc = pc] IN
         /\ row \in Call /\ row.pc = pc /\ row.outcome = call.outcome
         /\ row.request = call.request /\ row.startedAt = call.startedAt
         /\ row.capturedAt = call.capturedAt
BY DEF Call

LEMMA ReserveMinuteKeeps == ASSUME BInv, NEW c \in Calls, ReserveMinute(c) PROVE BInv'
<1>1. calls[c] \in Call /\ calls[c].pc = "minute" /\ Key(c) \in Keys /\ calls[c].pc \in Working
  BY DEF BInv, Typed, ReserveMinute, At, CallIsBudgeted, Working
<1>2. MinuteKey(c) \in Minutes BY <1>1, KeysInRange DEF BInv
<1>3. c \notin contacted /\ contacted' = contacted
  BY <1>1 DEF BInv, CallIsBudgeted, ReserveMinute
<1>4. CASE minutes[MinuteKey(c)] # None
  <2> DEFINE row == [calls[c] EXCEPT !.pc = "finish", !.outcome = "LOCAL_BUDGET_EXHAUSTED"]
  <2>1. /\ row \in Call /\ row.pc = "finish" /\ row.outcome \in Outcomes
        /\ row.request = calls[c].request /\ row.startedAt = calls[c].startedAt
    BY <1>1, DeniedRow
  <2>2. calls' = [calls EXCEPT ![c] = row] BY <1>4 DEF ReserveMinute, Denied
  <2>3. DiskKept BY <1>4 DEF ReserveMinute, DiskKept
  <2>4. calls' \in [Calls -> Call] => Typed' BY <1>4 DEF BInv, Typed, ReserveMinute
  <2> HIDE DEF row
  <2>. QED BY <1>1, <1>3, <2>1, <2>2, <2>3, <2>4, WorkingStep DEF Working
<1>5. CASE minutes[MinuteKey(c)] = None
  <2> DEFINE row == [calls[c] EXCEPT !.pc = "day"]
  <2>1. /\ row \in Call /\ row.pc = "day"
        /\ row.request = calls[c].request /\ row.startedAt = calls[c].startedAt
    BY <1>1, PassedRow DEF Working
  <2>2. calls' = [calls EXCEPT ![c] = row] /\ minutes' = [minutes EXCEPT ![MinuteKey(c)] = c]
    BY <1>5 DEF ReserveMinute, Goto
  <2>3. DiskKept BY <1>5, <2>2 DEF ReserveMinute, DiskKept, BInv, Typed
  <2>4. minutes'[MinuteKey(c)] = c /\ minutes' \in [Minutes -> Calls \cup {None}]
    BY <1>2, <2>2 DEF BInv, Typed
  <2>5. calls' \in [Calls -> Call] => Typed' BY <2>4 DEF BInv, Typed, ReserveMinute
  <2> HIDE DEF row
  <2>. QED BY <1>1, <1>3, <2>1, <2>2, <2>3, <2>4, <2>5, WorkingStep DEF Working
<1>. QED BY <1>4, <1>5

LEMMA ReserveDayKeeps == ASSUME BInv, NEW c \in Calls, ReserveDay(c) PROVE BInv'
<1> DEFINE slot == calls[c].slot
<1>1. calls[c] \in Call /\ calls[c].pc = "day" /\ Key(c) \in Keys /\ calls[c].pc \in Working
      /\ minutes[MinuteKey(c)] = c
  BY DEF BInv, Typed, ReserveDay, At, CallIsBudgeted, Working
<1>2. MinuteKey(c) \in Minutes /\ DayKey(c) \in Days BY <1>1, KeysInRange DEF BInv
<1>3. c \notin contacted BY <1>1 DEF BInv, CallIsBudgeted
<1>4. slot \in 1..(DaySlots + 1) /\ DaySlots \in Nat BY <1>1, ScheduleAssumption DEF Call
<1>5. CASE slot > DaySlots
  <2> DEFINE row == [calls[c] EXCEPT !.pc = "finish", !.outcome = "LOCAL_BUDGET_EXHAUSTED"]
  <2>1. /\ row \in Call /\ row.pc = "finish" /\ row.outcome \in Outcomes
        /\ row.request = calls[c].request /\ row.startedAt = calls[c].startedAt
    BY <1>1, DeniedRow
  <2>2. calls' = [calls EXCEPT ![c] = row] /\ contacted' = contacted BY <1>5 DEF ReserveDay, Denied
  <2>3. DiskKept BY <1>5 DEF ReserveDay, DiskKept
  <2>4. calls' \in [Calls -> Call] => Typed' BY <1>5 DEF BInv, Typed, ReserveDay
  <2> HIDE DEF row
  <2>. QED BY <1>1, <1>3, <2>1, <2>2, <2>3, <2>4, WorkingStep DEF Working
<1>6. CASE slot <= DaySlots /\ days[DayKey(c)][slot] # None
  <2> DEFINE row == [calls[c] EXCEPT !.slot = slot + 1]
  <2>1. /\ row \in Call /\ row.pc = "day"
        /\ row.request = calls[c].request /\ row.startedAt = calls[c].startedAt
    BY <1>1, <1>4, <1>6 DEF Call
  <2>2. calls' = [calls EXCEPT ![c] = row] /\ contacted' = contacted BY <1>4, <1>6 DEF ReserveDay
  <2>3. DiskKept BY <1>4, <1>6 DEF ReserveDay, DiskKept
  <2>4. calls' \in [Calls -> Call] => Typed' BY <1>4, <1>6 DEF BInv, Typed, ReserveDay
  <2>5. minutes'[MinuteKey(c)] = c BY <1>1 DEF ReserveDay
  <2> HIDE DEF row
  <2>. QED BY <1>1, <1>3, <2>1, <2>2, <2>3, <2>4, <2>5, WorkingStep DEF Working
<1>7. CASE slot <= DaySlots /\ days[DayKey(c)][slot] = None
  <2> DEFINE row == [calls[c] EXCEPT !.pc = "waiting"]
  <2>1. /\ row \in Call /\ row.pc = "waiting"
        /\ row.request = calls[c].request /\ row.startedAt = calls[c].startedAt
    BY <1>1, PassedRow DEF Working
  <2>2. /\ calls' = [calls EXCEPT ![c] = row] /\ contacted' = contacted \cup {c}
        /\ days' = [days EXCEPT ![DayKey(c)][slot] = c]
    BY <1>4, <1>7 DEF ReserveDay, Goto
  <2>3. slot \in 1..DaySlots BY <1>4, <1>7
  <2>4. days[DayKey(c)] \in [1..DaySlots -> Calls \cup {None}] BY <1>2 DEF BInv, Typed
  <2>5. days' = [days EXCEPT ![DayKey(c)] = [days[DayKey(c)] EXCEPT ![slot] = c]] BY <2>2
  <2>6. [days[DayKey(c)] EXCEPT ![slot] = c] \in [1..DaySlots -> Calls \cup {None}] BY <2>4
  <2>7. days' \in [Days -> [1..DaySlots -> Calls \cup {None}]] BY <2>5, <2>6 DEF BInv, Typed
  <2>8. days'[DayKey(c)][slot] = c BY <1>2, <2>3, <2>4, <2>5 DEF BInv, Typed
  <2>9. ASSUME NEW k \in Days, NEW s \in 1..DaySlots, days[k][s] # None
        PROVE  days'[k][s] = days[k][s]
    <3>1. CASE k = DayKey(c)
      <4>1. days'[k] = [days[DayKey(c)] EXCEPT ![slot] = c] BY <3>1, <2>5, <1>2 DEF BInv, Typed
      <4>2. s # slot BY <1>7, <2>9, <3>1
      <4>. QED BY <3>1, <4>1, <4>2, <2>4
    <3>2. CASE k # DayKey(c) BY <3>2, <2>5 DEF BInv, Typed
    <3>. QED BY <3>1, <3>2
  <2>10. DiskKept BY <2>9 DEF ReserveDay, DiskKept
  <2>11. calls' \in [Calls -> Call] => Typed' BY <2>2, <2>7 DEF BInv, Typed, ReserveDay
  <2>12. minutes'[MinuteKey(c)] = c BY <1>1 DEF ReserveDay
  <2> HIDE DEF row
  <2>. QED BY <1>1, <1>3, <2>1, <2>2, <2>3, <2>8, <2>10, <2>11, <2>12, WorkingStep DEF Working
<1>. QED BY <1>4, <1>5, <1>6, <1>7

LEMMA RespondKeeps ==
  ASSUME BInv, NEW c \in Calls, NEW outcome \in {"FETCH_FAILED", "CAPTURED", "QUARANTINED"},
         Respond(c, outcome)
  PROVE  BInv'
<1>1. calls[c] \in Call /\ calls[c].pc = "waiting" /\ calls[c].pc \in Working /\ now \in Times
  BY DEF BInv, Typed, Respond, At, Working
<1>2. DiskKept /\ contacted' = contacted BY DEF Respond, DiskKept, disk
<1>3. calls' \in [Calls -> Call] => Typed' BY DEF BInv, Typed, Respond, disk
<1>4. PICK pc \in {"retain", "finish"}, at \in Times \cup {None} :
        /\ calls' = [calls EXCEPT ![c] = [calls[c] EXCEPT !.pc = pc, !.outcome = outcome, !.capturedAt = at]]
        /\ pc = "retain" => outcome \in Acquired /\ at \in Times
  <2>1. CASE outcome = "FETCH_FAILED"
    <3>1. calls' = [calls EXCEPT ![c] = [calls[c] EXCEPT !.pc = "finish", !.outcome = outcome]]
      BY <2>1 DEF Respond
    <3>2. calls[c].capturedAt \in Times \cup {None} BY <1>1 DEF Call
    <3>3. [calls[c] EXCEPT !.pc = "finish", !.outcome = outcome]
            = [calls[c] EXCEPT !.pc = "finish", !.outcome = outcome, !.capturedAt = calls[c].capturedAt]
      BY <1>1 DEF Call
    <3>. QED BY <3>1, <3>2, <3>3
  <2>2. CASE outcome # "FETCH_FAILED"
    <3>1. calls' = [calls EXCEPT ![c] = [calls[c] EXCEPT !.pc = "retain", !.outcome = outcome, !.capturedAt = now]]
      BY <2>2 DEF Respond
    <3>. QED BY <1>1, <2>2, <3>1 DEF Acquired
  <2>. QED BY <2>1, <2>2
<1> DEFINE row == [calls[c] EXCEPT !.pc = pc, !.outcome = outcome, !.capturedAt = at]
<1>5. /\ row \in Call /\ row.pc = pc /\ row.outcome = outcome /\ row.capturedAt = at
      /\ row.request = calls[c].request /\ row.startedAt = calls[c].startedAt
  <2>1. /\ row.pc = pc /\ row.outcome = outcome /\ row.capturedAt = at
        /\ row.request = calls[c].request /\ row.startedAt = calls[c].startedAt
    BY <1>1 DEF Call
  <2>2. pc \in Working /\ outcome \in Outcomes
    BY DEF Working, Outcomes, Acquired
  <2>3. row \in Call
    BY <1>1, <2>2 DEF Call
  <2>. QED BY <2>1, <2>3
<1>6. calls' = [calls EXCEPT ![c] = row] BY <1>4
<1>7. outcome \in Outcomes BY DEF Outcomes, Acquired
<1> HIDE DEF row
<1>. QED BY <1>1, <1>2, <1>3, <1>4, <1>5, <1>6, <1>7, WorkingStep DEF Working

LEMMA RetainKeeps == ASSUME BInv, NEW c \in Calls, Retain(c) PROVE BInv'
<1> DEFINE place == <<Rail[Key(c)[1]], Key(c)[2]>>
           record == [source |-> Key(c)[1], at |-> calls[c].capturedAt,
                      parses |-> calls[c].outcome = "CAPTURED"]
           row == [calls[c] EXCEPT !.pc = "finish"]
<1>1. calls[c] \in Call /\ calls[c].pc = "retain" /\ Key(c) \in Keys /\ calls[c].pc \in Working
      /\ calls[c].outcome \in Acquired /\ calls[c].capturedAt \in Times
  BY DEF BInv, Typed, Retain, At, CallIsBudgeted, Working
<1>2. DiskKept /\ contacted' = contacted BY DEF Retain, DiskKept
<1>3. CASE End(c) /\ UNCHANGED evidence
  BY <1>1, <1>3, QuietEnd DEF Retain, disk
<1>4. CASE evidence' = [evidence EXCEPT ![place] = record] /\ Goto(c, "finish")
  <2>1. /\ row \in Call /\ row.pc = "finish" /\ row.outcome = calls[c].outcome
        /\ row.request = calls[c].request /\ row.startedAt = calls[c].startedAt
    BY <1>1, PassedRow DEF Working
  <2>2. calls' = [calls EXCEPT ![c] = row] BY <1>4 DEF Goto
  <2>3. record \in Acquisition BY <1>1 DEF Acquisition, Keys
  <2>4. evidence' \in [Places -> Acquisition \cup {None}] BY <1>4, <2>3 DEF BInv, Typed
  <2>5. calls' \in [Calls -> Call] => Typed' BY <2>4 DEF BInv, Typed, Retain
  <2>6. row.outcome \in Outcomes BY <1>1, <2>1 DEF Outcomes
  <2> HIDE DEF row
  <2>. QED BY <1>1, <1>2, <2>1, <2>2, <2>5, <2>6, WorkingStep DEF Working
<1>. QED BY <1>3, <1>4 DEF Retain

LEMMA FinishKeeps == ASSUME BInv, NEW c \in Calls, Finish(c) PROVE BInv'
<1> DEFINE receipt ==
      [state |-> IF calls[c].outcome \in Acquired THEN calls[c].outcome ELSE "FAILED",
       code |-> calls[c].outcome, at |-> now]
<1>1. calls[c] \in Call /\ calls[c].pc = "finish" /\ calls[c].outcome \in Outcomes /\ now \in Times
  BY DEF BInv, Typed, Finish, FinishAnyway, At, CallIsBudgeted
<1>2. receipts' = [receipts EXCEPT ![Key(c)] = receipt] /\ End(c)
  BY DEF Finish, FinishAnyway, Acquired
<1>3. receipt \in Receipt BY <1>1 DEF Receipt
<1>4. receipts' \in [Keys -> Receipt \cup {None}] BY <1>2, <1>3 DEF BInv, Typed
<1>5. DiskKept /\ contacted' = contacted BY DEF Finish, FinishAnyway, DiskKept
<1>6. /\ calls' \in [Calls -> Call] /\ CallIsBudgeted(c)'
      /\ \A d \in Calls \ {c} : calls'[d] = calls[d]
  BY <1>1, <1>2, <1>5, EndIsBudgeted DEF BInv
<1>7. Typed' BY <1>4, <1>6 DEF BInv, Typed, Finish, FinishAnyway
<1>. QED BY <1>5, <1>6, <1>7, OneCallSteps

\* The clock moves, or nothing does.
LEMMA ClockKeeps ==
  ASSUME BInv, UNCHANGED <<disk, contacted, calls>>, now' \in Times, setBack' \in BOOLEAN
  PROVE  BInv'
<1>1. Typed' BY DEF BInv, Typed, disk
<1>2. DiskKept BY DEF DiskKept, disk
<1>3. ASSUME NEW d \in Calls PROVE CallIsBudgeted(d)'
  BY <1>2, OtherIsBudgeted, ScheduleAssumption DEF BInv
<1>. QED BY <1>1, <1>3 DEF BInv

LEMMA BudgetInitial == Init => BInv
<1> SUFFICES ASSUME Init PROVE BInv OBVIOUS
<1>1. MaxTime \in Nat /\ 0 \in Times BY ScheduleAssumption DEF Times
<1>2. Typed BY <1>1, FreshIsACall DEF Init, Typed
<1>3. ASSUME NEW c \in Calls PROVE CallIsBudgeted(c)
  BY DEF Init, CallIsBudgeted, Fresh, Working
<1>. QED BY <1>2, <1>3 DEF BInv

LEMMA BudgetKept == BInv /\ [Next]_vars => BInv'
<1> SUFFICES ASSUME BInv, [Next]_vars PROVE BInv' OBVIOUS
<1>1. now \in Times /\ setBack \in BOOLEAN /\ MaxTime \in Nat
  BY ScheduleAssumption DEF BInv, Typed
<1>2. CASE Tick BY <1>1, <1>2, ClockKeeps DEF Tick, Times
<1>3. CASE SetBack
  <2>1. PICK t \in 0..(now - 1) : now' = t BY <1>3 DEF SetBack
  <2>2. now' \in Times BY <1>1, <2>1 DEF Times
  <2>. QED BY <1>3, <2>2, ClockKeeps DEF SetBack
<1>4. CASE UNCHANGED vars BY <1>1, <1>4, ClockKeeps DEF vars
<1>5. ASSUME NEW c \in Calls,
             \/ Invoke(c) \/ ReadRun(c) \/ EndOfHistory(c) \/ Disabled(c) \/ Plan(c)
             \/ \E request \in Requests : Ask(c, request)
             \/ Seal(c) \/ Claim(c) \/ ReserveMinute(c) \/ ReserveDay(c)
             \/ \E outcome \in {"FETCH_FAILED", "CAPTURED", "QUARANTINED"} : Respond(c, outcome)
             \/ Retain(c) \/ Finish(c) \/ Stop(c)
      PROVE  BInv'
  BY <1>5, InvokeKeeps, ReadRunKeeps, EndOfHistoryKeeps, DisabledKeeps, PlanKeeps, AskKeeps,
     SealKeeps, ClaimKeeps, ReserveMinuteKeeps, ReserveDayKeeps, RespondKeeps, RetainKeeps,
     FinishKeeps, StopKeeps
<1>. QED BY <1>2, <1>3, <1>4, <1>5 DEF Next

-----------------------------------------------------------------------------
\* What the slots say of the calls that were let through: each id, each minute
\* and each slot of a day is one call's, and a day has so many slots.
LEMMA SlotsLimitContacts == BInv => TypeOK /\ ContactsAreBudgeted
<1> SUFFICES ASSUME BInv PROVE TypeOK /\ ContactsAreBudgeted OBVIOUS
<1>1. \A c \in contacted : c \in Calls /\ Key(c) \in Keys /\ intents[Key(c)] = c /\ Granted(c)
  BY DEF BInv, Typed, CallIsBudgeted
<1>2. TypeOK BY <1>1 DEF BInv, TypeOK
<1>3. ASSUME NEW c \in contacted, NEW d \in contacted, d # c
      PROVE  Key(d) # Key(c) /\ MinuteKey(d) # MinuteKey(c)
  BY <1>1, <1>3 DEF Granted
<1>4. ASSUME NEW c \in contacted
      PROVE  LET sameSource == {d \in contacted : Key(d)[1] = Key(c)[1]}
             IN Cardinality({d \in sameSource : DayKey(d) = DayKey(c)}) <= DaySlots
  <2> DEFINE sameDay == {d \in contacted : Key(d)[1] = Key(c)[1] /\ DayKey(d) = DayKey(c)}
             slotOf == [d \in sameDay |-> CHOOSE slot \in 1..DaySlots : days[DayKey(c)][slot] = d]
  <2>1. ASSUME NEW d \in sameDay
        PROVE  slotOf[d] \in 1..DaySlots /\ days[DayKey(c)][slotOf[d]] = d
    <3>1. \E slot \in 1..DaySlots : days[DayKey(c)][slot] = d BY <1>1, <2>1 DEF Granted
    <3>. QED BY <3>1
  <2>2. slotOf \in Injection(sameDay, 1..DaySlots) BY <2>1 DEF Injection, IsInjective
  <2>3. DaySlots \in Nat BY ScheduleAssumption
  <2>4. IsFiniteSet(1..DaySlots) /\ Cardinality(1..DaySlots) = DaySlots BY <2>3, FS_Interval
  <2>6. Cardinality(sameDay) <= DaySlots
    <3> HIDE DEF sameDay, slotOf
    <3>1. Cardinality(sameDay) <= Cardinality(1..DaySlots) BY <2>2, <2>4, FS_Injection
    <3>. QED BY <2>4, <3>1
  <2>7. sameDay = {d \in {e \in contacted : Key(e)[1] = Key(c)[1]} : DayKey(d) = DayKey(c)}
    OBVIOUS
  <2>. QED BY <2>6, <2>7
<1>. QED BY <1>2, <1>3, <1>4 DEF ContactsAreBudgeted

\* A source is contacted at most once for an id, once for requests begun in one
\* minute and, for those begun in one day, as often as the day has slots, for any
\* number of processes, killed anywhere and with their clock set back.
THEOREM ContactsWithinBudget == Spec => [](TypeOK /\ ContactsAreBudgeted)
<1>1. Spec => []BInv BY BudgetInitial, BudgetKept, PTL DEF Spec
<1>. QED BY <1>1, SlotsLimitContacts, PTL

\* Every file is well formed, and a source was contacted only under an intent.
THEOREM TypeCorrect == Spec => []TypeOK
BY ContactsWithinBudget, PTL

-----------------------------------------------------------------------------
(* What is on disk validates.                                              *)

RailsDiffer == \A s, t \in Sources : Rail[s] = Rail[t] => s = t

\* Nothing of the call's is on disk before its first slot, and afterwards what
\* it has still to record can be recorded.
CallIsRecorded(c) ==
  /\ calls[c].pc \notin {"day", "waiting", "retain", "finish", "ended"} =>
       calls[c].slot = 1 /\ \A k \in Minutes : minutes[k] # c
  /\ calls[c].pc \notin {"waiting", "retain", "finish", "ended"} =>
       \A k \in Days, slot \in 1..DaySlots : days[k][slot] # c
  /\ calls[c].pc \in {"claim"} \cup Working => calls[c].startedAt < PolicyEnds
  /\ calls[c].pc \in Working => receipts[Key(c)] = None
  /\ calls[c].pc \in {"minute", "day", "waiting", "retain"} => EvidenceOf(Key(c)) = None
  /\ calls[c].pc \in {"waiting", "retain"} => c \in contacted
  /\ calls[c].pc = "day" =>
       \A slot \in 1..(calls[c].slot - 1) : days[DayKey(c)][slot] # None
  /\ calls[c].pc = "retain" => calls[c].capturedAt >= calls[c].startedAt
  /\ calls[c].pc = "finish" =>
       /\ calls[c].outcome = "LOCAL_BUDGET_EXHAUSTED" => DenialShown(c) /\ EvidenceOf(Key(c)) = None
       /\ calls[c].outcome = "FETCH_FAILED" => Granted(c) /\ EvidenceOf(Key(c)) = None
       /\ calls[c].outcome \in Acquired =>
            EvidenceOf(Key(c)) # None /\
            EvidenceOf(Key(c)) = [source |-> Key(c)[1], at |-> calls[c].capturedAt,
                                  parses |-> calls[c].outcome = "CAPTURED"]

\* The files of an id are its owner's, and inspect() accepts them.
KeyIsRecorded(key) ==
  /\ \A c \in Calls : intents[key] = c =>
       Key(c) = key /\ calls[c].pc \in Working \cup {"ended"}
  /\ Valid(key)
  /\ EvidenceOf(key) # None => EvidenceOf(key).at < PolicyEnds

HInv ==
  /\ BInv
  /\ \A c \in Calls : CallIsRecorded(c)
  /\ \A key \in Keys : KeyIsRecorded(key)

\* The slots of a call that keeps its id and its start.
LEMMA SlotsKept ==
  ASSUME Typed, DiskKept, NEW c \in Calls, Key(c) \in Keys,
         calls'[c].request = calls[c].request, calls'[c].startedAt = calls[c].startedAt
  PROVE  /\ Key(c)' = Key(c) /\ DayKey(c)' = DayKey(c) /\ MinuteKey(c)' = MinuteKey(c)
         /\ Granted(c) => Granted(c)'
         /\ DenialShown(c) => DenialShown(c)'
<1>1. Key(c)' = Key(c) /\ DayKey(c)' = DayKey(c) /\ MinuteKey(c)' = MinuteKey(c)
  BY DEF Key, MinuteKey, DayKey
<1>2. MinuteKey(c) \in Minutes /\ DayKey(c) \in Days /\ c # None
  BY KeysInRange, ScheduleAssumption
<1>. QED BY <1>1, <1>2 DEF DiskKept, Granted, DenialShown

\* A key whose files are not written to.
LEMMA KeyUntouched ==
  ASSUME HInv, DiskKept, NEW key \in Keys, intents'[key] = intents[key],
         receipts'[key] = receipts[key], EvidenceOf(key)' = EvidenceOf(key),
         \A c \in Calls : intents[key] = c =>
           /\ calls'[c].request = calls[c].request /\ calls'[c].startedAt = calls[c].startedAt
           /\ calls'[c].pc \in Working \cup {"ended"}
  PROVE  KeyIsRecorded(key)'
<1>1. KeyIsRecorded(key) BY DEF HInv
<1>2. ASSUME NEW c \in Calls, intents'[key] = c
      PROVE  /\ Key(c)' = key /\ calls'[c].pc \in Working \cup {"ended"}
             /\ calls'[c].startedAt < PolicyEnds
             /\ EvidenceOf(key) # None =>
                  EvidenceOf(key).source = key[1] /\ EvidenceOf(key).at >= calls'[c].startedAt /\ Granted(c)'
             /\ receipts[key] # None => \A receipt, acquired :
                  receipt = receipts[key] /\ acquired = EvidenceOf(key) => ReceiptHolds(c, receipt, acquired)'
  <2>1. Key(c) = key /\ calls'[c].request = calls[c].request /\ calls'[c].startedAt = calls[c].startedAt
    BY <1>1, <1>2 DEF KeyIsRecorded
  <2>2. /\ Key(c)' = key
        /\ Granted(c) => Granted(c)'
        /\ DenialShown(c) => DenialShown(c)'
    BY <2>1, SlotsKept DEF HInv, BInv
  <2>. QED BY <1>1, <1>2, <2>1, <2>2 DEF KeyIsRecorded, Valid, ReceiptHolds
<1>3. Valid(key)' BY <1>1, <1>2 DEF KeyIsRecorded, Valid, ReceiptHolds
<1>. QED BY <1>1, <1>2, <1>3 DEF KeyIsRecorded

\* No slot has become d's.
NoSlotFor(d) ==
  /\ \A k \in Minutes : minutes'[k] = d => minutes[k] = d
  /\ \A k \in Days, slot \in 1..DaySlots : days'[k][slot] = d => days[k][slot] = d

\* A call that does nothing, whose files are not written to either.
LEMMA OtherIsRecorded ==
  ASSUME HInv, DiskKept, NEW d \in Calls, calls'[d] = calls[d], d \in contacted' <=> d \in contacted,
         NoSlotFor(d),
         calls[d].pc \in Working => \A key \in Keys : intents[key] = d =>
           receipts'[key] = receipts[key] /\ EvidenceOf(key)' = EvidenceOf(key)
  PROVE  CallIsRecorded(d)'
<1>1. CallIsRecorded(d) /\ CallIsBudgeted(d) BY DEF HInv, BInv
<1>2. CASE calls[d].pc \notin Working
  BY <1>1, <1>2 DEF CallIsRecorded, Working, NoSlotFor
<1>3. CASE calls[d].pc \in Working
  <2>1. Key(d) \in Keys /\ intents[Key(d)] = d BY <1>1, <1>3 DEF CallIsBudgeted
  <2>2. /\ Key(d)' = Key(d) /\ DayKey(d)' = DayKey(d) /\ DayKey(d) \in Days
        /\ Granted(d) => Granted(d)'
        /\ DenialShown(d) => DenialShown(d)'
    BY <2>1, SlotsKept, KeysInRange DEF HInv, BInv
  <2>3. PICK key \in Keys : key = Key(d) BY <2>1
  <2>4. receipts'[key] = receipts[key] /\ EvidenceOf(key)' = EvidenceOf(key)
    BY <1>3, <2>1, <2>3
  <2>5. receipts[Key(d)]' = receipts[Key(d)] BY <2>2, <2>3, <2>4
  <2>6. EvidenceOf(Key(d))' = EvidenceOf(Key(d)) BY <2>2, <2>3, <2>4 DEF EvidenceOf, Key
  <2>7. ASSUME calls[d].pc = "day", NEW slot \in 1..(calls[d].slot - 1)
        PROVE  days'[DayKey(d)][slot] # None
    <3>1. calls[d].slot \in 1..(DaySlots + 1) /\ DaySlots \in Nat
      BY ScheduleAssumption DEF HInv, BInv, Typed, Call
    <3>2. slot \in 1..DaySlots BY <2>7, <3>1
    <3>3. days[DayKey(d)][slot] # None BY <1>1, <2>7 DEF CallIsRecorded
    <3>. QED BY <2>2, <3>2, <3>3 DEF DiskKept
  <2>. QED BY <1>1, <1>3, <2>2, <2>5, <2>6, <2>7 DEF CallIsRecorded, NoSlotFor
<1>. QED BY <1>2, <1>3

\* A step of one call: what is to be shown of it.
LEMMA OneCallRecords ==
  ASSUME HInv, BInv', DiskKept, NEW c \in Calls, CallIsRecorded(c)',
         \A d \in Calls \ {c} : calls'[d] = calls[d] /\ (d \in contacted' <=> d \in contacted),
         \A d \in Calls \ {c} : NoSlotFor(d),
         \A key \in Keys : intents'[key] \in Calls \ {c} => intents[key] = intents'[key],
         \A key \in Keys : intents'[key] # c =>
           receipts'[key] = receipts[key] /\ EvidenceOf(key)' = EvidenceOf(key),
         \A key \in Keys : intents'[key] = c => KeyIsRecorded(key)'
  PROVE  HInv'
<1>1. intents \in [Keys -> Calls \cup {None}] /\ intents' \in [Keys -> Calls \cup {None}] /\ None \notin Calls
  BY ScheduleAssumption DEF HInv, BInv, Typed
<1>2. ASSUME NEW d \in Calls \ {c} PROVE CallIsRecorded(d)'
  <2>1. ASSUME NEW key \in Keys, intents[key] = d
        PROVE  receipts'[key] = receipts[key] /\ EvidenceOf(key)' = EvidenceOf(key)
    BY <1>1, <2>1 DEF DiskKept
  <2>. QED BY <2>1, OtherIsRecorded
<1>3. ASSUME NEW key \in Keys, intents'[key] # c PROVE KeyIsRecorded(key)'
  <2>1. intents'[key] = intents[key] BY <1>1, <1>3 DEF DiskKept
  <2>2. ASSUME NEW d \in Calls, intents[key] = d
        PROVE  /\ calls'[d].request = calls[d].request /\ calls'[d].startedAt = calls[d].startedAt
               /\ calls'[d].pc \in Working \cup {"ended"}
    <3>1. d # c BY <1>3, <2>1, <2>2
    <3>2. calls[d].pc \in Working \cup {"ended"} BY <2>2 DEF HInv, KeyIsRecorded
    <3>. QED BY <3>1, <3>2
  <2>. QED BY <1>3, <2>1, <2>2, KeyUntouched
<1>. QED BY <1>2, <1>3 DEF HInv

Quiet(c) ==
  \/ Invoke(c) \/ ReadRun(c) \/ EndOfHistory(c) \/ Disabled(c) \/ Plan(c)
  \/ \E request \in Requests : Ask(c, request)
  \/ Seal(c)

LEMMA EndRow ==
  ASSUME Typed, NEW c \in Calls, End(c)
  PROVE  /\ \A d \in Calls \ {c} : calls'[d] = calls[d]
         /\ calls'[c].pc = "ended" /\ calls'[c].startedAt = calls[c].startedAt /\ calls'[c].slot = 1
         /\ \A key \in Keys : intents[key] = c => calls'[c].request = calls[c].request
BY DEF Typed, End, Fresh

LEMMA LookRow ==
  ASSUME Typed, NEW c \in Calls, NEW request \in Keys, Look(c, request)
  PROVE  /\ \A d \in Calls \ {c} : calls'[d] = calls[d]
         /\ calls'[c].pc \in {"ended", "absent"} /\ calls'[c].slot = 1
         /\ calls'[c].pc = "absent" => calls'[c].request = request /\ calls'[c].at = calls[c].at
BY DEF Typed, Look, Fresh

\* What the schedule and the beginning of capture() do to a call.
LEMMA QuietRow ==
  ASSUME BInv, NEW c \in Calls, Quiet(c)
  PROVE  /\ UNCHANGED <<disk, contacted>>
         /\ \A d \in Calls \ {c} : calls'[d] = calls[d]
         /\ calls[c].pc \notin {"ended"} \cup Working
         /\ calls'[c].pc \notin Working /\ (calls[c].slot = 1 => calls'[c].slot = 1)
         /\ calls'[c].pc = "claim" => calls'[c].startedAt < PolicyEnds
<1>1. Typed /\ calls[c] \in Call BY DEF BInv, Typed
<1>2. CASE Invoke(c) BY <1>1, <1>2 DEF Invoke, Typed, Call, At, Working
<1>3. CASE ReadRun(c)
  <2>1. CASE End(c) BY <1>1, <1>3, <2>1, EndRow DEF ReadRun, At, Working
  <2>2. CASE ~End(c)
    BY <1>1, <1>3, <2>2 DEF ReadRun, At, Working, Typed, Call
  <2>. QED BY <2>1, <2>2
<1>4. CASE EndOfHistory(c) BY <1>1, <1>4 DEF EndOfHistory, Goto, Typed, Call, At, Working
<1>5. CASE Disabled(c) BY <1>1, <1>5, EndRow DEF Disabled, At, Working
<1>6. CASE Plan(c)
  <2>1. CASE End(c) BY <1>1, <1>6, <2>1, EndRow DEF Plan, At, Working
  <2>2. CASE Decide(calls[c]) = "DUE" /\ Look(c, RunKey(calls[c].run + 1))
    <3>1. ~(calls[c].run >= MaxRuns) BY <2>2 DEF Decide, DecideAnyway
    <3>2. calls[c].run + 1 \in 1..MaxRuns BY <1>1, <3>1, RunsOfCalls
    <3>3. RunKey(calls[c].run + 1) \in Keys BY <3>2, RunKeysAreKeys
    <3>. QED BY <1>1, <1>6, <2>2, <3>3, LookRow DEF Plan, At, Working
  <2>. QED BY <1>6, <2>1, <2>2 DEF Plan
<1>7. ASSUME NEW request \in Requests, Ask(c, request)
      PROVE  /\ UNCHANGED <<disk, contacted>>
             /\ \A d \in Calls \ {c} : calls'[d] = calls[d]
             /\ calls[c].pc = "idle" /\ calls'[c].pc \in {"ended", "absent"} /\ calls'[c].slot = 1
  <2>1. request \in Keys BY ScheduleAssumption
  <2>. QED BY <1>1, <1>7, <2>1, LookRow DEF Ask, At
<1>8. CASE Seal(c)
  <2>1. CASE End(c) BY <1>1, <1>8, <2>1, EndRow DEF Seal, At, Working
  <2>2. CASE ~End(c)
    <3>1. now < PolicyEnds
      BY <1>8, <2>2, ScheduleAssumption DEF Seal, BInv, Typed, Times
    <3>. QED BY <1>1, <1>8, <2>2, <3>1 DEF Seal, At, Working, Typed, Call
  <2>. QED BY <2>1, <2>2
<1>. QED BY <1>2, <1>3, <1>4, <1>5, <1>6, <1>7, <1>8 DEF Quiet, Working

LEMMA QuietRecords == ASSUME HInv, BInv', NEW c \in Calls, Quiet(c) PROVE HInv'
<1>1. /\ UNCHANGED <<disk, contacted>>
      /\ \A d \in Calls \ {c} : calls'[d] = calls[d]
      /\ calls[c].pc \notin {"ended"} \cup Working
      /\ calls'[c].pc \notin Working /\ (calls[c].slot = 1 => calls'[c].slot = 1)
      /\ calls'[c].pc = "claim" => calls'[c].startedAt < PolicyEnds
  BY QuietRow DEF HInv
<1>2. DiskKept BY <1>1 DEF DiskKept, disk
<1>3. \A key \in Keys : intents[key] # c BY <1>1 DEF HInv, KeyIsRecorded
<1>4. /\ calls[c].slot = 1 /\ \A k \in Minutes : minutes[k] # c
      /\ \A k \in Days, slot \in 1..DaySlots : days[k][slot] # c
  BY <1>1 DEF HInv, CallIsRecorded, Working
<1>7. \A d \in Calls \ {c} : NoSlotFor(d) BY <1>1 DEF NoSlotFor, disk
<1>5. CallIsRecorded(c)' BY <1>1, <1>4 DEF CallIsRecorded, disk, Working
<1>6. \A key \in Keys : receipts'[key] = receipts[key] /\ EvidenceOf(key)' = EvidenceOf(key)
  BY <1>1 DEF disk, EvidenceOf
<1>. QED BY <1>1, <1>2, <1>3, <1>5, <1>6, <1>7, OneCallRecords DEF disk

\* A step of capture() that writes to none of the files of an id.
LEMMA SlotStep ==
  ASSUME HInv, BInv', DiskKept, NEW c \in Calls, CallIsRecorded(c)',
         UNCHANGED <<intents, receipts, evidence>>,
         \A d \in Calls \ {c} : calls'[d] = calls[d] /\ (d \in contacted' <=> d \in contacted),
         \A d \in Calls \ {c} : NoSlotFor(d),
         Key(c) \in Keys => calls'[c].request = calls[c].request,
         calls'[c].startedAt = calls[c].startedAt, calls'[c].pc \in Working \cup {"ended"}
  PROVE  HInv'
<1>1. \A key \in Keys : receipts'[key] = receipts[key] /\ EvidenceOf(key)' = EvidenceOf(key)
  BY DEF EvidenceOf
<1>2. ASSUME NEW key \in Keys, intents'[key] = c PROVE KeyIsRecorded(key)'
  <2>1. Key(c) = key BY <1>2 DEF HInv, KeyIsRecorded
  <2>2. ASSUME NEW d \in Calls, intents[key] = d PROVE d = c BY <1>2, <2>2
  <2>. QED BY <1>1, <2>1, <2>2, KeyUntouched
<1>. QED BY <1>1, <1>2, OneCallRecords

LEMMA EndedIsRecorded ==
  ASSUME NEW c \in Calls, calls'[c].pc = "ended" PROVE CallIsRecorded(c)'
BY DEF CallIsRecorded, Working

LEMMA StopRecords == ASSUME HInv, BInv', NEW c \in Calls, Stop(c) PROVE HInv'
<1>1. calls[c].pc \in Working /\ End(c) /\ UNCHANGED <<now, setBack, disk, contacted>> BY DEF Stop
<1>2. Key(c) \in Keys /\ intents[Key(c)] = c BY <1>1 DEF HInv, BInv, CallIsBudgeted
<1>3. /\ \A d \in Calls \ {c} : calls'[d] = calls[d]
      /\ calls'[c].pc = "ended" /\ calls'[c].startedAt = calls[c].startedAt
      /\ calls'[c].request = calls[c].request
  BY <1>1, <1>2, EndRow DEF HInv, BInv
<1>4. DiskKept BY <1>1 DEF DiskKept, disk
<1>5. \A d \in Calls \ {c} : NoSlotFor(d) BY <1>1 DEF NoSlotFor, disk
<1>. QED BY <1>1, <1>3, <1>4, <1>5, EndedIsRecorded, SlotStep DEF disk

LEMMA ClaimRecords == ASSUME HInv, BInv', NEW c \in Calls, Claim(c) PROVE HInv'
<1>1. /\ calls[c] \in Call /\ calls[c].pc = "claim" /\ Key(c) \in Keys /\ Typed
      /\ calls[c].startedAt < PolicyEnds /\ calls[c].slot = 1 /\ \A k \in Minutes : minutes[k] # c
      /\ \A k \in Days, slot \in 1..DaySlots : days[k][slot] # c
  BY DEF HInv, BInv, Typed, Claim, At, CallIsBudgeted, CallIsRecorded, Working
<1>2. \A key \in Keys : intents[key] # c
  BY <1>1 DEF HInv, KeyIsRecorded, Working
<1>3. UNCHANGED <<receipts, evidence, minutes, days, contacted>> BY DEF Claim
<1>4. \A key \in Keys : receipts'[key] = receipts[key] /\ EvidenceOf(key)' = EvidenceOf(key)
  BY <1>3 DEF EvidenceOf
<1>7. \A d \in Calls \ {c} : NoSlotFor(d) BY <1>3 DEF NoSlotFor
<1>5. CASE intents[Key(c)] # None
  <2>1. End(c) /\ UNCHANGED intents BY <1>5 DEF Claim
  <2>2. DiskKept BY <1>3, <2>1 DEF DiskKept
  <2>3. \A d \in Calls \ {c} : calls'[d] = calls[d] BY <1>1, <2>1, EndRow
  <2>4. CallIsRecorded(c)' BY <1>1, <2>1, EndRow, EndedIsRecorded
  <2>. QED BY <1>2, <1>3, <1>4, <1>7, <2>1, <2>2, <2>3, <2>4, OneCallRecords
<1>6. CASE intents[Key(c)] = None
  <2>1. intents' = [intents EXCEPT ![Key(c)] = c] /\ calls' = [calls EXCEPT ![c].pc = "minute"]
    BY <1>6 DEF Claim, Goto
  <2>2. DiskKept BY <1>1, <1>3, <1>6, <2>1 DEF DiskKept, Typed
  <2>3. /\ \A d \in Calls \ {c} : calls'[d] = calls[d]
        /\ calls'[c].pc = "minute" /\ calls'[c].request = calls[c].request
        /\ calls'[c].startedAt = calls[c].startedAt /\ calls'[c].slot = calls[c].slot
    BY <1>1, <2>1 DEF Typed, Call
  <2>4. PICK key \in Keys : key = Key(c) BY <1>1
  <2>5. receipts[key] = None /\ EvidenceOf(key) = None
    BY <1>6, <2>4 DEF HInv, KeyIsRecorded, Valid
  <2>6. Key(c)' = key /\ receipts'[key] = None /\ EvidenceOf(key)' = None
    BY <1>4, <2>3, <2>4, <2>5 DEF Key
  <2>7. CallIsRecorded(c)'
    <3>1. EvidenceOf(Key(c))' = None BY <2>6 DEF EvidenceOf
    <3>. QED BY <1>1, <1>3, <2>3, <2>6, <3>1 DEF CallIsRecorded, Working
  <2>8. ASSUME NEW k \in Keys, intents'[k] = c PROVE KeyIsRecorded(k)'
    <3>1. k = key BY <1>1, <1>2, <2>1, <2>4, <2>8 DEF Typed
    <3>2. intents'[key] = c /\ c # None BY <2>8, <3>1, ScheduleAssumption
    <3>. QED BY <1>1, <2>3, <2>6, <3>1, <3>2 DEF KeyIsRecorded, Valid, Working
  <2>9. \A k \in Keys : intents'[k] \in Calls \ {c} => intents[k] = intents'[k]
    BY <1>1, <2>1 DEF Typed
  <2>. QED BY <1>3, <1>4, <1>7, <2>2, <2>3, <2>7, <2>8, <2>9, OneCallRecords
<1>. QED BY <1>5, <1>6

LEMMA ReserveMinuteRecords == ASSUME HInv, BInv', NEW c \in Calls, ReserveMinute(c) PROVE HInv'
<1>1. /\ calls[c] \in Call /\ calls[c].pc = "minute" /\ Key(c) \in Keys /\ Typed
      /\ calls[c].startedAt < PolicyEnds /\ calls[c].slot = 1 /\ \A k \in Minutes : minutes[k] # c
      /\ \A k \in Days, slot \in 1..DaySlots : days[k][slot] # c
      /\ receipts[Key(c)] = None /\ EvidenceOf(Key(c)) = None
  BY DEF HInv, BInv, Typed, ReserveMinute, At, CallIsBudgeted, CallIsRecorded, Working
<1>2. MinuteKey(c) \in Minutes BY <1>1, KeysInRange
<1>3. UNCHANGED <<intents, receipts, evidence, days, contacted>> BY DEF ReserveMinute
<1>4. CASE minutes[MinuteKey(c)] # None
  <2>1. /\ minutes' = minutes
        /\ calls' = [calls EXCEPT ![c].pc = "finish", ![c].outcome = "LOCAL_BUDGET_EXHAUSTED"]
    BY <1>4 DEF ReserveMinute, Denied
  <2>2. /\ \A d \in Calls \ {c} : calls'[d] = calls[d]
        /\ calls'[c].pc = "finish" /\ calls'[c].request = calls[c].request
        /\ calls'[c].startedAt = calls[c].startedAt /\ calls'[c].outcome = "LOCAL_BUDGET_EXHAUSTED"
    BY <1>1, <2>1 DEF Typed, Call
  <2>3. DiskKept BY <1>3, <2>1 DEF DiskKept
  <2>8. \A d \in Calls \ {c} : NoSlotFor(d) BY <1>3, <2>1 DEF NoSlotFor
  <2>4. DenialShown(c) BY <1>1, <1>2, <1>4 DEF DenialShown
  <2>5. DenialShown(c)' BY <1>1, <2>2, <2>3, <2>4, SlotsKept
  <2>6. receipts[Key(c)]' = None /\ EvidenceOf(Key(c))' = None
    BY <1>1, <1>3, <2>2 DEF EvidenceOf, Key
  <2>7. CallIsRecorded(c)' BY <1>1, <2>2, <2>5, <2>6 DEF CallIsRecorded, Working, Acquired
  <2>. QED BY <1>1, <1>3, <2>1, <2>2, <2>3, <2>7, <2>8, SlotStep DEF Working
<1>5. CASE minutes[MinuteKey(c)] = None
  <2>1. minutes' = [minutes EXCEPT ![MinuteKey(c)] = c] /\ calls' = [calls EXCEPT ![c].pc = "day"]
    BY <1>5 DEF ReserveMinute, Goto
  <2>2. /\ \A d \in Calls \ {c} : calls'[d] = calls[d]
        /\ calls'[c].pc = "day" /\ calls'[c].request = calls[c].request
        /\ calls'[c].startedAt = calls[c].startedAt /\ calls'[c].slot = calls[c].slot
    BY <1>1, <2>1 DEF Typed, Call
  <2>3. DiskKept BY <1>1, <1>3, <1>5, <2>1 DEF DiskKept, Typed
  <2>4. \A d \in Calls \ {c} : NoSlotFor(d) BY <1>1, <1>3, <2>1 DEF Typed, NoSlotFor
  <2>5. receipts[Key(c)]' = None /\ EvidenceOf(Key(c))' = None
    BY <1>1, <1>3, <2>2 DEF EvidenceOf, Key
  <2>6. 1..(calls'[c].slot - 1) = {} BY <1>1, <2>2
  <2>7. CallIsRecorded(c)' BY <1>1, <1>3, <2>2, <2>5, <2>6 DEF CallIsRecorded, Working
  <2>. QED BY <1>1, <1>3, <2>2, <2>3, <2>4, <2>7, SlotStep DEF Working
<1>. QED BY <1>4, <1>5

LEMMA ReserveDayRecords == ASSUME HInv, BInv', NEW c \in Calls, ReserveDay(c) PROVE HInv'
<1> DEFINE slot == calls[c].slot
<1>1. /\ calls[c] \in Call /\ calls[c].pc = "day" /\ Key(c) \in Keys /\ Typed
      /\ calls[c].startedAt < PolicyEnds /\ minutes[MinuteKey(c)] = c
      /\ receipts[Key(c)] = None /\ EvidenceOf(Key(c)) = None
      /\ \A s \in 1..(slot - 1) : days[DayKey(c)][s] # None
      /\ \A k \in Days, s \in 1..DaySlots : days[k][s] # c
  BY DEF HInv, BInv, Typed, ReserveDay, At, CallIsBudgeted, CallIsRecorded, Working
<1>2. MinuteKey(c) \in Minutes /\ DayKey(c) \in Days /\ c # None BY <1>1, KeysInRange, ScheduleAssumption
<1>3. UNCHANGED <<intents, receipts, evidence, minutes>> BY DEF ReserveDay
<1>4. slot \in 1..(DaySlots + 1) /\ DaySlots \in Nat BY <1>1, ScheduleAssumption DEF Call
<1>5. CASE slot > DaySlots
  <2>1. /\ UNCHANGED <<days, contacted>>
        /\ calls' = [calls EXCEPT ![c].pc = "finish", ![c].outcome = "LOCAL_BUDGET_EXHAUSTED"]
    BY <1>5 DEF ReserveDay, Denied
  <2>2. /\ \A d \in Calls \ {c} : calls'[d] = calls[d]
        /\ calls'[c].pc = "finish" /\ calls'[c].request = calls[c].request
        /\ calls'[c].startedAt = calls[c].startedAt /\ calls'[c].outcome = "LOCAL_BUDGET_EXHAUSTED"
    BY <1>1, <2>1 DEF Typed, Call
  <2>3. DiskKept BY <1>3, <2>1 DEF DiskKept
  <2>8. \A d \in Calls \ {c} : NoSlotFor(d) BY <1>3, <2>1 DEF NoSlotFor
  <2>4. DenialShown(c) BY <1>1, <1>2, <1>4, <1>5 DEF DenialShown
  <2>5. DenialShown(c)' BY <1>1, <2>2, <2>3, <2>4, SlotsKept
  <2>6. receipts[Key(c)]' = None /\ EvidenceOf(Key(c))' = None
    BY <1>1, <1>3, <2>2 DEF EvidenceOf, Key
  <2>7. CallIsRecorded(c)' BY <1>1, <2>2, <2>5, <2>6 DEF CallIsRecorded, Working, Acquired
  <2>. QED BY <1>1, <1>3, <2>1, <2>2, <2>3, <2>7, <2>8, SlotStep DEF Working
<1>6. CASE slot <= DaySlots /\ days[DayKey(c)][slot] # None
  <2>1. UNCHANGED <<days, contacted>> /\ calls' = [calls EXCEPT ![c].slot = slot + 1]
    BY <1>4, <1>6 DEF ReserveDay
  <2>2. /\ \A d \in Calls \ {c} : calls'[d] = calls[d]
        /\ calls'[c].pc = "day" /\ calls'[c].request = calls[c].request
        /\ calls'[c].startedAt = calls[c].startedAt /\ calls'[c].slot = slot + 1
    BY <1>1, <2>1 DEF Typed, Call
  <2>3. DiskKept BY <1>3, <2>1 DEF DiskKept
  <2>4. receipts[Key(c)]' = None /\ EvidenceOf(Key(c))' = None /\ DayKey(c)' = DayKey(c)
    BY <1>1, <1>3, <2>2 DEF EvidenceOf, Key, DayKey
  <2>5. ASSUME NEW s \in 1..(calls'[c].slot - 1) PROVE days[DayKey(c)][s] # None
    <3>1. s = slot \/ s \in 1..(slot - 1) BY <1>4, <2>2
    <3>. QED BY <1>1, <1>6, <3>1
  <2>6. CallIsRecorded(c)' BY <1>1, <1>3, <2>1, <2>2, <2>4, <2>5 DEF CallIsRecorded, Working
  <2>7. \A d \in Calls \ {c} : NoSlotFor(d) BY <1>3, <2>1 DEF NoSlotFor
  <2>. QED BY <1>1, <1>3, <2>1, <2>2, <2>3, <2>6, <2>7, SlotStep DEF Working
<1>7. CASE slot <= DaySlots /\ days[DayKey(c)][slot] = None
  <2>1. /\ calls' = [calls EXCEPT ![c].pc = "waiting"] /\ contacted' = contacted \cup {c}
        /\ days' = [days EXCEPT ![DayKey(c)][slot] = c]
    BY <1>4, <1>7 DEF ReserveDay, Goto
  <2>2. /\ \A d \in Calls \ {c} : calls'[d] = calls[d]
        /\ calls'[c].pc = "waiting" /\ calls'[c].request = calls[c].request
        /\ calls'[c].startedAt = calls[c].startedAt
    BY <1>1, <2>1 DEF Typed, Call
  <2>3. ASSUME NEW k \in Days, NEW s \in 1..DaySlots
        PROVE  /\ days[k][s] # None => days'[k][s] = days[k][s]
               /\ days'[k][s] \notin {c} => days'[k][s] = days[k][s]
    <3>1. CASE k = DayKey(c)
      <4>1. days[k] \in [1..DaySlots -> Calls \cup {None}] BY <1>1 DEF Typed
      <4>2. days'[k] = [days[k] EXCEPT ![slot] = c] BY <1>1, <2>1, <3>1 DEF Typed
      <4>. QED BY <1>7, <3>1, <4>1, <4>2
    <3>2. CASE k # DayKey(c) BY <1>1, <2>1, <3>2 DEF Typed
    <3>. QED BY <3>1, <3>2
  <2>4. DiskKept BY <1>3, <2>3 DEF DiskKept
  <2>5. \A d \in Calls \ {c} : NoSlotFor(d) BY <1>3, <2>3 DEF NoSlotFor
  <2>6. receipts[Key(c)]' = None /\ EvidenceOf(Key(c))' = None
    BY <1>1, <1>3, <2>2 DEF EvidenceOf, Key
  <2>7. CallIsRecorded(c)' BY <1>1, <2>1, <2>2, <2>6 DEF CallIsRecorded, Working
  <2>. QED BY <1>1, <1>3, <2>1, <2>2, <2>4, <2>5, <2>7, SlotStep DEF Working
<1>. QED BY <1>4, <1>5, <1>6, <1>7

LEMMA RespondRecords ==
  ASSUME HInv, BInv', NEW c \in Calls, NEW outcome \in {"FETCH_FAILED", "CAPTURED", "QUARANTINED"},
         Respond(c, outcome)
  PROVE  HInv'
<1>1. /\ calls[c] \in Call /\ calls[c].pc = "waiting" /\ Key(c) \in Keys /\ Typed
      /\ calls[c].startedAt < PolicyEnds /\ c \in contacted
      /\ receipts[Key(c)] = None /\ EvidenceOf(Key(c)) = None
  BY DEF HInv, BInv, Typed, Respond, At, CallIsBudgeted, CallIsRecorded, Working
<1>2. Granted(c) BY <1>1 DEF HInv, BInv, CallIsBudgeted
<1>3. UNCHANGED <<disk, contacted>> BY DEF Respond
<1>4. DiskKept /\ \A d \in Calls \ {c} : NoSlotFor(d) BY <1>3 DEF DiskKept, NoSlotFor, disk
<1>5. /\ \A d \in Calls \ {c} : calls'[d] = calls[d]
      /\ calls'[c].request = calls[c].request /\ calls'[c].startedAt = calls[c].startedAt
      /\ \/ calls'[c].pc = "finish" /\ calls'[c].outcome = "FETCH_FAILED"
         \/ calls'[c].pc = "retain" /\ calls'[c].capturedAt >= calls[c].startedAt
  BY <1>1 DEF Respond, Typed, Call
<1>6. Granted(c)' BY <1>1, <1>2, <1>4, <1>5, SlotsKept
<1>7. receipts[Key(c)]' = None /\ EvidenceOf(Key(c))' = None
  BY <1>1, <1>3, <1>5 DEF EvidenceOf, Key, disk
<1>8. CallIsRecorded(c)' BY <1>1, <1>3, <1>5, <1>6, <1>7 DEF CallIsRecorded, Working, Acquired
<1>. QED BY <1>1, <1>3, <1>4, <1>5, <1>8, SlotStep DEF Working, disk

LEMMA RetainRecords ==
  ASSUME RailsDiffer, HInv, BInv', NEW c \in Calls, Retain(c)
  PROVE  HInv'
<1> DEFINE place == <<Rail[Key(c)[1]], Key(c)[2]>>
           record == [source |-> Key(c)[1], at |-> calls[c].capturedAt,
                      parses |-> calls[c].outcome = "CAPTURED"]
<1>1. /\ calls[c] \in Call /\ calls[c].pc = "retain" /\ Key(c) \in Keys /\ Typed
      /\ calls[c].startedAt < PolicyEnds /\ c \in contacted
      /\ receipts[Key(c)] = None /\ EvidenceOf(Key(c)) = None
      /\ calls[c].capturedAt >= calls[c].startedAt /\ intents[Key(c)] = c
      /\ calls[c].outcome \in Acquired /\ calls[c].capturedAt \in Times
  BY DEF HInv, BInv, Typed, Retain, At, CallIsBudgeted, CallIsRecorded, Working
<1>2. Granted(c) BY <1>1 DEF HInv, BInv, CallIsBudgeted
<1>3. UNCHANGED <<intents, receipts, minutes, days, contacted>> BY DEF Retain
<1>4. DiskKept /\ \A d \in Calls \ {c} : NoSlotFor(d) BY <1>3 DEF DiskKept, NoSlotFor
<1>5. CASE End(c) /\ UNCHANGED evidence
  <2>1. /\ \A d \in Calls \ {c} : calls'[d] = calls[d]
        /\ calls'[c].pc = "ended" /\ calls'[c].startedAt = calls[c].startedAt
        /\ calls'[c].request = calls[c].request
    BY <1>1, <1>5, EndRow
  <2>. QED BY <1>1, <1>3, <1>4, <1>5, <2>1, EndedIsRecorded, SlotStep
<1>6. CASE /\ calls[c].capturedAt < PolicyEnds
           /\ evidence' = [evidence EXCEPT ![place] = record] /\ Goto(c, "finish")
  <2>1. /\ \A d \in Calls \ {c} : calls'[d] = calls[d]
        /\ calls'[c].pc = "finish" /\ calls'[c].startedAt = calls[c].startedAt
        /\ calls'[c].request = calls[c].request /\ calls'[c].capturedAt = calls[c].capturedAt
        /\ calls'[c].outcome = calls[c].outcome
    BY <1>1, <1>6 DEF Goto, Typed, Call
  <2>2. Key(c)' = Key(c) /\ Granted(c)' BY <1>1, <1>2, <1>4, <2>1, SlotsKept
  <2>3. PICK key \in Keys : key = Key(c) BY <1>1
  <2>4. EvidenceOf(key)' = record
    BY <1>1, <1>6, <2>3, KeysInRange DEF EvidenceOf, Typed
  <2>5. ASSUME NEW k \in Keys, k # key PROVE EvidenceOf(k)' = EvidenceOf(k)
    <3>1. k = <<k[1], k[2]>> /\ key = <<key[1], key[2]>> /\ k[1] \in Sources /\ key[1] \in Sources
      BY DEF Keys
    <3>2. <<Rail[k[1]], k[2]>> # <<Rail[key[1]], key[2]>> BY <2>5, <3>1 DEF RailsDiffer
    <3>3. <<Rail[k[1]], k[2]>> \in Places BY <3>1 DEF Places, Keys
    <3>. QED BY <1>1, <1>6, <2>3, <3>2, <3>3 DEF EvidenceOf, Typed
  <2>6. ASSUME NEW k \in Keys, intents'[k] = c PROVE k = key
    BY <1>3, <2>3, <2>6 DEF HInv, KeyIsRecorded
  <2>7. EvidenceOf(Key(c))' = record BY <2>2, <2>3, <2>4 DEF EvidenceOf, Key
  <2>8. receipts[Key(c)]' = None /\ intents[Key(c)]' = c BY <1>1, <1>3, <2>2
  <2>9. CallIsRecorded(c)'
    <3>0. record # None
      <4>1. record \in Acquisition BY <1>1 DEF Acquisition, Keys
      <4>. QED BY <4>1, NoneIsNothing
    <3>1. Key(c)'[1] = Key(c)[1] BY <2>2
    <3>2. calls'[c].outcome \in Acquired /\ calls'[c].outcome \notin {"LOCAL_BUDGET_EXHAUSTED", "FETCH_FAILED"}
      BY <1>1, <2>1 DEF Acquired
    <3>. QED BY <1>1, <2>1, <2>7, <2>8, <3>0, <3>1, <3>2 DEF CallIsRecorded, Working
  <2>10. c # None /\ record # None
    <3>1. record \in Acquisition BY <1>1 DEF Acquisition, Keys
    <3>. QED BY <3>1, ScheduleAssumption, NoneIsNothing
  <2>11. KeyIsRecorded(key)'
    BY <1>1, <1>3, <1>6, <2>1, <2>2, <2>3, <2>4, <2>6, <2>10 DEF KeyIsRecorded, Valid, Working
  <2>12. \A k \in Keys : intents'[k] # c =>
           receipts'[k] = receipts[k] /\ EvidenceOf(k)' = EvidenceOf(k)
    BY <1>1, <1>3, <2>3, <2>5
  <2>. QED BY <1>3, <1>4, <2>1, <2>6, <2>9, <2>11, <2>12, OneCallRecords
<1>. QED BY <1>5, <1>6 DEF Retain

LEMMA FinishRecords == ASSUME HInv, BInv', NEW c \in Calls, Finish(c) PROVE HInv'
<1>0. PICK receipt : receipt =
      [state |-> IF calls[c].outcome \in Acquired THEN calls[c].outcome ELSE "FAILED",
       code |-> calls[c].outcome, at |-> now] OBVIOUS
<1>1. /\ calls[c] \in Call /\ calls[c].pc = "finish" /\ Key(c) \in Keys /\ Typed
      /\ calls[c].startedAt < PolicyEnds /\ intents[Key(c)] = c /\ calls[c].outcome \in Outcomes
      /\ CallIsRecorded(c)
  BY DEF HInv, BInv, Typed, Finish, FinishAnyway, At, CallIsBudgeted, CallIsRecorded, Working
<1>2. UNCHANGED <<intents, evidence, minutes, days, contacted>> /\ End(c)
      /\ receipts' = [receipts EXCEPT ![Key(c)] = receipt]
  BY <1>0 DEF Finish, FinishAnyway, Acquired
<1>3. DiskKept /\ \A d \in Calls \ {c} : NoSlotFor(d) BY <1>2 DEF DiskKept, NoSlotFor
<1>4. /\ \A d \in Calls \ {c} : calls'[d] = calls[d]
      /\ calls'[c].pc = "ended" /\ calls'[c].startedAt = calls[c].startedAt
      /\ calls'[c].request = calls[c].request
  BY <1>1, <1>2, EndRow
<1>5. /\ Key(c)' = Key(c)
      /\ Granted(c) => Granted(c)'
      /\ DenialShown(c) => DenialShown(c)'
  BY <1>1, <1>3, <1>4, SlotsKept
<1>6. PICK key \in Keys : key = Key(c) BY <1>1
<1>7. KeyIsRecorded(key) /\ intents[key] = c BY <1>1, <1>6 DEF HInv
<1>8. ASSUME NEW k \in Keys, intents'[k] = c PROVE k = key
  BY <1>2, <1>6, <1>8 DEF HInv, KeyIsRecorded
<1>9. receipts'[key] = receipt /\ EvidenceOf(key)' = EvidenceOf(key)
  BY <1>1, <1>2, <1>6 DEF Typed, EvidenceOf
<1>10. PICK acquired : acquired = EvidenceOf(key) OBVIOUS
<1>11. acquired # None => acquired.source = key[1] /\ acquired.at >= calls[c].startedAt
                         /\ Granted(c) /\ acquired.at < PolicyEnds
  BY <1>7, <1>10 DEF KeyIsRecorded, Valid
<1>12. now >= EarliestFinish(calls[c]) BY DEF Finish
<1>13. receipt.code = calls[c].outcome /\ receipt.at = now BY <1>0
<1>14. ReceiptHolds(c, receipt, acquired)'
  <2>1. CASE calls[c].outcome = "LOCAL_BUDGET_EXHAUSTED"
    <3>1. DenialShown(c)' /\ acquired = None BY <1>1, <1>5, <1>6, <1>10, <2>1 DEF CallIsRecorded
    <3>2. receipt.at >= calls'[c].startedAt
      BY <1>4, <1>12, <1>13, <2>1 DEF EarliestFinish, Acquired
    <3>. QED BY <1>13, <2>1, <3>1, <3>2 DEF ReceiptHolds, Acquired
  <2>2. CASE calls[c].outcome = "FETCH_FAILED"
    <3>1. Granted(c)' /\ acquired = None BY <1>1, <1>5, <1>6, <1>10, <2>2 DEF CallIsRecorded
    <3>2. receipt.at >= calls'[c].startedAt
      BY <1>4, <1>12, <1>13, <2>2 DEF EarliestFinish, Acquired
    <3>. QED BY <1>13, <2>2, <3>1, <3>2 DEF ReceiptHolds, Acquired
  <2>3. CASE calls[c].outcome \in Acquired
    <3>1. acquired = [source |-> key[1], at |-> calls[c].capturedAt,
                      parses |-> calls[c].outcome = "CAPTURED"]
      BY <1>1, <1>6, <1>10, <2>3 DEF CallIsRecorded
    <3>2. acquired \in Acquisition \cup {None}
      BY <1>1, <1>6, <1>10, KeysInRange DEF Typed, EvidenceOf
    <3>3. acquired # None BY <1>1, <1>6, <1>10, <2>3 DEF CallIsRecorded
    <3>4. Granted(c)' /\ acquired.at >= calls[c].startedAt /\ acquired.at < PolicyEnds
      BY <1>5, <1>11, <3>3
    <3>5. now >= acquired.at BY <1>12, <2>3, <3>1 DEF EarliestFinish, Acquired
    <3>6. receipt.state = calls[c].outcome BY <1>0, <2>3
    <3>7. receipt.state = "CAPTURED" <=> acquired.parses BY <3>1, <3>6
    <3>8. receipt.at >= calls'[c].startedAt
      <4>1. now \in Int /\ acquired.at \in Int /\ calls[c].startedAt \in Int
        BY <1>1, <3>2, <3>3 DEF Typed, Times, Acquisition, Call
      <4>. QED BY <1>4, <1>13, <3>4, <3>5, <4>1
    <3>. QED BY <1>13, <2>3, <3>3, <3>4, <3>5, <3>7, <3>8 DEF ReceiptHolds, Acquired
  <2>. QED BY <1>1, <2>1, <2>2, <2>3 DEF Outcomes
<1>15. KeyIsRecorded(key)'
  <2>1. calls'[c].startedAt < PolicyEnds /\ Key(c)' = key BY <1>1, <1>4, <1>5, <1>6
  <2>2. acquired # None => acquired.source = key[1] /\ acquired.at >= calls'[c].startedAt /\ Granted(c)'
    BY <1>4, <1>5, <1>11
  <2>3. intents'[key] = c /\ c # None BY <1>2, <1>7, ScheduleAssumption
  <2>4. Valid(key)'
    BY <1>9, <1>10, <1>14, <2>1, <2>2, <2>3 DEF Valid, ReceiptHolds
  <2>. QED BY <1>4, <1>9, <1>10, <1>11, <2>1, <2>3, <2>4 DEF KeyIsRecorded
<1>16. \A k \in Keys : intents'[k] # c =>
         receipts'[k] = receipts[k] /\ EvidenceOf(k)' = EvidenceOf(k)
  BY <1>1, <1>2, <1>6 DEF Typed, EvidenceOf
<1>17. CallIsRecorded(c)' BY <1>4, EndedIsRecorded
<1>. QED BY <1>2, <1>3, <1>4, <1>8, <1>15, <1>16, <1>17, OneCallRecords

\* Only the clock moves.
LEMMA ClockRecords ==
  ASSUME HInv, BInv', UNCHANGED <<disk, contacted, calls>>
  PROVE  HInv'
<1>1. DiskKept /\ \A d \in Calls : NoSlotFor(d) BY DEF DiskKept, NoSlotFor, disk
<1>2. \A key \in Keys : receipts'[key] = receipts[key] /\ EvidenceOf(key)' = EvidenceOf(key)
  BY DEF EvidenceOf, disk
<1>3. ASSUME NEW d \in Calls PROVE CallIsRecorded(d)'
  BY <1>1, <1>2, OtherIsRecorded
<1>4. ASSUME NEW key \in Keys PROVE KeyIsRecorded(key)'
  <2>1. intents'[key] = intents[key] BY DEF disk
  <2>2. \A c \in Calls : intents[key] = c => calls[c].pc \in Working \cup {"ended"}
    BY DEF HInv, KeyIsRecorded
  <2>. QED BY <1>1, <1>2, <2>1, <2>2, KeyUntouched
<1>. QED BY <1>3, <1>4 DEF HInv

LEMMA RecordsInitial == Init => HInv
<1> SUFFICES ASSUME Init PROVE HInv OBVIOUS
<1>1. BInv BY BudgetInitial
<1>2. None \notin Calls BY ScheduleAssumption
<1>3. ASSUME NEW c \in Calls PROVE CallIsRecorded(c)
  BY <1>2 DEF Init, CallIsRecorded, Fresh, Working
<1>4. ASSUME NEW key \in Keys PROVE KeyIsRecorded(key)
  <2>1. <<Rail[key[1]], key[2]>> \in Places BY DEF Places, Keys
  <2>. QED BY <1>2, <2>1 DEF Init, KeyIsRecorded, Valid, EvidenceOf
<1>. QED BY <1>1, <1>3, <1>4 DEF HInv

LEMMA RecordsKept == RailsDiffer /\ HInv /\ [Next]_vars => HInv'
<1> SUFFICES ASSUME RailsDiffer, HInv, [Next]_vars PROVE HInv' OBVIOUS
<1>1. BInv' BY BudgetKept DEF HInv
<1>2. CASE Tick \/ SetBack \/ UNCHANGED vars
  BY <1>1, <1>2, ClockRecords DEF Tick, SetBack, vars
<1>3. ASSUME NEW c \in Calls,
             \/ Quiet(c) \/ Claim(c) \/ ReserveMinute(c) \/ ReserveDay(c)
             \/ \E outcome \in {"FETCH_FAILED", "CAPTURED", "QUARANTINED"} : Respond(c, outcome)
             \/ Retain(c) \/ Finish(c) \/ Stop(c)
      PROVE  HInv'
  BY <1>1, <1>3, QuietRecords, ClaimRecords, ReserveMinuteRecords, ReserveDayRecords,
     RespondRecords, RetainRecords, FinishRecords, StopRecords
<1>. QED BY <1>2, <1>3 DEF Next, Quiet

\* Whatever the processes do and wherever they end, inspect() accepts what is on
\* disk, as long as sources keep namespaces of their own.
THEOREM HistoryAlwaysValidates ==
  ASSUME RailsDiffer PROVE Spec => []HistoryValidates
<1>1. HInv => HistoryValidates BY DEF HInv, KeyIsRecorded, HistoryValidates
<1>2. RailsDiffer /\ HInv /\ [Next]_vars => HInv' BY RecordsKept
<1>3. HInv /\ [Next]_vars => HInv' BY <1>2
<1>. QED BY <1>1, <1>3, RecordsInitial, PTL DEF Spec

-----------------------------------------------------------------------------
(* The schedule (SInv).  A call plans on a past it has read, and what it   *)
(* has read stays so: intents and receipts are kept, owners do not begin   *)
(* again, and the clock does not go back unless it is set back.  So what   *)
(* made a run due still holds when its intent is linked, whoever else has  *)
(* planned the same run meanwhile.                                         *)

\* Operators do not ask for the ids in which the schedule keeps its history.
RunsAreScheduled == \A n \in 1..MaxRuns : RunKey(n) \notin Requests

Began(n) == calls[intents[RunKey(n)]].startedAt

\* What has to hold of a run begun at t, of those before it and of its plan.
Follows(n, t) ==
  n > 1 =>
    /\ intents[RunKey(n - 1)] # None /\ receipts[RunKey(n - 1)] # None
    /\ ~setBack => t >= Began(n - 1) + Interval
PlannedBy(c, t) ==
  /\ Opens <= calls[c].at /\ calls[c].at < Closes
  /\ ~setBack => calls[c].at <= t

\* What a call has read of the last run it knows, and what it does about the next.
HasRead(c) ==
  /\ ~setBack => calls[c].at <= now
  /\ calls[c].run > 0 =>
       /\ intents[RunKey(calls[c].run)] # None
       /\ calls[c].last # None /\ calls[c].last >= Began(calls[c].run)
       /\ calls[c].unfinished \/ receipts[RunKey(calls[c].run)] # None

CallFollows(c) ==
  /\ calls[c].pc = "idle" => calls[c].run = 0
  /\ calls[c].pc \in {"history", "gap", "plan"} => HasRead(c)
  /\ \A n \in 1..MaxRuns : Key(c) = RunKey(n) =>
       /\ calls[c].pc = "absent" => Follows(n, now) /\ PlannedBy(c, now)
       /\ calls[c].pc = "claim" => Follows(n, calls[c].startedAt) /\ PlannedBy(c, calls[c].startedAt)

OwnersHaveBegun ==
  \A key \in Keys, d \in Calls : intents[key] = d => calls[d].pc \in Working \cup {"ended"}

SInv ==
  /\ BInv /\ OwnersHaveBegun
  /\ \A c \in Calls : CallFollows(c)

ScheduleKept ==
  /\ \A key \in Keys : intents[key] # None => intents'[key] = intents[key]
  /\ \A key \in Keys : receipts[key] # None => receipts'[key] # None
  /\ \A key \in Keys, d \in Calls : intents[key] = d => calls'[d].startedAt = calls[d].startedAt
  /\ ~setBack' => ~setBack /\ now <= now'

LEMMA RunsBefore ==
  ASSUME NEW n \in 1..MaxRuns
  PROVE  n > 1 => n - 1 \in 1..MaxRuns /\ RunKey(n - 1) \in Keys
BY RunKeysAreKeys, ScheduleAssumption

LEMMA BeganIsATime ==
  ASSUME Typed, NEW n \in 1..MaxRuns, intents[RunKey(n)] # None
  PROVE  intents[RunKey(n)] \in Calls /\ Began(n) \in Times
BY RunKeysAreKeys DEF Typed, Began, Call

LEMMA BeganKept ==
  ASSUME Typed, ScheduleKept, NEW n \in 1..MaxRuns, intents[RunKey(n)] # None
  PROVE  intents'[RunKey(n)] # None /\ Began(n)' = Began(n)
<1>1. intents[RunKey(n)] \in Calls /\ RunKey(n) \in Keys BY BeganIsATime, RunKeysAreKeys
<1>2. intents'[RunKey(n)] = intents[RunKey(n)] BY <1>1 DEF ScheduleKept
<1>. QED BY <1>1, <1>2 DEF ScheduleKept, Began

\* What follows at t still follows later.
LEMMA FollowsKept ==
  ASSUME Typed, ScheduleKept, NEW n \in 1..MaxRuns, NEW t \in Times, NEW u \in Times,
         Follows(n, t), ~setBack' => t <= u
  PROVE  Follows(n, u)'
<1>1. ASSUME n > 1
      PROVE  /\ intents'[RunKey(n - 1)] # None /\ receipts'[RunKey(n - 1)] # None
             /\ Began(n - 1)' = Began(n - 1) /\ Began(n - 1) \in Times
  <2>1. /\ n - 1 \in 1..MaxRuns /\ RunKey(n - 1) \in Keys
        /\ intents[RunKey(n - 1)] # None /\ receipts[RunKey(n - 1)] # None
    BY <1>1, RunsBefore DEF Follows
  <2>2. /\ intents'[RunKey(n - 1)] # None /\ Began(n - 1)' = Began(n - 1)
        /\ Began(n - 1) \in Times
    BY <2>1, BeganKept, BeganIsATime
  <2>. QED BY <2>1, <2>2 DEF ScheduleKept
<1>2. {Interval, MaxTime} \subseteq Nat BY ScheduleAssumption
<1>3. ~setBack' /\ n > 1 => u >= Began(n - 1)' + Interval
  <2> SUFFICES ASSUME ~setBack', n > 1 PROVE u >= Began(n - 1) + Interval
    BY <1>1
  <2>1. t >= Began(n - 1) + Interval /\ t <= u BY DEF ScheduleKept, Follows
  <2>2. Began(n - 1) \in Nat BY <1>1, <1>2 DEF Times
  <2>. QED BY <1>2, <2>1, <2>2 DEF Times
<1>. QED BY <1>1, <1>3 DEF Follows

\* A plan stays behind the clock.
LEMMA PlanKept ==
  ASSUME ScheduleKept, NEW d \in Calls, NEW t \in Times, NEW u \in Times,
         calls[d].at \in Times, calls'[d].at = calls[d].at,
         PlannedBy(d, t), ~setBack' => t <= u
  PROVE  PlannedBy(d, u)'
<1>1. {calls[d].at, t, u} \subseteq Nat BY ScheduleAssumption DEF Times
<1>2. ~setBack' => calls[d].at <= t /\ t <= u BY DEF PlannedBy, ScheduleKept
<1>3. ~setBack' => calls[d].at <= u BY <1>1, <1>2
<1>. QED BY <1>3 DEF PlannedBy

LEMMA HasReadKept ==
  ASSUME Typed, Typed', ScheduleKept, NEW d \in Calls, calls'[d] = calls[d], HasRead(d)
  PROVE  HasRead(d)'
<1>1. calls[d] \in Call /\ {now, now'} \subseteq Times BY DEF Typed
<1>2. PICK n \in 0..MaxRuns : n = calls[d].run BY <1>1 DEF Call
<1>3. n > 0 => n \in 1..MaxRuns BY <1>2, ScheduleAssumption
<1>4. n > 0 => /\ intents[RunKey(n)] # None /\ RunKey(n) \in Keys
               /\ calls[d].last # None /\ calls[d].last >= Began(n)
               /\ calls[d].unfinished \/ receipts[RunKey(n)] # None
  BY <1>2, <1>3, RunKeysAreKeys DEF HasRead
<1>5. n > 0 => /\ intents'[RunKey(n)] # None /\ Began(n)' = Began(n)
               /\ calls[d].unfinished \/ receipts'[RunKey(n)] # None
  BY <1>3, <1>4, BeganKept DEF ScheduleKept
<1>6. ~setBack' => calls[d].at <= now'
  <2>1. {calls[d].at, now, now'} \subseteq Nat BY <1>1, ClocksOfCalls
  <2>. QED BY <2>1 DEF HasRead, ScheduleKept
<1>7. calls'[d].run = n /\ calls'[d].last = calls[d].last
      /\ calls'[d].unfinished = calls[d].unfinished /\ calls'[d].at = calls[d].at
  BY <1>2
<1>8. n > 0 => calls[d].last >= Began(n)' BY <1>4, <1>5
<1>. QED BY <1>4, <1>5, <1>6, <1>7, <1>8 DEF HasRead

\* The files of a run another call plans, or is about to begin, only become more.
LEMMA OtherFollows ==
  ASSUME Typed, Typed', ScheduleKept, NEW d \in Calls, calls'[d] = calls[d], CallFollows(d)
  PROVE  CallFollows(d)'
<1>1. calls[d] \in Call /\ now \in Times /\ now' \in Times BY DEF Typed
<1>2. calls[d].pc \in {"history", "gap", "plan"} => HasRead(d)' BY HasReadKept DEF CallFollows
<1>3. Key(d)' = Key(d) BY DEF Key
<1>4. PICK t \in Times, u \in Times, v \in Times : t = now /\ u = now' /\ v = calls[d].startedAt
  BY <1>1 DEF Call
<1>5. ~setBack' => t <= u BY <1>4 DEF ScheduleKept
<1>6. v <= v BY DEF Times
<1>7. calls[d].at \in Times BY <1>1 DEF Call
<1>8. ASSUME NEW n \in 1..MaxRuns, Key(d) = RunKey(n)
      PROVE  /\ calls[d].pc = "absent" => Follows(n, u)' /\ PlannedBy(d, u)'
             /\ calls[d].pc = "claim" => Follows(n, v)' /\ PlannedBy(d, v)'
  <2>1. calls[d].pc = "absent" => Follows(n, t) /\ PlannedBy(d, t) BY <1>4, <1>8 DEF CallFollows
  <2>2. calls[d].pc = "claim" => Follows(n, v) /\ PlannedBy(d, v) BY <1>4, <1>8 DEF CallFollows
  <2>3. ~setBack' => v <= v BY <1>6
  <2>4. calls[d].pc = "absent" => Follows(n, u)' /\ PlannedBy(d, u)'
    BY <1>5, <1>7, <2>1, FollowsKept, PlanKept
  <2>5. calls[d].pc = "claim" => Follows(n, v)' /\ PlannedBy(d, v)'
    BY <1>7, <2>2, <2>3, FollowsKept, PlanKept
  <2>. QED BY <2>4, <2>5
<1>9. ASSUME NEW n \in 1..MaxRuns, Key(d)' = RunKey(n)
      PROVE  /\ calls'[d].pc = "absent" => Follows(n, now)' /\ PlannedBy(d, now)'
             /\ calls'[d].pc = "claim" =>
                  Follows(n, calls[d].startedAt)' /\ PlannedBy(d, calls[d].startedAt)'
  BY <1>3, <1>4, <1>8, <1>9 DEF Follows, PlannedBy
<1>. QED BY <1>2, <1>9 DEF CallFollows

\* A step of one call: what is to be shown of it.
LEMMA OneCallFollows ==
  ASSUME SInv, BInv', ScheduleKept, NEW c \in Calls, CallFollows(c)',
         \A d \in Calls \ {c} : calls'[d] = calls[d],
         calls[c].pc \in Working \cup {"ended"} => calls'[c].pc \in Working \cup {"ended"},
         \A key \in Keys : intents'[key] \notin {None, intents[key]} =>
           intents'[key] = c /\ calls'[c].pc \in Working
  PROVE  SInv'
<1>1. Typed /\ Typed' /\ None \notin Calls BY ScheduleAssumption DEF SInv, BInv
<1>2. ASSUME NEW d \in Calls PROVE CallFollows(d)'
  <2>1. CASE d = c BY <2>1
  <2>2. CASE d # c BY <1>1, <2>2, OtherFollows DEF SInv
  <2>. QED BY <2>1, <2>2
<1>3. ASSUME NEW key \in Keys, NEW d \in Calls, intents'[key] = d
      PROVE  calls'[d].pc \in Working \cup {"ended"}
  <2>1. CASE intents'[key] # intents[key] BY <1>1, <1>3, <2>1
  <2>2. CASE intents'[key] = intents[key]
    <3>1. calls[d].pc \in Working \cup {"ended"} BY <1>3, <2>2 DEF SInv, OwnersHaveBegun
    <3>. QED BY <3>1
  <2>. QED BY <2>1, <2>2
<1>. QED BY <1>2, <1>3 DEF SInv, OwnersHaveBegun

\* A call that owns no intent makes none and answers for nothing on disk.
LEMMA QuietKeepsSchedule ==
  ASSUME SInv, NEW c \in Calls, UNCHANGED <<now, setBack, disk>>,
         \A d \in Calls \ {c} : calls'[d] = calls[d],
         calls[c].pc \notin {"ended"} \cup Working
  PROVE  ScheduleKept
<1>1. \A key \in Keys : intents[key] # c BY DEF SInv, OwnersHaveBegun
<1>2. now \in Nat BY ScheduleAssumption DEF SInv, BInv, Typed, Times
<1>. QED BY <1>1, <1>2 DEF ScheduleKept, disk

LEMMA EndedFollows == ASSUME NEW c \in Calls, calls'[c].pc \in Working \cup {"ended"} PROVE CallFollows(c)'
BY DEF CallFollows, Working

LEMMA OneRunPerKey ==
  ASSUME NEW m \in 1..MaxRuns, NEW n \in 1..MaxRuns, RunKey(m) = RunKey(n) PROVE m = n
BY ScheduleAssumption DEF RunKey

\* What a call knows of its history, read from disks that do not change.
LEMMA HistoryRow ==
  ASSUME SInv, NEW c \in Calls, UNCHANGED <<now, setBack, disk>>,
         \A d \in Calls \ {c} : calls'[d] = calls[d],
         calls[c].pc \notin {"ended"} \cup Working,
         calls'[c].pc \in {"history", "gap", "plan"},
         ~setBack => calls'[c].at <= now,
         NEW n \in 0..MaxRuns, calls'[c].run = n,
         n > 0 =>
           /\ intents[RunKey(n)] # None
           /\ calls'[c].last # None /\ calls'[c].last >= Began(n)
           /\ calls'[c].unfinished \/ receipts[RunKey(n)] # None
  PROVE  CallFollows(c)'
<1>1. ScheduleKept /\ Typed BY QuietKeepsSchedule DEF SInv, BInv
<1>2. n > 0 => n \in 1..MaxRuns BY ScheduleAssumption
<1>3. n > 0 => intents'[RunKey(n)] # None /\ Began(n)' = Began(n) BY <1>1, <1>2, BeganKept
<1>. QED BY <1>3 DEF CallFollows, HasRead, disk

LEMMA InvokeFollows == ASSUME SInv, NEW c \in Calls, Invoke(c) PROVE CallFollows(c)'
<1>1. calls[c] \in Call /\ calls[c].pc = "idle" /\ calls[c].run = 0 /\ now \in Nat
  BY ScheduleAssumption DEF SInv, BInv, Typed, Invoke, At, CallFollows, Times
<1>2. calls' = [calls EXCEPT ![c].pc = "history", ![c].at = now] BY DEF Invoke
<1>3. /\ calls'[c].pc = "history" /\ calls'[c].at = now /\ calls'[c].run = 0
      /\ \A d \in Calls \ {c} : calls'[d] = calls[d]
  BY <1>1, <1>2 DEF SInv, BInv, Typed, Call
<1>4. UNCHANGED <<now, setBack, disk>> BY DEF Invoke
<1>5. 0 \in 0..MaxRuns /\ now <= now BY <1>1, ScheduleAssumption
<1>. QED BY <1>1, <1>3, <1>4, <1>5, HistoryRow DEF Working

LEMMA ReadRunFollows == ASSUME SInv, NEW c \in Calls, ReadRun(c) PROVE CallFollows(c)'
<1>1. calls[c] \in Call /\ calls[c].pc = "history" /\ Typed /\ HasRead(c)
  BY DEF SInv, BInv, Typed, ReadRun, At, CallFollows
<1>2. CASE End(c) BY <1>1, <1>2, EndRow, EndedFollows
<1>3. CASE ~End(c)
  <2>1. PICK n \in 1..MaxRuns : n = calls[c].run + 1
    <3>1. calls[c].run + 1 <= MaxRuns BY DEF ReadRun
    <3>2. calls[c].run \in Nat /\ MaxRuns \in Nat BY <1>1, RunsOfCalls
    <3>. QED BY <3>1, <3>2
  <2>2. intents[RunKey(n)] # None /\ UNCHANGED <<now, setBack, disk>> BY <2>1 DEF ReadRun
  <2>3. calls' = [calls EXCEPT ![c].run = n,
            ![c].unfinished = @ \/ Incomplete(RunKey(n)),
            ![c].last = Later(@, Began(n))]
    BY <1>3, <2>1 DEF ReadRun, Began
  <2>4. /\ calls'[c].run = n /\ calls'[c].pc = "history" /\ calls'[c].at = calls[c].at
        /\ calls'[c].unfinished = (calls[c].unfinished \/ Incomplete(RunKey(n)))
        /\ calls'[c].last = Later(calls[c].last, Began(n))
        /\ \A d \in Calls \ {c} : calls'[d] = calls[d]
    BY <1>1, <2>3 DEF Typed, Call
  <2>5. Began(n) \in Times /\ Began(n) \in Nat
    BY <1>1, <2>2, BeganIsATime, ScheduleAssumption DEF Times
  <2>6. calls[c].last \in Nat \cup {None} BY <1>1, ScheduleAssumption DEF Call, Times
  <2>7. Later(calls[c].last, Began(n)) >= Began(n) BY <2>5, <2>6 DEF Later
  <2>8. Later(calls[c].last, Began(n)) # None
    BY <2>5, <2>6, NoneIsNothing DEF Later
  <2>9. n \in 0..MaxRuns BY ScheduleAssumption
  <2>10. calls'[c].unfinished \/ receipts[RunKey(n)] # None BY <2>4 DEF Incomplete
  <2>11. ~setBack => calls'[c].at <= now BY <1>1, <2>4 DEF HasRead
  <2>. QED BY <1>1, <2>2, <2>4, <2>7, <2>8, <2>9, <2>10, <2>11, HistoryRow DEF Working
<1>. QED BY <1>2, <1>3

LEMMA EndOfHistoryFollows == ASSUME SInv, NEW c \in Calls, EndOfHistory(c) PROVE CallFollows(c)'
<1>1. calls[c] \in Call /\ calls[c].pc = "history" /\ Typed /\ HasRead(c)
  BY DEF SInv, BInv, Typed, EndOfHistory, At, CallFollows
<1>2. PICK pc \in {"plan", "gap"} : Goto(c, pc) BY DEF EndOfHistory
<1>3. /\ calls'[c].pc = pc /\ calls'[c].run = calls[c].run /\ calls'[c].at = calls[c].at
      /\ calls'[c].last = calls[c].last /\ calls'[c].unfinished = calls[c].unfinished
      /\ \A d \in Calls \ {c} : calls'[d] = calls[d]
  BY <1>1, <1>2 DEF Goto, Typed, Call
<1>4. PICK n \in 0..MaxRuns : n = calls[c].run BY <1>1 DEF Call
<1>5. UNCHANGED <<now, setBack, disk>> BY DEF EndOfHistory
<1>6. n > 0 =>
        /\ intents[RunKey(n)] # None
        /\ calls[c].last # None /\ calls[c].last >= Began(n)
        /\ calls[c].unfinished \/ receipts[RunKey(n)] # None
  BY <1>1, <1>4 DEF HasRead
<1>7. ~setBack => calls[c].at <= now BY <1>1 DEF HasRead
<1>. QED BY <1>1, <1>3, <1>4, <1>5, <1>6, <1>7, HistoryRow DEF Working

\* The refusals of planCapture() are what has to hold of the run it lets begin.
LEMMA DueFollows ==
  ASSUME Typed, NEW c \in Calls, HasRead(c), Decide(calls[c]) = "DUE",
         NEW n \in 1..MaxRuns, n = calls[c].run + 1
  PROVE  Follows(n, now) /\ PlannedBy(c, now)
<1>1. /\ calls[c] \in Call /\ now \in Nat /\ calls[c].at \in Nat
      /\ {Opens, Closes, Interval} \subseteq Nat
  BY ScheduleAssumption DEF Typed, Times, Call
<1>2. calls[c].run \in Nat /\ calls[c].run = n - 1 BY <1>1, RunsOfCalls
<1>3. /\ ~calls[c].unfinished /\ Opens <= calls[c].at /\ calls[c].at < Closes
      /\ ~ (calls[c].last # None /\ calls[c].at < calls[c].last + Interval)
  BY <1>1 DEF Decide, DecideAnyway
<1>4. n > 1 => /\ intents[RunKey(n - 1)] # None /\ receipts[RunKey(n - 1)] # None
               /\ calls[c].last # None /\ calls[c].last >= Began(n - 1)
  BY <1>2, <1>3 DEF HasRead
<1>5. ASSUME n > 1 PROVE Began(n - 1) \in Nat
  <2>1. n - 1 \in 1..MaxRuns /\ intents[RunKey(n - 1)] # None BY <1>4, <1>5, RunsBefore
  <2>2. Began(n - 1) \in Times BY <2>1, BeganIsATime
  <2>. QED BY <2>2, ScheduleAssumption DEF Times
<1>6. calls[c].last # None => calls[c].last \in Nat
  BY <1>1, ScheduleAssumption DEF Call, Times
<1>7. ~setBack => calls[c].at <= now BY DEF HasRead
<1>8. Follows(n, now) BY <1>1, <1>3, <1>4, <1>5, <1>6, <1>7 DEF Follows
<1>. QED BY <1>3, <1>7, <1>8 DEF PlannedBy

LEMMA PlanFollows == ASSUME SInv, NEW c \in Calls, Plan(c) PROVE CallFollows(c)'
<1>1. /\ calls[c] \in Call /\ calls[c].pc \in {"gap", "plan"} /\ Typed /\ HasRead(c)
      /\ UNCHANGED <<now, setBack, disk>> /\ now \in Times
  BY DEF SInv, BInv, Typed, Plan, At, CallFollows
<1>2. CASE End(c) BY <1>1, <1>2, EndRow, EndedFollows
<1>3. CASE Decide(calls[c]) = "DUE" /\ Look(c, RunKey(calls[c].run + 1))
  <2>1. ~(calls[c].run >= MaxRuns) BY <1>3 DEF Decide, DecideAnyway
  <2>2. PICK n \in 1..MaxRuns : n = calls[c].run + 1 BY <1>1, <2>1, RunsOfCalls
  <2>3. RunKey(n) \in Keys /\ Look(c, RunKey(n)) BY <1>3, <2>2, RunKeysAreKeys
  <2>4. \A d \in Calls \ {c} : calls'[d] = calls[d] BY <1>1, <2>3, LookRow
  <2>5. CASE intents[RunKey(n)] # None
    <3>1. calls'[c].pc = "ended" BY <1>1, <2>3, <2>5 DEF Look, Typed, Fresh
    <3>. QED BY <3>1, EndedFollows
  <2>6. CASE intents[RunKey(n)] = None
    <3>1. calls'[c].pc = "absent" /\ calls'[c].request = RunKey(n) /\ calls'[c].at = calls[c].at
      BY <1>1, <2>3, <2>6 DEF Look, Typed, Fresh
    <3>2. PICK t \in Times : t = now BY <1>1
    <3>3. Follows(n, t) /\ PlannedBy(c, t) /\ t <= t
      BY <1>1, <1>3, <2>2, <3>2, DueFollows DEF Times
    <3>4. ScheduleKept BY <1>1, <2>4, QuietKeepsSchedule DEF Working
    <3>8. calls[c].at \in Times BY <1>1 DEF Call
    <3>5. Follows(n, t)' /\ PlannedBy(c, t)'
      BY <1>1, <3>1, <3>3, <3>4, <3>8, FollowsKept, PlanKept
    <3>6. Follows(n, now)' /\ PlannedBy(c, now)' BY <1>1, <3>2, <3>5 DEF Follows, PlannedBy
    <3>7. \A m \in 1..MaxRuns : Key(c)' = RunKey(m) => m = n BY <3>1, OneRunPerKey DEF Key
    <3>. QED BY <3>1, <3>6, <3>7 DEF CallFollows
  <2>. QED BY <2>5, <2>6
<1>. QED BY <1>2, <1>3 DEF Plan

LEMMA DisabledFollows == ASSUME SInv, NEW c \in Calls, Disabled(c) PROVE CallFollows(c)'
BY EndRow, EndedFollows DEF Disabled, SInv, BInv

LEMMA AskFollows ==
  ASSUME RunsAreScheduled, SInv, NEW c \in Calls, NEW request \in Requests, Ask(c, request)
  PROVE  CallFollows(c)'
<1>1. Typed /\ Look(c, request) BY DEF SInv, BInv, Ask
<1>2. CASE intents[request] # None
  <2>1. calls'[c].pc = "ended" BY <1>1, <1>2 DEF Look, Typed, Fresh
  <2>. QED BY <2>1, EndedFollows
<1>3. CASE intents[request] = None
  <2>1. calls'[c].pc = "absent" /\ calls'[c].request = request
    BY <1>1, <1>3 DEF Look, Typed, Fresh
  <2>. QED BY <2>1 DEF CallFollows, RunsAreScheduled, Key
<1>. QED BY <1>2, <1>3

LEMMA SealFollows == ASSUME SInv, NEW c \in Calls, Seal(c) PROVE CallFollows(c)'
<1>1. /\ calls[c] \in Call /\ calls[c].pc = "absent" /\ Typed /\ now \in Times
      /\ UNCHANGED <<now, setBack, disk>>
  BY DEF SInv, BInv, Typed, Seal, At
<1>2. CASE End(c) BY <1>1, <1>2, EndRow, EndedFollows
<1>3. CASE calls' = [calls EXCEPT ![c].pc = "claim", ![c].startedAt = now]
  <2>1. /\ calls'[c].pc = "claim" /\ calls'[c].startedAt = now /\ Key(c)' = Key(c)
        /\ calls'[c].at = calls[c].at /\ calls[c].at \in Times
        /\ \A d \in Calls \ {c} : calls'[d] = calls[d]
    BY <1>1, <1>3 DEF Typed, Call, Key
  <2>2. ScheduleKept BY <1>1, <2>1, QuietKeepsSchedule DEF Working
  <2>3. PICK t \in Times : t = now BY <1>1
  <2>4. t <= t BY DEF Times
  <2>5. ASSUME NEW n \in 1..MaxRuns, Key(c) = RunKey(n) PROVE Follows(n, t)' /\ PlannedBy(c, t)'
    <3>1. Follows(n, t) /\ PlannedBy(c, t) BY <1>1, <2>3, <2>5 DEF SInv, CallFollows
    <3>. QED BY <1>1, <2>1, <2>2, <2>4, <3>1, FollowsKept, PlanKept
  <2>6. ASSUME NEW n \in 1..MaxRuns, Key(c) = RunKey(n)
        PROVE  Follows(n, calls[c].startedAt)' /\ PlannedBy(c, calls[c].startedAt)'
    BY <2>1, <2>3, <2>5, <2>6 DEF Follows, PlannedBy
  <2>. QED BY <2>1, <2>6 DEF CallFollows
<1>. QED BY <1>2, <1>3 DEF Seal

LEMMA QuietFollows == ASSUME RunsAreScheduled, SInv, BInv', NEW c \in Calls, Quiet(c) PROVE SInv'
<1>1. /\ UNCHANGED disk
      /\ \A d \in Calls \ {c} : calls'[d] = calls[d]
      /\ calls[c].pc \notin {"ended"} \cup Working
  BY QuietRow DEF SInv
<1>2. UNCHANGED <<now, setBack>>
  BY DEF Quiet, Invoke, ReadRun, EndOfHistory, Disabled, Plan, Ask, Seal
<1>3. ScheduleKept BY <1>1, <1>2, QuietKeepsSchedule
<1>4. CallFollows(c)'
  BY InvokeFollows, ReadRunFollows, EndOfHistoryFollows, DisabledFollows, PlanFollows, AskFollows,
     SealFollows DEF Quiet
<1>5. intents' = intents BY <1>1 DEF disk
<1>. QED BY <1>1, <1>3, <1>4, <1>5, OneCallFollows

-----------------------------------------------------------------------------
(* capture() and the clock.                                                *)

Writing(c) ==
  \/ ReserveMinute(c) \/ ReserveDay(c)
  \/ \E outcome \in {"FETCH_FAILED", "CAPTURED", "QUARANTINED"} : Respond(c, outcome)
  \/ Retain(c) \/ Finish(c) \/ Stop(c)

\* The owner of an intent keeps its start until it ends.
LEMMA WritingRow ==
  ASSUME BInv, NEW c \in Calls, Writing(c)
  PROVE  /\ UNCHANGED <<now, setBack, intents>>
         /\ \A d \in Calls \ {c} : calls'[d] = calls[d]
         /\ calls'[c].pc \in Working \cup {"ended"} /\ calls'[c].startedAt = calls[c].startedAt
         /\ calls'[c].pc \in Working => calls'[c].request = calls[c].request
         /\ \A key \in Keys : receipts[key] # None => receipts'[key] # None
<1>1. Typed /\ calls[c] \in Call BY DEF BInv, Typed
<1>2. CASE ReserveMinute(c) BY <1>1, <1>2 DEF ReserveMinute, Goto, Denied, Working, Typed, Call
<1>3. CASE ReserveDay(c)
  BY <1>1, <1>3 DEF ReserveDay, At, Goto, Denied, Working, Typed, Call
<1>4. ASSUME NEW outcome \in {"FETCH_FAILED", "CAPTURED", "QUARANTINED"}, Respond(c, outcome)
      PROVE  /\ UNCHANGED <<now, setBack, intents, receipts>>
             /\ \A d \in Calls \ {c} : calls'[d] = calls[d]
             /\ calls'[c].pc \in Working /\ calls'[c].startedAt = calls[c].startedAt
             /\ calls'[c].request = calls[c].request
  BY <1>1, <1>4 DEF Respond, Working, Typed, Call, disk
<1>5. CASE Retain(c)
  <2>1. CASE End(c) BY <1>1, <1>5, <2>1, EndRow DEF Retain, Working
  <2>2. CASE Goto(c, "finish") BY <1>1, <1>5, <2>2 DEF Retain, Goto, Working, Typed, Call
  <2>. QED BY <1>5, <2>1, <2>2 DEF Retain
<1>6. CASE Finish(c)
  <2>1. End(c) /\ UNCHANGED <<now, setBack, intents>> BY <1>6 DEF Finish, FinishAnyway
  <2>2. /\ \A d \in Calls \ {c} : calls'[d] = calls[d]
        /\ calls'[c].pc = "ended" /\ calls'[c].startedAt = calls[c].startedAt
    BY <1>1, <2>1, EndRow
  <2>3. PICK receipt \in Receipt : receipts' = [receipts EXCEPT ![Key(c)] = receipt]
    <3> DEFINE receipt ==
          [state |-> IF calls[c].outcome \in Acquired THEN calls[c].outcome ELSE "FAILED",
           code |-> calls[c].outcome, at |-> now]
    <3>1. calls[c].outcome \in Outcomes /\ now \in Times
      BY <1>6 DEF BInv, Typed, CallIsBudgeted, Finish, FinishAnyway, At
    <3>2. receipt \in Receipt BY <3>1 DEF Receipt
    <3>3. receipts' = [receipts EXCEPT ![Key(c)] = receipt] BY <1>6 DEF Finish, FinishAnyway
    <3>. QED BY <3>2, <3>3
  <2>4. receipt # None BY <2>3, NoneIsNothing
  <2>5. \A key \in Keys : receipts[key] # None => receipts'[key] # None
    BY <1>1, <2>3, <2>4 DEF Typed
  <2>. QED BY <2>1, <2>2, <2>5 DEF Working
<1>7. CASE Stop(c) BY <1>1, <1>7, EndRow DEF Stop, disk, Working
<1>. QED BY <1>2, <1>3, <1>4, <1>5, <1>6, <1>7 DEF Writing

LEMMA WritingFollows == ASSUME SInv, BInv', NEW c \in Calls, Writing(c) PROVE SInv'
<1>1. /\ UNCHANGED <<now, setBack, intents>>
      /\ \A d \in Calls \ {c} : calls'[d] = calls[d]
      /\ calls'[c].pc \in Working \cup {"ended"} /\ calls'[c].startedAt = calls[c].startedAt
      /\ \A key \in Keys : receipts[key] # None => receipts'[key] # None
  BY WritingRow DEF SInv
<1>2. now \in Nat BY ScheduleAssumption DEF SInv, BInv, Typed, Times
<1>3. ScheduleKept BY <1>1, <1>2 DEF ScheduleKept
<1>4. CallFollows(c)' BY <1>1, EndedFollows
<1>. QED BY <1>1, <1>3, <1>4, OneCallFollows

\* An intent is linked by the call that was due, over none.
LEMMA ClaimFollows == ASSUME SInv, BInv', NEW c \in Calls, Claim(c) PROVE SInv'
<1>1. /\ Typed /\ calls[c] \in Call /\ calls[c].pc = "claim" /\ Key(c) \in Keys
      /\ UNCHANGED <<now, setBack, receipts>> /\ now \in Nat
  BY ScheduleAssumption DEF SInv, BInv, Typed, CallIsBudgeted, Claim, At, Times
<1>2. CASE intents[Key(c)] # None
  <2>1. UNCHANGED <<now, setBack, disk>> /\ End(c) BY <1>2 DEF Claim, disk
  <2>2. /\ \A d \in Calls \ {c} : calls'[d] = calls[d]
        /\ calls'[c].pc = "ended"
    BY <1>1, <2>1, EndRow
  <2>3. ScheduleKept /\ CallFollows(c)'
    BY <1>1, <2>1, <2>2, QuietKeepsSchedule, EndedFollows DEF Working
  <2>4. intents' = intents BY <2>1 DEF disk
  <2>. QED BY <2>2, <2>3, <2>4, OneCallFollows
<1>3. CASE intents[Key(c)] = None
  <2>1. intents' = [intents EXCEPT ![Key(c)] = c] /\ Goto(c, "minute") BY <1>3 DEF Claim
  <2>2. /\ calls'[c].pc = "minute" /\ calls'[c].startedAt = calls[c].startedAt
        /\ \A d \in Calls \ {c} : calls'[d] = calls[d]
    BY <1>1, <2>1 DEF Goto, Typed, Call
  <2>3. \A key \in Keys : intents'[key] # intents[key] => intents'[key] = c
    BY <1>1, <2>1 DEF Typed
  <2>4. \A key \in Keys : intents[key] # None => intents'[key] = intents[key]
    BY <1>1, <1>3, <2>1 DEF Typed
  <2>5. ScheduleKept BY <1>1, <2>2, <2>4 DEF ScheduleKept
  <2>6. CallFollows(c)' BY <2>2, EndedFollows DEF Working
  <2>. QED BY <1>1, <2>2, <2>3, <2>5, <2>6, OneCallFollows DEF Working
<1>. QED BY <1>2, <1>3

LEMMA ClockFollows == ASSUME SInv, BInv', Tick \/ SetBack \/ UNCHANGED vars PROVE SInv'
<1>1. Typed /\ Typed' /\ now \in Nat /\ UNCHANGED <<disk, calls>>
  BY ScheduleAssumption DEF SInv, BInv, Typed, Times, Tick, SetBack, vars
<1>2. ~setBack' => ~setBack /\ now <= now' BY <1>1 DEF Tick, SetBack, vars
<1>3. ScheduleKept BY <1>1, <1>2 DEF ScheduleKept, disk
<1>4. \A d \in Calls : CallFollows(d)' BY <1>1, <1>3, OtherFollows DEF SInv
<1>5. OwnersHaveBegun' BY <1>1 DEF SInv, OwnersHaveBegun, disk
<1>. QED BY <1>4, <1>5 DEF SInv

LEMMA ScheduleInitial == Init => SInv
<1> SUFFICES ASSUME Init PROVE SInv OBVIOUS
<1>1. BInv BY BudgetInitial
<1>2. OwnersHaveBegun BY ScheduleAssumption DEF Init, OwnersHaveBegun
<1>3. \A c \in Calls : CallFollows(c) BY DEF Init, CallFollows, Fresh
<1>. QED BY <1>1, <1>2, <1>3 DEF SInv

LEMMA ScheduleGoesOn == RunsAreScheduled /\ SInv /\ [Next]_vars => SInv'
<1> SUFFICES ASSUME RunsAreScheduled, SInv, [Next]_vars PROVE SInv' OBVIOUS
<1>1. BInv' BY BudgetKept DEF SInv
<1>2. CASE Tick \/ SetBack \/ UNCHANGED vars BY <1>1, <1>2, ClockFollows
<1>3. ASSUME NEW c \in Calls, Quiet(c) \/ Claim(c) \/ Writing(c) PROVE SInv'
  BY <1>1, <1>3, QuietFollows, ClaimFollows, WritingFollows
<1>. QED BY <1>2, <1>3 DEF Next, Quiet, Writing

\* An intent of a run is linked by the call that planned it.
LEMMA LinkedRunMayBegin ==
  ASSUME SInv, [Next]_vars, NEW n \in 1..MaxRuns, NEW c \in Calls,
         intents[RunKey(n)] = None, intents'[RunKey(n)] = c
  PROVE  MayBegin(c, n)
<1>1. Typed /\ RunKey(n) \in Keys /\ c # None
  BY RunKeysAreKeys, ScheduleAssumption DEF SInv, BInv
<1>2. intents' # intents BY <1>1
<1>3. PICK d \in Calls : Claim(d)
  <2>1. ~(Tick \/ SetBack \/ UNCHANGED vars) BY <1>2 DEF Tick, SetBack, vars, disk
  <2>2. \A d \in Calls : ~Quiet(d) BY <1>2, QuietRow DEF SInv, disk
  <2>3. \A d \in Calls : ~Writing(d) BY <1>2, WritingRow DEF SInv
  <2>. QED BY <2>1, <2>2, <2>3 DEF Next, Quiet, Writing
<1>4. intents' = [intents EXCEPT ![Key(d)] = d] /\ calls[d].pc = "claim"
  BY <1>2, <1>3 DEF Claim, At
<1>5. c = d /\ Key(c) = RunKey(n) BY <1>1, <1>4 DEF Typed
<1>6. Follows(n, calls[c].startedAt) /\ PlannedBy(c, calls[c].startedAt)
  <2>1. CallFollows(c) BY DEF SInv
  <2>. QED BY <1>4, <1>5, <2>1 DEF CallFollows
<1>7. calls[c].at \in Nat /\ calls[c].startedAt \in Nat
  <2>1. calls[c] \in Call BY <1>1 DEF Typed
  <2>2. calls[c].at \in Times /\ calls[c].startedAt \in Times BY <2>1 DEF Call
  <2>3. Times \subseteq Nat BY <2>1, ClocksOfCalls
  <2>. QED BY <2>2, <2>3
<1>8. n > 1 => /\ intents[RunKey(n - 1)] # None /\ receipts[RunKey(n - 1)] # None
               /\ ~setBack => calls[c].startedAt >= calls[intents[RunKey(n - 1)]].startedAt + Interval
  BY <1>6 DEF Follows, Began
<1>9. /\ Opens <= calls[c].at /\ calls[c].at < Closes
      /\ ~setBack => calls[c].startedAt >= calls[c].at
  BY <1>6, <1>7 DEF PlannedBy
<1>. QED BY <1>8, <1>9 DEF MayBegin

\* A run of the schedule is linked over finished runs, not within the interval
\* of the last, by a call that planned it inside the window and not before it
\* planned, whatever other invocations planned meanwhile, as long as operators
\* leave the ids of its runs to the schedule.
THEOREM RunsFollow ==
  ASSUME RunsAreScheduled PROVE Spec => RunsFollowFinishedRuns
<1>1. SInv /\ [Next]_vars =>
        \A n \in 1..MaxRuns : \A c \in Calls :
          intents[RunKey(n)] = None /\ intents'[RunKey(n)] = c => MayBegin(c, n)
  BY LinkedRunMayBegin
<1>2. RunsAreScheduled /\ SInv /\ [Next]_vars => SInv' BY ScheduleGoesOn
<1>3. SInv /\ [Next]_vars => SInv' BY <1>2
<1>. QED BY <1>1, <1>3, ScheduleInitial, PTL DEF Spec, RunsFollowFinishedRuns

-----------------------------------------------------------------------------
(* Create-only files.                                                      *)

\* What capture() has made is never made again or otherwise, though the model
\* writes receipts without looking whether one is there.
FilesAreFinal ==
  /\ \A key \in Keys : intents[key] # None => intents'[key] = intents[key]
  /\ \A key \in Keys : receipts[key] # None => receipts'[key] = receipts[key]
  /\ \A place \in Places : evidence[place] # None => evidence'[place] = evidence[place]
  /\ \A k \in Minutes : minutes[k] # None => minutes'[k] = minutes[k]
  /\ \A k \in Days, slot \in 1..DaySlots : days[k][slot] # None => days'[k][slot] = days[k][slot]

\* The owner of an intent has not answered for it while it works.
Unanswered ==
  /\ \A c \in Calls : calls[c].pc \in Working => receipts[Key(c)] = None
  /\ \A key \in Keys : intents[key] = None => receipts[key] = None

LEMMA NextKeepsFiles == BInv /\ Unanswered /\ Next => FilesAreFinal
<1> SUFFICES ASSUME BInv, Unanswered, Next PROVE FilesAreFinal OBVIOUS
<1>1. Typed BY DEF BInv
<1>2. CASE UNCHANGED disk BY <1>2 DEF FilesAreFinal, disk
<1>3. ASSUME NEW c \in Calls, Claim(c) PROVE FilesAreFinal
  <2>1. UNCHANGED <<receipts, evidence, minutes, days>> BY <1>3 DEF Claim
  <2>2. intents' = intents \/ (intents[Key(c)] = None /\ intents' = [intents EXCEPT ![Key(c)] = c])
    BY <1>3 DEF Claim
  <2>. QED BY <1>1, <2>1, <2>2 DEF FilesAreFinal, Typed
<1>4. ASSUME NEW c \in Calls, ReserveMinute(c) PROVE FilesAreFinal
  <2>1. UNCHANGED <<intents, receipts, evidence, days>> BY <1>4 DEF ReserveMinute
  <2>2. \/ minutes' = minutes
        \/ minutes[MinuteKey(c)] = None /\ minutes' = [minutes EXCEPT ![MinuteKey(c)] = c]
    BY <1>4 DEF ReserveMinute
  <2>. QED BY <1>1, <2>1, <2>2 DEF FilesAreFinal, Typed
<1>5. ASSUME NEW c \in Calls, ReserveDay(c) PROVE FilesAreFinal
  <2> DEFINE slot == calls[c].slot
  <2>1. UNCHANGED <<intents, receipts, evidence, minutes>> BY <1>5 DEF ReserveDay
  <2>2. days' = days \/ (days[DayKey(c)][slot] = None /\ days' = [days EXCEPT ![DayKey(c)][slot] = c])
    BY <1>5 DEF ReserveDay
  <2>3. ASSUME NEW k \in Days, NEW t \in 1..DaySlots, days[k][t] # None PROVE days'[k][t] = days[k][t]
    <3>1. k \in DOMAIN days /\ t \in DOMAIN days[k] BY <1>1 DEF Typed
    <3>2. CASE k = DayKey(c) /\ t = slot
      <4>1. days[DayKey(c)][slot] # None BY <2>3, <3>2
      <4>. QED BY <2>2, <4>1
    <3>3. CASE ~(k = DayKey(c) /\ t = slot)
      <4> HIDE DEF slot
      <4>. QED BY <2>2, <3>1, <3>3
    <3>. QED BY <3>2, <3>3
  <2>. QED BY <2>1, <2>3 DEF FilesAreFinal
<1>6. ASSUME NEW c \in Calls, Retain(c) PROVE FilesAreFinal
  <2>1. UNCHANGED <<intents, receipts, minutes, days>> BY <1>6 DEF Retain
  <2>2. PICK place, record : evidence' = evidence
          \/ (evidence[place] = None /\ evidence' = [evidence EXCEPT ![place] = record])
    BY <1>6 DEF Retain
  <2>. QED BY <1>1, <2>1, <2>2 DEF FilesAreFinal, Typed
<1>7. ASSUME NEW c \in Calls, Finish(c) PROVE FilesAreFinal
  <2>1. UNCHANGED <<intents, evidence, minutes, days>> BY <1>7 DEF Finish, FinishAnyway
  <2>2. PICK receipt : receipts' = [receipts EXCEPT ![Key(c)] = receipt] BY <1>7 DEF Finish, FinishAnyway
  <2>3. receipts[Key(c)] = None BY <1>7 DEF Unanswered, Finish, FinishAnyway, At, Working
  <2>. QED BY <1>1, <2>1, <2>2, <2>3 DEF FilesAreFinal, Typed
<1>8. Tick \/ SetBack => UNCHANGED disk BY DEF Tick, SetBack
<1>9. ASSUME NEW c \in Calls PROVE Invoke(c) \/ ReadRun(c) \/ EndOfHistory(c) => UNCHANGED disk
  BY DEF Invoke, ReadRun, EndOfHistory
<1>10. ASSUME NEW c \in Calls PROVE Disabled(c) \/ Plan(c) \/ Seal(c) \/ Stop(c) => UNCHANGED disk
  BY DEF Disabled, Plan, Seal, Stop
<1>11. ASSUME NEW c \in Calls, NEW request, Ask(c, request) PROVE UNCHANGED disk
  BY <1>11 DEF Ask
<1>12. ASSUME NEW c \in Calls, NEW outcome, Respond(c, outcome) PROVE UNCHANGED disk
  BY <1>12 DEF Respond
<1>. QED BY <1>2, <1>3, <1>4, <1>5, <1>6, <1>7, <1>8, <1>9, <1>10, <1>11, <1>12 DEF Next

LEMMA UnansweredKept == BInv /\ Unanswered /\ [Next]_vars => Unanswered'
<1> SUFFICES ASSUME BInv, Unanswered, [Next]_vars PROVE Unanswered' OBVIOUS
<1>1. Typed /\ None \notin Calls BY ScheduleAssumption DEF BInv
<1>2. CASE Tick \/ SetBack \/ UNCHANGED vars
  BY <1>2 DEF Tick, SetBack, vars, disk, Unanswered, Key
<1>3. ASSUME NEW c \in Calls, Quiet(c) PROVE Unanswered'
  <2>1. /\ UNCHANGED disk /\ calls'[c].pc \notin Working
        /\ \A d \in Calls \ {c} : calls'[d] = calls[d]
    BY <1>3, QuietRow
  <2>. QED BY <2>1 DEF Unanswered, Key, disk
<1>4. ASSUME NEW c \in Calls, Claim(c) PROVE Unanswered'
  <2>1. calls[c] \in Call /\ Key(c) \in Keys /\ UNCHANGED receipts
    BY <1>1, <1>4 DEF BInv, Typed, CallIsBudgeted, Claim, At
  <2>2. CASE End(c) /\ UNCHANGED intents
    <3>1. calls'[c].pc \notin Working /\ \A d \in Calls \ {c} : calls'[d] = calls[d]
      BY <1>1, <2>2, EndRow DEF Working
    <3>. QED BY <2>1, <2>2, <3>1 DEF Unanswered, Key
  <2>3. CASE intents[Key(c)] = None
    <3>1. intents' = [intents EXCEPT ![Key(c)] = c] /\ Goto(c, "minute") BY <1>4, <2>3 DEF Claim
    <3>2. Key(c)' = Key(c) /\ \A d \in Calls \ {c} : calls'[d] = calls[d]
      BY <1>1, <2>1, <3>1 DEF Goto, Typed, Call, Key
    <3>3. receipts[Key(c)] = None BY <2>1, <2>3 DEF Unanswered
    <3>4. \A key \in Keys : intents'[key] = None => intents[key] = None
      BY <1>1, <2>1, <3>1 DEF Typed
    <3>5. \A d \in Calls : calls'[d].pc \in Working => receipts[Key(d)]' = None
      BY <2>1, <3>2, <3>3 DEF Unanswered, Key
    <3>. QED BY <2>1, <3>4, <3>5 DEF Unanswered
  <2>. QED BY <1>4, <2>2, <2>3 DEF Claim
<1>5. ASSUME NEW c \in Calls, Writing(c) PROVE Unanswered'
  <2>1. /\ UNCHANGED intents
        /\ \A d \in Calls \ {c} : calls'[d] = calls[d]
        /\ calls'[c].pc \in Working => calls'[c].request = calls[c].request
    BY <1>5, WritingRow
  <2>2. CASE UNCHANGED receipts
    <3>1. calls[c].pc \in Working
      BY <1>5 DEF Writing, ReserveMinute, ReserveDay, Respond, Retain, Finish, FinishAnyway, Stop, At, Working
    <3>. QED BY <2>1, <2>2, <3>1 DEF Unanswered, Key
  <2>3. CASE Finish(c)
    <3>1. Key(c) \in Keys /\ intents[Key(c)] = c BY <2>3 DEF BInv, CallIsBudgeted, Finish, FinishAnyway, At, Working
    <3>2. calls'[c].pc = "ended" BY <1>1, <2>3, EndRow DEF Finish, FinishAnyway
    <3>3. \A key \in Keys : key # Key(c) => receipts'[key] = receipts[key]
      BY <1>1, <2>3 DEF Finish, FinishAnyway, Typed
    <3>4. ASSUME NEW d \in Calls \ {c}, calls[d].pc \in Working PROVE receipts[Key(d)]' = None
      <4>1. Key(d) \in Keys /\ Key(d) # Key(c) /\ Key(d)' = Key(d)
        BY <2>1, <3>1, <3>4 DEF BInv, CallIsBudgeted, Key
      <4>2. PICK key \in Keys : key = Key(d) BY <4>1
      <4>3. receipts'[key] = None BY <3>3, <3>4, <4>1, <4>2 DEF Unanswered
      <4>. QED BY <4>1, <4>2, <4>3
    <3>5. \A key \in Keys : intents'[key] = None => receipts'[key] = None
      BY <1>1, <2>1, <3>1, <3>3 DEF Unanswered
    <3>. QED BY <2>1, <3>2, <3>4, <3>5 DEF Unanswered, Working
  <2>. QED BY <1>5, <2>2, <2>3 DEF Writing, ReserveMinute, ReserveDay, Respond, Retain, Stop, disk
<1>. QED BY <1>2, <1>3, <1>4, <1>5 DEF Next, Quiet, Writing

\* Intents, receipts, evidence and slots of the budget stay what they were when
\* they were made, however calls overlap and end: a receipt is written by the owner
\* of its intent, once, and every other file gives way to the one that is there.
THEOREM FilesStay == Spec => [][FilesAreFinal]_vars
<1>1. Init => BInv /\ Unanswered
  BY BudgetInitial, FreshIsACall DEF Init, Unanswered, Fresh, Working
<1>2. BInv /\ Unanswered /\ [Next]_vars => (BInv /\ Unanswered)'
  BY BudgetKept, UnansweredKept
<1>3. BInv /\ Unanswered /\ [Next]_vars => [FilesAreFinal]_vars
  BY NextKeepsFiles
<1>. QED BY <1>1, <1>2, <1>3, PTL DEF Spec
=============================================================================
