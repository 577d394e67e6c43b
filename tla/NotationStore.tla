--------------------------- MODULE NotationStore ---------------------------
(***************************************************************************)
(* The notation repository (src/state-kernel/store.ts): save() calls from  *)
(* several processes on one directory of version files.  A call loads the  *)
(* history, takes the file writer.lock, loads again, publishes the next    *)
(* version with a create-only link, reads it back and removes the lock.    *)
(* Between any two of those steps other calls run, and the process may be  *)
(* killed, which leaves the lock behind.                                   *)
(*                                                                         *)
(* A published file never changes, so that a load sees the versions that   *)
(* were there when it listed the directory.  A batch stands for its        *)
(* commands: the kernel, which is given the whole history, refuses one     *)
(* whose command identifiers are already used.  The digests, the 2 MiB     *)
(* limits and preview(), which writes nothing, are not represented.        *)
(***************************************************************************)
EXTENDS Naturals, Sequences, FiniteSets

CONSTANTS
  Writers,       \* save() calls that may be in progress at once
  Batches,       \* drafts of clients
  MAX_VERSIONS,
  None, Abandoned

ASSUME LimitIsNatural == MAX_VERSIONS \in Nat
ASSUME LockValues == {None, Abandoned} \cap Writers = {} /\ None # Abandoned

Requests == [base : 0 .. MAX_VERSIONS, batch : Batches]

Refusals == {"VERSION_CONFLICT", "CAPACITY", "KERNEL_REFUSED", "KERNEL_UNAVAILABLE",
             "STATE_BUSY", "SAVE_UNCONFIRMED", "LOCAL_STATE_UNAVAILABLE"}

ASSUME NoneIsNoAnswer == None \notin Refusals \cup {"SAVED"}

VARIABLES
  versions,      \* the requests of the version files, in their order
  lock,          \* who created writer.lock: a writer, Abandoned or None
  pc,            \* writer -> the step it is at
  request,       \* writer -> the request of its call; None when it is idle
  loaded,        \* writer -> versions its load under the lock saw
  answer,        \* writer -> the answer it is about to return, or None
  confirmed      \* history: requests whose caller was told they are saved

call == <<pc, request, loaded, answer>>
vars == <<versions, lock, call, confirmed>>

Steps == {"idle", "first", "lock", "second", "publish", "readback", "unlock"}
Holding == {"second", "publish", "readback", "unlock"}

Init ==
  /\ versions = <<>> /\ lock = None /\ confirmed = {}
  /\ pc = [w \in Writers |-> "idle"]
  /\ request = [w \in Writers |-> None]
  /\ loaded = [w \in Writers |-> 0]
  /\ answer = [w \in Writers |-> None]

Goto(w, step) == pc' = [pc EXCEPT ![w] = step]
Answer(w, code) == answer' = [answer EXCEPT ![w] = code]

\* A client sends a batch against the version it has, for the first time or
\* again, with the same base or after a reload.
Submit(w, r) ==
  /\ pc[w] = "idle"
  /\ r.base <= Len(versions)
  /\ request' = [request EXCEPT ![w] = r]
  /\ Goto(w, "first")
  /\ UNCHANGED <<versions, lock, loaded, answer, confirmed>>

IdenticalBase(r) == versions[Len(versions)].base = r.base  \* variation: the batch is not compared

\* localJson(lastRequest) === localJson(request)
Identical(r) == versions[Len(versions)] = r

KernelAcceptsAlone(r) == TRUE    \* variation: the kernel is not given the history

KernelAccepts(r) == \A i \in DOMAIN versions : versions[i].batch # r.batch

VerdictUncapped(r) ==   \* variation: the limit on the versions is not checked
  {"KERNEL_UNAVAILABLE"} \cup
  IF versions # <<>> /\ Identical(r) THEN {"SAVED"}
  ELSE IF r.base # Len(versions) THEN {"VERSION_CONFLICT"}
  ELSE IF ~KernelAccepts(r) THEN {"KERNEL_REFUSED"}
  ELSE {None}

\* What save() finds out from a load, before and after it has the lock: the
\* answer of the call, or None when the batch is to be saved.
Verdict(r) ==
  {"KERNEL_UNAVAILABLE"} \cup
  IF versions # <<>> /\ Identical(r) THEN {"SAVED"}
  ELSE IF r.base # Len(versions) THEN {"VERSION_CONFLICT"}
  ELSE IF Len(versions) >= MAX_VERSIONS THEN {"CAPACITY"}
  ELSE IF ~KernelAccepts(r) THEN {"KERNEL_REFUSED"}
  ELSE {None}

Forget(w) ==
  /\ Goto(w, "idle") /\ Answer(w, None)
  /\ request' = [request EXCEPT ![w] = None]
  /\ loaded' = [loaded EXCEPT ![w] = 0]

\* The call returns: a confirmed save is known to its client.
Return(w, code) ==
  /\ Forget(w)
  /\ confirmed' = IF code = "SAVED" THEN confirmed \cup {request[w]} ELSE confirmed

First(w) ==
  /\ pc[w] = "first"
  /\ \E code \in Verdict(request[w]) :
       IF code = None
       THEN Goto(w, "lock") /\ UNCHANGED <<request, loaded, answer, confirmed>>
       ELSE Return(w, code)
  /\ UNCHANGED <<versions, lock>>

LockShared(w) ==     \* variation: the lock file is opened without 'wx'
  /\ pc[w] = "lock"
  /\ lock' = w /\ Goto(w, "second")
  /\ UNCHANGED <<versions, request, loaded, answer, confirmed>>

Lock(w) ==
  /\ pc[w] = "lock"
  /\ IF lock = None
     THEN /\ lock' = w /\ Goto(w, "second")
          /\ UNCHANGED <<request, loaded, answer, confirmed>>
     ELSE lock' = lock /\ Return(w, "STATE_BUSY")
  /\ UNCHANGED versions

SecondReturns(w) ==   \* variation: a refusal after the lock returns without `finally'
  /\ pc[w] = "second"
  /\ \E code \in Verdict(request[w]) :
       IF code = None
       THEN /\ Goto(w, "publish")
            /\ loaded' = [loaded EXCEPT ![w] = Len(versions)]
            /\ UNCHANGED <<request, answer, confirmed>>
       ELSE Return(w, code)
  /\ UNCHANGED <<versions, lock>>

Second(w) ==
  /\ pc[w] = "second"
  /\ \E code \in Verdict(request[w]) :
       /\ Goto(w, IF code = None THEN "publish" ELSE "unlock")
       /\ Answer(w, code)
  /\ loaded' = [loaded EXCEPT ![w] = Len(versions)]
  /\ UNCHANGED <<versions, lock, request, confirmed>>

\* publishImmutableFile(): the file of the next version appears whole, unless
\* it is there already or the file system refuses.
Publish(w) ==
  /\ pc[w] = "publish"
  /\ \/ /\ Len(versions) = loaded[w]
        /\ versions' = Append(versions, request[w])
        /\ Goto(w, "readback") /\ UNCHANGED answer
     \/ /\ Goto(w, "unlock") /\ Answer(w, "LOCAL_STATE_UNAVAILABLE")
        /\ UNCHANGED versions
  /\ UNCHANGED <<lock, request, loaded, confirmed>>

Readback(w) ==
  /\ pc[w] = "readback"
  /\ \E code \in {"KERNEL_UNAVAILABLE"} \cup
                   IF Len(versions) = loaded[w] + 1 /\ versions[Len(versions)] = request[w]
                   THEN {"SAVED"} ELSE {"SAVE_UNCONFIRMED"} :
       Answer(w, code)
  /\ Goto(w, "unlock")
  /\ UNCHANGED <<versions, lock, request, loaded, confirmed>>

\* `finally': the lock file is unlinked by its name, and the call returns.
Unlock(w) ==
  /\ pc[w] = "unlock"
  /\ lock' = None
  /\ Return(w, answer[w])
  /\ UNCHANGED versions

-----------------------------------------------------------------------------
\* The process of a call is killed: the client hears nothing.
Kill(w) ==
  /\ pc[w] # "idle"
  /\ Forget(w)
  /\ lock' = IF lock = w THEN Abandoned ELSE lock
  /\ UNCHANGED <<versions, confirmed>>

\* The operator removes a lock file once no writer that took it remains.
Recover ==
  /\ lock = Abandoned
  /\ \A w \in Writers : pc[w] \notin Holding
  /\ lock' = None
  /\ UNCHANGED <<versions, call, confirmed>>

Save(w) == First(w) \/ Lock(w) \/ Second(w) \/ Publish(w) \/ Readback(w) \/ Unlock(w)

Next ==
  \/ \E w \in Writers : Save(w) \/ Kill(w)
  \/ \E w \in Writers, r \in Requests : Submit(w, r)
  \/ Recover

Spec == Init /\ [][Next]_vars

\* A call that is not killed goes on: every wait in it ends, the one for the
\* kernel after ten seconds, and the lock is tried and not waited for.
LiveSpec == Spec /\ \A w \in Writers : WF_vars(Save(w))

-----------------------------------------------------------------------------
(***************************************************************************)
(* Properties.                                                             *)
(***************************************************************************)

\* Type invariant: the files, and the step, request and answer of each call.
TypeOK ==
  /\ versions \in Seq(Requests) /\ Len(versions) <= MAX_VERSIONS
  /\ lock \in Writers \cup {None, Abandoned}
  /\ pc \in [Writers -> Steps]
  /\ request \in [Writers -> Requests \cup {None}]
  /\ loaded \in [Writers -> 0 .. MAX_VERSIONS]
  /\ answer \in [Writers -> Refusals \cup {"SAVED", None}]
  /\ confirmed \subseteq Requests

\* A batch is in the history once, on the version it was written against: a
\* retry after a lost answer, a kill or a conflict never applies it again.
NoBatchTwice ==
  /\ \A i \in DOMAIN versions : versions[i].base = i - 1
  /\ \A i, j \in DOMAIN versions : versions[i].batch = versions[j].batch => i = j

\* What a client was told is saved stays saved, and at the version it was told.
ConfirmedSavesAreKept ==
  \A r \in confirmed : r.base + 1 \in DOMAIN versions /\ versions[r.base + 1] = r

\* One call at a time is between taking and removing the lock, and the lock file
\* is there as long as it is; therefore a readback finds what was published.
WritersTakeTurns ==
  /\ \A w \in Writers : pc[w] \in Holding => lock = w
  /\ \A w \in Writers : answer[w] # "SAVE_UNCONFIRMED"

\* No path through the part of save() that holds the lock keeps it: the lock of
\* a call that is not killed goes.
LockIsReturned == \A w \in Writers : lock = w ~> lock # w
=============================================================================
