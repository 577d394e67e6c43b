# A verification development of NotationsOS

This directory holds TLA+ models of the parts of NotationsOS (PayLoad-OS) that
keep state, the TLC instances that check them, and machine-checked proofs about
the components they model. The source is the reference throughout: every definition names the
lines it translates in `PROJECT.json` (`map`), and a claim a document makes is
only ever a property, never a definition.

Contents: [the system](#1-the-system) · [modules and code](#2-modules-and-the-code-they-model) ·
[what the runs check](#3-the-runs) · [where code and documents disagree](#4-where-the-code-and-its-documents-disagree) ·
[bounds and fairness](#5-bounds-and-fairness) · [proofs](#6-what-is-proved) ·
[not modelled](#7-what-is-not-modelled) · [plan](#8-plan)

## 1. The system

NotationsOS is a Next.js application over PostgreSQL ledgers and a few local file
stores, with a Rust program and a Solidity contract beside it. Most of its 1060
files are pages, fixtures, documents and pure computation. The state that can go
wrong lives in ten places.

**Native notation kernel** (`native/state-kernel/src/lib.rs`). A process reads one
request, the whole history of commands, replays it from the empty state and
prints the result. State: two maps (notations, relations), the identifiers ever
used, an undo and a redo stack of *inverse records*, a revision. Operations:
create and update a notation, create a relation, undo, redo. Hard: undo restores
from inverse records instead of replaying, so a record applied out of its order
would write a value that was never current; identities stay reserved across
undo and discarded redo branches; `validate()` returns an internal error that a
comment argues is unreachable. Correct when: maps and stacks always are those of
one linear history with a cursor.

**Notation repository** (`src/state-kernel/store.ts`, `runtime.ts`,
`src/data-os/local-files.ts`). Version files on disk, one per saved batch, a
`writer.lock`. Operations: `read`, `preview` (neither writes) and `save`. It
spawns the kernel (ten-second limit) on the whole history. Hard: calls in several
processes interleave between load, lock, second load, create-only publication,
readback and unlink; a process may be killed at each point; clients retry
batches whose answers they lost. Correct when: it is one versioned log in which
no batch is applied twice and no confirmed save disappears.

**Coordination board and its workers** (`src/coordination/*`,
`clients/javascript/coordination.mjs`). A log of commands in one file, replayed
over a seed, replaced as a whole under a lock; an inbox read by cursor; a client
that repeats commands after a timeout or a retryable status; two review workers
(contract review, inspection of candidate builds) that post a result and then
acknowledge the request. Hard: a call given up by its client is still carried out;
a worker dies between result and acknowledgement; two results made for one request
differ because the registry or the files changed; the page cursor is computed
while the board grows. Correct when: an answered command stays, a request id names
one message, a receipt follows exactly one result, and a scan skips nothing.

**Source acquisition and its schedule** (`src/acquisition/store.ts`, `schedule.ts`,
`statutoryRun.ts`, `src/data-os/acquisition.ts`). Command line runs that collect from
public sources: an intent and a receipt per source and request id, retained evidence,
permanent budget slots per minute and day, all create-only files. Hard: overlapping
invocations, a process that ends between any two files, a clock that goes back, a
policy that ends during a request, and a reader (`inspect`) that recomputes
everything and refuses what does not fit. Correct when: what was left always
validates, a source is contacted within its budget, and a scheduled run follows only
finished ones and was planned in its window.

**Production store and worker** (`src/production/store.ts`, `worker.ts`). Requests
(register, acquire, normalize, build) claimed by an intent under `catalog.lock`,
carried out in stages that publish artifacts, closed by a run receipt that `run()`
validates on every read. Hard: two workers on one request, a registration that
takes the lock twice, failures after a publication whose outcome is unknown, a
receipt that has to say exactly what was left. Correct when: a request is carried
out once and each saved receipt validates.

**Census packages** (`src/acquisition/census-normalization.ts`,
`src/data-os/local-census-candidate-build.ts`, `src/boutique/census-package.ts`).
Command line calls, each a process, over a directory of create-only files:
normalizations of captures, candidate builds of normalizations, packages of builds
compared with a predecessor, refused deliveries. A package is an intent, six
artifacts and a release. Hard: nothing is locked; any call finishes what another
began, at the clock of the other's intent but with a permission of its own; the
policy ends and captures age meanwhile; readers recompute whole histories and bound
their length. Correct when: what calls leave is always readable, nothing but permission
and age stands between an unfinished package and its release, and a release is made
under the permission of its moment.

**Discovery and dossier ledgers** (`src/db/discoveryLedger.ts`, `dossierLedger.ts`,
`retractedRecord.ts`). Derived artifacts over source records, and a customer's
question assessed facet by facet, estimated, quoted, built and concluded. Hard:
retractions and refutations are recorded after the assessments they reach, through
artifacts that read artifacts; rows carry instants in no order; an assessment must
not arrive behind what already counted it. Correct when: an assessment stays a fact
at its instant and what is built rests on evidence that is usable.

**Custody escrow contract** (`contracts/ConditionalCustodyEscrow.sol`) and
**settlement bridge** (`src/chain/adjudicationReceipt.ts`). Per trade a deposit
of vault shares in two tranches; operators sign receipts that release, divert or
freeze; a governor rotates operators after a delay. The bridge builds receipts
out of release decisions. Hard: settlement, freeze and diversion race at an
expiry that a freeze moves; rounding; replay of receipts on other trades;
rotations that cross. Correct when: shares are conserved, one agreement governs a
trade, and the buffer goes where the ruling says.

**Execution ledger** (`src/db/executionLedger.ts`, verbs in
`src/governance/ledger.ts`). Append-only tables whose keys, CHECKs and triggers
carry the rules: proposals, packets, reviews, authorizations, revocations,
operations, attempts, reconciliations. Hard: rows arrive in any order and instants
are what the writer says; denials reach through revisions; unknown outcomes and
retries. Correct when: authority rests on an approval and never on a denied line,
and an unknown outcome is settled before another attempt.

**Treasury ledger and budget chain** (`src/db/treasuryLedger.ts`,
`src/db/warrantLedger.ts`, `src/governance/treasurySimulation.ts`). The same forms
for money: eligibility, proposals, reviews, authorizations, dispatches, and a
chain of balances per shared budget on which holds and releases are inserted by
writers that computed them from an earlier view. Correct when: the chain accounts
for every movement and nothing is dispatched that was not held.

Interactions: the web handlers call the stores; the notation store calls the kernel;
the workers call the board through the client; the production store and the
acquisition store keep evidence in the same intake; the ledgers share principals and
the form of their reviews but no rows; the bridge reads decisions and produces what
operators sign for the contract. `PROJECT.json` lists all components, including
those left out, and 40 hazards at the lines where they bite.

## 2. Modules and the code they model

| module | models | composes |
|---|---|---|
| `StateKernel` | `Replay` and `replay()`; one action per command and per refusal | |
| `LinearHistory` | abstract: a list of assignments, a cursor, the replay up to it | refined by `StateKernel` |
| `NotationStore` | `save()`, one action per await that others can interleave with | kernel as `KernelAccepts` |
| `VersionedLog` | abstract: commit once on the right base; confirm what is committed | refined by `NotationStore` |
| `CoordinationBoard` | `applyCommand`, `execute()`, `inboxFor`, the client's retries | |
| `AtomicBoard` | abstract: each command carried out at one moment between call and answer | refined by `ContractReview` |
| `ContractReview` | `runContractReviewOnce` and `runCandidateBuildReviewOnce` | extends `CoordinationBoard` |
| `SourceCapture` | `capture()`, `inspect()`, the budget, `planCapture`, `runScheduledCapture` | |
| `ProductionStore` | `execute()`, its stages, `run()`; the slots of the worker | |
| `ProductionRequests` | abstract: a request is claimed, begun and closed once, its product made of products that are there | refined by `ProductionStore` |
| `CensusPackages` | `normalize()`, both `build()`s, `requestCustomerDelivery()`, their readers | |
| `DossierLedger` | one action per transaction, its guard the keys and triggers | |
| `CustodyEscrow` | every function of the contract that changes storage | |
| `EscrowAccounts` | abstract: an account per trade, paid only to the parties of its own deal | refined by `CustodyEscrow` |
| `SettlementBridge` | `evidenceDigestOf`, `buildReceipt` | extends `CustodyEscrow` |
| `ExecutionLedger` | one action per INSERT, its guard the keys and triggers | |
| `TreasuryLedger` | the same, with the budget chain | |
| `NotationProofs` | theorems about `StateKernel` and `NotationStore` | extends both |
| `EscrowAndTreasuryProofs` | theorems about `CustodyEscrow` and `TreasuryLedger`, and the lemmas about sums both need | extends both |
| other `…Proofs` | theorems about the module they are named after, `ContractReviewProofs` about the board too | |
| `MC…` | bounded instances | |

How state and actions correspond:

* **StateKernel.** `notations`/`relations` map every identifier to a value or
  `Absent`; `undo`/`redo` are sequences of `Change` with `before` and `after`,
  which stand for the Rust enum of changes (a creation has `before = Absent`).
  `Edit` is the common tail of the three editing commands (push, clear redo),
  `Validated` the `validate()` that ends each accepted command, `result` ends a
  replay with the first refusal. A command that would be rejected on two grounds
  gets the error the code finds first. `Linear` reads the two stacks as one list
  of assignments with a cursor. `created` is a history variable: how often each
  identifier was accepted in a creation, whether it is on the stacks or not.
* **NotationStore.** A version file is its request, the pair of the base version
  and the batch. `First` and `Second` are the two loads with `checkBase` and the
  kernel's answer (`Verdict`), `Publish` is the create-only link,
  `Readback` the verification after it, `Unlock` the `finally`. `Kill` forgets a
  call and leaves its lock; `Recover` is the operator's removal, allowed only
  when no call that took the lock is left, as the repository's documents ask.
* **CoordinationBoard.** `log` is the list of commands of `events.json`; the board
  is `Replay(log)`, as in `load()`. `Lock`, `Load`, `Write`, `Unlock` are the
  steps of `execute()`. `exchange` is what a followed client waits for: `TimeOut`
  makes it give up while the call goes on, `Retry` sends the same command again.
  Other clients are `Ask`: any command of the instance at any time, which
  includes all their retries. A message's sequence number is its index.
  In `AtomicBoard` a call is a command and an answer; lock, loaded copy and file are
  gone, and every change of the log is one command applied to the board it is applied to.
* **ContractReview.** `program`, chosen once in `Init`, says which worker runs; `at`
  is the step of a pass. `Scan` reads a page, `Take` reads a snapshot and either
  reuses a saved result or makes one: a review of that snapshot, or whatever an
  inspection of the files finds this time (`FINDINGS`). The first worker goes on
  when its post was answered (`Posted`), the second reads the board back whatever
  the answer was (`ReadBack`). `Stop` ends a pass anywhere: exception, limit,
  completed scan, kill.
* **SourceCapture.** Every invocation is a call; a file is a variable that goes from
  `None` to its content once. `Invoke … Plan` is the schedule: it inspects run after
  run (`ReadRun`), then decides in the order of `planCapture`'s refusals. `Ask` is
  a capture an operator orders. `Seal`, `Claim`, `ReserveMinute`, `ReserveDay`,
  `Respond`, `Retain`, `Finish` are the files of `capture()` in their order; `Stop`
  ends the process between any two. An INCOMPLETE request is never resumed.
  `SetBack` sets the clock back. `Valid` is what `inspect()` recomputes.
* **ProductionStore.** A worker's slot is a call. `Look` is everything before the
  lock, with the clock read there deciding the policy for all stages; `Reserve`,
  `Claim`, `Release` are the lock and the intent; `Depend`, `Publish`, `Readback`,
  `ReserveName`, `RegisterReserved` the stages; `Save` the receipt. `Fault` is a
  failure of storage around a publication, after which the code searches for what
  it left (`Found`) and may not be able to say (`unconfirmed`). `Kill` ends a child.
  `Valid` is `run()` with `validateFailedOutcome`.
* **CensusPackages.** A call begins at any clock. `Ask`, `PublishRecord`,
  `VerifyRecord` are the three kinds of one-file records, which share their form:
  look, compute, publish, read back. `AskForPackage … Readback` is `build()` of
  packages with one step per file; `MayDerive` and `Compiles` are its two checks, at
  the call's clock and at the intent's. `Readable` is `inspectChain()` with its bound.
  `Stop` ends a call between any two files; the next call resumes.
* **DossierLedger.** One action per transaction of `GovernanceLedger.write()`; the
  deferred triggers are guards on the state after it (`Stands(c, a)'`). What a trigger
  recomputes is written as the recomputed value (`Expected`). `Ancestry` is the least
  set of artifacts an artifact is computed from, the recursive query of the triggers.
  `amended` is a history variable: artifacts whose inputs were added to later, which
  no trigger of the dossier ledger sees.
* **CustodyEscrow.** One action per transaction. A receipt is presented together
  with the set of operators that signed it; `Verify` checks the threshold against
  the signers of the moment. `vault` holds the shares of each party and of the
  contract. `ruled` is a history variable with the receipts executed per trade.
* **ExecutionLedger, TreasuryLedger.** One variable per table. A row the database
  refuses is no step. Recursive walks (`Line`) are least closed sets over the
  `revises` column. In the treasury `Hold(b, seen, amount)` computes a movement
  from the first `seen` rows, so a late insertion from a stale view is possible
  and the keys of `Insert` have to refuse it.

Conventions: a definition marked *variation* is a plausible mistake in the one
that follows it; nothing else uses it. `PROJECT.json` pairs each property with one
variation that breaks it, so that the property is known to say something about
the code. Properties introduced with *Claimed* state what a document says and
the code does not do (section 4).

## 3. The runs

| run | instance | what it shows |
|---|---|---|
| `state_kernel` | 3 identifiers, 2 texts, 6 commands, 2 notations, 1 relation | the internal error is unreachable; an identifier is created once and stays reserved, through undo and discarded branches; the two stacks implement `LinearHistory` |
| `notation_store` | 3 calls, 3 batches, 2 versions | no batch twice; confirmed saves kept at their version; one holder of the lock; refinement of `VersionedLog`; a call that holds the lock stops holding it |
| `contract_review` | either worker, 1 process, 2 calls at once, 2 requests, 1 more definition, 2 findings of an inspection, page of 1, 4 messages, 7 log entries | an answered command is on the board and stays there after its call has returned; one message per request id; a receipt follows exactly one result; no request behind the cursor; refinement of `AtomicBoard` |
| `source_capture` | 3 invocations, a schedule of 2 runs in a window from 1 to 3, 1 direct id, times to 3, 2 slots a day | what is on disk always validates; a source is contacted within its budget of minute and day; a scheduled run is linked over finished ones, not within the interval of the last, by a call that planned it inside the window |
| `production` | 2 workers, 5 requests (a registration, a conflicting one, capture, normalization, build), 4 intents, 1 name, 1 fault | folders stay enumerable; a request is carried out once; every saved receipt validates, then and later; refinement of `ProductionRequests` |
| `census_packages` | 2 processes, captures of 1 record at 2 times with 2 policies, builds asked for in conflicting ways, a line of 3 packages where 2 are admitted, 1 delivery, 2 artifacts, clocks of 0 to 2 | what stands under any id is readable; nothing but permission and age refuses to resume an unfinished package; a call is told what stands for its own request; a release is permitted when it is made |
| `dossier` | 2 artifacts over 1 record, 2 facets, times to 2, one row of each later table | assessments stand at any depth of ancestry; nothing arrives behind a count or a build; a build rests on evidence present at the build; conclusions on usable evidence |
| `custody_escrow` | 2 trades, 3 evidence digests, sound receipts and receipts with one flawed field, 3 operators, 2 rotations, times to 4 | shares of open trades are covered; one agreement per trade; the buffer follows the rulings; the threshold stays reachable; refinement of `EscrowAccounts` |
| `execution_ledger` | 2 proposals, 2 windows, 1 authorization, 1 operation, 2 attempts, a person and an agent | authority rests on an approval by a person or policy and on no denied line; nothing in a denied line gains authority later; an unknown outcome is settled before another attempt |
| `treasury` | 1 budget of 3, 3 proposals, 1 authorization, times in and after its window, 3 movements from stale views, 2 dispatches | balances account for every movement; dispatches together never exceed what was held; denial as above |
| `frozen_buffer`, `settlement_bridge` | the smallest instance each | one documented claim each that the code does not keep |

The type invariants of the kernel, the repository, the contract, the execution and
treasury ledgers, the source captures, the production store and the dossier ledger are
proved for every instance (section 6) and not repeated by these runs.

## 4. Where the code and its documents disagree

Each is one run that TLC ends with a counterexample; `findings` in `PROJECT.json`
quotes the sentences.

1. **A frozen buffer can be stranded** (`NoDepositLockedForever`). After
   `freezeOnWithdrawal`, when the extended expiry passes without a reversal, no
   function applies: `settle` and another freeze need `PRIMARY_RELEASED`,
   diversion needs time left, reclaim needs `HELD`.
2. **A reversal of the released decision cannot divert**
   (`ReversalOfTheReleaseDiverts`). The builder hashes only the decision, so the
   receipt of its reversal carries the digest its release already consumed.

Met on the way and not given a run. In the ledgers:

* an operation may be attempted again after a confirmed attempt; only an unresolved
  unknown outcome refuses (`executionLedger.ts:303`); an attempt's authorization
  need not be that of its operation (`:243`, `:267`); the digest of a denied proposal can
  be authorized under a proposal that revises nothing, and a proposal that revises
  itself makes the recursive trigger walk without end (`:346`), which the model
  treats as a refusal;
* a hold that was released can still be dispatched: a release is a movement of its own
  that names no hold (`treasuryLedger.ts:282`), so together with a second hold of the
  freed amount two dispatches can exceed the limit that the comment says they cannot
  (`:66`); the test (`treasuryLedger.test.ts:333`) dispatches the release row only;
* no key ties the asset of an eligibility row to the proposal's
  (`treasuryLedger.ts:214`); a policy version is referred to but never compared with
  its `superseded_at` (`:193`), though the header (`:20`) has an approval not survive
  its replacement; one authorization may be dispatched repeatedly if enough is held
  (`:286`); the opening balance of a budget is not tied to its limit
  (`warrantLedger.ts:87`), it is the writer that starts there;
* an artifact assessed at the instant its horizon ends counts as present, and the
  release does not look again (`dossierLedger.ts:759`), an exception stated in
  `EvidenceIsPresentAtTheBuild`; inputs of an artifact inserted later fire no dossier
  trigger (`discoveryLedger.ts:249`), an exception stated as `AsComputed`; the key
  `input_once` never refuses, since one of its columns is always null; the right an
  input row declares is not tied to the row of its input; a retraction or refutation
  dated between assessment and build and recorded after the release is accepted; the
  two releases of a succession need not be of one dossier (`dossierLedger.ts:362`).

In the stores:

* a scheduled run can begin after its window: the clock `runScheduledCapture` compares
  it with is read before the history (`acquisition/cli.ts:133`, `statutoryRun.ts:125`),
  the intent is sealed at a later reading (`acquisition/store.ts:308`), where only the
  policy is asked again. The schedule says of `notAfter` "ineligible at this
  instant and after it" (`schedule.ts:67`) and of a capture after it that it "would sit
  outside the source qualification that authorised it" (`:202`).
  `RunsFollowFinishedRuns` states what holds, that the run was *planned* inside the
  window, and names the exception;
* sources that share an evidence rail and an id orphan each other's history
  (`acquisition/store.ts:188`, the assumption `RailsDiffer` below); the budget counts
  the minute a request was sealed in, not the one it was sent in;
* a registration that finds `catalog.lock` taken the second time ends as a permanent
  FAILED run with `PRODUCTION_BUSY`; a winner that cannot unlink its lock leaves an
  intent that is never carried out; a failed capture with
  `EVIDENCE_INTEGRITY_FAILED` lists no output although its bytes were kept
  (`production/store.ts:534`);
* the receipt of a geometry audit refused with `SOURCE_UNAVAILABLE` stops validating
  once a capture is kept under the acquisition id it names: reading it recomputes the
  preconditions from what is retained now (`gat/service.ts:241`).

## 5. Bounds and fairness

Bounds are constants (`MAX_…`, `Max…`, `Times`, `Windows`, `PAGE`, the sets
themselves) and appear in guards only where the code has the limit too, or are marked
as a bound of the model. They were chosen so that each limit is reached and each
interesting case occurs:

* three identifiers and six commands are enough for create, relate, undo, redo, a
  discarded branch and reuse of its identifier, with both object limits met;
* three calls and two versions cover a holder, a waiting call and a call with a
  stale first load, and `CAPACITY` under the lock;
* two call slots cover an attempt that was given up and its retry or the next
  pass; seven log entries are one less than all commands need, so the log limit
  is met as well; a page of one forces paging with two requests. One worker
  process suffices for two passes on one request: the call of an ended pass goes
  on beside the next one. Two findings make two inspections of one request differ;
* three invocations cover an owner, one that loses the link to it and one that plans
  on its unfinished run; times 0 to 3 with a minute of 1, a day of 3 and two slots
  make both budgets refuse, a second day begin, and the policy end (at 3) before,
  during and after a request; a window from 1 to 3 and an interval of 1 make a plan be
  refused before the window, at its end and within the interval, and let a run planned
  inside the window be sealed at its end; the clock may go back once, to any instant;
* two workers and five requests cover a registration and its conflicting twin, a
  chain of three derivations, and both limits (four intents, one name); the one
  fault falls at any step, and a refused or conflicting request that it hits while
  being settled is a failure inside the handling of another;
* two captures with different policies make a package permitted and its predecessor
  not, or the reverse, at times 0 to 2, and a capture too old at 2; three packages in a
  line with a bound of two meet the bound; two artifacts instead of six are enough for
  a package left between them and for one with all of them and no release;
* one artifact expires, the other may read it and agrees, or disagrees and is not
  deliverable: with one retraction and one validation every assessment is reached, at
  depth one and two; two coverage rows are an assessment and its repetition, or one for
  each facet of the dossier;
* three shares at half are an odd tranche; release before and after the window's
  end, freeze, reversal and deadline all fall into times 1 to 4;
* two proposals are a line and, where one revises itself, a loop; two attempts are an
  unknown outcome and its retry; three treasury proposals allow a denied one to be split
  and split again; three movements allow hold, release, hold again, each from any
  earlier view.

Symmetry is used for identifiers that nothing orders, only in runs without
liveness.

Deadlock checking is off where the system may stop: a replay ends, tables and intents
fill up, and trades end. `notation_store`, `contract_review`, `source_capture` and
`census_packages` are checked for it.

Fairness is assumed once: `WF_vars(Save(w))` for each call in `NotationStore`.
The code justifies it: the kernel is stopped after ten seconds, the lock is tried
and never waited for, every other wait is one file operation. Kills, submissions
and operator recovery are not assumed to happen. The liveness property therefore
says that the lock of a call goes (returned or abandoned), not that a save
succeeds. No fairness is assumed of the other modules, and nothing is claimed there to
happen eventually: locks are answered busy rather than waited for, incomplete requests
are never resumed, and whether a row is ever inserted or a receipt ever presented is
up to people.

## 6. What is proved

Every invariant, action property and refinement the passing runs check is proved,
for every value of the constants under the assumptions named in the modules (types of
the constants, and that `None` and its like are no values). Assumptions that say more
are what a parser or a constructor guarantees: `CommandsAreParsed`
(`parseProductionCommand`), `CommandsAreKnown` and `SeedIdsDiffer` (the board), the ids
of a schedule's runs being different (`runIdFor`), `TheContractIsNoParty`. Hypotheses
that the code does not enforce are not assumed of the constants but stand in the
theorems that need them: `RailsDiffer`, `RunsAreScheduled`, `OthersActForThemselves`.

Hardly an invariant but the type invariants is inductive as it stands; each
module of proofs defines its strengthening, shows that `Init` establishes it
and that each action keeps it, with one step per action, and derives the properties.

**`NotationProofs`**, the kernel: `KernelTypes`, `InternalErrorUnreachable`,
`ReservedIdentities`, `KernelImplementsHistory`, for all identifiers, texts and limits.
`IInv` adds two facts about `Hist`, the undo stack followed by the redo stack from its
top: `WellFormed` (each change owes what it refers to to an earlier one, creations are
distinct and reserved, all creations together respect the two limits) and `Matches`
(the maps have exactly the identifiers created before the cursor). `CreatedOnce` is
about all creations of the replay, those of discarded branches too: what was ever
created is reserved, and what is reserved is not created again. An undo or redo
leaves `Hist` alone and moves the cursor, an edit cuts it at the cursor and appends;
`MatchedIsValid` then shows that any prefix satisfies `validate()`. The limits hold on
every prefix because an edit is only accepted when the objects *present* are below the
limit and it discards everything that could come back. The refinement adds `DInv`: the
document is the replay of the assignments before the cursor, and each change's `before`
is what that replay has for its identifier at the change's own place, which is what
makes restoring from inverse records (`BackwardWrites`) the same as replaying one
assignment less.

**`NotationProofs`**, the repository: `TypeCorrect`, `BatchesAppliedOnce`, `ConfirmationsHold`,
`LockExcludes` and the refinement `StoreImplementsLog`, for any set of concurrent calls,
batches and limit. What a call has to know at each of its steps is `CallIsRight(w)`: a
call about to publish has seen every version there is and its request is `Due`; a call
about to read back has its own file as the newest one; a call that is going to answer
SAVED has its request `Stored` at the version after its base. A publication by one call
keeps those of all others because the others are not past the lock
(`WritersTakeTurns`); `VerdictIsRight` is the one lemma about what a load finds out.
The assumption that is not in the constants is in `Recover`, the operator's promise to
remove a lock only when no call that took it remains.

**`SourceCaptureProofs`**: `TypeCorrect` and `ContactsWithinBudget`, for any number of
processes, sources, ids and for clocks set back: a call that contacted its source owns
its intent, its minute and one slot of its day (`BInv`), and the slots of a day are an
injection that bounds the contacts. `HistoryAlwaysValidates` adds what each step
remembers of the rows it wrote (`HInv`); it needs `RailsDiffer`, that no two sources
keep their evidence under one rail, which the configured sources do not all satisfy
(section 4). `RunsFollow` (for `RunsFollowFinishedRuns`) says of a call that reads the
history what it has read of the last run it knows, of one that is about to begin a run
that it was planned inside the window and is due (`SInv`): intents and receipts stay,
the owner of an intent keeps its start, and the clock goes back only when it is set
back, so that what `planCapture` compared still holds when the intent is linked, the
end of the window excepted (section 4), whoever planned the same run meanwhile. It
needs `RunsAreScheduled`: an operator who captures under the id of a coming run takes
that run out of its interval, and nothing in `capture()` knows which ids are a
schedule's. `FilesStay`, which no run repeats: nothing on disk is ever
overwritten.

**`ExecutionLedgerProofs`**: `KeysHold`, `AuthorityIsApproved`,
`UnknownsAreSettledFirst`, `DenialsPersist` and `RevocationsReachForward` (which no run
repeats), for rows in any order and revisions of any depth. A packet has one closing
review, and a proposal that has a packet, a review or an authority has a line that was
written before; `Line` is used as the least closed set it is defined to be, so a denial
that stands when a descendant is authorized is in the descendant's line.

**`DossierLedgerProofs`**: `KeysHold`, `AssessmentsAreFacts`, `NothingArrivesBehindACount`,
`BuildsRestOnPresentEvidence`, `ConclusionsHold`, for any corpus, ancestry and instants.
A new artifact changes no other's ancestry (`InputsOfAnother`), so what an assessed
artifact earns (`EarnedFromItsOwn`) depends on rows that each later transaction
rechecks; the key on facet and instant makes the latest assessment unique
(`OneLatest`), and the guards of an assessment keep it the latest for what read it.
`UnmovedIsPresent` ties the release's test on dates to the assessment at the build.

**`EscrowAndTreasuryProofs`**, the contract: `TypeCorrect`, `SharesAreConserved`, `TradesKeepOneAgreement`,
`BuffersFollowTheirRulings`, `ThresholdStaysReachable`, for any trades, parties, receipts,
clocks and rotations. `TradeIsRight` says that the state of a trade fixes how many
receipts were executed on it, which is its nonce, and that its stored terms are those
of the first. The vault is the sum over the trades of what each is `Owed`, and a
transaction changes one summand. The assumption beyond types is `TheContractIsNoParty`.
`EvidenceNeverRulesTwice`, which no run repeats, is about all trades together: the
evidence of every executed receipt is among the used, and a new one's is not.
`ContractKeepsAccounts` is the refinement of `EscrowAccounts`, in which no common
balance exists that one trade could be paid from at the expense of another: the account
of a trade is what it is `Owed`, the balances are those of the parties. Each
transaction replaces the record of one trade and moves shares between the contract and
one party, so how the accounts follow is said once, for any record and any transfer
(`OneAccountMoves`, `OneBalanceMoves`, `PaidFromItsAccount`), and each action only has
to show which account moved. That the vault holds the shares to pay is
`SharesAreConserved`.

**`EscrowAndTreasuryProofs`**, the treasury: `TablesAreTyped`, `BalancesAccountForEverything`,
`NothingIsDispatchedUnheld`, `DenialsPersist`, for any budgets, movements and dispatches.
A movement's sequence number counts the movements of its budget before it, so a row
computed from a stale view repeats a number and is refused (`ViewIsCurrent`). That a
dispatch spends a hold of its amount, once, is the sum over the holds of what they
debited being that over the spent ones and over the free ones (`HoldsAreAccountedFor`).

Its first part proves what both need of the sums of the community module (a recursive
function over subsets): that the table of partial sums exists, by an argument from a
least counterexample, that adding a key adds its value, and that a sum follows the
change of one of its summands (`SumFollowsAChange`).

**`ContractReviewProofs`**, the board: `ReviewTypes`, `AnswersStayOnTheBoard`,
`RequestsNameOneMessage` and the refinement `TheBoardIsAtomic`, for any calls, callers,
commands, seed and limits. The board is a fold of the log; its table over sets of
positions is built by an argument from a least counterexample (`IsTable`), which gives
the one fact the rest uses, that appending a command applies it. `BoardInv`: the call
that holds the lock is the only one past its load, so that the copy it judges is the
log; a call that is going to answer OK has its command on the board, and as the log only
grows, by commands (`LogOfCommands`), each later board has it too. A board that `Grows`
keeps its messages at their numbers, its definitions and its receipts. In the
refinement a command is carried out when its call writes, or when its load finds that
there is nothing to write.

**`ContractReviewProofs`**, the workers: `ReceiptsStandForOneResult` and
`ScansMissNothing`, for any number of workers, requests and any size of page. What a
pass knows at each of its steps (`PassInv`) is about a board that has only grown since:
what is behind its cursor is finished or none of its requests, what it is about to
acknowledge has its result on the board, and results made for one request have one
request id, so that the board keeps the first. Both have the hypothesis
`OthersActForThemselves`, that nobody else speaks as the reviewer. The board cannot
enforce it, since identities are simulated (`docs/AGENT_COORDINATION.md:174`).

**`ProductionStoreProofs`**: `ProductionTypes`, `RequestsAreRunOnce`, `RunsAreValid` and
`FilesStay` (which no run repeats), for any workers, requests, commands, inputs and
faults. A request has at most one worker that has claimed it, and none once it has a
run (`ClaimsFit`); who holds `catalog.lock` is one worker (`LockIsExclusive`), so the
counts taken under it bound the folders (`FoldersAreBounded`), for the registered names
too. What a stage lists is the first of its command's inputs in their order, which are
retained for good, followed by what the request made itself (`StageFits`, `Listing`);
`RunFits` says which such list goes with which stage and error. It is stable
(`RunFitsStays`), each stage and each fault arrives at it, search and readback
included (`FailFits`), and it implies what `run()` asks (`FittingRunIsValid`).
Which action writes which table of records is said once (`WhoWrites`,
`WritersWriteOneTable`) and cited wherever all actions but one leave a table alone.
`StoreImplementsRequests` is the refinement of `ProductionRequests`, where there are no
workers, locks, stages or lists: the status of a request is told by its intent, by
whether it was begun and by its run. It needs one fact the receipts do not,
`AllEligible`: a worker past its dependencies found none of them quarantined and was
allowed to use them when its request was claimed. That a capacity holds for the
abstract store is that the two counts are taken under the lock, that a receipt says
what the request has made is `OutcomeIsEarned`.

**`CensusPackagesProofs`**: `CensusTypes`, `HistoryStaysReadable`,
`UnfinishedPackagesStayFinishable`, `AnswersStayConfirmed` and `ReleasesArePermitted`,
for any processes, records, packages and clocks. Files are only added (`Kept`). A
history is the least set that has a package and the predecessors of its members; that
of a package that was released contains released packages only, so that a new release
changes no history but its own, and what was readable within the bound stays so. What
is left is that a call writes only what it has checked at its own clock
(`CallIsRight`). `CurrentIsAdmitted` derives from it that a resume is refused by
permission or age alone. `FinishedHistoriesStay`, which no run repeats: what a reader
recomputed of a finished package is what every later reader meets.

Only model-checked: `LockIsReturned`, which needs fairness and `ENABLED`, and the two
runs of section 4, which refute a property on one instance. Out of the prover's reach
besides is induction over data with an operator as its parameter; where a fold, a sum
or a replay had to be reasoned about, the proofs take a least counterexample.

## 7. What is not modelled

The map covers the parts that keep state. Most of the implementation is pages and
components, committed fixtures and corpora as code, geometry, adapters and other pure
computation; a transition system has nothing to say about those lines, and the share of
lines covered stays small for that reason. In particular:

* Syntax: identifiers, texts, JSON, canonical encodings, digests, signatures and
  byte limits. A name is a model value; a digest is what it commits to.
* Read paths: pages, projections, search, MCP and HTTP handlers, feeds; comparison,
  inventory and catalog of the production store.
* Pure computation over fixtures: geometry, normalisation, adapters, discovery, the
  domain model.
* Parts of modelled components: treasury accounts, policy versions and
  reconciliations, warrants and desk exceptions (rows with keys of their own and no
  trigger); prices, recipients, succession, deliveries, candidates, gaps and served
  claims of the dossier ledger; the connection list of a board snapshot; the bridge's
  lag and typed-data hashing; the contract's events; in `SourceCapture` the
  differences between sources, each of which is whether its response is accepted.
* The Samsara capture store: the same create-only files, budget and receipt for one
  vendor, with a credential and a binding to one organization. Unlike the reader
  modelled in `SourceCapture`, its `inspect` is refused when the policy has ended or the
  clock went back, and it reads the evidence before the receipt
  (`samsara-store.ts:223`, `:232`), so that a capture finishing between the two
  reads is reported as an invalid history until the next read.
* Observation replays, benchmark reports and registration access (`src/boutique/`,
  `src/observations/`): one create-only record under one id, looked up, computed,
  published and read back as in `Ask`, `PublishRecord` and `VerifyRecord`. Clearances
  are the exception that can be read only while they are permitted. The geometry
  audit of `src/compute/` keeps a reservation, artifacts and a receipt, and what was
  reserved is never run again.
* The editorial, terminal, state, capacity and commercial ledgers: append-only tables
  in the form of the three modelled here.
* Where a modelled definition is coarser than its code. Wider, so that what holds of the
  model holds of the code: an estimate's units may be any number (`dossierLedger.ts:240`
  asks more than 0), a clock before a policy's `effectiveFrom` is not refused in
  `CensusPackages` (`source-policy.ts:81`), the receipt for bytes no adapter accepts may
  be dated from the start of its call (`acquisition/store.ts:338`), and a contact is
  counted from its day slot on. A lock is removed by the operator as the documents ask
  (section 2). Left out, so that no run and no theorem speaks of it: a save on a base
  the log has not reached (refused), a failed read of the board under its lock (answered
  503, nothing changed), the state `CONSUMED` of a movement, a registration whose
  publication fails but not the return of its lock (`production/store.ts:156`), a search
  that fails after a refused dependency (`:542`), after which retention is
  `UNCONFIRMED`.
* Operator misuse: removing a lock whose writer lives, editing files by hand.

## 8. Plan

Done, in this order: kernel with its abstract history; repository with its abstract
log; contract and bridge; execution ledger; treasury; board and review worker; source
acquisition with its schedule; production store; discovery and dossier ledgers; the
inspection of candidate builds; census packages; the abstract escrow and the abstract
production store; and the proofs of section 6.

Next, by importance:

1. **Samsara store** as a module over the actions of `SourceCapture`, with the reads of
   its `inspect` as steps of their own.
2. **Geometry audit** as a module of its own: reservation, artifacts, receipt.
3. **Policy versions, warrants and reconciliations** in `TreasuryLedger`, and the
   remaining ledgers where a trigger reads other rows.
