# KaleidoSphere in TLA+

KaleidoSphere analyses a database, publishes what it found as a Superset
workspace and lets a reviewer approve changes to it.  Most of its code computes:
plans, reports, contracts.  What can go wrong in ways a test hardly reaches is
where it *writes*: to a generation store that several processes share without a
lock, to a Superset that may carry out a request and lose the answer, and to the
journals, mirrors and receipts that say what was done.  This directory holds the
TLA+ modules of those parts, the TLC runs that check them and the proofs.

Paths below are relative to the repository; `B/` stands for
`services/bi-control/src/`.

## 1  Inventory

| Component | State it keeps | Operations | What makes it correct |
|---|---|---|---|
| generation store `B/generation-store.mjs` | `staging/`, `generations/`, the symlink `active`, pointer temporaries | stage, activate, recover, cleanup, read | the pointer always names a complete generation; every death can be repaired; the committed generation is never reclaimed |
| projection generation `B/projection-generation.mjs` | a generation per analysis, its mirrors and receipts | stage, activate + mirror, recover, clean up | `PROJECTION_DB` and `latest.json` are of the generation the pointer names, or known to be behind it |
| order-source provisioning, Superset metadata installation | the same store with other builders; a seeded live mirror | provision, recover, cleanup, refresh | as above; the live database is replaced by hand-over only |
| trusted workflow `B/trusted-workflow/`, approvals `B/assistant-foundation/execution-control.mjs` | grants, receipts by idempotency key, rollback tokens; Superset's assets | register, authorize, apply, compensate, rollback, snapshot | one use per approval; a receipt means applied; a failure leaves nothing unreported; a rollback restores |
| outcome reconciliation `B/trusted-workflow/ambiguous-outcome-reconciliation.mjs` | hash-chained journal file, recovery lease file | record, recover, retry, compensate | what the journal decides is true of the assets; it never forks |
| bi-control server `B/server.mjs` | `process.env` credentials, profile file, latest receipts | analyze, publish, readback, discovery | concurrent requests do not disturb one another |
| Superset materializer `services/superset/runtime/` | Superset's metadata | compare digests, materialize | only that digests are equal when it starts; see section 7 |
| guided discovery `B/discovery.mjs` | sessions and confirmations in the mirror | start, answer, confirm | nothing beyond one transaction; the next analysis replaces the file its rows are in |
| operation lifecycle store `B/db-analyzer/operation.mjs` | one store file, an owner marker, backups | back up, reset, remove, restore, recover a stale marker | one owner; no write of another source is lost |
| progressive analysis `B/db-analyzer/progressive-*.mjs` | a sealed state: hypotheses, reservations, outcomes, two ledgers of budgets | reserve, record, reconcile, advance | a budget is never spent twice; every state can be resumed |
| runtime resource store and broker `B/runtime/` | reservations in SQLite | reserve, dispatch, settle | limits hold; a dispatch is granted at most once |
| browser starter, portable runtime `B/hosting/` | an operation store; a tree with a tombstone | begin, complete, abort, reset; restore, remove, clean up | no second operation while one is unknown; a removal can be completed |
| promotion `B/promotion-*.mjs` | target metadata, a backup | upsert, restore | all or nothing |
| analyzers, catalog, reporting, business BI, pilots, labs, companion, agent | none that calls share | pure functions, read-only queries, forwarding | out of scope, see section 7 |

How they interact: the server runs an analysis, projection-generation stages and
activates it in a generation store and copies mirrors, and a maintainer's process
may recover or clean up that store meanwhile; the materializer reads a mirror and
writes Superset; the specialist workflow compiles a plan over what is
in Superset, an approval turns it into one authorization, the executor applies
it over HTTP; where the answer is lost, the journal, the recoveries and the
compensations decide what happened.  Nothing in this is transactional.  What is
shared is shared through the file system (rename is the only commit), through
Superset's REST API (a read and a later write) or through the variables of one
Node process (anything may change at an `await`).  Several processes, deaths
between any two calls, requests that are carried out but not answered and edits
by other users are therefore the normal environment of every module here.

The hazards this gives, each at its line, are listed in `PROJECT.json`; the
properties below were chosen from that list.

## 2  Modules

    ActiveGeneration        what a generation store promises (abstract)
      ^ refined by
    GenerationStore         the store: processes, file-system calls, deaths
      MCGenerationStore       symmetry and the run without kills
      GenerationStoreProofs   TLAPS

    ReviewedWorkflow        approvals, executor, Superset, restarts
      ReviewedWorkflowProofs  TLAPS
      ^ extended by
    OutcomeReconciliation   the journal, its dispatcher, recoverers, compensators
      MCOutcomeReconciliation symmetry
      OutcomeReconciliationProofs  TLAPS, on the lemmas of ReviewedWorkflowProofs

    ProjectionPublication   analyses and a recovery around the mirrors   \  SupersetProofs
                            of one store                                 |  TLAPS
    SupersetInstall         the live metadata database, its installs     /
    OperationLifecycle      the lifecycle store, its owner marker and recovery
      OperationLifecycleProofs  TLAPS
    ProgressiveAnalysis     the sealed state of a progressive analysis
      MCProgressiveAnalysis   instance and symmetry
      ProgressiveAnalysisProofs  TLAPS
    OneShot                 what the next two promise of an operation (abstract)
      ^ refined by
    NativeBroker            reservations before dispatch
      NativeBrokerProofs      TLAPS
    BrowserStarter          the starter's operations
    PortableLifecycle       tombstone and cleanup
      MCServices              one instance of each of the seven modules above
      ServicesProofs          TLAPS: BrowserStarter, PortableLifecycle, and on the
                              other proof modules the composition

Operators whose comment starts with "Mutant:" are not part of a model.  Each has
the parameters of the definition below it and changes it in the way a plausible
bug would; `PROJECT.json` pairs it with a property it breaks.

### ActiveGeneration

Two variables, `usable` and `active`, and three actions: publish, commit,
reclaim what is not committed.  It is the header comment of generation-store.mjs
without its file-system calls.

### GenerationStore

One process variable `pc` walks through an operation; every action is one
file-system call, and `Kill` may happen before any of them.

| Code | Model |
|---|---|
| `stageGeneration` | `StageMkdir`, `StageBuild`, `StageBuildFails`, `StageVerify`, `StageManifest` |
| `activateGeneration` | `ActivateVerify`, `ActivateExists`, `ActivateVerifyExisting`, `ActivatePublish` (rename), `ActivateLink`, `ActivateFlip` (rename over the pointer: the commit) |
| `recoverGenerationStore` | `RecoverStart`, `RecoverInspect`, `RecoverDone` and the activation it continues |
| `readActiveGeneration` | `Read` (readlink), `ReadResolve` (open and verify) |
| `cleanupGenerationStore`, `cleanupPointerDebris` | `CleanupStart` .. `CleanupDone` |
| `rmSync(.., {recursive})` | two actions, `..Tear` and `..Drop`: in between the directory exists and does not verify |

A directory is what `verifyGenerationManifest` makes of it (`complete` or not),
since no decision of the code depends on more.  Names drawn at random are not
drawn again while a process still holds them.  POSIX lets a rename replace an
empty directory; the model lets a removal pass from "does not verify" to absent
and not through that instant.  The same algorithm exists in Python
(`services/superset/runtime/generation_store.py`), which was read beside it.

### ReviewedWorkflow

One compiled plan of `N` actions, each with an asset of its own (the compiler
sees to that).  The executor compares an asset with an action's before- and
after-value only, so an asset is `before`, `after` or `other`.  Every action is
the code between two awaits together with the request it waited for.  A PUT may
be `refused` (nothing happens; also a GET or a missing record inside
`applyValue`, and the denied deletion of an asset that had no before-value),
`lost` (carried out, answer gone), and a GET `unread`.  `ApplyInterrupt` is
cancellation, the deadline or `failAfterActionId`.  `Edit` is another user.
`Snapshot` and `Restart` are the constructor's reconciliation of an earlier
`snapshot()`; grants and consumed approvals live in memory only.  An approval
binds one idempotency key and is named by it.  `uses`, `start` and `error` are
history variables.

### OutcomeReconciliation

Extends ReviewedWorkflow: the dispatcher calls the executor's own actions
(`Dispatch`, `Execute`) in the order of
`scripts/run-ambiguous-outcome-reconciliation-evidence.mjs`, the only caller the
repository has, and records the answer.  The journal file and the lease file are
shared; every process works on the journal it has read (`mem`) and `Flush`
renames it over the file.  Of an entry the model keeps the state it leads to,
the key and whether a compensation completed; the hash chain only detects
corruption.  `Transitions` is the code's table, `known_rejected` included, which
no code of the repository enters.  Whether an asset is owned is decided by the
caller's records and is a free choice.  Recoveries and compensations start on a
journal that has entries.  A request is carried out, if it is, before its sender
learns anything of it: a delivery that comes later is named as a non-claim by
the decision record and is not modelled.

### ProjectionPublication

The control server is one process whose analyses interleave where they await; a
maintainer's process may recover or clean up the same projection store.

| Code | Model |
|---|---|
| `analyze` (server.mjs) until `runAnalyzeProfile`, and after it | `Analyze`, `StageProjection` |
| `activateProjectionGeneration`: commit, mirror, receipts, without an await | `CommitProjection`, `Mirror` (`ReadProjection`, then `WriteMirror`), `WriteReceipts`; `Busy` keeps other analyses out |
| an error at any of these calls; the server is killed and started again | `AnalysisFails`, `KillServer` (a staging directory may stay, or be renamed and not pointed to) |
| `recoverProjectionStore` | `StartProjectionRecovery` (lists the staging directories), `RecoverProjection` (activates one of them), `RecoverMirror` (reads the active generation, then replaces `PROJECTION_DB`), `EndProjectionRecovery` (killed, failed, or no `PROJECTION_DB` given) |
| `cleanupProjectionStore` | `CleanupProjections` |

A commit and a cleanup are one step each here; `GenerationStore` takes them apart.
The recovery commits what a killed analysis had staged and refreshes
`PROJECTION_DB`; it never writes `latest.json`, and the generation it copies may be
an old one by the time it replaces the file.  The history variable `behind` names
the mirrors for which that, a kill or an error is the case: a commit of the
recovery puts both on it, an analysis that ends between its commit and a mirror
the mirrors it has not written, a commit of the server the database if the
recovery has a copy in hand.  A mirror is off the list when it was written again
with no older copy under way.  So after a recovery `latest.json` stays behind until
the next whole analysis.

### SupersetInstall

`install`, `recover` and `cleanup` of ks254_install.py beside a Superset that
writes to its live database.  A database is `whole` or not and holds writes of
the runtime and installations.  `Seed` and `CopySeed` are apart because the
digest in the receipt is taken before the copy; `CheckLive` and `ReplaceLive`
because `refresh_live_mirror` compares and then replaces.  `Looks` gives what
`verify_metadata_database` may see: a whole database that is locked looks
unreadable.  Store operations are one step each (`Activate`, `RecoverStore`,
`CleanupStore`).  What their removals do to an install at work is in the step
(`RemoveUnfinished`): `shutil.rmtree(ignore_errors=True)` of a staging directory
that a pinned command is writing to may succeed, and the install fails, or leave
the directory with or without its database, and then the command goes on and the
install ends with a database made anew (`stripped`).

### OperationLifecycle

`withLifecycleOwnership` and what runs inside it, one action per file operation:
`Acquire` (exclusive open), `WriteMarker`, `CheckMarker`, `ReadStore`,
`WriteBackup` and `RenameBackup` or `WritePending` and `RenamePending`, `Reread`,
and `Release`, the `finally` that unlinks the lock path whoever's marker is there
and swallows its error.  `CallFails` is a file operation that throws: a pending
file is unlinked or stays, and one of a backup that stays (`unrenamed`) refuses
the next backup of that name, unless that backup is there.  An action is asked for
with any document that has a backup's shape and its own digest, taken or not
(`Requests`), because that is all the code checks; RESET and REMOVE compare it with
the store, RESTORE and ROLLBACK do not.
`recoverStaleOperationLifecycleOwnership` is `RecoverRead`, `RecoverRename` (over
the quarantine name made from the marker it read), `RecoverVerify`,
`RecoverUnlink`, `RecoverPutBack` (rename back over whatever is there).  Age is
judged by a clock the caller brings, so a recovery may start of a living owner;
`careless` records that, and that two recoveries were under way at once.

### ProgressiveAnalysis

Each operation takes a sealed state and returns the next; the caller commits it
by comparing the digest of the state, so an operation is one step and several
callers interleave.  A candidate is a hypothesis, a source column, for a
relationship the column it is joined with, a phase and an intent; phase and kind of
target give the method.  A probe of a relationship is debited to both its columns
(`ObjectsOf`).  Two hypotheses may be bound to one table, so that their probes may
coincide (`ProbeKey`) where the candidates do not.  The controller run the analysis
starts on may have probes of its own, for which no reservation stands: `probes` has
both kinds.  `Reservable` is reserveProgressiveProbeCandidate with the authorization
of the controller it calls, `Eligible` the gates of
evaluateProgressiveDrilldownEligibility, which knows the probes of the reservations
only (`HasProbe`), `updateHypothesis` the code's function of that name.  Modelled
from the first depth phase on, with complete coverage: what the breadth phases
debited to the run is a smaller `MaxRunProbes`.

### NativeBroker

The reservation table is a SQLite file that several runtimes may open; each
transaction is one action (`Reserve`, `Mark`, `Settle`), since a runtime may be
killed, or another one run, between two.  `Mark` grants the dispatch once, by
changing RESERVED to UNKNOWN_USAGE.  A reservation that is refused, and any
transaction in which SQLite throws (`StoreFails`), ends in the `catch` of the call,
which reads the row in a transaction of its own (`ReadBack`): other runtimes run in
between, and that read may throw as well, so that the promise rejects (`REJECTED`).  The provider is external: it uses some units,
more than reserved perhaps, and its answer may be lost or refused.

The table is finite, which the proof about the budget rests on
(`FiniteOperations`): an operation id matches `operationPattern`, of bounded length
(h05-native-resource-store.mjs:18).

### OneShot

Two variables, `outcome` (what is on record of an operation) and `sent` (how often
each of its possible requests went out), and three actions: record, send,
conclude.  It is what the broker and the starter have in common, two programs that
share no code: a record goes ahead of the request, one request goes out at most,
and the outcome stays unknown until it is concluded, once.  In `NativeBroker`
`outcome` is the state of the row and the requests are the digests; in
`BrowserStarter` it is the row of the operations table and the one request is the
start.

### BrowserStarter and PortableLifecycle

The starter records an operation with an unknown outcome before it starts it
(`RunStarter`) and completes it afterwards; an error or a kill is `LoseStarter`.
Its SQLite transactions and the code up to the next await are one action.
A handle on a restored portable checks the whole root (`Qualified`), removes two
trees, each in two actions, and replaces the marker through a pending file of
its own; a kill is `CloseHandle` at work.  `WorkFails` is a removal, a write or a
rename that throws: what is removed stays removed, a pending file may stay, and the
handle remains open.  `disturbed` records kills, failures and handles that met.

### MCServices

These seven modules share no state, so one run checks them all: `component`
chooses one, the others rest.  Every action of each still has to fire and every
property is checked over all of them; the number of states is the sum, not the
product.  The same model values stand for the sources of one component, the
runtimes of another, and so on, in three pairs (`PairA`, `PairB`, `PairC`), and the
symmetry permutes within a pair; calls, analyses, operations and handles are
numbers.  Three bounds are stated on the next-state relation: `InOrder` starts
the lifecycle calls in their order (each is made once, and all start alike),
`CarelessBound` and `TwoCalls` are described with the runs.

## 3  Runs

| Run | Instance | What it shows |
|---|---|---|
| `store_maintainer` | one maintainer runs every operation, one reader; kills anywhere; 2 generations, staging names and temporaries | the store implements `ActiveGeneration`; a torn generation can always be cleaned; a successful recovery leaves no staging, a successful cleanup leaves exactly the active generation |
| `store_provisioners` | two concurrent provisioners, a reader, kills | the pointer resolves and no reader is refused: activation needs no lock |
| `store_commits` | two provisioners, no kills, fairness | a staged generation is committed even when its rename loses a race |
| `store_cleanup_race` (violation) | a cleanup beside a provisioner | the active generation is removed |
| `store_recover_race` (violation) | a recovery beside a provisioner | a torn directory is published and committed |
| `workflow` | 3 actions, 2 keys, every fault, one edit, one restart | receipts, rollbacks and reports of failure say what happened to the assets |
| `outcome` | 2 actions, 2 keys, 2 recoverers, 2 compensators, lost answers and failed reads, kills, one restart | the journal tells the truth, completed compensations are complete, stale writers undo nothing |
| `outcome_crash` (violation) | the dispatcher dies once, no other fault | not_dispatched behind a request that was carried out |
| `outcome_retry_key` (violation) | lost answers, two keys | two retries under one key |
| `outcome_compensation` (violation) | one edit | a refused compensation has restored part of the plan |
| `services` | one instance of each of the seven modules, see below | owners exclude one another; mirrors follow the pointer or are known to be behind; live databases lose nothing; requests are dispatched once, charged and accounted for; states can be resumed; unknown outcomes stay visible; data goes only under a tombstone; broker and starter implement `OneShot` |
| `progressive_unknown` (violation) | 2 hypotheses of a table, 2 columns, 2 intents, 2 phases | a late outcome reopens a branch that holds an unknown one |

Bounds.  Two generations are enough for a commit, a reuse, a collision and a
reclaim; two staging names and two temporaries let every process of a run hold
one and leave one behind.  Three actions in `workflow` give a first, a middle
and a last one, so that orders and off-by-ones of both loops show; the journal
looks at sets of relations, for which two actions give every set of two.  One
edit and one restart (`MaxEdits`, `MaxRestarts`) can fall anywhere.  Two keys
are the context's and a fresh one; a third would be another fresh one.

`services`: three lifecycle calls (an owner, one that enters when it should not,
one that the first of them lets in) on two sources and two recoveries, which are
enough to overlap.  Nothing is claimed once a recovery was careless;
`CarelessBound` then starts no third call and takes no call beyond its marker.  Two
runtimes, two operations and two digests, with two calls of the table in flight at
a time (`TwoCalls`) and `ModelLimit` for one reservation (`ModelUnits`), so that a
limit is met; the runtime limit of two is not, the model limit binds first.  Three
analyses, one that was killed with its projection staged and two that commit beside
its recovery; the one recovery process may run again and again.  Two installs, a
recovery and two writes of the runtime.  Two hypotheses of one table with two
columns, hence four targets (two columns and a relationship from each to the
other), two phases and one intent, with run, object, table and hypothesis budgets of
3, 2, 3 and 2 probes, each of which can be the one that refuses; the initial
states have every set of own probes the budgets admit.  `progressive_unknown` has
two intents and larger budgets, which its counterexample needs.  Two servers and three
operations with `OperationBound` two, so that the table is full, and
`LastGeneration` three.  Three handles: two that meet and one that comes after.
About 480 thousand states, up to symmetry.

`outcome` leaves the fault `refused` out, because of its size: for the journal a
refused PUT is a lost answer whose effect did not happen, the same state of
journal and assets as an interrupted apply (`ApplyInterrupt`), which is in.  The
three smaller runs have it, and so has `workflow`.

Symmetry.  Generation ids, staging names and temporaries are compared for
equality only and no definition chooses one, so `DataSymmetry` is sound;
processes are not permuted where roles differ.  `Interchangeable` permutes
recoverers among themselves and compensators among themselves; keys are not
permuted, `ContextKey` is one of them.  Neither set is used with a liveness
property.

Deadlock is checked in every run but `services` and `progressive_unknown`, where
calls, budgets and analyses are used up and the components really stop.

Fairness.  Only `store_commits` assumes any: weak fairness of `Continue(p)`, a
running process makes its next call, and no kills.  The operations have no
loops that wait, so this is what an operating system gives.  With kills the
property is not promised: the winner of the race for `generations/<id>` may die
before it flips the pointer while the loser has already failed.

## 4  Properties

`GenerationStore`: `PointerResolvable`, `ImplementsActiveGeneration`,
`TornGenerationCanBeCleaned`, `RecoverLeavesNoStaging`, `CleanupLeavesOnlyActive`,
`ReaderNeverRefused`, `ActiveGenerationUntouched`, `StagedGenerationCommits`.
The first three under kills at every call; the race runs show which of them need
`SingleMaintainer`, that nothing else writes while a recovery or a cleanup runs.
No code enforces that.

`ReviewedWorkflow`: `ReceiptMeansApplied`, `RollbackRestores` (also when earlier
attempts ended half way and the process was rebuilt from a snapshot older than
they are), `FailedApplyIsReported`, `EarlierEditSurvives`, `ApprovalUsedOnce`.
Their preconditions are the limits of the code: an asset is read and then
written, so values are only promised while nobody else edits (`edits = 0`), and
approvals are only one-shot within a process (`restarts = 0`).  For a failed
request `FailedApplyIsReported` says what may stay hidden: the action of that
very request, or in the readback at the end the whole plan.

`OutcomeReconciliation`: `JournalTellsTheTruth` and `CompensationIsComplete` (both
as long as nobody else has edited, since assets are read one after another and an
edit may outdate a decision before it is written), `JournalNeverForks`, whatever is
edited (compensators hold no lease and recoverers are killed under theirs), and the
three that fail, `NotDispatchedMeansUntouched`,
`RetryKeyIsNew`, `RefusedCompensationRestoresNothing`, each a sentence of
`docs/decisions/M6-05-AMBIGUOUS-OUTCOME-RECONCILIATION.md`.

`OperationLifecycle`: `OwnersExclude`, `StoreWritesAreSerial`,
`ReceiptsMatchTheStore`, each unless a recovery was `careless`.  What that costs is
plain from the code: a living owner declared stale loses its lock, enters a
section beside the next owner and unlinks that one's marker when it ends.  That
nothing is lost is all they say: a pending file left by a kill refuses every later
write, for ever, and no property denies it.

`ProjectionPublication`: `MirrorsFollowThePointer`.  Where the code cuts the writing
of a mirror short, or another process commits beside it, the mirror differs from
the pointer and is listed in `behind`; what the property says is that nothing else makes
them differ, and that an undisturbed analysis, or for the database an undisturbed
recovery, puts them right again.

`SupersetInstall`: `LiveKeepsItsState`, but for the window between comparison and
replacement, a whole database that cannot be read, and an install whose candidate was
removed under its command (`raced`).

`ProgressiveAnalysis`: `StateStaysValid` (what `validateState` asks when a state is
read again, so that no sequence of operations ends in one that is refused),
`EligibilityAgrees`, and `UnknownHoldsTheBranch`, which fails.  The eligibility leaf
and the reservation agree but for two things, which the property names: the budgets of
the objects and the probes the run had before the analysis.  It is about requests
without a receipt to resume from, since with one the leaf never says ELIGIBLE.

`NativeBroker`: `BrokerIsOneShot`, `BudgetCoversUse`, `AnswersAreAccountedFor`, and
`DispatchedAtMostOnce`, which says of the provider's side what the first says of the
table and is close to a corollary of it.  "Not dispatched" is not the plain truth it
looks like (section 6); the property says what is left of it: no charge is open
behind it.

`BrowserStarter`: `StarterRunsOnce`, `UnknownOutcomeIsShown`, `StarterIsOneShot`.
`PortableLifecycle`: `PortableMarkerTellsTheTruth`.  Its last part, that a root at
rest is whole or removed, holds only until a handle is killed, a call throws or two
handles meet; a root left half removed then stays so, in the code as in the model.

## 5  Proofs

`GenerationStoreProofs`, for every number of generations, names and processes:

| Theorem | States |
|---|---|
| `TypeCorrect` | `Spec => []TypeOK` |
| `PointerAlwaysResolvable` | under `SingleMaintainer`, `Spec => []PointerResolvable` |
| `TornAlwaysCleanable` | under the same, `TornGenerationCanBeCleaned` |
| `StoreImplementsActiveGeneration` | under the same, the refinement of `ActiveGeneration` |
| `ReadersNeverRefused` | under the same and without cleaners, `ReaderNeverRefused` |
| `RecoveryIsComplete`, `CleanupIsComplete` | under `SingleMaintainer`, `RecoverLeavesNoStaging` and `CleanupLeavesOnlyActive` |
| `CommittedIsUntouched` | under the same, `ActiveGenerationUntouched` |
| `OnlyCleanupReclaims` | without cleaners, whoever else overlaps, `ActiveGenerationUntouched` |

They rest on `RolesAssumption` and `NoneAssumption` (who runs what; `None` is no
name) and, where shown, on `SingleMaintainer`; the race runs are the
counterexamples without it.

The argument.  `PointerResolvable` is not inductive: the flip copies whatever the
temporary names, the temporary was made from the generation id of a process, and
that id was published some steps before.  `TypeInv` is `TypeOK` with what each
label of a program implies about the variables in hand (`InHand`).  `ProtocolInv`
carries the fact along the way: a staging directory has one holder (`OneHolder`)
and so has a temporary (`OneTemp`); from the rename on, the generation in hand is
complete (`ActivationPoint`); a cleanup only has ids in hand that are not the
active one (`CleanupPoint`); a torn generation implies a pointer
(`TornHasPointer`).  One lemma per part, one step per action; the refinement
takes each step to `Publish`, `Commit`, `Reclaim` or a stutter.
`CommittedIsUntouched` needs nothing but that refinement.

What a recovery and a cleanup leave behind needs `MaintenanceInv` besides, which
follows the loops: a staging directory that is present is on the list or in hand
(`MaintenancePoint`); behind the first loop of a cleanup only the active generation is
published (`Swept`), behind the second nothing is staged, and what pointer debris
there is, is listed.  It holds because everybody else only reads
(`OthersOnlyRead`); a death empties the hands of its process and with them what the
invariant says of it.  A report of success comes with an empty list
(`SuccessEndsLoop`).

`ReviewedWorkflowProofs`, for plans of every length, any number of keys, deaths
and edits:

| Theorem | States |
|---|---|
| `TypeCorrect`, `ApprovalIsOneShot` | `TypeOK` and `ApprovalUsedOnce`, for any number of overlapping calls |
| `EarlierEditsSurvive` | under `SingleCall`, `EarlierEditSurvives` |
| `ReceiptsAreTrue`, `RollbacksRestore`, `FailuresAreReported` | under `SingleCall`, the three action properties of how calls end |

`SingleCall` says that calls do not overlap; `apply` and `rollback` take no lock,
so that is up to their caller, and the hazards name what happens otherwise.

The argument.  `ApprovalUsedOnce` needs the count tied to `consumed`
(`UsesBounded`), which a death empties.  The others follow from `WalkInv`, where a
call is in its plan: `HandPoint` (it only holds, to write or to compensate,
actions where it saw no foreign value) survives edits; while there are none,
`ApplyPoint` and `RollbackPoint` say that the actions behind it are done, and
`HiddenPoint` that what changed and is neither in `applied` nor reported is at
most the action whose own request has just failed.  `Endings` lists the actions
that end a call; each theorem reads its conclusion off the invariant there.

`OutcomeReconciliationProofs`, for plans of every length, any number of keys,
recoverers, compensators, retries, deaths and kills:

| Theorem | States |
|---|---|
| `JournalTypeCorrect` | `JournalSpec => []JournalTypeOK`, for any overlap of calls |
| `JournalIsTruthful` | under `SingleCall`, `JournalTellsTheTruth` |
| `CompensationsComplete` | under `SingleCall`, `CompensationIsComplete` |
| `JournalsNeverFork` | under `SingleCall`, `JournalNeverForks` |
| `NotDispatchedUnlessDead` | under `SingleCall`, `NotDispatchedMeansUntouched` until a dispatcher dies |

`SingleCall` here says that the dispatcher waits for the call it made.  Any number
of edits is allowed (the run has none, to be small); the first two properties say
themselves that they end with the first edit.  All rest on `ProcsAssumption`, that a
process has one role.  The last theorem is the other half of `outcome_crash`: as
long as no dispatcher died, the one that dispatched is still at work on every
journal that says not_dispatched (`Attended`).

The argument.  What the file says is only as good as what its writer holds in
memory, so the invariant (`JournalInv`) follows each process from reading the file
to writing it.  `DispatcherFits`: while a dispatcher goes on, nobody else may
write, because recoverers wait for an unknown outcome and compensators for a
partial one.  `ExecutorFits`: the executor runs under a dispatcher at work only,
and there is no receipt that the journal does not, or is not about to,
acknowledge; this is why a retry cannot be answered "already applied" over a plan
that is not in place.  `RecovererFits`: one recoverer is at work, because of the
lease, the outcome stays unknown under it, and every action it has read is in its
relations, so that an exact verdict speaks for the whole plan (`VerdictTells`).
`CompensatorFits`: compensators overlap, but by then all anyone does is restore,
which is why they need no lease.  `OwnStep` reduces a step that concerns one
process to what holds of that process; the steps of the executor keep `WalkInv`
because each is a step of ReviewedWorkflow's `Next` (`WorkflowProjection`), but for
a restore, during which no call runs.

The other proof modules, each for every value of its constants:

| Theorem | States |
|---|---|
| `LifecycleTypes`, `LifecycleOwnersExclude`, `LifecycleWritesAreSerial`, `LifecycleReceiptsMatch` | `LifecycleTypeOK`, `OwnersExclude`, `StoreWritesAreSerial`, `ReceiptsMatchTheStore` |
| `BrokerTypes`, `BrokerDispatchesOnce`, `BrokerAccountsForItsAnswers` | `BrokerTypeOK`, `DispatchedAtMostOnce`, `AnswersAreAccountedFor` |
| `BudgetAlwaysCovers` | `BudgetCoversUse`, the sum over the whole table |
| `BrokerImplementsOneShot`, `StarterImplementsOneShot` | `BrokerIsOneShot`, `StarterIsOneShot` |
| `OneShotPaysOnce` | from `BrokerIsOneShot` alone, `PaidForOnce` of `OneShot` |
| `ProgressiveTypes`, `ProgressiveStateStaysValid`, `ProgressiveEligibilityAgrees` | `ProgressiveTypeOK`, `StateStaysValid`, `EligibilityAgrees` |
| `PublicationTypes`, `PublicationMirrorsFollow` | `PublicationTypeOK`, `MirrorsFollowThePointer` |
| `InstallTypes`, `InstallKeepsLive` | `InstallTypeOK`, `LiveKeepsItsState` |
| `StarterTypes`, `StarterRunsOperationsOnce`, `UnknownOutcomesAreShown` | `StarterTypeOK`, `StarterRunsOnce`, `UnknownOutcomeIsShown` |
| `PortableTypes`, `PortableMarkerIsTrue` | `PortableTypeOK`, `PortableMarkerTellsTheTruth` |
| `ServicesAreTheirComponents` | the specification of MCServices implies that of each of its seven components |
| `ServicesTypeCorrect`, `ServicesKeepTheirPromises` | `ServicesTypeOK`, and every property of the run `services`, of MCServices |

They rest on the named assumptions of the modules (a sentinel is no member of a
set, bounds are positive numbers, the table of the broker is finite) and nothing
else.  The arguments:

- `LifecycleInv`.  The section excludes because the one marker is that of the call
  at work (`MarkersFit`), and that survives recoveries because the one at work
  finds the marker it read where it left it (`RecoveriesFit`), all of it unless
  `careless`.  Only then is what a call read the store it replaces (`ReadsFit`).
- `BrokerInv` fits the calls to the rows: between mark and settlement one call
  alone sends (`OneSends`, `CallFits`), so a row's history is that of its request
  (`RowFits`).  A step that moves one call is looked at for its operation only
  (`BrokerInvLocal`).
- `ProgressiveInv` is `StateStaysValid`, finiteness of probes and reservations, and
  `LedgerFits` (a hypothesis that may be probed is below the limits that stop it),
  which is what makes the two gates agree.  That every reservation has its probe among
  those of the run splits these into the reservations' and the run's own.
- `PublicationInv`: unless the database is behind, a copy anybody has in hand is of the
  active generation, and the file is, too, or about to be written by the one analysis
  that is past its staging (`DatabaseFollows`, `OneIsBusy`); unless `latest.json` is
  behind, an analysis between its commit and its receipt is the active one
  (`ReceiptFollows`).
- `InstallInv`: every seed is contained in the live database and, unless it was
  stripped, in the candidate made from it (`SeedsAreKept`), and who replaces compared (`ReplacersCompared`).
- `StarterInv` adds that what is not in the table was never started; `PortableInv`
  fits markers, trees and handles at work to one another.
- `LedgerInv`, for the budget: nothing is used of an operation before it is marked, a
  settled row consumed no more than it reserved, and both limits hold.  The limit is
  on a sum that a fold of the library computes over the table.  The induction that
  would say what the fold returns cannot be used, since its theorem takes an operator;
  so the sum is a function on the subsets of a finite set (`Sums`), and that such a
  function exists, is unique and may take its elements in any order is shown of a
  least subset for which it fails (`LeastSubset`, by well-foundedness of strict
  inclusion).  What remains is that a step changes one row (`SpentChanges`).
- `OneShot`: a broker's step records where it reserves, sends where it invokes and
  concludes where it settles.  The starter records and sends in one step;
  `RecordedFits` (what is in the table was started, what the owner row holds is
  unknown) shows that it completes only what it started and what is not completed.
- `MCServices`: a step is a step of one component and leaves the variables of the others
  alone (`ServicesStep`), so that each component's specification holds and with it
  every theorem about that component.

Model-checked only: `StagedGenerationCommits`; liveness is beyond the prover.  What
the six runs with a violation refute holds, of course, only under hypotheses: for
`ActiveGenerationUntouched`, `PointerResolvable` and `NotDispatchedMeansUntouched` the
theorems above give them; for the other three, which the code breaks in its ordinary
course (two retries, one edit, two probes), there is no such theorem worth stating.

## 6  Where code and documents disagree

1. `store_cleanup_race`: "untouched by construction" in the comment of
   `cleanupGenerationStore`; the active id is read once, before the removals.
2. `store_recover_race`: the header's "never a mix"; a recovery removes the
   staging directory of a live process while that is renaming it.
3. `outcome_crash`: the record of an unknown outcome is written by the process
   that sent the request, after the fact; nothing is written before.
4. `outcome_retry_key`: "newly bound ... idempotency key"; it is compared with
   the context's key only.
5. `outcome_compensation`: "only when every touched value is still the exact
   planned after-state"; drift is looked for one action at a time, between the
   restores.
6. `progressive_unknown`: `docs/decisions/PROGRESSIVE-ANALYSIS-V1.md:42-44` has an
   unknown outcome stop the branch "pending a separate hash-bound readback
   reconciliation".  The status of a hypothesis is that of its last event
   (`updateHypothesis`), so that the outcome of another probe, reserved before,
   reopens the branch.  A hypothesis that is STOPPED is reopened in the same way.

The first two presuppose two processes on one store at once, which
`provision`, `recover` and `cleanup` being separate commands allows.

Seen while modelling, and not given a run of their own:

- `refresh_live_mirror` (ks254_install.py:219-224) says of a database that may hold
  later writes that it "is left untouched and reported, never silently
  clobbered".  The comparison and the replacement are two steps, and a database
  that cannot be opened for the moment counts as not complete and is replaced.
- `docs/evidence/KS169_RUN_GENERATION_ISOLATION.md:26-28` has a session pinned to
  an older generation go on after a newer one is published.  Sessions and the
  catalog they are pinned to are kept in the mirror, and an analysis replaces
  that file.  Until it does, a discovery has changed the mirror's bytes and
  `publish` is refused with `PROJECTION_MIRROR_NOT_ACTIVE`.
- `recoverProjectionStore` refreshes `PROJECTION_DB` and not `latest.json`, so that a
  recovery that commits leaves the receipt of an earlier analysis in it.
- The eligibility leaf answers ELIGIBLE (progressive-analysis-v1.mjs:823-824) for a
  probe the controller run had of its own, whose reservation is then suppressed
  (947-955).
- The broker's catch can report `NOT_DISPATCHED` of an operation that was dispatched:
  the row is read after the refusal (h05-native-broker-runtime.mjs:75), so that another
  runtime may have sent and settled the operation in between, and a retry of a settled
  operation whose transaction throws is told the same.
- A recovery or cleanup of the Superset store that runs beside an install may remove
  the candidate database under the command at work on it (generation_store.py:376)
  and leave the directory, because errors of the removal are ignored.  A later
  command of that install makes a new database, whose receipt names the digest of the
  seed it no longer holds; the comparison with the live database then succeeds and the
  live state is replaced.
- The receipt of a recovery of the owner marker says
  `unrelatedMarkersRemoved: false` (operation.mjs:388); of two recoveries at once
  the later may rename, and remove, the marker of a new owner.
- A kill between a write and its rename leaves debris that no operation removes:
  the pending file of the lifecycle store refuses every later write, an owner
  marker without contents cannot be recovered, and a portable root with a
  pending marker or half a tree is refused for ever.

## 7  Not modelled

Pure computation, with no state that two calls share: plan compilation and its
dependency order, reports, business BI, the analyzers' normalisation, contracts,
companions, the validation of checkpoints, histories and migrations in
operation.mjs.  These are most of the repository's lines; what could be said of
them is what each function returns for an input, which is for its tests.
Authentication boundaries (session ingress, attestation) admit or refuse one
request.  Rendering and forwarding (agent UI, command line), scripts, tests and
vendored packages.  Promotion is one command that upserts into a synthetic
database of its own and restores the backup it has just made.

Publication and discovery.  `publish` compares the mirror's digest with the active
generation's and waits for the materializer, which compares the file's digest again
(materialize.py:42), opens it, compares the snapshot in the row it reads (53), commits
its own metadata (258) and may still refuse on the counts it reads back (266-267).  The datasets it writes query the live mirror, which
the next analysis replaces; only descriptions are of a snapshot.  There is therefore
nothing that binds what Superset shows to the analysis that was asked for, and what
remains to be said restates one comparison.  A session of discovery is rows in the
mirror, one transaction per question.

Of components that are modelled: the credentials and the profile file of a live
source, which concurrent analyses share (an analysis that loses them is one that
fails); the breadth phases of the controller with incomplete coverage and
overrides, requests with a receipt to resume from, and probes authorized beside the
analysis after it began; the restore of a portable bundle into an empty root.
Among the hazards, what has no property says why.  `PROJECT.json` names every
component with the reason.

## 8  Plan

Done: the generation store, the trusted workflow and the outcome journal; the
projections and their mirrors, the installation, the lifecycle store, the
progressive analysis, the broker and the hosting modules; all of them checked and
every safety property of a passing run proved.

Left, in this order: a run with two overlapping calls of one key, once the code
says what it promises of them; the order in which a recovery activates what it
finds, with a history of commits; requests with a receipt to resume from;
credentials of concurrent live analyses; publication, once what Superset shows is
bound to an analysis; `dependencyOrder` of the plan compiler as a function against
its definition.
