# Harbor Transfer Portal in TLA+

The portal moves container images and Helm charts between two Harbor registries
that have no network in common. A portal in mode SOURCE *exports*: it packs
artifacts into a signed bundle (archive, `.sha256` sidecar, signed handoff) in an
outgoing directory. Somebody carries the files. A portal in mode TARGET *imports*:
it verifies the bundle, shows a preview, and pushes the artifacts after an explicit
start. One backend process (FastAPI, one asyncio event loop, SQLite, worker threads
for hashing and packing) does all of it; it may be stopped or lost at any moment.

This directory specifies the parts whose correctness depends on the order of things:
who owns an operation, what a restart makes of it, how a mode switch meets starts,
how a delivery is built, published, found, verified, planned and transferred, and how
administrators change keys, registries, policies and accounts next to all that.

## 1. Inventory

Paths are relative to `backend/app/`.

| Component | State | Operations | Hard behaviour | What makes it correct |
|---|---|---|---|---|
| State machine (`domain/operations.py`) | one status per operation and per artifact row | the two transition tables | none by itself | every writer of a status follows it |
| Operation manager (`services/operation_manager.py`) | rows in SQLite (status, `worker_token`, `cancel_requested_at`, artifacts, counters), `_tasks`, a semaphore, workspaces | create, submit, cancel, worker context, shutdown, startup and reconciliation | cancellation against tasks, late done callbacks, loss of the process between commits | one worker per row, cancellation reaches it, restart settles, nothing is stuck |
| Runtime mode (`services/runtime_mode.py`, `services/correlated_operation_manager.py`, `api/runtime.py`) | mode and version (settings), snapshot of both in each row, one reservation in memory | guarded create and submit, begin, cancel all, complete, abort | starts between the steps of a switch, a reservation that is never given back | no operation outlives the mode it belongs to; every switch ends |
| Deterministic retry (`services/import_retry.py`) | the row of the retry, its plan, its lineage | prepare | works outside manager and barrier, across awaits | the invariants of manager and mode still hold; a prepared retry can start |
| Import intake (`services/import_orchestrator.py`, `import_preview_projection.py`) | files in incoming and staging directories, rows, persisted previews | discover, upload, preview worker, rejection | concurrent discoveries, threads that outlive their worker, an attribute shared by workers | one delivery is one import, a worker keeps its files, what is READY is prepared |
| Destination plan and start (`services/import_destination_plan.py`, `policy_aware_destination_plan.py`, ...) | `import_policy_json`: plan, flags, lineage | build plan, validate, start import | planners and starters at once | the worker executes the plan and the flags that were accepted |
| Import worker and receipt (`services/import_orchestrator.py` 507-699, `import_persistence.py`) | artifact rows, extraction directory, receipt row and file | classify again, push, verify, write receipt | partial failure, crash between receipt row and file | a receipt is written once and tells what happened |
| Export (`services/export_orchestrator.py`, `export_publication_guard.py`, `export_recovery.py`, `bundle_package_service.py`) | three files per delivery, `_owned_deliveries`, `bundle_*` and `handoff_*` columns | materialise, package, publish, verify, clean, recover | a thread no cancellation stops, crash between files and rows, foreign files | complete means published, otherwise nothing ready-looking is left, nobody else's file is touched |
| Retention (`services/storage_retention.py`) | none of its own; reads all rows once, deletes files | periodic and startup cleanup | decides on a stale list, in a thread | never removes what an unfinished operation needs |
| Harbor profiles (`services/harbor_profiles.py`, `api/harbor_projects.py`) | a JSON list in one setting, a process-wide boundary lock | CRUD, activation, project creation | lost updates, lock held across HTTP | operations keep the registry they were bound to |
| Keys (`services/key_management.py`, `source_trust_package.py`, `trusted_key_retirement.py`) | SOURCE active and pending key, TARGET trusted key files (`.pem`, `.disabled`) | prepare, activate, cancel, import trust package, enable, replace, retire | two portals, several files per change, crash in between | no zero-key window, no retirement under an import in flight |
| Bundle format and handoff (`services/bundle_package_service.py`, `media_handoff.py`) | archive, sidecar, handoff, extraction directory | build, verify, extract | parts of different deliveries, damage, a crash between two members | accepted means built by SOURCE, extracted means whole |
| Registry clients (`services/skopeo_service.py`, `nexus_service.py`, `helm_oci_service.py`) | registries outside the portal | inspect, copy, push, verify | tags that move between two commands, pushes that fail after they took effect | what was chosen is what is transferred |
| Transfer policies (`services/transfer_policy.py`, `destination_mapping_policy.py`) | one row per setting, a copy in memory, a revision | PATCH, resolve | handlers in threads, no transaction over a read and a write | the stored limits stay in order, a plan names the defaults it used |
| Accounts (`api/users.py`, `auth/`) | users, tokens, throttle rows | login, change of role and status | handlers in threads, a slow password hash | an administrator remains, a lock lasts |
| Reports, audit, history | rows | | written, or read and shown | not a matter of order; see section 7 |
| Web frontend (`frontend/src/stores`) | wizard stores | requests and polling | late answers of superseded requests | the wizard shows the operation it works on |

**How they interact.** Orchestrators create a row and submit a coroutine to the
manager; the coroutine talks to its row through `OperationContext` only. The manager
used by the application is `CorrelatedOperationManager`, which puts create and submit
under the mode lock and stamps the row. The mode switch calls `manager.cancel`.
Retention and recovery look at rows and delete files. The retry writes rows directly.
The process-wide singletons are the mode lock, the profile lock and the semaphore;
everything else that must survive is in SQLite or a file, with no transaction over both.

`PROJECT.json` lists the hazards line by line.

## 2. Modules

| Module | Models | Notes |
|---|---|---|
| `OperationStates` | the transition tables | constants only |
| `OperationLifecycle` | what one may rely on about a row | abstract specification |
| `OperationManager` | manager, shutdown, crash, reconciliation | implements `OperationLifecycle` |
| `RuntimeMode` | switch and barrier | extends `OperationManager`: every step of the manager is a step here, under the lock's conditions |
| `ImportRetry` | the retry handler | extends `RuntimeMode` in the same way |
| `ImportIntake` | discovery, upload, preview worker, retention of staged bundles | handlers, workers, threads and restart |
| `ImportExecution` | plans, start, import worker, receipt | takes over where `ImportIntake` says READY |
| `ExportPublication` | the three files of a delivery | worker, thread, crash, recovery, download, retention, outsiders |
| `BundleFormat` | what is in these files, how it is checked and extracted | the content that intake and publication move about |
| `RegistryTransfer` | one artifact from a SOURCE tag to TARGET repositories | the rules for images and charts behind one round of the worker's loop |
| `KeyTrust` | SOURCE keys, trust packages, TARGET key files, retirement | the signer that `BundleFormat` checks |
| `HarborProfiles` | registry profiles and who is bound to which | |
| `TransferPolicy` | limits and mapping defaults | the defaults behind a plan of `ImportExecution` |
| `Accounts` | login, throttle, administration of accounts | |
| `OperationManagerProofs`, `ImportExecutionProofs`, `ExportPublicationProofs`, `KeyTrustProofs`, `RegistryTransferProofs` | theorems about the module each extends | TLAPS, section 5 |
| `RuntimeModeProofs` | theorems about `RuntimeMode` and `ImportRetry`, over those of the manager | |
| `DeliveryProofs` | theorems about `ImportIntake` and `BundleFormat` | |
| `AdministrationProofs` | theorems about `HarborProfiles`, `TransferPolicy` and `Accounts` | |
| `MC*` | instances for TLC | `MCTransfers` and `MCAdministration` check several modules in one run |

An operator whose comment begins with "Wrong:" is a mutated form of the definition
that follows it. No specification uses it; `PROJECT.json` ("mutants") says which
property notices if it replaces the definition.

**Composition.** Modules that share state extend one another (`ImportRetry` over
`RuntimeMode` over `OperationManager`). The others meet at an interface that is one
value: a verdict, a status, a digest. They are checked side by side: `MCTransfers` and
`MCAdministration` have a variable `component` that is chosen in the initial state and
names the module whose steps the behaviour takes; the variables of the others rest. A
run therefore explores the union of the state spaces of its modules, not their product,
and says of each module what a run of its own would say.

### OperationManager

A step is what the event loop does between two suspension points, or a prefix of it
followed by the loss of the process. `phase[o][n]` is the coroutine of the n-th claim
of operation o: `scheduled` (the loop has not entered `_run_worker`), `queued` at the
semaphore, `running`, `unwinding` (a `CancelledError` was thrown, the worker cleans
up), `done` (the callback has not run yet), `gone`. The number n also stands for the
random `worker_token` of the claim.

`Create`, `Submit`, `StartFails` and `Cancel` are the calls from outside;
`WorkerMoves`, `WorkerSetsArtifact`, `WorkerAddsArtifacts`, `WorkerTogglesWorkspace`
and `WorkerReturns` are the calls an arbitrary worker may make on its context, so every
orchestrator is a special case; `WorkerFails`, `WorkerCancelled` and `WorkerStopped`
are the `except` branches of `_run_worker` with its `finally`. `CrashInEnd` and
`CrashInCancel` are losses of the process between the commits of one handler;
`Startup` is reconciliation. A terminal row never goes back, so the abstract
`OperationLifecycle` (rows are born in an initial status, follow the table, are
CANCELLED only after a request) is the contract other components use.

### RuntimeMode

`switch` is the reservation together with the place of the request handler: the
operations it has still to cancel (`left`) and the task it awaits (`awaited`).
`BeginSwitch` needs that no intake handler is between create and submit, because those
handlers do not suspend there; export handlers do, so they may be in between. The
first start may find prepared imports of a database from before the upgrade, without
a snapshot.

### ImportRetry

`prepare_retry` writes the row in status READY with the snapshot of the original, then
awaits the destination plan. In the model the row is open to everybody meanwhile:
cancel, another planner, a start, a switch. `DiesRetrying` is the loss of the process
between the commits of plan and lineage. `partial` remembers imports that ended
with failed artifacts, the only ones that can be retried.

### ImportIntake

A request (`at`) lists the incoming directory once (`todo`), takes one delivery at a
time into a private directory (`held`), hashes it in a thread, and creates and submits
the operation without an await. The orchestrator object of the request lives on in its
preview workers; its attribute `_verified_preview` is `captured`. The verification
thread is separate from the worker, since a cancellation stops the worker only.

### ImportExecution

`planning` holds the mappings whose planner awaits the registry; a planner that ends
replaces policy and flags if the row is still free, also the policy of a retry that was
given its lineage meanwhile. A plan is identified by its destinations, as `plan_id` is a
hash of bundle and destinations (`schemas/imports.py:194`). `Starts` and `StartRefused`
are the two ends of `start_import`: both have committed their flags. The worker
(`runner`) walks over the artifacts; `agreed` is a history variable with what the start
named. `Busy` is the stretch from the last artifact to the end, which has no await.
`registry` is the TARGET, where outsiders push and delete between any two steps.

### BundleFormat and RegistryTransfer

A digest *is* the content it was taken of and a signature *is* the pair of key and text,
so a forged one is not a value of the model; what the medium does is damage, lose or
exchange files (`MaxDamages`). Each check of `verify_bundle` is an operator
(`SignatureTrusted`, `ChecksumsParse`, `LayoutDeclared`, `HashesMatch`,
`DescriptorsMatch`, `SidecarMatches`) and `BundleVerified` is their conjunction in the
order of the code. In `RegistryTransfer` every command is an await. A chart that is
pushed is wrapped into a manifest of its own (`Wraps`), hence the verified pairs of
SOURCE and TARGET digest that a replay consults: the row of the artifact gives one after
the verification (`HelmVerifies`), with the path at SOURCE, and the receipt one at the end
of the worker (`WritesReceipt`), with the path the chart went to. `cut` is a history
variable: repositories whose last push nobody has written a receipt of, as the import
ended in between.

### ExportPublication

`packer` is `build_bundle`, `exporter` the coroutine around it: `building` awaits the
shielded thread, `draining` waits for it after a cancellation, `abandoned` was
cancelled a second time there. `files` says of each of the three names whether nothing,
the portal's own file, a broken-off copy or somebody else's file is there. What the
worker does after the thread has returned has no await, so it is one step, and
`DiesVerifying`, `DiesCleaning` and `DiesRecovering` are its prefixes.

Downloads and the expiry by retention read and remove the same files.

### KeyTrust

A request about keys runs alone, but it is a sequence of file operations: `changes` is
what it has left to do, `ChangesFile` does one, `TargetRestarts` drops the rest. The
directory is a function from names (fingerprint or a hand-made name, enabled or
disabled) to keys, because the code finds keys by content and files by name.
`verdicts` follows an import from its row over the listing and the reading of the key
files, both in a thread without the lock, to its binding.

### HarborProfiles, TransferPolicy, Accounts

All three are about handlers in threads and what they have read before they write.
`HarborProfiles`: `boundary` is the handler inside the profile lock, `creating` the one
that does not take it; `jobs` are operations with the profile and address bound to them.
`TransferPolicy`: a read of a row is a step, SQLite serialises only from the first write
to the commit (`WriterFree`). `Accounts`: `Merged` is what an UPDATE of changed columns
makes of a row that has moved on. A failed login takes the time, reads the row of the
account (`FailureReads`) and, where that makes a change, flushes it before it asks for
the row of the address, which is then read and written under the lock
(`FailureCommits`). An account that is locked already is left as it is; nothing is
flushed, and the row of the address is read without the lock (`AddressReads`) and written
at the end (`AddressCommits`).

Some properties exclude by name a situation the code does not handle: `clobbered` (a
profile list committed over one that was not read), `collided` (two changes of the mapping
with one revision), `tangled` of `KeyTrust` (a key under the name of another), and the
steps `ClearsLock` and `WritesUnseen` of a login that ends (checked before the lock; a
throttle row written over a change unseen). Section 6 says of each what the documents
say about it.

## 3. Runs

| Run | Instance | Shows |
|---|---|---|
| `manager_safety` | 2 operations with 1 artifact, 1 slot, 2 claims each, symmetric | invariants and action properties of the manager, and that it implements `OperationLifecycle` |
| `manager_liveness` | the same size, under fairness | a worker that reached the semaphore settles its operation; a cancelled one becomes terminal |
| `mode_switch` | 2 operations, 2 claims, up to 2 switches, under fairness | no operation outlives its mode, the barrier has no gap, every switch ends |
| `transfers` | see below | 15 properties of intake, execution, publication, format and transfer |
| `administration` | see below | 8 properties of keys, profiles, policies, accounts and of retries under mode switches |
| `manager_cancel_before_first_step`, `manager_orphaned_start`, `retry_stale_snapshot`, `intake_preview_mixed_up`, `export_left_behind`, `import_flags_of_refused_start`, `accounts_no_admin_left` | one module each | violations, see section 6 |

| Part of `transfers` | Instance | Properties |
|---|---|---|
| `ImportIntake` | 2 requests, 3 deliveries, the second with a bad handoff, 2 slots | `OneImportPerDelivery`, `WorkerHasBundle`, `ReadyIsPrepared` |
| `ImportExecution` | 1 import (or retry) of an image and a chart, 2 references, one of them contested by outsiders, 2 mappings of which one collides, 2 plans, 1 slot | `ExecutesAgreedPlan`, `VerifiedAreDistinct`, `CompletedIsProven`, `ReceiptIsFinal` |
| `ExportPublication` | 2 exports | `CompletedIsPublished`, `EndedLeavesNothing`, `ReadinessImpliesArchive`, `ForeignDeliveryStays` |
| `BundleFormat` | 2 deliveries, an image, a chart and a stray path, 2 contents, 2 keys, 2 accidents | `AcceptedIsBuilt`, `UnpackedIsWhole` |
| `RegistryTransfer` | 2 contents, 2 wraps, 2 repositories of which one is shared with others, 2 imports at once | `ImageCarriesSelection`, `ImportIsReplayable` |

| Part of `administration` | Instance | Properties |
|---|---|---|
| `KeyTrust` | 2 SOURCE keys and a stranger, a hand-made file name, 1 import, at most 2 trusted keys | `TrustIsGenuine`, `PreparedIsTrusted` |
| `HarborProfiles` | 2 profiles besides the default, 2 addresses, 2 operations, one of them without a binding | `ClientIsBound`, `ProfilesAgree` |
| `ImportRetry` | 2 operations, 1 claim each, 2 switches | `WorkerRunsInItsMode` |
| `TransferPolicy` | 2 handlers, 2 patches of limits that cross, 1 of the mapping defaults, 1 environment to start in, 2 revisions | `PolicyIsConsistent`, `PlanNamesItsPolicy` |
| `Accounts` | 2 accounts and their address, 2 handlers, an account locked by its first failure and the address by its second, a clock of 2 | `LockOutlasts` |

**Why the bounds are enough.** Two operations are the least that compete for a slot or
show one handler acting on another's row; a third adds a bystander, as every condition
in the code is about one operation or about "any other". Two claims of one operation are
needed for late callbacks, stale tokens and restarts of a READY import; a third claim
meets the same states with a greater number. One artifact row distinguishes every
status; the counters count it. Three values of the mode version allow TARGET, SOURCE and
TARGET again, the shortest way to a stale snapshot of the right mode. Three deliveries
with a bad one in the middle give a scan something before and behind the place it stops
at, and two requests are what a race for one delivery takes. Two exports are independent
but for the process, whose crash strikes one while it handles the other. An import needs
two artifacts to collide and two plans for a late planner to replace the one a start has
named; imports meet only in the registry, where the outsider stands for the other one.
Two accidents exchange two files of two deliveries, or damage a file and the checksum
that would show it. A replay needs two repositories and two imports. Two keys are a
rotation, two profiles a change of the active one next to a deletion, two handlers a lost
update. A clock of two covers window and lockout. The bounds in guards are `MaxClaims`,
`MaxVersion`, `MaxPlans`, `MaxDamages`, `MaxImports`, `MaxRevision` and `MaxTime`.

Deadlock checking is off where such a bound ends the behaviours (`transfers`,
`administration`, `import_flags_of_refused_start`, `accounts_no_admin_left`); it stays on
in all other runs: a portal can always crash or restart.

## 4. Fairness

`OperationManager!Fairness` and `RuntimeMode!ModeFairness`:

* weak fairness of the first step of a task, of its end and of its done callback: the
  event loop runs what is runnable; workers wait only for subprocesses and HTTP requests
  that have timeouts;
* strong fairness of taking a slot: the waiters of an `asyncio.Semaphore` are a FIFO
  queue, so a waiter is not overtaken for ever; weak fairness would let two others
  pass the slot between them;
* weak fairness of the start handler between create and submit, of the steps of the
  switch handler, of the end of a shutdown, and of the next start of a process that is
  down (a supervisor or an operator does it).

Nothing is assumed of users: nobody has to submit, cancel or switch, and crashes are
never required to stop. Liveness is therefore stated from a point the code is
responsible for: a worker *that reached the semaphore*, an operation cancelled *while*
its worker was there, a reservation *that was made*.

## 5. Proofs

Everything below is checked by TLAPS for every value of the constants that satisfies the
named assumption of the module: any set of operations, deliveries, keys, profiles,
repositories or handlers. TLC evaluates the assumptions in the runs of section 3. Every
invariant and every action property that a passing run checks is a theorem.

| Module (assumptions) | Theorem | States |
|---|---|---|
| `OperationManagerProofs` (`SizesAssumption`, `ArtifactsAssumption`) | `TypeCorrect` | `[]TypeOK` |
| | `AlwaysConsistent` | `[]Consistent`, the inductive invariant |
| | `OwnershipHolds` | a live worker holds the token of its row |
| | `RegistrationHolds` | a live task is the entry of `_tasks` |
| | `CountsHold` | stored counters equal the census of the artifact rows |
| | `SettledHolds` | no terminal operation shows a running artifact |
| | `LifecycleImplemented` | `Spec => Lifecycle!Spec` |
| | `AlwaysAttended` | `[]Attended`, inductive next to `Consistent` |
| | `ExecutingHolds` | an executing row has a worker |
| | `CancelHolds` | a cancellation reaches the live task |
| | `WorkspaceStays` | no step pulls a workspace from under its worker |
| | `ReadySurvives` | stop and restart leave what is READY |
| | `RestartHolds` | a restart settles every claim |
| `RuntimeModeProofs` (these two and `VersionAssumption`) | `AlwaysModeConsistent` | `[]ModeConsistent`, the inductive invariant |
| | `PresentModeHolds` | no unfinished operation is of an earlier stay in a mode |
| | `WorkerModeHolds` | a worker runs in its mode and under its snapshot |
| | `LeftOverHolds` | what a switch leaves was asked to stop and has no worker |
| | `AlwaysRetryKept` | `[]RetryKept`, the inductive invariant of `ImportRetry` |
| | `RetryModeHolds` | `WorkerRunsInItsMode` next to retries |
| `ImportExecutionProofs` (`ExecutionAssumption`) | `AlwaysSound` | `[]AllSound`, the inductive invariant |
| | `AgreedPlanHolds` | the worker executes the plan its start named |
| | `DistinctHolds` | no destination holds two verified artifacts |
| | `CompletionHolds` | COMPLETED has a receipt, in the row and as a file |
| | `ReceiptStays` | a receipt is never changed |
| `ExportPublicationProofs` (none) | `AlwaysTidy` | `[]AllTidy`, the inductive invariant |
| | `PublicationHolds` | COMPLETED is published until it is expired |
| | `CleanEndHolds` | another end leaves no archive and no sidecar |
| | `ReadinessHolds` | a sidecar has its archive |
| | `ForeignStays` | files of others are not touched |
| `DeliveryProofs` (`DeliveriesAssumption`) | `AlwaysOrderly` | `[]Orderly`, the inductive invariant of the intake |
| | `OneImportHolds` | one delivery is one import |
| | `BundleStaysWithWorker` | a preview worker has its bundle |
| | `PreparedHolds` | READY is prepared |
| `DeliveryProofs` (`BundleAssumption`) | `AlwaysVouched` | `[]Vouched`, the inductive invariant of the bundle |
| | `AcceptanceHolds` | what TARGET accepts SOURCE has built |
| | `ExtractionHolds` | what is extracted is the whole of it |
| `KeyTrustProofs` (`TrustAssumption`) | `AlwaysGenuine` | `[]Genuine`, an inductive invariant |
| | `TrustHolds` | TARGET trusts only keys SOURCE has had |
| | `SignerHolds` | the signer of a prepared import stays enabled |
| `RegistryTransferProofs` (`TransferAssumption`) | `SelectionHolds` | an image is packed as it was chosen |
| | `ReplayableHolds` | the next import finds what the imports have brought |
| `AdministrationProofs` (`ProfileAssumption`) | `AlwaysPinned` | `[]ProfilesHeld`, the inductive invariant of the profiles |
| | `ClientHolds` | a worker talks to the registry its operation was bound to |
| | `AgreementHolds` | active profile, list and credentials agree |
| `AdministrationProofs` (`PolicyAssumption`) | `AlwaysOrdered` | `[]PolicyHeld`, the inductive invariant of the limits |
| | `PolicyHolds` | the stored limits keep their order |
| | `AlwaysFollows` | `[]MappingHeld`, the inductive invariant of the revision |
| | `PlanHolds` | a plan with the present revision has the present defaults |
| `AdministrationProofs` (`AccountAssumption`) | `ThrottleHolds` | `[]ThrottleTyped` |
| | `LockHolds` | a lock lasts until its end |

**The manager.** None of its invariants is inductive alone. Ownership needs registration
(a submit is refused while `_tasks` shows a live task, so a fresh token cannot displace the
one a live worker holds only if that worker *is* the registered one) and registration
needs ownership (an old callback could remove the entry of a newer claim; it compares
the task, and a live one has the newest number). Both need `DownIsEmpty`: startup clears
tokens, which is harmless only as no coroutine survived. `NothingWithoutRow` keeps a
fresh row free of leftovers. The refinement to `OperationLifecycle` needs
`StatusOfType` (reconciliation writes FAILED or CANCELLED over any non-terminal row;
that this is an edge of the table depends on the row having a status of its type) and
`CancelIsRequested` (the `except CancelledError` branch writes CANCELLED without
looking at the row, so the abstract promise rests on who may cancel a task).
`Consistent` is the conjunction; the runs check the parts of it that mean something to
a reader. The proof of the step has one case per action; actions that only move
a coroutine share lemmas about which conjuncts they can disturb.

**Who attends to a row.** `ExecutingHasWorker` and `CancelReachesWorker` need each
other's company and two more facts: a worker that cleans up is one of an executing row
(`UnwindingExecutes`), and a shutdown has cancelled every task that is still alive
(`StoppingIsCancelled`). `Attended` is their conjunction. From `Owned` an operation has
one live task at most (`OneTask`), so every step of a task is one of a few turns (`Turn`)
that say which status it leaves, and the case analysis is over these. Of the action
properties, `WorkspaceNotPulled` rests on `OneTask` (the worker whose end removes a
workspace is the only one that could be in its body), `ReadySurvivesRestart` on
`StoppingIsCancelled` and `UnwindingExecutes` (while the process stops, a live task of a
READY row has its CancelledError on the way, so it makes no more calls on the row), and
`RestartSettles` on what `Startup` makes of a row.

**The mode barrier.** Every step of `RuntimeMode` either is a step of the manager under
the lock or touches only mode, version and reservation, so `Consistent` is kept by the
lemma proved for the manager (`ConsistentStep`), and a row that was over stays over by the
abstract lifecycle the manager implements. What is added: a row that does not exist has no
snapshot (`BlankRows`), and `SwitchReaches`. While a switch is pending, no row can be
created or claimed; each blocker it is done with has been asked to stop, and only the one
it awaits may still have a live task. When nothing is left to cancel and nobody is
awaited, the mode may change without a worker under it.

**Retries.** `ImportRetry` writes rows without lock and manager, so neither
`ModeConsistent` nor `Consistent` survives it: a retry may be born with a snapshot of an
earlier stay, and `_mark_prepare_failed` writes FAILED over a row whatever its worker
and its artifacts do. What does survive is `Core`: types, ownership and rows. With it
`WorkerRunsInItsMode` is inductive: a submit compares the snapshot with the present mode,
so an old one never gets a worker; a row made FAILED no longer counts; and `complete`
changes the mode only where it finds nothing that blocks, retries included.

**An import.** `AllSound` speaks of each import by itself; the steps of another one
change only the registry and the slots (`OthersAreSame`). An import that is claimed keeps
the plan its start named (`KeepsPlan`), since planner and retry replace the plan of a
READY row that nobody has claimed; the worker loads it once and keeps it
(`FollowsPlan`). Artifacts are settled in their order (`InOrder`), and what has been
touched was touched under a usable plan (`TouchedIsUsable`), which survives the end of
the worker and makes two verified artifacts at one destination impossible. Nothing has
happened before a start (`BeforeStart`), so no receipt is there for the worker to find,
and the receipt row comes after the last artifact, the file after the row, the end after
the file (`ReceiptInOrder`). A retry's handler that writes FAILED does so only where no
worker is between these, as that stretch has no await (`Busy`).

**An export.** `AllTidy` speaks of each delivery by itself; only a crash and a restart
touch all. `Stages` relates coroutine, row and thread; `ThreadsFiles` says for each stage of the thread which
of the three names are its own; `EndsFiles` what an ended or lost worker leaves;
`ShownIsOwn` what may be offered. The thread puts the archive first and the sidecar
last, without replacing, and takes back in the opposite order only what it put: this is
why a step that removes a name never meets a foreign file there.

**A delivery on its way in.** `Orderly` relates a request to what it holds (it holds
something exactly while it is taking it), and files, operation, worker and preview of a
delivery to one another (`Attached`). A request takes the first delivery of its listing;
that a listing which is not empty *has* a first one is proved from the well-foundedness
of the naturals.

**A bundle.** `Vouched` says that each archive on the medium, however damaged or
exchanged, carries a signature SOURCE made, next to a manifest, checksums and files that
need not fit. The verification makes them fit one after the other: the signature binds
the manifest, the manifest's descriptors bind the checksums of the artifacts, the
checksums bind the files. So what is accepted is, part by part, one bundle that SOURCE
has built, and the extraction ends with all of its files. `Vouched` quantifies over
archives without bound and is outside TLC's reach; the two properties it implies are
checked.

**Keys.** `Genuine` says of everything that can become trusted (the keys of SOURCE, the
endorsement in the package, the files, and the writes a request has not done yet) that
it goes back to a generated key; the content of a file is fixed when the request is
admitted, which is why the pending file operations are part of the invariant.
`PreparedIsTrusted` needs to know where a signer survives: `Reliance` says that the key of
a prepared or verified import is trusted and has a file that every remaining operation of
the request spares, or that the next operation writes such a file; and that next to an
import whose signer is not bound yet only requests run that take no key away.

**One artifact.** Until something is packed nothing is imported (`NothingBefore`), and
nothing is packed while an export is under way (`OneExport`). `ImportIsReplayable` needs to
know what has put the manifest into a repository that nobody else writes and that is not
in `cut` (`Brought`): it is the image of the bundle; or an import that has pushed there
will still write its receipt about what it has seen (`UnderWay`); or a receipt names
repository and manifest (`Noted`). The difficulty is an import that pushes over another:
each verifies whatever it sees, so a receipt may name a manifest that is gone, or one its
own import has not pushed, and every push begins the argument anew. The row alone would
not do: it names the path at SOURCE.

**Profiles.** The list is read under the lock and committed later, so the invariant is
about the list on its way as much as about the stored one: it moves no profile that an
unfinished operation is bound to (`WorkersPinned`), and it will agree with the active
profile and with the credential files less those it is about to remove (`StoresAgree`).
The creation of a profile does not take the lock; it never changes an entry it has read,
but may commit a list somebody has changed since. That voids both properties, and
`clobbered` records it. The module extends a list with an operator of its own (`With`),
as the prover has no theory of the function operators `:>` and `@@` of the module `TLC`.

**Limits.** The handler that excludes the others (from its first write to its commit) has
validated the table it is going to commit, against the table as it is *now*
(`HolderIsValid`): `update` ends with `resolve`, which reads every limit again behind its
own writes (`ValidatedAgain`); without that a handler could commit what another has
made invalid since it read. A committed value has a row, so the shared Settings no longer
speak for it (`CommittedHasRow`).

**Mapping defaults.** A planner reads the revision first and the defaults after it. Its
revision is therefore never later than the stored one, and where they are equal no change has been committed
since (`PlannerFollows`), as each raises the revision unless it collided with another.

**Locks.** What a handler commits over a row of the throttle is a failure counted on the
row it has read, at the time it took before, with the columns it did not change taken from
the present row. If the row is still as it was read, a lock stays: one that had not
fallen by then leaves the row alone, one that had ends later than the time taken.
Otherwise the step is `WritesUnseen`. The row of the address is no exception: where the
account's row is flushed first, it is read under the lock, otherwise `AddressCommits`
writes what `AddressReads` has read.

**Model-checked only.** The liveness properties `StartedWorkerSettles`, `CancelSettles`
and `SwitchEnds`, which need fairness and ENABLED, for which the prover has no rules; and
the counterexamples of section 6. `RegistryTransfer` is one artifact and `ImportExecution`
one worker's loop over them; that the two fit is a matter of reading the code, not proved.
## 6. What does not hold

Seven statements of the documentation fail; each of these has a run whose counterexample is the
shortest way there.

1. **Cancel before the first step** (`operation_manager.py:367`). `cancel()` leaves the
   marking to the handlers of `_run_worker`. A task cancelled before the loop has entered
   that function ends without running them. The row keeps status and token, and as it is
   asked to cancel no start can claim it. `docs/operation-manager.md:44`.
2. **Orphaned start** (`operation_manager.py:388`). A row created and not submitted when
   the process dies is selected by no reconciliation; it stays non-terminal until a user,
   or the cancellations of a mode switch, end it. `docs/operation-manager.md:58`.
3. **Stale snapshot of a retry** (`import_retry.py:114`). A retry of an import from an
   earlier stay in TARGET is prepared and can never start.
   `docs/deterministic-import-retry.md:93`.
4. **Mixed-up previews** (`import_preview_projection.py:93`). Two deliveries found by one
   discovery share one attribute for the verified bundle; one preview is saved with the
   signed facts of the other. `docs/import-orchestration.md:214`.
5. **Publication left by a crash** (`export_publication_guard.py:79`). Ownership is
   recorded in memory only; a crash between the sidecar and the rows leaves a delivery
   that recovery does not recognise. `docs/export-orchestration.md:116,142`.
6. **Flags of a refused start** (`import_destination_plan.py:657`). `start_import`
   commits overwrite and skip flags before `submit` refuses a second start; the worker
   of the first, which waits for its slot, loads the flags of the second and may
   overwrite what nobody confirmed to it. `docs/import-orchestration.md:219`.
7. **No administrator left** (`api/users.py:62`). The count of active administrators and
   the commit of a change are not one transaction: two administrators who demote each
   other at once are both counted as the one who remains.
   `docs/admin-user-management.md:59-64`.

Six more are departures the modules take as steps and the passing properties exclude by
name or do not speak of; there is no run for them:

* *One revision for two changes* (`destination_mapping_policy.py:97`): two PATCHes of
  different mapping defaults read one revision and both write the next, against
  `docs/transfer-policies.md:64`. `PlanNamesItsPolicy` excludes it (`collided`).
* *The mapping of a retry replaced* (`policy_aware_destination_plan.py:99`): a planner that
  began before the retry was prepared persists after it and replaces frozen mapping and
  lineage, against `docs/deterministic-import-retry.md:25,106`. What runs is still the plan
  its start named (`ExecutesAgreedPlan`).
* *An export cancelled twice* (`export_orchestrator.py:492`): a second cancellation, or the
  timeout of a shutdown, ends the worker while its packaging thread goes on, and the
  delivery of a CANCELLED export appears, against `docs/export-orchestration.md:152,157`.
  `EndedLeavesNothing` is stated of the workers that are not `abandoned`.
* *A change of profiles lost* (`api/settings.py:293`): the creation of a profile is outside
  the lock and commits the list it has read over a later one, and with it an older state
  of a profile operations are bound to, against `docs/harbor-profiles.md:186-187`.
  `ClientIsBound` and `ProfilesAgree` exclude it (`clobbered`).
* *A slot under its old name* (`key_management.py:298`): a replacement whose rename fails or
  is interrupted leaves the new key in the file of the old one; adding the old key again
  writes over it, with no look at the imports it has signed, against
  `docs/key-management.md:225`. `PreparedIsTrusted` excludes it (`tangled`).
* *A pair of another repository* (`import_helm_service.py:119`): where the target is the
  path of the chart at SOURCE, the row of an import into any repository authorises the
  replay, against the comment at 122-124. `PairVerified` is what the code does;
  `ImportIsReplayable` says what must be accepted, not what must be refused.

Of no document, but seen while modelling: a pulled chart is not compared with the digest asked
for (`helm_oci_service.py:259`); recovery leaves the handoff file and its columns; a handoff
collision makes the cleanup remove the foreign handoff (`ForeignDeliveryStays` is about
archive and sidecar, as the document is); `_mark_prepare_failed` writes FAILED over terminal
rows; a crash after a terminal commit leaves the workspace; GET `/api/runtime` can leave an
old contour in the shared settings; two failed logins that read one row of the throttle
write one count, and the later UPDATE may bring an earlier end of the lock.

## 7. Not modelled

* Hashing, signatures and canonical JSON as computations, limits of tar and gzip, path
  checks: `BundleFormat` has what they compare, not how.
* Harbor, Nexus, Skopeo, Helm themselves: what they answer is an input, what they do
  between two answers an action marked external.
* Project listings, connection tests and the creation of Harbor projects: they change
  no state of the portal. CA files of profiles go the way of credential files.
* `create_user`, the bootstrap administrator, password hashes.
* Extraction and work directories against the retention thread.
* In `HarborProfiles`, that names of profiles are unique and their fields validated; in
  `ImportExecution`, who asks for a plan.
* The text of errors, audit and log entries, reports: written, never read back.
* The web frontend, and the tools and scripts around the repository.
* A second backend process on the same database: the deployment excludes it
  (`runtime_mode.py`, docstring of `mode_guard`).

The components that keep state have a type invariant. The one of the manager is checked
in a run and proved; those of `RuntimeMode`, `ImportIntake`, `ImportExecution`,
`ExportPublication` and the throttle of `Accounts` are proved as parts of the inductive
invariants of section 5. The runs spend their other properties on what is hard to get
right.

## 8. Plan

1. That `ImportExecution` implements an abstract import (a plan is agreed, destinations
   receive artifacts, a receipt closes it) that knows no planner, thread or registry, and
   that `ExportPublication` implements an abstract delivery (unpublished, published,
   expired), both by steps as in `LifecycleImplemented`.
2. For `ImportRetry`, which part of `UnfinishedInPresentMode` survives a retry with a
   snapshot of an earlier stay, as a theorem beside finding 3.
3. For each finding of section 6 that a changed guard would mend, the same property
   proved of the module with that guard.
4. `ImportStorage`: extraction directories against the stale list of the retention.
5. The wizard stores of the frontend against late answers.
