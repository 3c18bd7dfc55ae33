----------------------------- MODULE ImportIntake -----------------------------
(***************************************************************************)
(* backend/app/services/import_orchestrator.py with the projection of      *)
(* import_preview_projection.py: how a delivery gets from the incoming     *)
(* directory or a browser into a private staging directory, becomes an     *)
(* import operation and is verified for its preview.                       *)
(*                                                                         *)
(* Every request has an orchestrator of its own, which outlives it in the  *)
(* preview workers it submitted and passes the verified bundle from the    *)
(* verifying thread to the worker in one attribute, _verified_preview.     *)
(* Claims and cancellation of operations are those of OperationManager;    *)
(* here a worker is live or not.                                           *)
(***************************************************************************)
EXTENDS Naturals, FiniteSets, FiniteSetsExt

CONSTANTS
  Requests,      \* discover and upload requests, with their orchestrators
  Deliveries,    \* deliveries, numbered in the order of their names
  Bad,           \* deliveries whose signed handoff does not match their files
  MaxPreviews  \* settings.operation_max_concurrent

ASSUME DeliveriesAssumption ==
  Deliveries \subseteq Nat \ {0} /\ Bad \subseteq Deliveries /\ Requests # {}

VARIABLES
  at,         \* where the handler of a request is
  todo,       \* deliveries of its glob that a discovery has not looked at
  held,       \* the delivery a request has taken and not yet given a row
  captured,   \* _verified_preview of the orchestrator of a request
  where,      \* where the files of a delivery are
  op,         \* status of the operation of a delivery
  bound,      \* deliveries whose operation knows their storage key
  previewer,  \* preview worker of a delivery
  verifier,   \* its verify_bundle, in a thread no cancellation reaches
  instance,   \* the request whose orchestrator runs the worker
  preview,    \* the delivery whose facts the persisted preview shows
  accepting   \* operation_start_guard(TARGET) lets an operation start

requestVars == <<at, todo, held>>
workerVars == <<previewer, verifier, instance>>
intakeVars == <<requestVars, captured, where, op, bound, workerVars, preview, accepting>>

Nothing == 0
Places == {"outside", "incoming", "staged", "gone"}
IntakeTerminal == {"FAILED", "REJECTED", "CANCELLED"}
OpenIntake == {"UPLOADED", "DISCOVERED", "VERIFYING", "READY"}
IntakeSteps == {"new", "scanning", "hashing", "receiving", "done"}
Verifying == {"verifying", "classifying"}
LiveWorker == {"waiting"} \cup Verifying

IntakeInit ==
  /\ at = [q \in Requests |-> "new"]
  /\ todo = [q \in Requests |-> {}]
  /\ held = [q \in Requests |-> Nothing]
  /\ captured = [q \in Requests |-> Nothing]
  /\ where = [d \in Deliveries |-> "outside"]
  /\ op = [d \in Deliveries |-> "none"]
  /\ bound = {}
  /\ previewer = [d \in Deliveries |-> "none"]
  /\ verifier = [d \in Deliveries |-> "none"]
  /\ instance \in [Deliveries -> {CHOOSE q \in Requests : TRUE}]
  /\ preview = [d \in Deliveries |-> Nothing]
  /\ accepting = TRUE

Moves(d, place) == where' = [where EXCEPT ![d] = place]
IntakeBecomes(d, s) == op' = [op EXCEPT ![d] = s]
Goes(q, step) == at' = [at EXCEPT ![q] = step]

-------------------------------------------------------------------------------
\* The environment.  An operator copies a triplet; a mode switch closes and opens
\* the barrier in front of new operations.
Delivered(d) ==
  /\ where[d] = "outside"
  /\ Moves(d, "incoming")
  /\ UNCHANGED <<requestVars, captured, op, bound, workerVars, preview, accepting>>

SwitchMoves ==
  /\ accepting' = ~accepting
  /\ UNCHANGED <<requestVars, captured, where, op, bound, workerVars, preview>>

-------------------------------------------------------------------------------
\* discover_ready: the directory is listed once.
DiscoverBegins(q) ==
  /\ at[q] = "new"
  /\ Goes(q, "scanning")
  /\ todo' = [todo EXCEPT ![q] = {d \in Deliveries : where[d] = "incoming"}]
  /\ UNCHANGED <<held, captured, where, op, bound, workerVars, preview, accepting>>

FirstOf(q) == Min(todo[q])

\* Wrong: the listing is believed.
StillThereAsListed(d) == where[d] \in {"incoming", "staged"}

\* The three files are still regular files of the incoming directory.
StillThere(d) == where[d] = "incoming"

\* Somebody else has taken the delivery meanwhile.
ScanSkips(q) ==
  /\ at[q] = "scanning" /\ todo[q] # {}
  /\ ~StillThere(FirstOf(q))
  /\ todo' = [todo EXCEPT ![q] = @ \ {FirstOf(q)}]
  /\ UNCHANGED <<at, held, captured, where, op, bound, workerVars, preview, accepting>>

\* The handoff is verified and the triplet renamed into a new staging directory
\* without an await in between; then the archive is hashed in a thread.
ScanTakes(q) ==
  /\ at[q] = "scanning" /\ todo[q] # {}
  /\ StillThere(FirstOf(q))
  /\ FirstOf(q) \notin Bad
  /\ Goes(q, "hashing")
  /\ todo' = [todo EXCEPT ![q] = @ \ {FirstOf(q)}]
  /\ held' = [held EXCEPT ![q] = FirstOf(q)]
  /\ Moves(FirstOf(q), "staged")
  /\ UNCHANGED <<captured, op, bound, workerVars, preview, accepting>>

\* A handoff that does not verify ends the request, whatever else is listed; a
\* request with nothing left to look at answers.
ScanEnds(q) ==
  /\ at[q] = "scanning"
  /\ todo[q] # {} => StillThere(FirstOf(q)) /\ FirstOf(q) \in Bad
  /\ Goes(q, "done")
  /\ UNCHANGED <<todo, held, captured, where, op, bound, workerVars, preview, accepting>>

\* accept_upload: a new staging directory, then the bytes arrive.
UploadBegins(q, d) ==
  /\ at[q] = "new"
  /\ where[d] = "outside"
  /\ Goes(q, "receiving")
  /\ held' = [held EXCEPT ![q] = d]
  /\ Moves(d, "staged")
  /\ UNCHANGED <<todo, captured, op, bound, workerVars, preview, accepting>>

-------------------------------------------------------------------------------
Taking(q) == at[q] \in {"hashing", "receiving"}
InitialStatus(q) == IF at[q] = "receiving" THEN "UPLOADED" ELSE "DISCOVERED"
LetsGo(q) == held' = [held EXCEPT ![q] = Nothing]

\* _create_intake_operation and _submit_preview, without an await.
Creates(q) ==
  /\ Taking(q)
  /\ accepting
  /\ IntakeBecomes(held[q], InitialStatus(q))
  /\ bound' = bound \cup {held[q]}
  /\ previewer' = [previewer EXCEPT ![held[q]] = "waiting"]
  /\ instance' = [instance EXCEPT ![held[q]] = q]
  /\ LetsGo(q)
  /\ Goes(q, IF at[q] = "hashing" THEN "scanning" ELSE "done")
  /\ UNCHANGED <<todo, captured, where, verifier, preview, accepting>>

\* The request fails before it has a row (the bytes, the profile, the barrier),
\* and removes its staging directory with everything in it.
TakingFails(q) ==
  /\ Taking(q)
  /\ Moves(held[q], "gone")
  /\ LetsGo(q)
  /\ Goes(q, "done")
  /\ UNCHANGED <<todo, captured, op, bound, workerVars, preview, accepting>>

\* The row is committed, the second commit with the storage key fails.
RowStaysUnbound(q) ==
  /\ Taking(q)
  /\ accepting
  /\ IntakeBecomes(held[q], InitialStatus(q))
  /\ Moves(held[q], "gone")
  /\ LetsGo(q)
  /\ Goes(q, "done")
  /\ UNCHANGED <<todo, captured, bound, workerVars, preview, accepting>>

-------------------------------------------------------------------------------
(***************************************************************************)
(* The preview worker                                                      *)
(***************************************************************************)
SlotsInUse == Cardinality({d \in Deliveries : previewer[d] \in Verifying})

\* The transition to VERIFYING; verify_bundle starts in a thread.
WorkerStarts(d) ==
  /\ previewer[d] = "waiting"
  /\ SlotsInUse < MaxPreviews
  /\ previewer' = [previewer EXCEPT ![d] = "verifying"]
  /\ verifier' = [verifier EXCEPT ![d] = "running"]
  /\ IntakeBecomes(d, "VERIFYING")
  /\ UNCHANGED <<requestVars, captured, where, bound, instance, preview, accepting>>

\* _CapturingBundlePackageService.verify_bundle, in the thread: the result is left
\* with the orchestrator, whether or not the worker still waits for it.
VerifyEnds(d) ==
  /\ verifier[d] = "running"
  /\ \/ /\ verifier' = [verifier EXCEPT ![d] = "valid"]
        /\ captured' = [captured EXCEPT ![instance[d]] = d]
     \/ /\ verifier' = [verifier EXCEPT ![d] = "invalid"]
        /\ UNCHANGED captured
  /\ UNCHANGED <<requestVars, where, op, bound, previewer, instance, preview, accepting>>

\* The worker goes on to classify the artifacts against TARGET Harbor.
WorkerClassifies(d) ==
  /\ previewer[d] = "verifying" /\ verifier[d] = "valid"
  /\ previewer' = [previewer EXCEPT ![d] = "classifying"]
  /\ UNCHANGED <<requestVars, captured, where, op, bound, verifier, instance, preview,
                 accepting>>

\* REJECTED, then the staging directory is removed.
WorkerRejects(d) ==
  /\ previewer[d] = "verifying" /\ verifier[d] = "invalid"
  /\ previewer' = [previewer EXCEPT ![d] = "done"]
  /\ IntakeBecomes(d, "REJECTED")
  /\ Moves(d, "gone")
  /\ UNCHANGED <<requestVars, captured, bound, verifier, instance, preview, accepting>>

\* Wrong: a worker without a capture persists what it has.
PreviewPersistsUnchecked(d) ==
  /\ previewer[d] = "classifying"
  /\ previewer' = [previewer EXCEPT ![d] = "done"]
  /\ IntakeBecomes(d, "READY")
  /\ preview' = [preview EXCEPT ![d] = captured[instance[d]]]
  /\ captured' = [captured EXCEPT ![instance[d]] = Nothing]
  /\ UNCHANGED <<requestVars, where, bound, verifier, instance, accepting>>

\* _persist_preview and the transition to READY.  The captured result is that of
\* the bundle the orchestrator has seen verified last.
PreviewPersists(d) ==
  /\ previewer[d] = "classifying"
  /\ captured[instance[d]] # Nothing
  /\ previewer' = [previewer EXCEPT ![d] = "done"]
  /\ IntakeBecomes(d, "READY")
  /\ preview' = [preview EXCEPT ![d] = captured[instance[d]]]
  /\ captured' = [captured EXCEPT ![instance[d]] = Nothing]
  /\ UNCHANGED <<requestVars, where, bound, verifier, instance, accepting>>

\* The profile has changed, Harbor does not answer, the capture is missing, or the
\* verification broke off without a verdict.
WorkerFails(d) ==
  /\ \/ previewer[d] = "verifying" /\ verifier[d] # "running"
     \/ previewer[d] = "classifying"
  /\ previewer' = [previewer EXCEPT ![d] = "done"]
  /\ IntakeBecomes(d, "FAILED")
  /\ UNCHANGED <<requestVars, captured, where, bound, verifier, instance, preview, accepting>>

\* import_bundle_changed: the verified archive is not the one that was hashed.
WorkerFindsChanged(d) ==
  /\ previewer[d] = "verifying" /\ verifier[d] = "valid"
  /\ previewer' = [previewer EXCEPT ![d] = "done"]
  /\ IntakeBecomes(d, "FAILED")
  /\ Moves(d, "gone")
  /\ UNCHANGED <<requestVars, captured, bound, verifier, instance, preview, accepting>>

\* cancel(), by a user or a mode switch.  The thread goes on.
Cancelled(d) ==
  /\ op[d] \in OpenIntake
  /\ previewer' = [previewer EXCEPT ![d] = IF @ \in LiveWorker THEN "done" ELSE @]
  /\ IntakeBecomes(d, "CANCELLED")
  /\ UNCHANGED <<requestVars, captured, where, bound, verifier, instance, preview, accepting>>

-------------------------------------------------------------------------------
\* Wrong: the age of an operation is enough.
ExpiredByAge(d) == op[d] # "none"

\* cleanup_transfer_storage looks at the retention time of terminal operations.
IntakeExpired(d) == op[d] \in IntakeTerminal

IntakeRetention(d) ==
  /\ IntakeExpired(d)
  /\ d \in bound
  /\ where[d] = "staged"
  /\ Moves(d, "gone")
  /\ UNCHANGED <<requestVars, captured, op, bound, workerVars, preview, accepting>>

\* reconcile_interrupted_operations: claimed or executing rows fail.
ReconciledOp(d) == IF previewer[d] \in LiveWorker THEN "FAILED" ELSE op[d]

\* The process dies and starts again.  Staged files without a row are not looked
\* for, neither are rows without a worker.
Forgets ==
  /\ at' = [q \in Requests |-> IF at[q] = "new" THEN "new" ELSE "done"]
  /\ todo' = [q \in Requests |-> {}]
  /\ held' = [q \in Requests |-> Nothing]
  /\ captured' = [q \in Requests |-> Nothing]
  /\ previewer' = [d \in Deliveries |-> IF previewer[d] = "none" THEN "none" ELSE "done"]
  /\ verifier' = [d \in Deliveries |-> "none"]
  /\ UNCHANGED <<instance, accepting>>

IntakeRestart ==
  /\ Forgets
  /\ op' = [d \in Deliveries |-> ReconciledOp(d)]
  /\ UNCHANGED <<where, bound, preview>>

\* It dies inside _create_intake_operation, before or after the second commit.
DiesCreating(q) ==
  /\ Taking(q)
  /\ accepting
  /\ Forgets
  /\ op' = [d \in Deliveries |-> IF d = held[q] THEN InitialStatus(q) ELSE ReconciledOp(d)]
  /\ bound' \in {bound, bound \cup {held[q]}}
  /\ UNCHANGED <<where, preview>>

\* It dies between the commit of the preview and that of READY.
DiesPersisting(d) ==
  /\ previewer[d] = "classifying"
  /\ captured[instance[d]] # Nothing
  /\ Forgets
  /\ op' = [e \in Deliveries |-> ReconciledOp(e)]
  /\ preview' = [preview EXCEPT ![d] = captured[instance[d]]]
  /\ UNCHANGED <<where, bound>>

\* It dies between the commit of REJECTED and the removal of the files.
DiesRejecting(d) ==
  /\ previewer[d] = "verifying" /\ verifier[d] = "invalid"
  /\ Forgets
  /\ op' = [e \in Deliveries |-> IF e = d THEN "REJECTED" ELSE ReconciledOp(e)]
  /\ UNCHANGED <<where, bound, preview>>

-------------------------------------------------------------------------------
IntakeNext ==
  \/ \E d \in Deliveries : Delivered(d) \/ Cancelled(d) \/ IntakeRetention(d)
  \/ SwitchMoves
  \/ \E q \in Requests :
       \/ DiscoverBegins(q) \/ ScanSkips(q) \/ ScanTakes(q) \/ ScanEnds(q)
       \/ Creates(q) \/ TakingFails(q) \/ RowStaysUnbound(q)
       \/ \E d \in Deliveries : UploadBegins(q, d)
  \/ \E d \in Deliveries :
       \/ WorkerStarts(d) \/ VerifyEnds(d) \/ WorkerClassifies(d) \/ WorkerRejects(d)
       \/ PreviewPersists(d) \/ WorkerFails(d) \/ WorkerFindsChanged(d)
  \/ IntakeRestart
  \/ \E q \in Requests : DiesCreating(q)
  \/ \E d \in Deliveries : DiesPersisting(d) \/ DiesRejecting(d)

IntakeSpec == IntakeInit /\ [][IntakeNext]_intakeVars
-------------------------------------------------------------------------------
(***************************************************************************)
(* Properties                                                              *)
(***************************************************************************)

\* The type invariant.
IntakeTypeOK ==
  /\ at \in [Requests -> IntakeSteps]
  /\ todo \in [Requests -> SUBSET Deliveries]
  /\ held \in [Requests -> Deliveries \cup {Nothing}]
  /\ captured \in [Requests -> Deliveries \cup {Nothing}]
  /\ where \in [Deliveries -> Places]
  /\ op \in [Deliveries -> {"none"} \cup OpenIntake \cup IntakeTerminal]
  /\ bound \subseteq Deliveries
  /\ previewer \in [Deliveries -> {"none", "done"} \cup LiveWorker]
  /\ verifier \in [Deliveries -> {"none", "running", "valid", "invalid"}]
  /\ instance \in [Deliveries -> Requests]
  /\ preview \in [Deliveries -> Deliveries \cup {Nothing}]
  /\ accepting \in BOOLEAN

\* One delivery is one import: however many requests list it, one of them takes
\* it, and nobody holds it any more once it has an operation.
OneImportPerDelivery ==
  \A q \in Requests : held[q] # Nothing =>
    /\ op[held[q]] = "none"
    /\ where[held[q]] = "staged"
    /\ \A r \in Requests : held[r] = held[q] => r = q

\* A preview worker has its bundle: neither a failing request, nor a rejection,
\* nor the retention of another operation takes the files away from under it.
WorkerHasBundle ==
  \A d \in Deliveries : previewer[d] \in LiveWorker => d \in bound /\ where[d] = "staged"

\* What is offered for import has a persisted preview and its files, through
\* every cancellation, failure and restart.
ReadyIsPrepared ==
  \A d \in Deliveries : op[d] = "READY" =>
    preview[d] # Nothing /\ d \in bound /\ where[d] = "staged"

\* import_preview_projection.py: the projection adds what the verifier found, so
\* a preview shows the facts of its own bundle.
PreviewDescribesOwnBundle ==
  \A d \in Deliveries : preview[d] \in {Nothing, d}
===============================================================================
