--------------------------- MODULE OperationManager ---------------------------
(***************************************************************************)
(* backend/app/services/operation_manager.py: background workers of export *)
(* and import operations inside one backend process with one asyncio event *)
(* loop, the rows they own in SQLite, their workspaces on disk, graceful   *)
(* shutdown, loss of the process at any moment and reconciliation at the   *)
(* next start.                                                             *)
(*                                                                         *)
(* A task is identified by the operation and the number of the claim that  *)
(* started it; that number also stands for the random worker_token of the  *)
(* claim, 0 for NULL.  A step of the model is what the event loop does     *)
(* between two suspension points, or a prefix of it followed by the loss   *)
(* of the process.  What a worker does between its own awaits is left to   *)
(* the worker (WorkerMoves ... WorkerReturns are the calls it may make on  *)
(* its OperationContext).                                                  *)
(*                                                                         *)
(* An operator whose comment begins with "Wrong:" is a mutant, a plausible *)
(* mistake in the definition that follows it; no specification uses it.    *)
(***************************************************************************)
EXTENDS OperationStates, Naturals, FiniteSets

CONSTANTS
  Ops,            \* operation ids
  Artifacts,      \* artifact rows of one operation
  MaxConcurrent,  \* settings.operation_max_concurrent
  MaxClaims       \* bound: how often one operation is claimed in a behaviour

ASSUME SizesAssumption == MaxConcurrent \in Nat \ {0} /\ MaxClaims \in Nat \ {0}

ASSUME ArtifactsAssumption == IsFiniteSet(Artifacts)

VARIABLES
  process,          \* "up", "stopping" (_shutting_down) or "down"
  type,             \* Operation.type
  status,           \* Operation.status
  token,            \* Operation.worker_token
  cancelRequested,  \* Operation.cancel_requested_at is not NULL
  artifacts,        \* ArtifactResult.status of each artifact row
  counts,           \* the four counters stored in the Operation row
  workspace,        \* operations whose directory operation-<id> exists
  starting,         \* operations whose start handler has not called submit yet
  claims,           \* number of tokens drawn for the operation
  tasks,            \* OperationManager._tasks: claim number of the entry, 0 if none
  phase,            \* where the coroutine of each claim is
  cancelPending     \* Task.cancel() was called, CancelledError not yet thrown

rows == <<type, status, token, cancelRequested, artifacts, counts>>
memory == <<starting, tasks, phase, cancelPending>>
vars == <<process, rows, workspace, claims, memory>>

Claims == 1..MaxClaims
NoToken == 0

\* A worker past its first instruction; a task the loop still has to finish.
InBody == {"queued", "running", "unwinding"}
Live == {"scheduled"} \cup InBody
Phases == {"unborn", "done", "gone"} \cup Live

LiveTask(o, n) == phase[o][n] \in Live

\* Wrong: a task that is cleaning up after a cancellation counts as finished.
HasLiveTaskUnlessUnwinding(o) ==
  tasks[o] # 0 /\ phase[o][tasks[o]] \in {"scheduled", "queued", "running"}

\* self._tasks.get(o) is a task that is not done()
HasLiveTask(o) == tasks[o] # 0 /\ LiveTask(o, tasks[o])

SlotsInUse ==
  Cardinality({c \in Ops \X Claims : phase[c[1]][c[2]] \in {"running", "unwinding"}})

-------------------------------------------------------------------------------
\* Rows

Count(a, ss) == Cardinality({r \in Artifacts : a[r] \in ss})

\* _recalculate_counts
Census(a) ==
  [successful |-> Count(a, {"IMPORTED", "VERIFIED"}),
   failed     |-> Count(a, {"FAILED"}),
   skipped    |-> Count(a, {"SKIPPED"}),
   conflict   |-> Count(a, {"CONFLICT"})]

\* Wrong: running artifacts are left alone.
FailNothing(a) == a

\* _fail_running_artifacts
FailRunning(a) == [r \in Artifacts |-> IF a[r] = "RUNNING" THEN "FAILED" ELSE a[r]]

\* Wrong: a terminal row is marked again.
MarkAgain(o, s) ==
  /\ status' = [status EXCEPT ![o] = s]
  /\ artifacts' = [artifacts EXCEPT ![o] = FailRunning(@)]
  /\ counts' = [counts EXCEPT ![o] = Census(artifacts'[o])]

\* Wrong: the counters are not recalculated.
MarkWithoutRecount(o, s) ==
  LET applies == status[o] \notin Terminal IN
  /\ status' = IF applies THEN [status EXCEPT ![o] = s] ELSE status
  /\ artifacts' = IF applies THEN [artifacts EXCEPT ![o] = FailRunning(@)] ELSE artifacts
  /\ UNCHANGED counts

\* _mark_cancelled and _mark_failed: nothing happens to a terminal row.
Mark(o, s) ==
  LET applies == status[o] \notin Terminal
      settled == FailRunning(artifacts[o]) IN
  /\ status' = IF applies THEN [status EXCEPT ![o] = s] ELSE status
  /\ artifacts' = IF applies THEN [artifacts EXCEPT ![o] = settled] ELSE artifacts
  /\ counts' = IF applies THEN [counts EXCEPT ![o] = Census(settled)] ELSE counts

\* _release_worker: only the token of this very claim is cleared.
Release(o, n) ==
  token' = [token EXCEPT ![o] = IF @ = n THEN NoToken ELSE @]

Goes(o, n, p) == phase' = [phase EXCEPT ![o][n] = p]

-------------------------------------------------------------------------------
\* The database holds the imports in ready, prepared by an earlier process, and
\* no other operation.
InitWith(ready) ==
  /\ process = "up"
  /\ type = [o \in Ops |-> IF o \in ready THEN "IMPORT" ELSE NoStatus]
  /\ status = [o \in Ops |-> IF o \in ready THEN "READY" ELSE NoStatus]
  /\ token = [o \in Ops |-> NoToken]
  /\ cancelRequested = [o \in Ops |-> FALSE]
  /\ artifacts = [o \in Ops |->
       [r \in Artifacts |-> IF o \in ready THEN "PENDING" ELSE NoStatus]]
  /\ counts = [o \in Ops |-> Census([r \in Artifacts |-> NoStatus])]
  /\ workspace = {}
  /\ starting = {}
  /\ claims = [o \in Ops |-> 0]
  /\ tasks = [o \in Ops |-> 0]
  /\ phase = [o \in Ops |-> [n \in Claims |-> "unborn"]]
  /\ cancelPending = [o \in Ops |-> [n \in Claims |-> FALSE]]

Init == InitWith({})

(***************************************************************************)
(* Requests                                                                *)
(***************************************************************************)

\* The row and its artifact rows appear in one commit.  An export brings its
\* artifacts, an import gets them from its preview worker.
NewRow(o, t, s) ==
  /\ process = "up"
  /\ status[o] = NoStatus
  /\ t \in Types /\ s \in InitialStatuses(t)
  /\ type' = [type EXCEPT ![o] = t]
  /\ status' = [status EXCEPT ![o] = s]
  /\ artifacts' =
       [artifacts EXCEPT ![o] =
          [r \in Artifacts |-> IF t = "EXPORT" THEN "PENDING" ELSE NoStatus]]
  /\ UNCHANGED <<process, token, cancelRequested, counts, workspace, claims, tasks,
                 phase, cancelPending>>

\* create_operation, in a handler that goes on to submit.
Create(o, t, s) ==
  /\ NewRow(o, t, s)
  /\ starting' = starting \cup {o}

\* Wrong: the claim does not look at the cancellation request.
ClaimableIgnoringRequest(o) ==
  /\ token[o] = NoToken
  /\ status[o] \notin Terminal

\* _claim_worker: the condition of the atomic UPDATE.
Claimable(o) ==
  /\ token[o] = NoToken
  /\ ~cancelRequested[o]
  /\ status[o] \notin Terminal

\* submit: the claim is committed, the task is created but has not run.  The
\* caller is the handler that created the row, or start_import on a READY one.
Submit(o) ==
  /\ process = "up"
  /\ o \in starting \/ status[o] = "READY"
  /\ ~HasLiveTask(o)
  /\ Claimable(o)
  /\ claims[o] < MaxClaims
  /\ LET n == claims[o] + 1 IN
       /\ claims' = [claims EXCEPT ![o] = n]
       /\ token' = [token EXCEPT ![o] = n]
       /\ tasks' = [tasks EXCEPT ![o] = n]
       /\ Goes(o, n, "scheduled")
  /\ starting' = starting \ {o}
  /\ UNCHANGED <<process, type, status, cancelRequested, artifacts, counts, workspace,
                 cancelPending>>

\* The start handler fails between create_operation and the claim: submit (or
\* the runtime-mode barrier in front of it) raises, and nothing undoes the row.
StartFails(o) ==
  /\ process = "up"
  /\ o \in starting
  /\ starting' = starting \ {o}
  /\ UNCHANGED <<process, rows, workspace, claims, tasks, phase, cancelPending>>

\* _request_cancel
RequestCancel(o) ==
  cancelRequested' = [cancelRequested EXCEPT ![o] = @ \/ status[o] \notin Terminal]

\* cancel: with a live task the request is followed by task.cancel(), otherwise
\* by _mark_cancelled and the removal of the workspace.  An intake handler goes
\* from create_operation to submit without suspending, so nothing cancels then.
Cancel(o) ==
  /\ process = "up"
  /\ status[o] # NoStatus
  /\ o \in starting => type[o] = "EXPORT"
  /\ RequestCancel(o)
  /\ IF HasLiveTask(o)
       THEN /\ cancelPending' = [cancelPending EXCEPT ![o][tasks[o]] = TRUE]
            /\ UNCHANGED <<status, artifacts, counts, workspace>>
       ELSE /\ Mark(o, "CANCELLED")
            /\ workspace' = workspace \ {o}
            /\ UNCHANGED cancelPending
  /\ UNCHANGED <<process, type, token, starting, claims, tasks, phase>>

(***************************************************************************)
(* The task of claim n: CorrelatedOperationManager._run_worker around      *)
(* OperationManager._run_worker                                            *)
(***************************************************************************)

\* First step of the coroutine, up to the semaphore.
TaskStarts(o, n) ==
  /\ phase[o][n] = "scheduled"
  /\ ~cancelPending[o][n]
  /\ Goes(o, n, "queued")
  /\ UNCHANGED <<process, rows, workspace, claims, starting, tasks, cancelPending>>

\* A task cancelled before its first step: asyncio throws CancelledError at the
\* first instruction of the coroutine, outside the try of _run_worker.
TaskNeverStarts(o, n) ==
  /\ phase[o][n] = "scheduled"
  /\ cancelPending[o][n]
  /\ Goes(o, n, "done")
  /\ cancelPending' = [cancelPending EXCEPT ![o][n] = FALSE]
  /\ UNCHANGED <<process, rows, workspace, claims, starting, tasks>>

\* async with slots; require_disk and raise_if_cancelled pass.
AcquireSlot(o, n) ==
  /\ phase[o][n] = "queued"
  /\ ~cancelPending[o][n]
  /\ ~cancelRequested[o]
  /\ SlotsInUse < MaxConcurrent
  /\ Goes(o, n, "running")
  /\ UNCHANGED <<process, rows, workspace, claims, starting, tasks, cancelPending>>

\* The worker holds control: it is past the semaphore, no CancelledError is on
\* its way, and _owned_operation finds its token in the row.
Working(o, n) ==
  /\ phase[o][n] = "running"
  /\ ~cancelPending[o][n]
  /\ token[o] = n

\* OperationContext.transition.  The workers go to COMPLETED and REJECTED
\* themselves, with no artifact in flight, and leave FAILED and CANCELLED to
\* the manager.
WorkerMoves(o, n, s) ==
  /\ Working(o, n)
  /\ MayMove(type[o], status[o], s)
  /\ s \notin Stops
  /\ s \in Terminal => \A r \in Artifacts : artifacts[o][r] # "RUNNING"
  /\ status' = [status EXCEPT ![o] = s]
  /\ UNCHANGED <<process, type, token, cancelRequested, artifacts, counts, workspace,
                 claims, memory>>

\* OperationContext.set_artifact_status; the workers call it before they end.
WorkerSetsArtifact(o, n, r, s) ==
  /\ Working(o, n)
  /\ status[o] \notin Terminal
  /\ ArtifactMayMove(artifacts[o][r], s)
  /\ artifacts' = [artifacts EXCEPT ![o][r] = s]
  /\ counts' = [counts EXCEPT ![o] = Census(artifacts'[o])]
  /\ UNCHANGED <<process, type, status, token, cancelRequested, workspace, claims, memory>>

\* ImportPersistence.persist_preview: the artifact rows of an import appear.
WorkerAddsArtifacts(o, n) ==
  /\ Working(o, n)
  /\ type[o] = "IMPORT" /\ status[o] = "VERIFYING"
  /\ \A r \in Artifacts : artifacts[o][r] = NoStatus
  /\ artifacts' = [artifacts EXCEPT ![o] = [r \in Artifacts |-> "PENDING"]]
  /\ UNCHANGED <<process, type, status, token, cancelRequested, counts, workspace,
                 claims, memory>>

\* OperationContext.workspace and cleanup_workspace, used by the export worker.
WorkerTogglesWorkspace(o, n) ==
  /\ Working(o, n)
  /\ type[o] = "EXPORT"
  /\ workspace' = IF o \in workspace THEN workspace \ {o} ELSE workspace \cup {o}
  /\ UNCHANGED <<process, rows, claims, memory>>

\* The worker returns; both kinds do so only from a terminal status or READY.
WorkerReturns(o, n) ==
  /\ Working(o, n)
  /\ status[o] \in Terminal \cup {"READY"}
  /\ Release(o, n)
  /\ Goes(o, n, "done")
  /\ UNCHANGED <<process, type, status, cancelRequested, artifacts, counts, workspace,
                 claims, starting, tasks, cancelPending>>

\* The worker, its cleanup after a cancellation or the disk preflight raises.
MayFail(o, n) ==
  /\ ~cancelPending[o][n]
  /\ \/ phase[o][n] \in {"running", "unwinding"}
     \/ phase[o][n] = "queued" /\ SlotsInUse < MaxConcurrent

\* Wrong: the claim is released before the worker has cleaned up.
CancelUnwindsReleased(o, n) ==
  /\ phase[o][n] = "running"
  /\ cancelPending[o][n]
  /\ status[o] \in Executing
  /\ Release(o, n)
  /\ Goes(o, n, "unwinding")
  /\ cancelPending' = [cancelPending EXCEPT ![o][n] = FALSE]
  /\ UNCHANGED <<process, type, status, cancelRequested, artifacts, counts, workspace,
                 claims, starting, tasks>>

\* CancelledError reaches the worker, which catches it to clean up and awaits
\* (the packaging of an export, the subprocess runners); all of them are awaited
\* in an executing status.
CancelUnwinds(o, n) ==
  /\ phase[o][n] = "running"
  /\ cancelPending[o][n]
  /\ status[o] \in Executing
  /\ Goes(o, n, "unwinding")
  /\ cancelPending' = [cancelPending EXCEPT ![o][n] = FALSE]
  /\ UNCHANGED <<process, rows, workspace, claims, starting, tasks>>

\* Wrong: a task that waits for a slot does not notice the cancellation.
MayCancelRunning(o, n) ==
  \/ cancelPending[o][n] /\ phase[o][n] \in {"running", "unwinding"}
  \/ phase[o][n] = "unwinding"

\* CancelledError leaves the worker.
MayCancel(o, n) ==
  \/ cancelPending[o][n] /\ phase[o][n] \in InBody
  \/ phase[o][n] = "unwinding"

\* Wrong: only terminal rows are kept.
InterruptedTerminal(o) == process = "stopping" /\ status[o] \in Terminal

\* _handle_shutdown_interruption keeps a READY operation and its workspace.
Interrupted(o) == process = "stopping" /\ status[o] = "READY"

\* Wrong: a status the enumeration does not have.
FailedAsInterrupted == "INTERRUPTED"

\* The status the except clauses of _run_worker give the row.
FailedAs == "FAILED"
CancelledAs == IF process = "stopping" THEN "FAILED" ELSE "CANCELLED"

\* The except clause and the finally clause in one go.  A terminal row at
\* shutdown keeps its workspace.
Ends(o, n, s) ==
  /\ Mark(o, s)
  /\ Release(o, n)
  /\ workspace' = workspace \ {o}
  /\ Goes(o, n, "done")
  /\ cancelPending' = [cancelPending EXCEPT ![o][n] = FALSE]
  /\ UNCHANGED <<process, type, cancelRequested, claims, starting, tasks>>

WorkerFails(o, n) ==
  /\ MayFail(o, n)
  /\ Ends(o, n, FailedAs)

WorkerCancelled(o, n) ==
  /\ MayCancel(o, n)
  /\ ~Interrupted(o)
  /\ process = "stopping" => status[o] \notin Terminal
  /\ Ends(o, n, CancelledAs)

\* The shutdown handler finds READY or a terminal row: only the claim goes.
WorkerStopped(o, n) ==
  /\ MayCancel(o, n)
  /\ process = "stopping"
  /\ status[o] \in Terminal \cup {"READY"}
  /\ Release(o, n)
  /\ Goes(o, n, "done")
  /\ cancelPending' = [cancelPending EXCEPT ![o][n] = FALSE]
  /\ UNCHANGED <<process, type, status, cancelRequested, artifacts, counts, workspace,
                 claims, starting, tasks>>

\* Wrong: the entry goes whichever task it is.
ForgetTaskAlways(o, n) ==
  /\ phase[o][n] = "done"
  /\ Goes(o, n, "gone")
  /\ tasks' = [tasks EXCEPT ![o] = 0]
  /\ UNCHANGED <<process, rows, workspace, claims, starting, cancelPending>>

\* _forget_task, the done callback: the entry goes if it still is this task.
ForgetTask(o, n) ==
  /\ phase[o][n] = "done"
  /\ Goes(o, n, "gone")
  /\ tasks' = [tasks EXCEPT ![o] = IF @ = n THEN 0 ELSE @]
  /\ UNCHANGED <<process, rows, workspace, claims, starting, cancelPending>>

(***************************************************************************)
(* The process                                                             *)
(***************************************************************************)

\* shutdown.  The server has answered every request before the lifespan ends,
\* so no start handler and no cancel() is waiting and every task has started.
ShutdownBegins ==
  /\ process = "up"
  /\ starting = {}
  /\ \A o \in Ops, n \in Claims :
       LiveTask(o, n) => ~cancelPending[o][n] /\ phase[o][n] \in {"queued", "running"}
  /\ process' = "stopping"
  /\ cancelPending' =
       [o \in Ops |-> [n \in Claims |-> tasks[o] = n /\ LiveTask(o, n)]]
  /\ UNCHANGED <<rows, workspace, claims, starting, tasks, phase>>

\* Everything in memory is lost.
Lost ==
  /\ process' = "down"
  /\ starting' = {}
  /\ tasks' = [o \in Ops |-> 0]
  /\ phase' = [o \in Ops |-> [n \in Claims |->
                 IF phase[o][n] = "unborn" THEN "unborn" ELSE "gone"]]
  /\ cancelPending' = [o \in Ops |-> [n \in Claims |-> FALSE]]
  /\ UNCHANGED <<type, claims>>

ShutdownEnds ==
  /\ process = "stopping"
  /\ \A o \in Ops, n \in Claims : ~LiveTask(o, n)
  /\ Lost
  /\ UNCHANGED <<status, token, cancelRequested, artifacts, counts, workspace>>

\* The process is killed between two steps.
Crash ==
  /\ process # "down"
  /\ Lost
  /\ UNCHANGED <<status, token, cancelRequested, artifacts, counts, workspace>>

\* The process is killed inside the end of a worker, after the commit of the
\* status and before (released = FALSE) or after that of _release_worker.
CrashInEnd(o, n, released) ==
  /\ process # "down"
  /\ \/ MayFail(o, n) /\ Mark(o, FailedAs)
     \/ MayCancel(o, n) /\ ~Interrupted(o) /\ Mark(o, CancelledAs)
  /\ IF released THEN Release(o, n) ELSE UNCHANGED token
  /\ Lost
  /\ UNCHANGED <<cancelRequested, workspace>>

\* The process is killed inside cancel() of an operation without a live task,
\* after the commit of the request and before (marked = FALSE) or after that of
\* the status.
CrashInCancel(o, marked) ==
  /\ process = "up"
  /\ status[o] \notin Terminal \cup {NoStatus}
  /\ o \in starting => type[o] = "EXPORT"
  /\ ~HasLiveTask(o)
  /\ RequestCancel(o)
  /\ IF marked THEN Mark(o, "CANCELLED") ELSE UNCHANGED <<status, artifacts, counts>>
  /\ Lost
  /\ UNCHANGED <<token, workspace>>

\* Wrong: AND for OR in the SELECT.
SelectedBoth(o) == token[o] # NoToken /\ status[o] \in Executing

\* reconcile_interrupted_operations: the rows its SELECT returns, and what each
\* of them becomes.
Selected(o) == token[o] # NoToken \/ status[o] \in Executing

\* Wrong: an interrupted verification is kept too, as if it could be resumed.
ReconciledStatusResuming(o) ==
  IF ~Selected(o) \/ status[o] \in Terminal THEN status[o]
  ELSE IF cancelRequested[o] THEN "CANCELLED"
  ELSE IF status[o] \in {"READY", "VERIFYING"} THEN status[o]
  ELSE "FAILED"

\* Wrong: READY is looked at before the cancellation request.
ReconciledStatusReadyFirst(o) ==
  IF ~Selected(o) \/ status[o] \in Terminal \cup {"READY"} THEN status[o]
  ELSE IF cancelRequested[o] THEN "CANCELLED"
  ELSE "FAILED"

ReconciledStatus(o) ==
  IF ~Selected(o) \/ status[o] \in Terminal THEN status[o]
  ELSE IF cancelRequested[o] THEN "CANCELLED"
  ELSE IF status[o] = "READY" THEN "READY"
  ELSE "FAILED"

Reconciled(o) == ReconciledStatus(o) # status[o]

Startup ==
  /\ process = "down"
  /\ process' = "up"
  /\ status' = [o \in Ops |-> ReconciledStatus(o)]
  /\ token' = [o \in Ops |-> IF Selected(o) THEN NoToken ELSE token[o]]
  /\ artifacts' = [o \in Ops |->
       IF Reconciled(o) THEN FailRunning(artifacts[o]) ELSE artifacts[o]]
  /\ counts' = [o \in Ops |->
       IF Selected(o) /\ status[o] \notin Terminal
         THEN Census(artifacts'[o]) ELSE counts[o]]
  /\ workspace' = {o \in workspace : ~Reconciled(o)}
  /\ UNCHANGED <<type, cancelRequested, claims, memory>>

-------------------------------------------------------------------------------
WorkerStep(o, n) ==
  \/ \E s \in Statuses : WorkerMoves(o, n, s)
  \/ \E r \in Artifacts, s \in ArtifactStatuses : WorkerSetsArtifact(o, n, r, s)
  \/ WorkerAddsArtifacts(o, n)
  \/ WorkerTogglesWorkspace(o, n)

WorkerEnds(o, n) ==
  \/ WorkerReturns(o, n)
  \/ WorkerFails(o, n)
  \/ WorkerCancelled(o, n)
  \/ WorkerStopped(o, n)

TaskStep(o, n) ==
  \/ TaskStarts(o, n)
  \/ TaskNeverStarts(o, n)
  \/ AcquireSlot(o, n)
  \/ CancelUnwinds(o, n)
  \/ WorkerStep(o, n)
  \/ WorkerEnds(o, n)
  \/ ForgetTask(o, n)

Request(o) ==
  \/ \E t \in Types, s \in Resting : Create(o, t, s)
  \/ Submit(o)
  \/ StartFails(o)
  \/ Cancel(o)

ProcessStep ==
  \/ ShutdownBegins
  \/ ShutdownEnds
  \/ Crash
  \/ \E o \in Ops, n \in Claims, b \in BOOLEAN : CrashInEnd(o, n, b)
  \/ \E o \in Ops, b \in BOOLEAN : CrashInCancel(o, b)
  \/ Startup

Next ==
  \/ \E o \in Ops : Request(o)
  \/ \E o \in Ops, n \in Claims : TaskStep(o, n)
  \/ ProcessStep

Spec == Init /\ [][Next]_vars

\* The event loop runs every runnable task and callback, the semaphore is
\* FIFO, a worker's external commands have timeouts, and whoever operates the
\* portal starts a process that is down.
Fairness ==
  /\ \A o \in Ops, n \in Claims :
       /\ WF_vars(TaskStarts(o, n) \/ TaskNeverStarts(o, n))
       /\ SF_vars(AcquireSlot(o, n))
       /\ WF_vars(WorkerEnds(o, n))
       /\ WF_vars(ForgetTask(o, n))
  /\ \A o \in Ops : WF_vars(Submit(o) \/ StartFails(o))
  /\ WF_vars(ShutdownEnds)
  /\ WF_vars(Startup)

FairSpec == Spec /\ Fairness
-------------------------------------------------------------------------------
(***************************************************************************)
(* Properties                                                              *)
(***************************************************************************)

\* The type invariant.
TypeOK ==
  /\ process \in {"up", "stopping", "down"}
  /\ type \in [Ops -> Types \cup {NoStatus}]
  /\ status \in [Ops -> Statuses \cup {NoStatus}]
  /\ token \in [Ops -> Claims \cup {NoToken}]
  /\ cancelRequested \in [Ops -> BOOLEAN]
  /\ artifacts \in [Ops -> [Artifacts -> ArtifactStatuses \cup {NoStatus}]]
  /\ counts \in [Ops -> [successful: Nat, failed: Nat, skipped: Nat, conflict: Nat]]
  /\ workspace \subseteq Ops
  /\ starting \subseteq Ops
  /\ claims \in [Ops -> Claims \cup {0}]
  /\ tasks \in [Ops -> Claims \cup {0}]
  /\ phase \in [Ops -> [Claims -> Phases]]
  /\ cancelPending \in [Ops -> [Claims -> BOOLEAN]]

\* Every live worker owns its operation: the row holds its token, so no second
\* worker, of this or of an earlier claim, can touch the same operation
\* (_claim_worker, _release_worker and _owned_operation together).
WorkerOwnsOperation ==
  \A o \in Ops, n \in Claims : LiveTask(o, n) => token[o] = n

\* Every live task is the entry _tasks has for its operation, whatever done
\* callbacks of earlier tasks still run: cancel() and shutdown() reach it.
LiveTaskIsRegistered ==
  \A o \in Ops, n \in Claims : LiveTask(o, n) => tasks[o] = n

\* A row that says "executing" is being executed: after every worker end,
\* crash and restart no operation is left in an executing status without a
\* worker in this process.
ExecutingHasWorker ==
  process # "down" =>
    \A o \in Ops : status[o] \in Executing =>
      \E n \in Claims : phase[o][n] \in InBody

\* A worker that goes on after its operation was asked to cancel has the
\* CancelledError on its way or is cleaning up after it: no request is missed
\* by a task that waits for a slot or runs.
CancelReachesWorker ==
  \A o \in Ops, n \in Claims :
    LiveTask(o, n) /\ cancelRequested[o] /\ status[o] \notin Terminal =>
      cancelPending[o][n] \/ phase[o][n] = "unwinding"

\* The four stored counters are those of the artifact rows, through failures,
\* cancellations and reconciliation.
CountsMatchRows == \A o \in Ops : counts[o] = Census(artifacts[o])

\* No artifact of a terminal operation is shown as still running.
TerminalArtifactsSettled ==
  \A o \in Ops : status[o] \in Terminal =>
    \A r \in Artifacts : artifacts[o][r] # "RUNNING"

\* Parts of the inductive invariant.

\* A process that is down runs and remembers nothing.
DownIsEmpty ==
  process = "down" =>
    /\ starting = {}
    /\ \A o \in Ops, n \in Claims : ~LiveTask(o, n) /\ ~cancelPending[o][n]

\* Nothing refers to a row that does not exist.
NothingWithoutRow ==
  \A o \in Ops : status[o] = NoStatus =>
    /\ token[o] = NoToken
    /\ ~cancelRequested[o]
    /\ o \notin starting
    /\ \A n \in Claims : ~LiveTask(o, n)
    /\ \A r \in Artifacts : artifacts[o][r] = NoStatus

\* A row has a status of the state machine of its type.
StatusOfType ==
  \A o \in Ops : status[o] # NoStatus =>
    /\ type[o] \in Types
    /\ status[o] \in Terminal \cup DOMAIN Transitions(type[o])

\* Only a live task is cancelled, by shutdown() or with the request on record.
CancelIsRequested ==
  \A o \in Ops, n \in Claims :
    /\ cancelPending[o][n] => LiveTask(o, n)
    /\ process # "stopping" /\ (cancelPending[o][n] \/ phase[o][n] = "unwinding") =>
         cancelRequested[o] \/ status[o] \in Terminal

\* Together with the invariants above, what every step preserves: who owns a
\* row, which rows exist, and who may have been cancelled.
Consistent ==
  /\ TypeOK
  /\ WorkerOwnsOperation
  /\ LiveTaskIsRegistered
  /\ DownIsEmpty
  /\ NothingWithoutRow
  /\ StatusOfType
  /\ CancelIsRequested
  /\ CountsMatchRows
  /\ TerminalArtifactsSettled

\* The workspace of an operation never disappears under a live worker of it
\* unless that worker removes it: not by cancel(), not by a late callback, not
\* by the end of an earlier claim.
WorkspaceNotPulled ==
  [][\A o \in Ops, n \in Claims :
       /\ o \in workspace /\ o \notin workspace'
       /\ phase[o][n] \in InBody /\ phase'[o][n] \in InBody
       => WorkerTogglesWorkspace(o, n)]_vars

\* A READY operation, prepared and waiting, survives a stop and a restart with
\* its workspace; only a cancellation on record takes it away.
ReadySurvivesRestart ==
  [][(process \in {"stopping", "down"} \/ process' = "stopping") =>
       \A o \in Ops : status[o] = "READY" /\ ~cancelRequested'[o] =>
         status'[o] = "READY" /\ (o \in workspace => o \in workspace')]_vars

\* After a restart nothing holds a claim and nothing is executing; a claimed
\* operation that was asked to cancel is CANCELLED, not failed.
RestartSettles ==
  [][process = "down" /\ process' = "up" =>
       \A o \in Ops :
         /\ token'[o] = NoToken
         /\ status'[o] \notin Executing
         /\ token[o] # NoToken /\ cancelRequested[o] /\ status[o] \notin Terminal =>
              status'[o] = "CANCELLED"]_vars

\* A worker that reached the semaphore leaves its operation terminal or READY,
\* and unclaimed, whatever cancellations, shutdowns and crashes come between.
StartedWorkerSettles ==
  \A o \in Ops, n \in Claims :
    phase[o][n] = "queued" ~>
      token[o] # n /\ status[o] \in Terminal \cup {"READY"}

\* An operation cancelled while its worker waits or runs becomes terminal, even
\* if the process dies first.
CancelSettles ==
  \A o \in Ops, n \in Claims :
    phase[o][n] \in InBody /\ cancelRequested[o] ~> status[o] \in Terminal

\* The refinement mapping: of a row, the abstract machine sees these columns.
Lifecycle ==
  INSTANCE OperationLifecycle WITH Ops <- Ops, type <- type, status <- status,
                                   cancelRequested <- cancelRequested

\* The manager keeps the promise of the abstract state machine.
ImplementsLifecycle == Lifecycle!Spec

\* docs/operation-manager.md: after a cancellation the operation becomes
\* CANCELLED.  Stated of the task: when a cancelled task has ended, its
\* operation is terminal and released.
CancelledTaskEndsTerminal ==
  [][\A o \in Ops, n \in Claims :
       /\ LiveTask(o, n) /\ phase'[o][n] = "done"
       /\ cancelRequested[o]
       => status'[o] \in Terminal /\ token'[o] # n]_vars

\* docs/operation-manager.md: no operation without a worker stays for ever in a
\* status in which only a worker can move it.
NoOrphanedStart ==
  \A o \in Ops :
    status[o] \in {"CREATED", "UPLOADED", "DISCOVERED"} /\ ~cancelRequested[o] ~>
      status[o] \notin {"CREATED", "UPLOADED", "DISCOVERED"} \/ cancelRequested[o]
===============================================================================
