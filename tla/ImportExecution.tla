---------------------------- MODULE ImportExecution ----------------------------
(***************************************************************************)
(* What happens to an import after its preview: destination plans and the  *)
(* start (import_destination_plan.py, policy_aware_destination_plan.py),   *)
(* and the worker that transfers the artifacts one by one and writes the   *)
(* receipt (import_orchestrator.py).                                       *)
(*                                                                         *)
(* The event loop runs one coroutine at a time up to its next await.  From *)
(* its last artifact to its end a worker has no await: it is Busy, and     *)
(* only outsiders and the loss of the process come in between.  Claims,    *)
(* tasks and cancellation in detail are those of OperationManager, bundles *)
(* those of ImportIntake.                                                  *)
(***************************************************************************)
EXTENDS Naturals, Sequences, FiniteSets

CONSTANTS
  Imports,        \* import operations
  ArtifactCount,  \* artifacts of a bundle, transferred in this order
  Charts,         \* those that are Helm charts
  Refs,           \* references of the TARGET registry
  Contested,      \* those that somebody else writes too
  Mappings,       \* destinations the operators ask for
  MaxRunning,     \* operation_max_concurrent
  MaxPlans,       \* bound: plans persisted for one import
  Absent, Foreign, None

Artifacts == 1..ArtifactCount
Settled == {"VERIFIED", "SKIPPED", "LEFT", "CONFLICT", "FAILED"}

\* What a receipt can say.
Receipts ==
  [rows : [Artifacts -> Settled], map : Mappings, over : BOOLEAN,
   result : {"COMPLETED", "FAILED"}]

ASSUME ExecutionAssumption ==
  /\ ArtifactCount \in Nat \ {0}
  /\ Charts \subseteq Artifacts
  /\ Contested \subseteq Refs
  /\ Mappings \subseteq [Artifacts -> Refs \cup {None}]
  /\ MaxRunning \in Nat \ {0} /\ MaxPlans \in Nat
  /\ None \notin Receipts

VARIABLES
  state,      \* Operation.status
  claimed,    \* imports with a worker_token
  lineage,    \* imports whose policy names the import they repeat
  plans,      \* plans persisted for an import, the last one is in force
  flags,      \* overwrite_conflicts and skip_conflicts of import_policy_json
  agreed,     \* history: what the accepted start named
  planning,   \* mappings whose planner awaits the registry
  frozen,     \* the mapping a retry handler awaits a plan for
  runner,     \* the import worker
  outcome,    \* ArtifactResult.status of the rows
  receipt,    \* import_receipt_json
  receiptFile, \* the receipt file
  registry    \* what a reference of the TARGET registry holds

importRows == <<state, claimed, lineage, plans, flags, agreed, outcome>>
handlerVars == <<planning, frozen>>
receiptVars == <<receipt, receiptFile>>
executionVars == <<importRows, handlerVars, runner, receiptVars, registry>>

Ended == {"COMPLETED", "FAILED", "CANCELLED"}
Unended == {"READY", "IMPORTING", "VERIFYING_TARGET"}
Awaiting == {"waiting", "hashing", "extracting", "looking", "pushing", "landed"}
Synchronous == {"closing", "receipting", "filing", "deciding", "tidying"}
Contents == {Absent, Foreign} \cup (Imports \X Artifacts)
NoFlags == [over |-> FALSE, skip |-> FALSE]
Idle == [at |-> "none", n |-> 0, map |-> None, flags |-> NoFlags]
AllPending == [n \in Artifacts |-> "PENDING"]

Own(o, n) == <<o, n>>
Current(o) == plans[o][Len(plans[o])]
Busy == \E o \in Imports : runner[o].at \in Synchronous
Target(o) == runner[o].map[runner[o].n]

\* Wrong: artifacts in conflict are no failures.
CountsErrorsOnly(o) == \E n \in Artifacts : outcome[o][n] = "FAILED"

\* The count of failures of the worker, which its rows show.
Failures(o) == \E n \in Artifacts : outcome[o][n] \in {"FAILED", "CONFLICT"}

ExecutionInit ==
  /\ state = [o \in Imports |-> "none"]
  /\ claimed = {} /\ lineage = {}
  /\ plans = [o \in Imports |-> <<>>]
  /\ flags = [o \in Imports |-> NoFlags]
  /\ agreed = [o \in Imports |-> None]
  /\ planning = [o \in Imports |-> {}]
  /\ frozen = [o \in Imports |-> None]
  /\ runner = [o \in Imports |-> Idle]
  /\ outcome = [o \in Imports |-> AllPending]
  /\ receipt = [o \in Imports |-> None]
  /\ receiptFile = [o \in Imports |-> None]
  /\ registry = [r \in Refs |-> Absent]

-------------------------------------------------------------------------------
\* Preview and intake (ImportIntake) have made an import READY.
Prepared(o) ==
  /\ state[o] = "none"
  /\ state' = [state EXCEPT ![o] = "READY"]
  /\ UNCHANGED <<claimed, lineage, plans, flags, agreed, outcome, handlerVars, runner,
                 receiptVars, registry>>

\* Somebody else, or another import, pushes to the registry or deletes from it.
OutsiderPushes(r) ==
  /\ r \in Contested
  /\ \E v \in {Absent, Foreign} : registry' = [registry EXCEPT ![r] = v]
  /\ UNCHANGED <<importRows, handlerVars, runner, receiptVars>>

-------------------------------------------------------------------------------
(***************************************************************************)
(* Plans                                                                   *)
(***************************************************************************)

\* colliding_artifact_indices: two artifacts with one registry coordinate.
Colliding(m) == \E i, j \in Artifacts : i # j /\ m[i] = m[j] /\ m[i] # None

\* HarborDestinationValidator: None is a destination without a project, without push
\* access or out of reach.
Reachable(m) == {n \in Artifacts : m[n] # None}

\* Wrong: only unmapped artifacts make a plan invalid.
UsableWithoutCollisions(m) == Reachable(m) = Artifacts

\* ImportDestinationPlanResponse.valid.
Usable(m) == Reachable(m) = Artifacts /\ ~Colliding(m)

\* _plan_image and _plan_chart: the artifacts the registry has something else for.
Conflicts(o, m) ==
  {n \in Reachable(m) : registry[m[n]] \notin {Absent, Own(o, n)}}

Plan(o, m) == [map |-> m, conflicts |-> Conflicts(o, m) # {}]

\* The condition of the UPDATE in _persist_destination_plan.
PlannableNow(o) == state[o] = "READY" /\ o \notin claimed

Persists(o, m) ==
  /\ plans' = [plans EXCEPT ![o] = Append(@, Plan(o, m))]
  /\ flags' = [flags EXCEPT ![o] = NoFlags]

\* build_destination_plan up to its first await; the mapping of a retry is fixed once
\* its policy names the original.
PlanBegins(o, m) ==
  /\ ~Busy
  /\ PlannableNow(o) /\ o \notin lineage
  /\ Len(plans[o]) < MaxPlans
  /\ planning' = [planning EXCEPT ![o] = @ \cup {m}]
  /\ UNCHANGED <<importRows, frozen, runner, receiptVars, registry>>

\* The registry has answered for every artifact, and the plan replaces the policy if
\* the row is still free; what it shows is the registry of now, which may change at once.
PlanEnds(o, m) ==
  /\ ~Busy
  /\ m \in planning[o]
  /\ planning' = [planning EXCEPT ![o] = @ \ {m}]
  /\ IF PlannableNow(o) /\ Len(plans[o]) < MaxPlans
     THEN Persists(o, m) /\ lineage' = lineage \ {o}
     ELSE UNCHANGED <<plans, flags, lineage>>
  /\ UNCHANGED <<state, claimed, agreed, outcome, frozen, runner, receiptVars, registry>>

-------------------------------------------------------------------------------
(***************************************************************************)
(* Retries                                                                 *)
(***************************************************************************)

\* prepare_retry up to its first await, with the mapping of the original.
Retried(o, m) ==
  /\ ~Busy
  /\ state[o] = "none"
  /\ Usable(m)
  /\ state' = [state EXCEPT ![o] = "READY"]
  /\ frozen' = [frozen EXCEPT ![o] = m]
  /\ UNCHANGED <<claimed, lineage, plans, flags, agreed, outcome, planning, runner,
                 receiptVars, registry>>

\* Its plan has the destinations of the original, and the policy gets the lineage.
RetryPlanned(o) ==
  /\ ~Busy
  /\ frozen[o] # None
  /\ PlannableNow(o) /\ Len(plans[o]) < MaxPlans
  /\ Persists(o, frozen[o])
  /\ lineage' = lineage \cup {o}
  /\ frozen' = [frozen EXCEPT ![o] = None]
  /\ UNCHANGED <<state, claimed, agreed, outcome, planning, runner, receiptVars, registry>>

\* It cannot be planned or persisted: _mark_prepare_failed, whatever the row is now.
RetryUnplanned(o) ==
  /\ ~Busy
  /\ frozen[o] # None
  /\ state' = [state EXCEPT ![o] = "FAILED"]
  /\ frozen' = [frozen EXCEPT ![o] = None]
  /\ UNCHANGED <<claimed, lineage, plans, flags, agreed, outcome, planning, runner,
                 receiptVars, registry>>

-------------------------------------------------------------------------------
(***************************************************************************)
(* The start                                                               *)
(***************************************************************************)

\* Wrong: any plan of the import may be named.
NamesSome(o, m) == \E i \in 1..Len(plans[o]) : plans[o][i].map = m

\* destination_plan_id, which stands for the bundle and the destinations, is that of
\* the plan in force.
Names(o, m) == plans[o] # <<>> /\ Current(o).map = m

\* The checks of start_import up to its commit.
Accepts(o, m, f) ==
  /\ ~Busy
  /\ state[o] = "READY"
  /\ Names(o, m)
  /\ Usable(Current(o).map)
  /\ ~(f.over /\ f.skip)
  /\ Current(o).conflicts => f.over \/ f.skip
  /\ flags' = [flags EXCEPT ![o] = f]

\* submit claims the row.
Starts(o, m, f) ==
  /\ Accepts(o, m, f)
  /\ o \notin claimed
  /\ claimed' = claimed \cup {o}
  /\ agreed' = [agreed EXCEPT ![o] = [map |-> m, flags |-> f]]
  /\ runner' = [runner EXCEPT ![o].at = "waiting"]
  /\ UNCHANGED <<state, lineage, plans, outcome, handlerVars, receiptVars, registry>>

\* submit refuses a second worker; the flags are committed already.
StartRefused(o, m, f) ==
  /\ Accepts(o, m, f)
  /\ o \in claimed
  /\ UNCHANGED <<state, claimed, lineage, plans, agreed, outcome, handlerVars, runner,
                 receiptVars, registry>>

-------------------------------------------------------------------------------
(***************************************************************************)
(* The worker                                                              *)
(***************************************************************************)
RunnerAt(o, step) == runner' = [runner EXCEPT ![o].at = step]

\* _fail_running_artifacts
FailedIfRunning(s) == IF s = "RUNNING" THEN "FAILED" ELSE s

\* The finally of the worker and the handlers of _run_worker.
Unwinds(o, s) ==
  /\ state' = [state EXCEPT ![o] = IF @ \in Ended THEN @ ELSE s]
  /\ outcome' = [outcome EXCEPT ![o] =
                   IF state[o] \in Ended THEN @
                   ELSE [n \in Artifacts |-> FailedIfRunning(@[n])]]
  /\ claimed' = claimed \ {o}
  /\ runner' = [runner EXCEPT ![o] = Idle]

Running == {o \in Imports : runner[o].at \notin {"none", "waiting"}}

\* Past the semaphore.  The snapshot of the plan is bound to the rows, the flags are loaded.
RunnerBegins(o) ==
  /\ ~Busy
  /\ runner[o].at = "waiting"
  /\ Cardinality(Running) < MaxRunning
  /\ state[o] = "READY"
  /\ state' = [state EXCEPT ![o] = "IMPORTING"]
  /\ runner' = [runner EXCEPT ![o].at = "hashing", ![o].flags = flags[o]]
  /\ UNCHANGED <<claimed, lineage, plans, flags, agreed, outcome, handlerVars,
                 receiptVars, registry>>

\* The archive is the one of the preview; a thread verifies the bundle again and
\* extracts it.
HashEnds(o) ==
  /\ ~Busy
  /\ runner[o].at = "hashing"
  /\ RunnerAt(o, "extracting")
  /\ UNCHANGED <<importRows, handlerVars, receiptVars, registry>>

\* The thread reads the plan in force at its end and projects the artifacts onto it.
ExtractionEnds(o) ==
  /\ runner[o].at = "extracting"
  /\ runner' = [runner EXCEPT ![o] =
                  [@ EXCEPT !.at = "looking", !.n = 1, !.map = Current(o).map]]
  /\ UNCHANGED <<importRows, handlerVars, receiptVars, registry>>

\* The plan, the hash, the verification or the extraction fails; or the handler of
\* a retry has marked the row FAILED before the worker got to its first step.
RunnerFails(o) ==
  /\ ~Busy
  /\ runner[o].at \in {"waiting", "hashing", "extracting"}
  /\ Unwinds(o, "FAILED")
  /\ UNCHANGED <<lineage, plans, flags, agreed, handlerVars, receiptVars, registry>>

\* Row n gets its status; the next artifact, or the end of the loop.
Settles(o, s) ==
  /\ outcome' = [outcome EXCEPT ![o][runner[o].n] = s]
  /\ runner' = IF runner[o].n < ArtifactCount
               THEN [runner EXCEPT ![o].at = "looking", ![o].n = @ + 1]
               ELSE [runner EXCEPT ![o].at = "closing"]
  /\ UNCHANGED <<state, claimed, lineage, plans, flags, agreed, handlerVars,
                 receiptVars, registry>>

Looking(o) == ~Busy /\ runner[o].at = "looking"

\* _preflight_target finds the artifact, or cannot tell.
FindsSame(o) ==
  Looking(o) /\ registry[Target(o)] = Own(o, runner[o].n) /\ Settles(o, "SKIPPED")

LookFails(o) == Looking(o) /\ Settles(o, "FAILED")

\* Something else is there, and the flags of the worker do not allow to overwrite.
FindsConflict(o) ==
  /\ Looking(o)
  /\ registry[Target(o)] \notin {Absent, Own(o, runner[o].n)}
  /\ ~runner[o].flags.over
  /\ Settles(o, IF runner[o].flags.skip THEN "LEFT" ELSE "CONFLICT")

MayPush(o) ==
  \/ registry[Target(o)] = Absent
  \/ registry[Target(o)] # Own(o, runner[o].n) /\ runner[o].flags.over

PushBegins(o) ==
  /\ Looking(o)
  /\ MayPush(o)
  /\ outcome' = [outcome EXCEPT ![o][runner[o].n] = "RUNNING"]
  /\ RunnerAt(o, "pushing")
  /\ UNCHANGED <<state, claimed, lineage, plans, flags, agreed, handlerVars,
                 receiptVars, registry>>

\* The payload is in the registry, whatever the reference held by then.
PushLands(o) ==
  /\ runner[o].at = "pushing"
  /\ registry' = [registry EXCEPT ![Target(o)] = Own(o, runner[o].n)]
  /\ RunnerAt(o, "landed")
  /\ UNCHANGED <<importRows, handlerVars, receiptVars>>

\* What the registry shows after the push: the digest of the payload for an image,
\* any digest at all for a chart.
Observed(o) ==
  IF runner[o].n \in Charts THEN registry[Target(o)] # Absent
                            ELSE registry[Target(o)] = Own(o, runner[o].n)

TargetVerified(o) ==
  ~Busy /\ runner[o].at = "landed" /\ Observed(o) /\ Settles(o, "VERIFIED")

\* The push fails or times out, before or after it took effect.
PushFails(o) ==
  ~Busy /\ runner[o].at \in {"pushing", "landed"} /\ Settles(o, "FAILED")

-------------------------------------------------------------------------------
\* After the last artifact, without an await.
Closes(o) ==
  /\ runner[o].at = "closing"
  /\ state[o] = "IMPORTING"
  /\ state' = [state EXCEPT ![o] = "VERIFYING_TARGET"]
  /\ RunnerAt(o, "receipting")
  /\ UNCHANGED <<claimed, lineage, plans, flags, agreed, outcome, handlerVars,
                 receiptVars, registry>>

\* Somebody has written FAILED over the row: the transition is refused.
CannotClose(o) ==
  /\ runner[o].at = "closing"
  /\ state[o] # "IMPORTING"
  /\ Unwinds(o, "FAILED")
  /\ UNCHANGED <<lineage, plans, flags, agreed, handlerVars, receiptVars, registry>>

Receipt(o) ==
  [rows |-> outcome[o], map |-> Current(o).map, over |-> runner[o].flags.over,
   result |-> IF Failures(o) THEN "FAILED" ELSE "COMPLETED"]

\* _write_receipt, the row first.
WritesReceiptRow(o) ==
  /\ runner[o].at = "receipting"
  /\ receipt' = [receipt EXCEPT ![o] = Receipt(o)]
  /\ RunnerAt(o, "filing")
  /\ UNCHANGED <<importRows, handlerVars, receiptFile, registry>>

\* Then the file, which must not exist.
WritesReceiptFile(o) ==
  /\ runner[o].at = "filing"
  /\ receiptFile[o] = None
  /\ receiptFile' = [receiptFile EXCEPT ![o] = receipt[o]]
  /\ RunnerAt(o, "deciding")
  /\ UNCHANGED <<importRows, handlerVars, receipt, registry>>

\* Wrong: without its file the receipt leaves the row as well.
ReceiptFileFailsWithRow(o) ==
  /\ runner[o].at = "filing"
  /\ Unwinds(o, "FAILED")
  /\ receipt' = [receipt EXCEPT ![o] = None]
  /\ UNCHANGED <<lineage, plans, flags, agreed, handlerVars, receiptFile, registry>>

\* The file cannot be written: the operation fails, the row keeps its receipt.
ReceiptFileFails(o) ==
  /\ runner[o].at = "filing"
  /\ Unwinds(o, "FAILED")
  /\ UNCHANGED <<lineage, plans, flags, agreed, handlerVars, receiptVars, registry>>

EndsWithFailures(o) ==
  /\ runner[o].at = "deciding"
  /\ Failures(o)
  /\ Unwinds(o, "FAILED")
  /\ UNCHANGED <<lineage, plans, flags, agreed, handlerVars, receiptVars, registry>>

EndsCompleted(o) ==
  /\ runner[o].at = "deciding"
  /\ ~Failures(o)
  /\ state' = [state EXCEPT ![o] = "COMPLETED"]
  /\ RunnerAt(o, "tidying")
  /\ UNCHANGED <<claimed, lineage, plans, flags, agreed, outcome, handlerVars,
                 receiptVars, registry>>

\* The bundle may go (ImportIntake), then the finally of the worker.
Tidies(o) ==
  /\ runner[o].at = "tidying"
  /\ Unwinds(o, "COMPLETED")
  /\ UNCHANGED <<lineage, plans, flags, agreed, handlerVars, receiptVars, registry>>

\* cancel(): the worker ends at its await, the thread goes on.  (A task that is
\* cancelled before its first step is a subject of OperationManager.)
CancelsImport(o) ==
  /\ ~Busy
  /\ state[o] \in Unended
  /\ Unwinds(o, "CANCELLED")
  /\ UNCHANGED <<lineage, plans, flags, agreed, handlerVars, receiptVars, registry>>

-------------------------------------------------------------------------------
\* reconcile_interrupted_operations; READY stays.
ReconciledState(o) ==
  IF state[o] \in {"IMPORTING", "VERIFYING_TARGET"} THEN "FAILED" ELSE state[o]

\* The process is lost and starts again.
RestartsImports ==
  /\ state' = [o \in Imports |-> ReconciledState(o)]
  /\ outcome' = [o \in Imports |-> [n \in Artifacts |->
       IF state[o] \in Ended THEN outcome[o][n] ELSE FailedIfRunning(outcome[o][n])]]
  /\ claimed' = {}
  /\ planning' = [o \in Imports |-> {}]
  /\ frozen' = [o \in Imports |-> None]
  /\ runner' = [o \in Imports |-> Idle]
  /\ UNCHANGED <<lineage, plans, flags, agreed, receiptVars, registry>>

-------------------------------------------------------------------------------
FlagChoices == [over : BOOLEAN, skip : BOOLEAN]

RequestStep(o) ==
  \/ Prepared(o) \/ RetryPlanned(o) \/ RetryUnplanned(o) \/ CancelsImport(o)
  \/ \E m \in Mappings : Retried(o, m) \/ PlanBegins(o, m) \/ PlanEnds(o, m)
  \/ \E m \in Mappings, f \in FlagChoices : Starts(o, m, f) \/ StartRefused(o, m, f)

RunnerStep(o) ==
  \/ RunnerBegins(o) \/ HashEnds(o) \/ ExtractionEnds(o) \/ RunnerFails(o)
  \/ FindsSame(o) \/ LookFails(o) \/ FindsConflict(o)
  \/ PushBegins(o) \/ PushLands(o) \/ TargetVerified(o) \/ PushFails(o)
  \/ Closes(o) \/ CannotClose(o) \/ WritesReceiptRow(o) \/ WritesReceiptFile(o)
  \/ ReceiptFileFails(o) \/ EndsWithFailures(o) \/ EndsCompleted(o) \/ Tidies(o)

ExecutionNext ==
  \/ \E o \in Imports : RequestStep(o) \/ RunnerStep(o)
  \/ \E r \in Refs : OutsiderPushes(r)
  \/ RestartsImports

ExecutionSpec == ExecutionInit /\ [][ExecutionNext]_executionVars

-------------------------------------------------------------------------------
(***************************************************************************)
(* Properties                                                              *)
(***************************************************************************)
ExecutionTypeOK ==
  /\ state \in [Imports -> {"none"} \cup Unended \cup Ended]
  /\ claimed \subseteq Imports /\ lineage \subseteq Imports
  /\ plans \in [Imports -> Seq([map : Mappings, conflicts : BOOLEAN])]
  /\ \A o \in Imports : Len(plans[o]) <= MaxPlans
  /\ flags \in [Imports -> FlagChoices]
  /\ agreed \in [Imports -> [map : Mappings, flags : FlagChoices] \cup {None}]
  /\ planning \in [Imports -> SUBSET Mappings]
  /\ frozen \in [Imports -> Mappings \cup {None}]
  /\ runner \in [Imports -> [at : {"none"} \cup Awaiting \cup Synchronous,
                             n : 0..ArtifactCount, map : Mappings \cup {None},
                             flags : FlagChoices]]
  /\ outcome \in [Imports -> [Artifacts -> {"PENDING", "RUNNING"} \cup Settled]]
  /\ receipt \in [Imports -> Receipts \cup {None}]
  /\ receiptFile \in [Imports -> Receipts \cup {None}]
  /\ registry \in [Refs -> Contents]

\* A worker transfers to the destinations its start has named, and its receipt
\* lists those, however late a request that was planning at the start persists
\* its own plan, and whatever a cancellation or the handler of a retry do meanwhile.
ExecutesAgreedPlan ==
  \A o \in Imports :
    /\ runner[o].map # None => runner[o].map = agreed[o].map
    /\ receipt[o] # None => receipt[o].map = agreed[o].map

\* No two artifacts of an import are verified at the same destination, where the
\* second would have replaced the first.
VerifiedAreDistinct ==
  \A o \in Imports : \A i, j \in Artifacts :
    i # j /\ outcome[o][i] = "VERIFIED" /\ outcome[o][j] = "VERIFIED"
      => agreed[o].map[i] # agreed[o].map[j]

\* A COMPLETED import has a receipt in its row and the same one in a file; every
\* artifact it lists was verified, was there before or was left on request.
CompletedIsProven ==
  \A o \in Imports : state[o] = "COMPLETED" =>
    /\ receipt[o] # None /\ receiptFile[o] = receipt[o]
    /\ receipt[o].rows = outcome[o]
    /\ \A n \in Artifacts : outcome[o][n] \in {"VERIFIED", "SKIPPED", "LEFT"}

\* A receipt is written once: neither a restart nor a retry nor a second worker
\* replaces what an import has proved.
ReceiptIsFinal ==
  [][\A o \in Imports : receipt[o] # None => receipt'[o] = receipt[o]]_executionVars

\* docs/import-orchestration.md: overwriting a conflict needs a confirmation of its
\* own.  A worker should run with the choices of the start that was accepted; the
\* start that is refused leaves its own in the row.
RunsAsConfirmed ==
  \A o \in Imports :
    runner[o].at \notin {"none", "waiting"} => runner[o].flags = agreed[o].flags
===============================================================================
