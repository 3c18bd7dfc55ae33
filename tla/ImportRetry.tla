------------------------------ MODULE ImportRetry ------------------------------
(***************************************************************************)
(* backend/app/services/import_retry.py with api/import_retries.py: the    *)
(* retry of a partially failed import.  The handler writes a new row that  *)
(* is READY at once, without the operation manager and its mode barrier,   *)
(* builds the destination plan across awaits, and then either keeps the    *)
(* row or marks it FAILED.  Everybody sees the row meanwhile: it can be    *)
(* cancelled, planned by another request, started, or met by a switch.     *)
(***************************************************************************)
EXTENDS RuntimeMode

VARIABLES
  preparing,  \* retries whose handler awaits _build_destination_plan
  unplanned,  \* retries without a persisted destination plan
  partial     \* imports whose error_code is import_partial_failure

retryVars == <<preparing, unplanned, partial>>
everything == <<allVars, retryVars>>

RetryInit ==
  /\ ModeInit
  /\ preparing = {}
  /\ unplanned = {}
  /\ partial = {}

\* prepare_retry up to its first await: the checks of the original, and the row
\* of the retry with the snapshot of the original.  The contour is compared, the
\* reservation of a switch is not looked at.
RetryRow(o, original, s) ==
  /\ process = "up"
  /\ mode = "TARGET"
  /\ original \in partial
  /\ status[o] = NoStatus
  /\ type' = [type EXCEPT ![o] = "IMPORT"]
  /\ status' = [status EXCEPT ![o] = s]
  /\ artifacts' = [artifacts EXCEPT ![o] = [r \in Artifacts |-> "PENDING"]]
  /\ snapshot' = [snapshot EXCEPT ![o] = snapshot[original]]
  /\ UNCHANGED <<process, token, cancelRequested, counts, workspace, claims, memory,
                 mode, version, switch>>

RetryCreates(o, original) ==
  /\ RetryRow(o, original, "READY")
  /\ preparing' = preparing \cup {o}
  /\ unplanned' = unplanned \cup {o}
  /\ UNCHANGED partial

\* The profile or the mapping is refused before the first await.
RetryRefused(o, original) ==
  /\ RetryRow(o, original, "FAILED")
  /\ UNCHANGED retryVars

\* _persist_destination_plan: the condition of its UPDATE.
Plannable(o) == status[o] = "READY" /\ token[o] = NoToken

\* The plan is persisted, then the lineage; the handler answers.
RetryPrepared(o) ==
  /\ process = "up"
  /\ o \in preparing
  /\ Plannable(o)
  /\ preparing' = preparing \ {o}
  /\ unplanned' = unplanned \ {o}
  /\ UNCHANGED <<allVars, partial>>

\* There is no plan, or it cannot be persisted: _mark_prepare_failed, whatever the
\* row is now.
RetryFails(o) ==
  /\ process = "up"
  /\ o \in preparing
  /\ status' = [status EXCEPT ![o] = "FAILED"]
  /\ preparing' = preparing \ {o}
  /\ partial' = partial \ {o}
  /\ UNCHANGED <<process, type, token, cancelRequested, artifacts, counts, workspace,
                 claims, memory, modeVars, unplanned>>

\* The process dies between the commit of the plan and that of the lineage.
DiesRetrying(o) ==
  /\ o \in preparing
  /\ Plannable(o)
  /\ Crash
  /\ switch' = NoSwitch
  /\ preparing' = {}
  /\ unplanned' = unplanned \ {o}
  /\ UNCHANGED <<mode, version, snapshot, partial>>

\* The handler fails in a way it does not expect, and the row stays.
RetryBreaks(o) ==
  /\ process = "up"
  /\ o \in preparing
  /\ preparing' = preparing \ {o}
  /\ UNCHANGED <<allVars, unplanned, partial>>

\* Another request builds a plan for the row before the lineage protects it.
SomebodyPlans(o) ==
  /\ process = "up"
  /\ o \in unplanned
  /\ Plannable(o)
  /\ unplanned' = unplanned \ {o}
  /\ UNCHANGED <<allVars, preparing, partial>>

\* start_import wants a plan.
RetrySubmit(o) ==
  /\ o \notin unplanned
  /\ ModeSubmit(o)
  /\ UNCHANGED retryVars

\* Imports whose worker ends in this step after it has met failed artifacts.
EndsPartially ==
  {o \in Ops : process = "up" /\ type[o] = "IMPORT"
                /\ status[o] = "VERIFYING_TARGET" /\ status'[o] = "FAILED"}

\* Every other step of the portal; a lost process forgets its handlers.
PortalStep ==
  /\ \/ \E o \in Ops, t \in Types, s \in Resting :
          ModeCreate(o, t, s) \/ ModeCreateFails(o, t, s)
     \/ \E o \in Ops : ModeSubmitFails(o) \/ SwitchCancels(o)
     \/ \E o \in Ops : (StartFails(o) \/ Cancel(o)) /\ UNCHANGED modeVars
     \/ \E o \in Ops, n \in Claims : TaskStep(o, n) /\ UNCHANGED modeVars
     \/ ModeProcessStep
     \/ BeginSwitch \/ SwitchResumes \/ CompleteSwitch \/ AbortSwitch
  /\ ShutdownBegins => preparing = {}
  /\ preparing' = IF process' = "down" THEN {} ELSE preparing
  /\ \E p \in SUBSET EndsPartially : partial' = partial \cup p
  /\ UNCHANGED unplanned

RetryNext ==
  \/ \E o, original \in Ops : RetryCreates(o, original) \/ RetryRefused(o, original)
  \/ \E o \in Ops :
       \/ RetryPrepared(o) \/ RetryFails(o) \/ DiesRetrying(o) \/ RetryBreaks(o)
       \/ SomebodyPlans(o) \/ RetrySubmit(o)
  \/ PortalStep

RetrySpec == RetryInit /\ [][RetryNext]_everything
-------------------------------------------------------------------------------
(***************************************************************************)
(* Properties.  An invariant of RuntimeMode must survive the retry         *)
(* handler, which follows none of its rules: WorkerRunsInItsMode, whatever *)
(* the row copied from its original.                                       *)
(***************************************************************************)

\* docs/deterministic-import-retry.md: a retry that was prepared can be executed
\* through the ordinary import endpoint.
PreparedRetryCanStart ==
  [][\A o \in Ops : RetryPrepared(o) => Compatible(o)]_everything
===============================================================================
