----------------------------- MODULE RuntimeMode -----------------------------
(***************************************************************************)
(* backend/app/services/runtime_mode.py with api/runtime.py and            *)
(* services/correlated_operation_manager.py: one portal is SOURCE (it      *)
(* exports) or TARGET (it imports).  Operations are created and submitted  *)
(* under a process-wide lock and carry a snapshot of mode and version; a   *)
(* switch reserves the mode, cancels every unfinished operation, waits for *)
(* each worker, and only then writes the new mode.                         *)
(*                                                                         *)
(* The operations are those of OperationManager; each of its steps happens *)
(* here, the mode-bound ones under the conditions of the lock.             *)
(***************************************************************************)
EXTENDS OperationManager

CONSTANT MaxVersion   \* bound: how often the mode changes in a behaviour

ASSUME VersionAssumption == MaxVersion \in Nat \ {0}

VARIABLES
  mode,      \* setting runtime.portal_mode
  version,   \* setting runtime.portal_mode_version
  snapshot,  \* Operation.runtime_mode and runtime_mode_version
  switch     \* the reservation of _PENDING_SWITCH_TOKEN, with the handler's place

modeVars == <<mode, version, snapshot, switch>>
allVars == <<vars, modeVars>>

Modes == {"SOURCE", "TARGET"}

\* The mode an operation of type t needs.
ModeOf(t) == IF t = "EXPORT" THEN "SOURCE" ELSE "TARGET"

Other(m) == IF m = "SOURCE" THEN "TARGET" ELSE "SOURCE"

Snapshots == [mode: Modes, version: 1..MaxVersion]
NoSnapshot == [mode |-> "NONE", version |-> 0]
Now == [mode |-> mode, version |-> version]

\* The switch handler: the blockers it has still to cancel, and the task whose
\* end it awaits, {} when it holds control.
NoSwitch == [pending |-> FALSE, left |-> {}, awaited |-> {}]

\* BLOCKING_OPERATION_STATUSES
Blocking(o) == status[o] \in Statuses \ Terminal

\* The first start, or the start after an upgrade of a database whose prepared
\* imports have no snapshot.
ModeInit ==
  /\ \E ready \in SUBSET Ops : InitWith(ready)
  /\ mode \in Modes
  /\ version = 1
  /\ snapshot = [o \in Ops |-> NoSnapshot]
  /\ switch = NoSwitch

(***************************************************************************)
(* Mode-bound starts                                                       *)
(***************************************************************************)

\* Wrong: the reservation of a switch is not looked at.
StartAllowedWhilePending(t) == mode = ModeOf(t)

\* operation_start_guard
StartAllowed(t) == ~switch.pending /\ mode = ModeOf(t)

\* CorrelatedOperationManager.create_operation
ModeCreate(o, t, s) ==
  /\ StartAllowed(t)
  /\ Create(o, t, s)
  /\ snapshot' = [snapshot EXCEPT ![o] = Now]
  /\ UNCHANGED <<mode, version, switch>>

\* The row is committed, the commit of its snapshot fails, and so does the
\* handler; a crash between the two commits is this step and a crash.
ModeCreateFails(o, t, s) ==
  /\ StartAllowed(t)
  /\ NewRow(o, t, s)
  /\ UNCHANGED <<starting, modeVars>>

\* Wrong: an operation of an earlier stay in the same mode may go on.
CompatibleMode(o) == snapshot[o].mode \in {"NONE", mode}

\* The snapshot of a row that is submitted is missing or that of now.
Compatible(o) == snapshot[o] \in {NoSnapshot, Now}

\* CorrelatedOperationManager.submit
ModeSubmit(o) ==
  /\ StartAllowed(type[o])
  /\ Compatible(o)
  /\ Submit(o)
  /\ snapshot' = [snapshot EXCEPT ![o] = IF @ = NoSnapshot THEN Now ELSE @]
  /\ UNCHANGED <<mode, version, switch>>

\* submit of a legacy row that was asked to cancel: the missing snapshot is
\* committed before the claim fails.
ModeSubmitFails(o) ==
  /\ process = "up"
  /\ status[o] = "READY"
  /\ snapshot[o] = NoSnapshot
  /\ StartAllowed(type[o])
  /\ ~Claimable(o)
  /\ snapshot' = [snapshot EXCEPT ![o] = Now]
  /\ UNCHANGED <<vars, mode, version, switch>>

(***************************************************************************)
(* The switch: PUT /api/runtime/mode                                       *)
(***************************************************************************)

\* begin_switch.  An intake handler does not suspend between create_operation
\* and submit, so no import is in between when the switch handler runs.
BeginSwitch ==
  /\ process = "up"
  /\ ~switch.pending
  /\ \A o \in starting : type[o] = "EXPORT"
  /\ version < MaxVersion
  /\ switch' = [pending |-> TRUE, left |-> {o \in Ops : Blocking(o)}, awaited |-> {}]
  /\ UNCHANGED <<vars, mode, version, snapshot>>

\* The handler holds control between two calls of cancel().
Switching == process = "up" /\ switch.pending /\ switch.awaited = {}

\* manager.cancel of one blocker, which awaits the task if one is live.
SwitchCancels(o) ==
  /\ Switching
  /\ o \in switch.left
  /\ Cancel(o)
  /\ switch' = [switch EXCEPT !.left = @ \ {o},
                              !.awaited = IF HasLiveTask(o) THEN {<<o, tasks[o]>>} ELSE {}]
  /\ UNCHANGED <<mode, version, snapshot>>

\* The awaited task is done.
SwitchResumes ==
  /\ process = "up"
  /\ switch.pending
  /\ \E c \in switch.awaited : ~LiveTask(c[1], c[2])
  /\ switch' = [switch EXCEPT !.awaited = {}]
  /\ UNCHANGED <<vars, mode, version, snapshot>>

\* Wrong: what is left after the cancellations does not matter.
AnybodyLeft == FALSE

\* _blocking_operation_ids of complete_switch
SomebodyLeft == \E o \in Ops : Blocking(o)

\* complete_switch
CompleteSwitch ==
  /\ Switching
  /\ switch.left = {}
  /\ ~SomebodyLeft
  /\ mode' = Other(mode)
  /\ version' = version + 1
  /\ switch' = NoSwitch
  /\ UNCHANGED <<vars, snapshot>>

\* abort_switch: an operation could not be stopped, cancel() or the commit raised.
AbortSwitch ==
  /\ Switching
  /\ switch' = NoSwitch
  /\ UNCHANGED <<vars, mode, version, snapshot>>

-------------------------------------------------------------------------------
\* A step of the process: the reservation lives in memory.
ModeProcessStep ==
  /\ ProcessStep
  /\ ShutdownBegins => ~switch.pending
  /\ switch' = IF process' = "down" THEN NoSwitch ELSE switch
  /\ UNCHANGED <<mode, version, snapshot>>

ModeRequest(o) ==
  \/ \E t \in Types, s \in Resting : ModeCreate(o, t, s) \/ ModeCreateFails(o, t, s)
  \/ ModeSubmit(o)
  \/ ModeSubmitFails(o)
  \/ (StartFails(o) \/ Cancel(o)) /\ UNCHANGED modeVars
  \/ SwitchCancels(o)

ModeNext ==
  \/ \E o \in Ops : ModeRequest(o)
  \/ \E o \in Ops, n \in Claims : TaskStep(o, n) /\ UNCHANGED modeVars
  \/ ModeProcessStep
  \/ BeginSwitch \/ SwitchResumes \/ CompleteSwitch \/ AbortSwitch

ModeSpec == ModeInit /\ [][ModeNext]_allVars

\* The event loop runs the tasks and the handler.
ModeFairness ==
  /\ \A o \in Ops, n \in Claims :
       /\ WF_allVars((TaskStarts(o, n) \/ TaskNeverStarts(o, n)) /\ UNCHANGED modeVars)
       /\ WF_allVars(WorkerEnds(o, n) /\ UNCHANGED modeVars)
  /\ \A o \in Ops : WF_allVars(SwitchCancels(o))
  /\ WF_allVars(SwitchResumes)
  /\ WF_allVars(CompleteSwitch \/ AbortSwitch)

ModeFairSpec == ModeSpec /\ ModeFairness
-------------------------------------------------------------------------------
(***************************************************************************)
(* Properties                                                              *)
(***************************************************************************)

\* The type invariant.
ModeTypeOK ==
  /\ mode \in Modes /\ version \in 1..MaxVersion
  /\ snapshot \in [Ops -> Snapshots \cup {NoSnapshot}]
  /\ switch \in [pending: BOOLEAN, left: SUBSET Ops, awaited: SUBSET (Ops \X Claims)]

\* No unfinished operation belongs to another stay in a mode than the present
\* one: no switch overtakes an operation, from its creation through every start,
\* crash and restart to its end.
UnfinishedInPresentMode ==
  \A o \in Ops : Blocking(o) /\ snapshot[o] # NoSnapshot => snapshot[o] = Now

\* A worker that can still change its operation runs in the mode the operation
\* needs and with the snapshot it was claimed under.
WorkerRunsInItsMode ==
  \A o \in Ops, n \in Claims : LiveTask(o, n) /\ Blocking(o) =>
    mode = ModeOf(type[o]) /\ snapshot[o] = Now

\* When the handler has cancelled everything it found, whatever still blocks the
\* switch was asked to cancel and has no worker: nothing slipped in meanwhile,
\* and nothing is still running that was not awaited.
LeftOverIsStuck ==
  Switching /\ switch.left = {} =>
    \A o \in Ops : Blocking(o) =>
      cancelRequested[o] /\ \A n \in Claims : ~LiveTask(o, n)

\* Every switch ends, with the new mode or the old one.
SwitchEnds == switch.pending ~> ~switch.pending
===============================================================================
