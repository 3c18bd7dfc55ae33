--------------------------- MODULE RuntimeModeProofs ---------------------------
(***************************************************************************)
(* No switch of the mode overtakes an operation, for every set of          *)
(* operations, every number of slots and claims, and however often the     *)
(* mode changes; and no worker runs in the wrong mode even next to the     *)
(* retries of imports, which keep none of the rules of the switch.         *)
(***************************************************************************)
EXTENDS ImportRetry, OperationManagerProofs

\* A row that does not exist has no columns.
BlankRows ==
  \A o \in Ops : status[o] = NoStatus => type[o] = NoStatus /\ snapshot[o] = NoSnapshot

\* The switch has asked every blocker it is done with to stop, and awaits the one whose
\* worker may still be there.
SwitchReaches ==
  /\ switch.pending => process = "up" /\ version < MaxVersion
  /\ \A c, d \in switch.awaited : c = d
  /\ switch.pending =>
       \A o \in Ops : Blocking(o) /\ o \notin switch.left =>
         /\ cancelRequested[o]
         /\ \A n \in Claims : LiveTask(o, n) => <<o, n>> \in switch.awaited

\* The inductive invariant: that of the manager, and what the lock and the reservation
\* keep of the snapshots.
ModeConsistent ==
  /\ Consistent
  /\ ModeTypeOK
  /\ BlankRows
  /\ UnfinishedInPresentMode
  /\ WorkerRunsInItsMode
  /\ SwitchReaches

-------------------------------------------------------------------------------
(***************************************************************************)
(* What the steps of the manager leave alone                               *)
(***************************************************************************)

\* A row without work done on it does not disturb the rest.
LEMMA NewRowConsistent ==
  ASSUME Consistent, NEW o \in Ops, NEW t, NEW s, NewRow(o, t, s),
         starting' \in {starting, starting \cup {o}}
  PROVE  Consistent'
<1> USE DEF NewRow
<1>0. /\ s \in Statuses \ Terminal /\ s # NoStatus /\ t \in Types
      /\ s \in DOMAIN Transitions(t)
  BY DEF InitialStatuses, Types, Transitions, ExportTransitions, ImportTransitions,
         Statuses, Resting, Terminal, NoStatus
<1>1. TypeOK
  BY DEF Consistent
<1>2. /\ status' = [status EXCEPT ![o] = s] /\ type' = [type EXCEPT ![o] = t]
      /\ status[o] = NoStatus
      /\ \A oo \in Ops : oo # o => artifacts'[oo] = artifacts[oo]
      /\ \A r \in Artifacts : artifacts'[o][r] \in {NoStatus, "PENDING"}
  BY <1>1 DEF TypeOK
<1>3. TypeOK'
  <2>1. [r \in Artifacts |-> IF t = "EXPORT" THEN "PENDING" ELSE NoStatus]
          \in [Artifacts -> ArtifactStatuses \cup {NoStatus}]
    BY DEF ArtifactStatuses
  <2> QED
    BY <1>0, <1>1, <2>1 DEF TypeOK
<1>4. WorkerOwnsOperation' /\ LiveTaskIsRegistered' /\ DownIsEmpty'
  BY DEF Consistent, WorkerOwnsOperation, LiveTaskIsRegistered, DownIsEmpty, LiveTask
<1>5. NothingWithoutRow'
  BY <1>0, <1>1, <1>2 DEF Consistent, NothingWithoutRow, LiveTask, TypeOK
<1>6. StatusOfType'
  BY <1>0, <1>1 DEF Consistent, StatusOfType, TypeOK
<1>7. CancelIsRequested'
  <2>1. \A oo \in Ops : status[oo] \in Terminal => status'[oo] \in Terminal
    BY <1>1, <1>2 DEF TypeOK, Terminal, NoStatus
  <2> QED
    BY <2>1 DEF Consistent, CancelIsRequested, LiveTask
<1>8. CountsMatchRows'
  <2>1. \A r \in Artifacts : artifacts[o][r] = NoStatus
    BY <1>2 DEF Consistent, NothingWithoutRow
  <2>2. Census(artifacts'[o]) = Census(artifacts[o])
    BY <1>2, <2>1, CensusOfWaiting
  <2>3. \A oo \in Ops : counts'[oo] = Census(artifacts'[oo])
    BY <1>2, <2>2 DEF Consistent, CountsMatchRows
  <2> QED
    BY <2>3 DEF CountsMatchRows, Census, Count
<1>9. TerminalArtifactsSettled'
  BY <1>0, <1>1, <1>2 DEF Consistent, TerminalArtifactsSettled, TypeOK
<1> QED
  BY <1>3, <1>4, <1>5, <1>6, <1>7, <1>8, <1>9 DEF Consistent

\* Prepared imports that an earlier process has left are consistent.
LEMMA PreparedConsistent ==
  ASSUME NEW ready \in SUBSET Ops, InitWith(ready)
  PROVE  Consistent
<1> USE DEF InitWith
<1>1. TypeOK
  <2>1. Census([r \in Artifacts |-> NoStatus])
          \in [successful: Nat, failed: Nat, skipped: Nat, conflict: Nat]
    BY CensusType
  <2>2. \A o \in Ops : [r \in Artifacts |-> IF o \in ready THEN "PENDING" ELSE NoStatus]
          \in [Artifacts -> ArtifactStatuses \cup {NoStatus}]
    BY DEF ArtifactStatuses
  <2>3. "unborn" \in Phases /\ "READY" \in Statuses /\ "IMPORT" \in Types
    BY DEF Phases, Statuses, Resting, Types
  <2> QED
    BY <2>1, <2>2, <2>3 DEF TypeOK, NoToken
<1>2. \A o \in Ops, n \in Claims :
        phase[o][n] = "unborn" /\ ~LiveTask(o, n) /\ ~cancelPending[o][n]
  BY DEF LiveTask, Live, InBody
<1>3. WorkerOwnsOperation /\ LiveTaskIsRegistered /\ DownIsEmpty /\ CancelIsRequested
  BY <1>2 DEF WorkerOwnsOperation, LiveTaskIsRegistered, DownIsEmpty, CancelIsRequested
<1>4. NothingWithoutRow /\ StatusOfType
  BY <1>2 DEF NothingWithoutRow, NoStatus, StatusOfType, Types, Transitions,
              ImportTransitions
<1>5. CountsMatchRows
  <2>1. \A o \in Ops : Census(artifacts[o]) = Census([r \in Artifacts |-> NoStatus])
    BY CensusOfWaiting
  <2> QED
    BY <2>1 DEF CountsMatchRows
<1>6. TerminalArtifactsSettled
  BY DEF TerminalArtifactsSettled, Terminal, NoStatus
<1> QED
  BY <1>1, <1>3, <1>4, <1>5, <1>6 DEF Consistent

\* Only a new row changes its type, and only a submit brings a worker to life.
LEMMA QuietFrame ==
  ASSUME TypeOK,
         \/ \E o \in Ops : StartFails(o) \/ Cancel(o)
         \/ \E o \in Ops, n \in Claims : TaskStep(o, n)
         \/ ProcessStep
  PROVE  /\ type' = type
         /\ \A o \in Ops, n \in Claims : LiveTask(o, n)' => LiveTask(o, n)
<1>1. CASE \E o \in Ops : StartFails(o) \/ Cancel(o)
  BY <1>1 DEF StartFails, Cancel, rows, LiveTask
<1>2. ASSUME NEW o \in Ops, NEW n \in Claims, TaskStep(o, n)
      PROVE  type' = type /\ \A oo \in Ops, nn \in Claims : LiveTask(oo, nn)' => LiveTask(oo, nn)
  <2>1. type' = type
    BY <1>2 DEF TaskStep, TaskStarts, TaskNeverStarts, AcquireSlot, CancelUnwinds, WorkerStep,
                WorkerMoves, WorkerSetsArtifact, WorkerAddsArtifacts, WorkerTogglesWorkspace,
                WorkerEnds, WorkerReturns, WorkerFails, WorkerCancelled, WorkerStopped, Ends,
                ForgetTask, rows
  <2> QED
    BY <1>2, <2>1, TaskFrame
<1>3. CASE ProcessStep
  <2>1. CASE Lost
    BY <2>1 DEF Lost, LiveTask, Live, InBody
  <2>2. CASE ShutdownBegins \/ Startup
    BY <2>2 DEF ShutdownBegins, Startup, rows, memory, LiveTask
  <2> QED
    BY <1>3, <2>1, <2>2 DEF ProcessStep, ShutdownEnds, Crash, CrashInEnd, CrashInCancel
<1> QED
  BY <1>1, <1>2, <1>3

\* Rows that keep their types: none appears, none comes back from a terminal status, and
\* no request to cancel is forgotten.
LEMMA RowsGoOn ==
  ASSUME BlankRows, Lifecycle!Next, type' = type, NEW o \in Ops
  PROVE  /\ status'[o] = NoStatus => status[o] = NoStatus
         /\ Blocking(o)' => Blocking(o)
         /\ Blocking(o)' /\ cancelRequested[o] => cancelRequested'[o]
<1>1. status'[o] = NoStatus => status[o] = NoStatus
  BY RowsStay
<1>2. ~Lifecycle!Born(o)
  BY SameStates DEF Lifecycle!Born, BlankRows, Types, NoStatus
<1>3. CASE Lifecycle!Rests(o) \/ Lifecycle!Asked(o)
  BY <1>1, <1>3 DEF Lifecycle!Rests, Lifecycle!Asked, Blocking
<1>4. CASE Lifecycle!Moves(o)
  <2>1. MayMove(type[o], status[o], status'[o]) /\ (cancelRequested[o] => cancelRequested'[o])
    BY <1>4, SameStates DEF Lifecycle!Moves
  <2>2. status[o] \in Statuses \ Terminal
    BY <2>1 DEF MayMove, Transitions, ExportTransitions, ImportTransitions, Statuses,
                Executing, Resting, Terminal
  <2> QED
    BY <1>1, <2>1, <2>2 DEF Blocking
<1> QED
  BY <1>2, <1>3, <1>4 DEF Lifecycle!Next

-------------------------------------------------------------------------------
(***************************************************************************)
(* The steps                                                               *)
(***************************************************************************)

\* The snapshot of now is one, and it is not the missing one.
LEMMA NowFacts ==
  ASSUME ModeTypeOK
  PROVE  Now \in Snapshots /\ Now # NoSnapshot
BY DEF ModeTypeOK, Now, Snapshots, NoSnapshot, Modes

\* The portal starts with prepared imports that have no snapshot, and without a switch.
LEMMA ModeConsistentInit == ModeInit => ModeConsistent
<1> SUFFICES ASSUME ModeInit
             PROVE  ModeConsistent
  OBVIOUS
<1>1. PICK ready \in SUBSET Ops : InitWith(ready)
  BY DEF ModeInit
<1>2. Consistent
  BY <1>1, PreparedConsistent
<1>3. ModeTypeOK
  BY VersionAssumption DEF ModeInit, ModeTypeOK, NoSwitch
<1>4. \A o \in Ops, n \in Claims : ~LiveTask(o, n)
  BY <1>1 DEF InitWith, LiveTask, Live, InBody
<1>5. BlankRows
  BY <1>1 DEF ModeInit, InitWith, BlankRows, NoStatus
<1>6. UnfinishedInPresentMode /\ WorkerRunsInItsMode
  BY <1>4 DEF ModeInit, UnfinishedInPresentMode, WorkerRunsInItsMode
<1>7. SwitchReaches
  BY DEF ModeInit, NoSwitch, SwitchReaches
<1> QED
  BY <1>2, <1>3, <1>5, <1>6, <1>7 DEF ModeConsistent

\* A new row, with its snapshot or without: no switch is pending, and if it has one, that
\* is the snapshot of now.
LEMMA NewRowKeepsMode ==
  ASSUME ModeConsistent, NEW o \in Ops, NEW t \in Types, NEW s \in Resting,
         ModeCreate(o, t, s) \/ ModeCreateFails(o, t, s)
  PROVE  ModeConsistent'
<1>1. /\ NewRow(o, t, s) /\ starting' \in {starting, starting \cup {o}}
      /\ StartAllowed(t) /\ UNCHANGED <<mode, version, switch>>
      /\ snapshot' \in {snapshot, [snapshot EXCEPT ![o] = Now]}
  BY DEF ModeCreate, ModeCreateFails, Create, modeVars
<1>2. Consistent /\ ModeTypeOK /\ TypeOK
  BY DEF ModeConsistent, Consistent
<1>3. Consistent'
  BY <1>1, <1>2, NewRowConsistent
<1>4. /\ status[o] = NoStatus /\ s # NoStatus /\ phase' = phase
      /\ status' = [status EXCEPT ![o] = s] /\ type' = [type EXCEPT ![o] = t]
  BY <1>1 DEF NewRow, Resting, NoStatus
<1>5. Now' = Now /\ Now \in Snapshots
  BY <1>1, <1>2, NowFacts DEF Now
<1>6. ModeTypeOK'
  BY <1>1, <1>2, <1>5 DEF ModeTypeOK
<1>7. snapshot[o] = NoSnapshot /\ snapshot'[o] \in {NoSnapshot, Now}
      /\ \A oo \in Ops : oo # o => snapshot'[oo] = snapshot[oo]
  BY <1>1, <1>2, <1>4 DEF ModeConsistent, BlankRows, ModeTypeOK
<1>8. \A n \in Claims : ~LiveTask(o, n)
  BY <1>2, <1>4 DEF Consistent, NothingWithoutRow
<1>9. BlankRows'
  BY <1>2, <1>4, <1>7 DEF ModeConsistent, BlankRows, TypeOK
<1>10. UnfinishedInPresentMode'
  BY <1>2, <1>4, <1>5, <1>7 DEF ModeConsistent, UnfinishedInPresentMode, Blocking, TypeOK
<1>11. WorkerRunsInItsMode'
  BY <1>1, <1>2, <1>4, <1>5, <1>7, <1>8
     DEF ModeConsistent, WorkerRunsInItsMode, LiveTask, Blocking, TypeOK
<1>12. SwitchReaches'
  BY <1>1 DEF ModeConsistent, SwitchReaches, StartAllowed
<1> QED
  BY <1>3, <1>6, <1>9, <1>10, <1>11, <1>12 DEF ModeConsistent

\* A submit: no switch is pending, and the worker starts with the snapshot of now.
LEMMA SubmitKeepsMode ==
  ASSUME ModeConsistent, NEW o \in Ops, ModeSubmit(o)
  PROVE  ModeConsistent'
<1>1. Consistent /\ ModeTypeOK /\ TypeOK
  BY DEF ModeConsistent, Consistent
<1>2. Consistent'
  <2>1. Next
    BY DEF ModeSubmit, Next, Request
  <2> QED
    BY <1>1, <2>1, ConsistentStep
<1>3. /\ status' = status /\ type' = type /\ UNCHANGED <<mode, version, switch>>
      /\ ~switch.pending /\ mode = ModeOf(type[o]) /\ snapshot[o] \in {NoSnapshot, Now}
      /\ snapshot' = [snapshot EXCEPT ![o] = Now]
  BY <1>1 DEF ModeSubmit, Submit, StartAllowed, Compatible, ModeTypeOK
<1>4. Now' = Now /\ Now \in Snapshots
  BY <1>1, <1>3, NowFacts DEF Now
<1>5. ModeTypeOK'
  BY <1>1, <1>3, <1>4 DEF ModeTypeOK
<1>6. status[o] # NoStatus
  BY <1>1 DEF ModeSubmit, Submit, Consistent, NothingWithoutRow, NoStatus
<1>7. BlankRows'
  BY <1>1, <1>3, <1>6 DEF ModeConsistent, BlankRows, ModeTypeOK
<1>8. UnfinishedInPresentMode'
  BY <1>1, <1>3, <1>4 DEF ModeConsistent, UnfinishedInPresentMode, Blocking, ModeTypeOK
<1>9. \A oo \in Ops, n \in Claims : LiveTask(oo, n)' /\ oo # o => LiveTask(oo, n)
  BY <1>1 DEF ModeSubmit, Submit, Goes, LiveTask, TypeOK
<1>10. WorkerRunsInItsMode'
  BY <1>1, <1>3, <1>4, <1>9 DEF ModeConsistent, WorkerRunsInItsMode, Blocking, ModeTypeOK
<1>11. SwitchReaches'
  BY <1>3 DEF ModeConsistent, SwitchReaches
<1> QED
  BY <1>2, <1>5, <1>7, <1>8, <1>10, <1>11 DEF ModeConsistent

\* The commit of a snapshot by a submit that is refused afterwards.
LEMMA SubmitFailsKeepsMode ==
  ASSUME ModeConsistent, NEW o \in Ops, ModeSubmitFails(o)
  PROVE  ModeConsistent'
<1>1. Consistent /\ ModeTypeOK
  BY DEF ModeConsistent
<1>2. /\ UNCHANGED <<vars, mode, version, switch>> /\ status[o] = "READY"
      /\ snapshot[o] = NoSnapshot /\ snapshot' = [snapshot EXCEPT ![o] = Now]
  BY DEF ModeSubmitFails
<1>3. Consistent'
  BY <1>1, <1>2, ConsistentStep
<1>4. Now' = Now /\ Now \in Snapshots /\ Now # NoSnapshot
  BY <1>1, <1>2, NowFacts DEF Now
<1>5. ModeTypeOK'
  BY <1>1, <1>2, <1>4 DEF ModeTypeOK
<1>6. BlankRows'
  BY <1>1, <1>2 DEF vars, rows, ModeConsistent, BlankRows, ModeTypeOK, NoStatus
<1>7. UnfinishedInPresentMode'
  BY <1>1, <1>2, <1>4
     DEF vars, rows, ModeConsistent, UnfinishedInPresentMode, Blocking, ModeTypeOK
<1>8. WorkerRunsInItsMode'
  BY <1>1, <1>2, <1>4 DEF vars, rows, memory, ModeConsistent, WorkerRunsInItsMode,
                         LiveTask, Blocking, ModeTypeOK
<1>9. SwitchReaches'
  BY <1>2 DEF vars, rows, memory, ModeConsistent, SwitchReaches, LiveTask, Blocking
<1> QED
  BY <1>3, <1>5, <1>6, <1>7, <1>8, <1>9 DEF ModeConsistent

\* A step of the manager that neither creates nor submits, next to a switch that stays as
\* it is, that one blocker leaves for the task to await, or that goes with the process.
LEMMA ManagerKeepsMode ==
  ASSUME ModeConsistent, UNCHANGED <<mode, version, snapshot>>,
         \/ \E o \in Ops : StartFails(o) \/ Cancel(o)
         \/ \E o \in Ops, n \in Claims : TaskStep(o, n)
         \/ ProcessStep
  PROVE  /\ Consistent' /\ BlankRows' /\ UnfinishedInPresentMode' /\ WorkerRunsInItsMode'
         /\ \A o \in Ops : /\ Blocking(o)' => Blocking(o)
                           /\ Blocking(o)' /\ cancelRequested[o] => cancelRequested'[o]
         /\ \A o \in Ops, n \in Claims : LiveTask(o, n)' => LiveTask(o, n)
<1>1. Consistent /\ BlankRows
  BY DEF ModeConsistent
<1>2. Next
  BY DEF Next, Request
<1>3. Lifecycle!Next
  BY <1>1, <1>2, LifecycleRequest, LifecycleTask, LifecycleProcess
     DEF Next, Consistent, Owned, Rowed
<1>4. Consistent'
  BY <1>1, <1>2, ConsistentStep
<1>5. type' = type /\ \A o \in Ops, n \in Claims : LiveTask(o, n)' => LiveTask(o, n)
  BY <1>1, QuietFrame DEF Consistent
<1>6. \A o \in Ops : /\ status'[o] = NoStatus => status[o] = NoStatus
                     /\ Blocking(o)' => Blocking(o)
                     /\ Blocking(o)' /\ cancelRequested[o] => cancelRequested'[o]
  BY <1>1, <1>3, <1>5, RowsGoOn
<1>7. BlankRows'
  BY <1>1, <1>5, <1>6 DEF BlankRows
<1>8. UnfinishedInPresentMode' /\ WorkerRunsInItsMode'
  BY <1>5, <1>6 DEF ModeConsistent, UnfinishedInPresentMode, WorkerRunsInItsMode, Now
<1> QED
  BY <1>4, <1>5, <1>6, <1>7, <1>8

\* A failed start or a cancellation of somebody else, and a step of a task.
LEMMA OthersKeepMode ==
  ASSUME ModeConsistent, UNCHANGED modeVars,
         \/ \E o \in Ops : StartFails(o) \/ Cancel(o)
         \/ \E o \in Ops, n \in Claims : TaskStep(o, n)
  PROVE  ModeConsistent'
<1>1. /\ Consistent' /\ BlankRows' /\ UnfinishedInPresentMode' /\ WorkerRunsInItsMode'
      /\ \A o \in Ops : /\ Blocking(o)' => Blocking(o)
                        /\ Blocking(o)' /\ cancelRequested[o] => cancelRequested'[o]
      /\ \A o \in Ops, n \in Claims : LiveTask(o, n)' => LiveTask(o, n)
  BY ManagerKeepsMode DEF modeVars
<1>2. process' = process
  <2>1. ASSUME NEW o \in Ops, NEW n \in Claims, TaskStep(o, n)
        PROVE  process' = process
    BY <2>1, TaskFrame DEF ModeConsistent, Consistent
  <2> QED
    BY <2>1 DEF StartFails, Cancel
<1>3. SwitchReaches'
  BY <1>1, <1>2 DEF modeVars, ModeConsistent, SwitchReaches
<1>4. ModeTypeOK'
  BY DEF modeVars, ModeConsistent, ModeTypeOK
<1> QED
  BY <1>1, <1>3, <1>4 DEF ModeConsistent

\* The reservation goes with the process, and the process does not stop next to one.
LEMMA ProcessKeepsMode ==
  ASSUME ModeConsistent, ModeProcessStep
  PROVE  ModeConsistent'
<1>1. /\ ProcessStep /\ UNCHANGED <<mode, version, snapshot>>
      /\ switch' = IF process' = "down" THEN NoSwitch ELSE switch
      /\ ShutdownBegins => ~switch.pending
  BY DEF ModeProcessStep
<1>2. /\ Consistent' /\ BlankRows' /\ UnfinishedInPresentMode' /\ WorkerRunsInItsMode'
  BY <1>1, ManagerKeepsMode
<1>3. ModeTypeOK'
  BY <1>1 DEF ModeConsistent, ModeTypeOK, NoSwitch
<1>4. SwitchReaches'
  <2>1. CASE process' = "down"
    BY <1>1, <2>1 DEF NoSwitch, SwitchReaches
  <2>2. CASE ShutdownBegins \/ Startup
    <3>1. ~switch.pending
      BY <1>1, <2>2 DEF Startup, ModeConsistent, SwitchReaches
    <3>2. switch' \in {switch, NoSwitch}
      BY <1>1
    <3> QED
      BY <3>1, <3>2 DEF NoSwitch, ModeConsistent, SwitchReaches
  <2> QED
    BY <1>1, <2>1, <2>2
       DEF ProcessStep, ShutdownEnds, Crash, CrashInEnd, CrashInCancel, Lost
<1> QED
  BY <1>2, <1>3, <1>4 DEF ModeConsistent

\* The cancellation of one blocker: a live worker of it is the registered one, which the
\* handler awaits.
LEMMA CancelKeepsMode ==
  ASSUME ModeConsistent, NEW o \in Ops, SwitchCancels(o)
  PROVE  ModeConsistent'
<1>1. /\ Cancel(o) /\ UNCHANGED <<mode, version, snapshot>>
      /\ switch.pending /\ switch.awaited = {} /\ process' = "up"
  BY DEF SwitchCancels, Switching, Cancel
<1>2. /\ Consistent' /\ BlankRows' /\ UnfinishedInPresentMode' /\ WorkerRunsInItsMode'
      /\ \A oo \in Ops : /\ Blocking(oo)' => Blocking(oo)
                         /\ Blocking(oo)' /\ cancelRequested[oo] => cancelRequested'[oo]
      /\ \A oo \in Ops, n \in Claims : LiveTask(oo, n)' => LiveTask(oo, n)
  BY <1>1, ManagerKeepsMode
<1>3. TypeOK /\ LiveTaskIsRegistered /\ ModeTypeOK
  BY DEF ModeConsistent, Consistent
<1>4. HasLiveTask(o) => tasks[o] \in Claims
  BY <1>3 DEF HasLiveTask, TypeOK
<1>5. /\ switch'.pending /\ switch'.left = switch.left \ {o}
      /\ switch'.awaited = IF HasLiveTask(o) THEN {<<o, tasks[o]>>} ELSE {}
      /\ switch' \in [pending: BOOLEAN, left: SUBSET Ops, awaited: SUBSET (Ops \X Claims)]
  <2> DEFINE awaited == IF HasLiveTask(o) THEN {<<o, tasks[o]>>} ELSE {}
  <2>1. awaited \in SUBSET (Ops \X Claims)
    BY <1>4
  <2>2. switch' = [switch EXCEPT !.left = @ \ {o}, !.awaited = awaited]
    BY DEF SwitchCancels
  <2>3. switch \in [pending: BOOLEAN, left: SUBSET Ops, awaited: SUBSET (Ops \X Claims)]
    BY <1>3 DEF ModeTypeOK
  <2> HIDE DEF awaited
  <2>4. /\ switch'.pending = switch.pending /\ switch'.left = switch.left \ {o}
        /\ switch'.awaited = awaited
        /\ switch' \in [pending: BOOLEAN, left: SUBSET Ops, awaited: SUBSET (Ops \X Claims)]
    BY <2>1, <2>2, <2>3
  <2> QED
    BY <1>1, <2>4 DEF awaited
<1>6. ModeTypeOK'
  BY <1>1, <1>3, <1>5 DEF ModeTypeOK
<1>7. \A n \in Claims : LiveTask(o, n) => HasLiveTask(o) /\ tasks[o] = n
  BY <1>3, SizesAssumption DEF LiveTaskIsRegistered, HasLiveTask, Claims
<1>8. Blocking(o)' => cancelRequested'[o]
  <2>1. Blocking(o)' => Blocking(o)
    BY <1>2
  <2> QED
    BY <1>1, <1>3, <2>1 DEF Cancel, RequestCancel, Blocking, TypeOK
<1>9. SwitchReaches'
  <2>1. SUFFICES ASSUME NEW oo \in Ops, Blocking(oo)', oo \notin switch'.left
                 PROVE  /\ cancelRequested'[oo]
                        /\ \A n \in Claims : LiveTask(oo, n)' => <<oo, n>> \in switch'.awaited
    <3>1. version' < MaxVersion
      BY <1>1 DEF ModeConsistent, SwitchReaches
    <3> QED
      BY <1>1, <1>5, <3>1 DEF SwitchReaches
  <2>2. CASE oo = o
    BY <1>2, <1>5, <1>7, <1>8, <2>1, <2>2
  <2>3. CASE oo # o
    <3>1. oo \notin switch.left /\ Blocking(oo)
      BY <1>2, <1>5, <2>1, <2>3
    <3>2. cancelRequested[oo] /\ \A n \in Claims : ~LiveTask(oo, n)
      BY <1>1, <3>1 DEF ModeConsistent, SwitchReaches
    <3> QED
      BY <1>2, <2>1, <3>2
  <2> QED
    BY <2>2, <2>3
<1> QED
  BY <1>2, <1>6, <1>9 DEF ModeConsistent

\* The other steps of the switch; the new mode is written when nothing is unfinished.
LEMMA SwitchKeepsMode ==
  ASSUME ModeConsistent, BeginSwitch \/ SwitchResumes \/ CompleteSwitch \/ AbortSwitch
  PROVE  ModeConsistent'
<1> USE DEF vars, rows, memory
<1>1. UNCHANGED <<vars, snapshot>>
  BY DEF BeginSwitch, SwitchResumes, CompleteSwitch, AbortSwitch
<1>2. Consistent'
  BY <1>1, ConsistentStep DEF ModeConsistent
<1>3. BlankRows'
  BY <1>1 DEF ModeConsistent, BlankRows
<1>4. ModeTypeOK
  BY DEF ModeConsistent
<1>5. CASE BeginSwitch
  <2>1. ModeTypeOK'
    BY <1>1, <1>4, <1>5 DEF BeginSwitch, ModeTypeOK
  <2>2. UnfinishedInPresentMode' /\ WorkerRunsInItsMode'
    BY <1>1, <1>5 DEF BeginSwitch, ModeConsistent, UnfinishedInPresentMode,
                      WorkerRunsInItsMode, Blocking, LiveTask, Now
  <2>3. SwitchReaches'
    BY <1>1, <1>5 DEF BeginSwitch, SwitchReaches, Blocking
  <2> QED
    BY <1>2, <1>3, <2>1, <2>2, <2>3 DEF ModeConsistent
<1>6. CASE SwitchResumes
  <2>0. /\ switch'.pending = switch.pending /\ switch'.left = switch.left
        /\ switch'.awaited = {} /\ UNCHANGED <<mode, version>>
        /\ switch' \in [pending: BOOLEAN, left: SUBSET Ops, awaited: SUBSET (Ops \X Claims)]
    BY <1>4, <1>6 DEF SwitchResumes, ModeTypeOK
  <2>1. ModeTypeOK'
    BY <1>1, <1>4, <2>0 DEF ModeTypeOK
  <2>2. UnfinishedInPresentMode' /\ WorkerRunsInItsMode'
    BY <1>1, <2>0 DEF ModeConsistent, UnfinishedInPresentMode, WorkerRunsInItsMode,
                      Blocking, LiveTask, Now
  <2>3. \A c \in switch.awaited : ~LiveTask(c[1], c[2])
    BY <1>6 DEF SwitchResumes, ModeConsistent, SwitchReaches
  <2>4. \A o \in Ops, n \in Claims : <<o, n>> \in switch.awaited => ~LiveTask(o, n)
    BY <2>3
  <2>5. SwitchReaches'
    BY <1>1, <2>0, <2>4 DEF ModeConsistent, SwitchReaches, Blocking, LiveTask
  <2> QED
    BY <1>2, <1>3, <2>1, <2>2, <2>5 DEF ModeConsistent
<1>7. CASE CompleteSwitch
  <2>1. \A o \in Ops : ~Blocking(o)'
    BY <1>1, <1>7 DEF CompleteSwitch, SomebodyLeft, Blocking
  <2>2. ModeTypeOK'
    <3>1. version < MaxVersion
      BY <1>7 DEF CompleteSwitch, Switching, ModeConsistent, SwitchReaches
    <3> QED
      BY <1>1, <1>4, <1>7, <3>1, VersionAssumption
         DEF CompleteSwitch, ModeTypeOK, Other, Modes, NoSwitch
  <2>3. UnfinishedInPresentMode' /\ WorkerRunsInItsMode'
    BY <2>1 DEF UnfinishedInPresentMode, WorkerRunsInItsMode
  <2>4. SwitchReaches'
    BY <1>7 DEF CompleteSwitch, NoSwitch, SwitchReaches
  <2> QED
    BY <1>2, <1>3, <2>2, <2>3, <2>4 DEF ModeConsistent
<1>8. CASE AbortSwitch
  <2>1. ModeTypeOK'
    BY <1>1, <1>4, <1>8 DEF AbortSwitch, ModeTypeOK, NoSwitch
  <2>2. UnfinishedInPresentMode' /\ WorkerRunsInItsMode'
    BY <1>1, <1>8 DEF AbortSwitch, ModeConsistent, UnfinishedInPresentMode,
                      WorkerRunsInItsMode, Blocking, LiveTask, Now
  <2>3. SwitchReaches'
    BY <1>8 DEF AbortSwitch, NoSwitch, SwitchReaches
  <2> QED
    BY <1>2, <1>3, <2>1, <2>2, <2>3 DEF ModeConsistent
<1> QED
  BY <1>5, <1>6, <1>7, <1>8

\* Every step keeps the invariant.
LEMMA ModeConsistentStep ==
  ASSUME ModeConsistent, [ModeNext]_allVars
  PROVE  ModeConsistent'
<1>1. CASE UNCHANGED allVars
  <2>1. Consistent'
    BY <1>1, ConsistentStep DEF allVars, ModeConsistent
  <2> QED
    BY <1>1, <2>1 DEF allVars, modeVars, vars, rows, memory, ModeConsistent, ModeTypeOK,
       BlankRows, UnfinishedInPresentMode, WorkerRunsInItsMode, SwitchReaches, Blocking,
       LiveTask, Now
<1>2. ASSUME NEW o \in Ops, ModeRequest(o)
      PROVE  ModeConsistent'
  BY <1>2, NewRowKeepsMode, SubmitKeepsMode, SubmitFailsKeepsMode, OthersKeepMode,
     CancelKeepsMode DEF ModeRequest
<1>3. ASSUME NEW o \in Ops, NEW n \in Claims, TaskStep(o, n), UNCHANGED modeVars
      PROVE  ModeConsistent'
  BY <1>3, OthersKeepMode
<1> QED
  BY <1>1, <1>2, <1>3, ProcessKeepsMode, SwitchKeepsMode DEF ModeNext

-------------------------------------------------------------------------------
\* The manager stays consistent next to switches, and the snapshots next to it.
THEOREM AlwaysModeConsistent == ModeSpec => []ModeConsistent
BY ModeConsistentInit, ModeConsistentStep, PTL DEF ModeSpec

\* No switch of the mode (api/runtime.py) leaves an unfinished operation of an earlier
\* stay behind.
THEOREM PresentModeHolds == ModeSpec => []UnfinishedInPresentMode
BY AlwaysModeConsistent, PTL DEF ModeConsistent

\* A worker never runs in the wrong mode or under an old snapshot
\* (correlated_operation_manager.py).
THEOREM WorkerModeHolds == ModeSpec => []WorkerRunsInItsMode
BY AlwaysModeConsistent, PTL DEF ModeConsistent

\* What a switch has not ended was asked to stop and has no worker (complete_switch).
THEOREM LeftOverHolds == ModeSpec => []LeftOverIsStuck
<1>1. ModeConsistent => LeftOverIsStuck
  BY DEF ModeConsistent, SwitchReaches, LeftOverIsStuck, Switching
<1> QED
  BY <1>1, AlwaysModeConsistent, PTL

-------------------------------------------------------------------------------
(***************************************************************************)
(* Retries                                                                 *)
(***************************************************************************)

\* What of the manager survives a handler that marks a row FAILED whatever its worker
\* does: the claims and the rows, not that artifacts are settled with their operation.
Core == TypeOK /\ Owned /\ Rowed

\* The inductive invariant next to retries.
RetryKept ==
  /\ Core
  /\ DOMAIN snapshot = Ops
  /\ BlankRows
  /\ \A o \in Ops : status[o] = NoStatus => o \notin preparing
  /\ WorkerRunsInItsMode

\* Every step of the manager keeps its core.
LEMMA CoreStep ==
  ASSUME Core, Next \/ UNCHANGED vars
  PROVE  Core' /\ (Next => Lifecycle!Next)
<1>1. CASE Next
  <2>1. Lifecycle!Next
    BY <1>1, LifecycleRequest, LifecycleTask, LifecycleProcess DEF Next, Core
  <2>2. TypeOK'
    BY <1>1, TypeRequest, TypeTask, TypeProcess DEF Next, Core
  <2>3. Owned'
    BY <1>1, OwnedRequest, OwnedTask, OwnedProcess DEF Next, Core
  <2>4. NothingWithoutRow'
    BY <1>1, <2>1, NothingWithoutRowStep DEF Core
  <2>5. StatusOfType'
    BY <2>1, StatusOfTypeStep DEF Core, Rowed
  <2>6. CancelIsRequested'
    BY <1>1, <2>1, CancelIsRequestedStep DEF Core
  <2> QED BY <2>1, <2>2, <2>3, <2>4, <2>5, <2>6 DEF Core, Rowed
<1>2. CASE UNCHANGED vars /\ ~Next
  BY <1>2 DEF vars, rows, memory, Core, Owned, Rowed, TypeOK, WorkerOwnsOperation,
     LiveTaskIsRegistered, DownIsEmpty, NothingWithoutRow, StatusOfType, CancelIsRequested,
     LiveTask
<1> QED BY <1>1, <1>2

\* A row that appears, with no work done on it.
LEMMA RowAppears ==
  ASSUME RetryKept, NEW o \in Ops, NEW t \in Types, NEW s \in Statuses,
         NEW a \in ArtifactStatuses \cup {NoStatus},
         s \in Terminal \cup DOMAIN Transitions(t),
         process = "up", status[o] = NoStatus,
         type' = [type EXCEPT ![o] = t], status' = [status EXCEPT ![o] = s],
         artifacts' = [artifacts EXCEPT ![o] = [r \in Artifacts |-> a]],
         starting' \in {starting, starting \cup {o}},
         UNCHANGED <<process, token, cancelRequested, counts, workspace, claims, tasks, phase,
                     cancelPending, mode, version>>,
         DOMAIN snapshot' = Ops,
         \A oo \in Ops : oo # o => snapshot'[oo] = snapshot[oo],
         \A oo \in Ops : oo # o => (oo \in preparing' => oo \in preparing)
  PROVE  RetryKept'
<1>1. Core /\ TypeOK /\ s # NoStatus
  BY DEF RetryKept, Core, Statuses, Resting, Executing, Terminal, NoStatus
<1>2. TypeOK'
  <2>1. [r \in Artifacts |-> a] \in [Artifacts -> ArtifactStatuses \cup {NoStatus}]
    OBVIOUS
  <2> QED BY <1>1, <2>1 DEF TypeOK
<1>3. /\ status'[o] = s /\ type'[o] = t
      /\ \A oo \in Ops : oo # o =>
           status'[oo] = status[oo] /\ type'[oo] = type[oo] /\ artifacts'[oo] = artifacts[oo]
      /\ \A oo \in Ops, n \in Claims : LiveTask(oo, n)' = LiveTask(oo, n)
      /\ \A n \in Claims : ~LiveTask(o, n)
  BY <1>1 DEF TypeOK, LiveTask, Core, Rowed, NothingWithoutRow
<1>4. Owned'
  BY <1>1, <1>3 DEF Core, Owned, WorkerOwnsOperation, LiveTaskIsRegistered, DownIsEmpty
<1>5. NothingWithoutRow'
  BY <1>1, <1>3 DEF Core, Rowed, NothingWithoutRow
<1>6. StatusOfType'
  BY <1>1, <1>3 DEF Core, Rowed, StatusOfType
<1>7. CancelIsRequested'
  <2>1. \A n \in Claims : ~cancelPending[o][n] /\ phase[o][n] # "unwinding"
    BY <1>1, <1>3 DEF Core, Rowed, CancelIsRequested, LiveTask, Live, InBody
  <2> QED BY <1>1, <1>3, <2>1 DEF Core, Rowed, CancelIsRequested
<1>8. BlankRows'
  BY <1>1, <1>3 DEF RetryKept, BlankRows
<1>9. WorkerRunsInItsMode'
  BY <1>3 DEF RetryKept, WorkerRunsInItsMode, Blocking, Now
<1>10. \A oo \in Ops : status'[oo] = NoStatus => oo \notin preparing'
  BY <1>1, <1>3 DEF RetryKept
<1> QED BY <1>2, <1>4, <1>5, <1>6, <1>7, <1>8, <1>9, <1>10 DEF RetryKept, Core, Rowed

\* A row of the portal, with a snapshot or without.
LEMMA NewRowKeepsRetries ==
  ASSUME RetryKept, NEW o \in Ops, NEW t \in Types, NEW s \in Resting,
         ModeCreate(o, t, s) \/ ModeCreateFails(o, t, s), preparing' \subseteq preparing
  PROVE  RetryKept'
<1>1. /\ NewRow(o, t, s) /\ starting' \in {starting, starting \cup {o}}
      /\ UNCHANGED <<mode, version>>
      /\ snapshot' \in {snapshot, [snapshot EXCEPT ![o] = Now]}
  BY DEF ModeCreate, ModeCreateFails, Create, modeVars
<1>2. s \in Statuses /\ s \in DOMAIN Transitions(t)
  BY <1>1 DEF NewRow, InitialStatuses, Types, Transitions, ExportTransitions,
     ImportTransitions, Statuses, Resting
<1> DEFINE a == IF t = "EXPORT" THEN "PENDING" ELSE NoStatus
<1>3. a \in ArtifactStatuses \cup {NoStatus}
  BY DEF ArtifactStatuses
<1>4. /\ process = "up" /\ status[o] = NoStatus
      /\ type' = [type EXCEPT ![o] = t] /\ status' = [status EXCEPT ![o] = s]
      /\ artifacts' = [artifacts EXCEPT ![o] = [r \in Artifacts |-> a]]
      /\ UNCHANGED <<process, token, cancelRequested, counts, workspace, claims, tasks, phase,
                     cancelPending>>
  BY <1>1 DEF NewRow
<1>5. DOMAIN snapshot' = Ops /\ \A oo \in Ops : oo # o => snapshot'[oo] = snapshot[oo]
  BY <1>1 DEF RetryKept
<1> HIDE DEF a
<1> QED BY <1>1, <1>2, <1>3, <1>4, <1>5, RowAppears

\* The row of a retry, with the snapshot of its original, however old.
LEMMA RetryRowKeeps ==
  ASSUME RetryKept, NEW o \in Ops, NEW original \in Ops,
         RetryCreates(o, original) \/ RetryRefused(o, original)
  PROVE  RetryKept'
<1>1. PICK s \in {"READY", "FAILED"} : RetryRow(o, original, s)
  BY DEF RetryCreates, RetryRefused
<1>2. preparing' \subseteq preparing \cup {o}
  BY DEF RetryCreates, RetryRefused, retryVars
<1>3. /\ s \in Statuses /\ s \in Terminal \cup DOMAIN Transitions("IMPORT")
      /\ "IMPORT" \in Types /\ "PENDING" \in ArtifactStatuses
  BY DEF Statuses, Resting, Terminal, Transitions, ImportTransitions, Types, ArtifactStatuses
<1>4. /\ process = "up" /\ status[o] = NoStatus
      /\ type' = [type EXCEPT ![o] = "IMPORT"] /\ status' = [status EXCEPT ![o] = s]
      /\ artifacts' = [artifacts EXCEPT ![o] = [r \in Artifacts |-> "PENDING"]]
      /\ UNCHANGED <<process, token, cancelRequested, counts, workspace, claims, memory,
                     mode, version>>
      /\ snapshot' = [snapshot EXCEPT ![o] = snapshot[original]]
  BY <1>1 DEF RetryRow
<1>5. DOMAIN snapshot' = Ops /\ \A oo \in Ops : oo # o => snapshot'[oo] = snapshot[oo]
  BY <1>4 DEF RetryKept
<1>6. UNCHANGED <<starting, tasks, phase, cancelPending>>
  BY <1>4 DEF memory
<1> QED BY <1>2, <1>3, <1>4, <1>5, <1>6, RowAppears

\* The handler gives its row up, whoever works on it: a FAILED row blocks nothing.
LEMMA FailingKeepsRetries ==
  ASSUME RetryKept, NEW o \in Ops, RetryFails(o)
  PROVE  RetryKept'
<1>1. /\ status' = [status EXCEPT ![o] = "FAILED"] /\ preparing' = preparing \ {o}
      /\ o \in preparing
      /\ UNCHANGED <<process, type, token, cancelRequested, artifacts, counts, workspace,
                     claims, starting, tasks, phase, cancelPending, mode, version, snapshot>>
  BY DEF RetryFails, memory, modeVars
<1>2. Core /\ TypeOK /\ "FAILED" \in Statuses /\ "FAILED" \in Terminal /\ NoStatus # "FAILED"
  BY DEF RetryKept, Core, Statuses, Terminal, NoStatus
<1>3. /\ status[o] # NoStatus /\ status'[o] = "FAILED"
      /\ \A oo \in Ops : oo # o => status'[oo] = status[oo]
      /\ \A oo \in Ops, n \in Claims : LiveTask(oo, n)' = LiveTask(oo, n)
  BY <1>1, <1>2 DEF RetryKept, TypeOK, LiveTask
<1>4. TypeOK'
  BY <1>1, <1>2 DEF TypeOK
<1>5. Owned'
  BY <1>1, <1>2, <1>3 DEF Core, Owned, WorkerOwnsOperation, LiveTaskIsRegistered, DownIsEmpty
<1>6. Rowed'
  BY <1>1, <1>2, <1>3 DEF Core, Rowed, NothingWithoutRow, StatusOfType, CancelIsRequested
<1>7. BlankRows'
  BY <1>1, <1>2, <1>3 DEF RetryKept, BlankRows
<1>8. WorkerRunsInItsMode'
  BY <1>1, <1>2, <1>3 DEF RetryKept, WorkerRunsInItsMode, Blocking, Now
<1> QED BY <1>1, <1>2, <1>3, <1>4, <1>5, <1>6, <1>7, <1>8 DEF RetryKept, Core

\* A submit, which is refused a snapshot that is not of now.
LEMMA SubmitKeepsRetries ==
  ASSUME RetryKept, NEW o \in Ops, ModeSubmit(o), preparing' = preparing
  PROVE  RetryKept'
<1>1. Core'
  <2>1. Next
    BY DEF ModeSubmit, Next, Request
  <2> QED BY <2>1, CoreStep DEF RetryKept
<1>2. /\ status' = status /\ type' = type /\ UNCHANGED <<mode, version>>
      /\ mode = ModeOf(type[o]) /\ snapshot'[o] = Now /\ DOMAIN snapshot' = Ops
      /\ \A oo \in Ops : oo # o => snapshot'[oo] = snapshot[oo]
  BY DEF ModeSubmit, Submit, StartAllowed, Compatible, RetryKept
<1>3. TypeOK /\ status[o] # NoStatus
  BY DEF ModeSubmit, Submit, RetryKept, Core, Rowed, NothingWithoutRow, NoStatus
<1>4. \A oo \in Ops, n \in Claims : LiveTask(oo, n)' /\ oo # o => LiveTask(oo, n)
  BY <1>3 DEF ModeSubmit, Submit, Goes, LiveTask, TypeOK
<1>5. BlankRows'
  BY <1>2, <1>3 DEF RetryKept, BlankRows
<1>6. WorkerRunsInItsMode'
  BY <1>2, <1>4 DEF RetryKept, WorkerRunsInItsMode, Blocking, Now
<1> QED BY <1>1, <1>2, <1>5, <1>6 DEF RetryKept

\* Rows, workers, mode and snapshots stay, or a missing snapshot is committed.
LEMMA StayingKeepsRetries ==
  ASSUME RetryKept, preparing' \subseteq preparing,
         \/ UNCHANGED <<vars, mode, version, snapshot>>
         \/ \E o \in Ops : ModeSubmitFails(o)
  PROVE  RetryKept'
<1>1. UNCHANGED <<vars, mode, version>>
  BY DEF ModeSubmitFails
<1>2. Core'
  BY <1>1, CoreStep DEF RetryKept
<1>3. /\ UNCHANGED <<status, type>>
      /\ \A o \in Ops, n \in Claims : LiveTask(o, n)' = LiveTask(o, n)
  BY <1>1 DEF vars, rows, memory, LiveTask
<1>4. /\ DOMAIN snapshot' = Ops
      /\ \A o \in Ops : \/ snapshot'[o] = snapshot[o]
                        \/ status[o] # NoStatus /\ snapshot'[o] = Now
  <2>1. CASE UNCHANGED snapshot
    BY <2>1 DEF RetryKept
  <2>2. ASSUME NEW o \in Ops, ModeSubmitFails(o)
        PROVE  /\ DOMAIN snapshot' = Ops
               /\ \A oo \in Ops : \/ snapshot'[oo] = snapshot[oo]
                                  \/ status[oo] # NoStatus /\ snapshot'[oo] = Now
    BY <2>2 DEF ModeSubmitFails, RetryKept, NoStatus
  <2> QED BY <2>1, <2>2
<1>5. BlankRows'
  BY <1>3, <1>4 DEF RetryKept, BlankRows
<1>6. WorkerRunsInItsMode'
  BY <1>1, <1>3, <1>4 DEF RetryKept, WorkerRunsInItsMode, Blocking, Now
<1> QED BY <1>2, <1>3, <1>4, <1>5, <1>6 DEF RetryKept

\* The manager goes on: no worker comes to life and no row comes back.
LEMMA ManagerKeepsRetries ==
  ASSUME RetryKept, UNCHANGED <<mode, version, snapshot>>, preparing' \subseteq preparing,
         \/ \E o \in Ops : StartFails(o) \/ Cancel(o)
         \/ \E o \in Ops, n \in Claims : TaskStep(o, n)
         \/ ProcessStep
  PROVE  RetryKept'
<1>1. Next
  BY DEF Next, Request
<1>2. Core' /\ Lifecycle!Next
  BY <1>1, CoreStep DEF RetryKept
<1>3. type' = type /\ \A o \in Ops, n \in Claims : LiveTask(o, n)' => LiveTask(o, n)
  BY QuietFrame DEF RetryKept, Core
<1>4. \A o \in Ops : /\ status'[o] = NoStatus => status[o] = NoStatus
                     /\ Blocking(o)' => Blocking(o)
  BY <1>2, <1>3, RowsGoOn DEF RetryKept
<1>5. BlankRows'
  BY <1>3, <1>4 DEF RetryKept, BlankRows
<1>6. WorkerRunsInItsMode'
  BY <1>3, <1>4 DEF RetryKept, WorkerRunsInItsMode, Now
<1> QED BY <1>2, <1>4, <1>5, <1>6 DEF RetryKept

\* The mode changes when no row is unfinished; a worker of a row that a handler has marked
\* FAILED may still be there.
LEMMA CompletionKeepsRetries ==
  ASSUME RetryKept, CompleteSwitch, preparing' \subseteq preparing
  PROVE  RetryKept'
<1>1. UNCHANGED <<vars, snapshot>> /\ \A o \in Ops : ~Blocking(o)
  BY DEF CompleteSwitch, SomebodyLeft
<1>2. Core'
  BY <1>1, CoreStep DEF RetryKept
<1>3. UNCHANGED <<status, type>>
  BY <1>1 DEF vars, rows
<1>4. WorkerRunsInItsMode'
  BY <1>1, <1>3 DEF WorkerRunsInItsMode, Blocking
<1> QED BY <1>1, <1>2, <1>3, <1>4 DEF RetryKept, BlankRows

\* The portal starts without retries.
LEMMA RetryInitKept == RetryInit => RetryKept
<1> SUFFICES ASSUME RetryInit PROVE RetryKept
  OBVIOUS
<1>1. ModeConsistent /\ preparing = {}
  BY ModeConsistentInit DEF RetryInit
<1>2. DOMAIN snapshot = Ops
  BY DEF RetryInit, ModeInit
<1> QED BY <1>1, <1>2 DEF ModeConsistent, Consistent, RetryKept, Core, Owned, Rowed

\* Every other step of the portal.
LEMMA PortalKeepsRetries ==
  ASSUME RetryKept, PortalStep
  PROVE  RetryKept'
<1>1. preparing' \subseteq preparing
  BY DEF PortalStep
<1>2. ASSUME NEW o \in Ops, NEW t \in Types, NEW s \in Resting,
             ModeCreate(o, t, s) \/ ModeCreateFails(o, t, s)
      PROVE  RetryKept'
  BY <1>1, <1>2, NewRowKeepsRetries
<1>3. ASSUME NEW o \in Ops, ModeSubmitFails(o) PROVE RetryKept'
  BY <1>1, <1>3, StayingKeepsRetries
<1>4. ASSUME NEW o \in Ops, SwitchCancels(o) PROVE RetryKept'
  <2>1. Cancel(o) /\ UNCHANGED <<mode, version, snapshot>>
    BY <1>4 DEF SwitchCancels
  <2> QED BY <1>1, <2>1, ManagerKeepsRetries
<1>5. ASSUME NEW o \in Ops, (StartFails(o) \/ Cancel(o)) /\ UNCHANGED modeVars PROVE RetryKept'
  BY <1>1, <1>5, ManagerKeepsRetries DEF modeVars
<1>6. ASSUME NEW o \in Ops, NEW n \in Claims, TaskStep(o, n) /\ UNCHANGED modeVars
      PROVE  RetryKept'
  BY <1>1, <1>6, ManagerKeepsRetries DEF modeVars
<1>7. CASE ModeProcessStep
  BY <1>1, <1>7, ManagerKeepsRetries DEF ModeProcessStep
<1>8. CASE BeginSwitch \/ SwitchResumes \/ AbortSwitch
  BY <1>1, <1>8, StayingKeepsRetries DEF BeginSwitch, SwitchResumes, AbortSwitch
<1>9. CASE CompleteSwitch
  BY <1>1, <1>9, CompletionKeepsRetries
<1> QED BY <1>2, <1>3, <1>4, <1>5, <1>6, <1>7, <1>8, <1>9 DEF PortalStep

\* Every step of the handler of a retry.
LEMMA HandlerKeepsRetries ==
  ASSUME RetryKept, NEW o \in Ops,
         \/ RetryPrepared(o) \/ RetryFails(o) \/ DiesRetrying(o) \/ RetryBreaks(o)
         \/ SomebodyPlans(o) \/ RetrySubmit(o)
  PROVE  RetryKept'
<1>1. CASE RetryPrepared(o) \/ RetryBreaks(o) \/ SomebodyPlans(o)
  <2>1. UNCHANGED <<vars, mode, version, snapshot>> /\ preparing' \subseteq preparing
    BY <1>1 DEF RetryPrepared, RetryBreaks, SomebodyPlans, allVars, modeVars
  <2> QED BY <2>1, StayingKeepsRetries
<1>2. CASE RetryFails(o)
  BY <1>2, FailingKeepsRetries
<1>3. CASE DiesRetrying(o)
  BY <1>3, ManagerKeepsRetries DEF DiesRetrying, ProcessStep
<1>4. CASE RetrySubmit(o)
  BY <1>4, SubmitKeepsRetries DEF RetrySubmit, retryVars
<1> QED BY <1>1, <1>2, <1>3, <1>4

\* In every state the claims and rows hold next to retries, and no worker is out of its mode.
THEOREM AlwaysRetryKept == RetrySpec => []RetryKept
<1>1. RetryKept /\ UNCHANGED everything => RetryKept'
  BY StayingKeepsRetries DEF everything, allVars, modeVars, retryVars
<1>2. RetryKept /\ [RetryNext]_everything => RetryKept'
  BY <1>1, RetryRowKeeps, HandlerKeepsRetries, PortalKeepsRetries DEF RetryNext
<1> QED BY <1>2, RetryInitKept, PTL DEF RetrySpec

\* A worker never runs in the wrong mode or under an old snapshot, though the row of a
\* retry is made behind the back of the switch (import_retry.py).
THEOREM RetryModeHolds == RetrySpec => []WorkerRunsInItsMode
BY AlwaysRetryKept, PTL DEF RetryKept
===============================================================================
