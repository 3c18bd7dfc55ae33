------------------------ MODULE OperationManagerProofs ------------------------
(***************************************************************************)
(* Theorems about OperationManager, for every set of operations and        *)
(* artifact rows and every number of slots and claims.                     *)
(***************************************************************************)
EXTENDS OperationManager, FiniteSetTheorems, TLAPS

-------------------------------------------------------------------------------
\* Lemmas about the operators on rows.

\* Counting rows gives a natural number.
LEMMA CountIsNat ==
  ASSUME NEW a, NEW ss
  PROVE  Count(a, ss) \in Nat
<1>1. IsFiniteSet({r \in Artifacts : a[r] \in ss})
  BY FS_Subset, ArtifactsAssumption
<1> QED BY <1>1, FS_CardinalityType DEF Count

\* The census of any rows is a record of four natural numbers.
LEMMA CensusType ==
  ASSUME NEW a
  PROVE  Census(a) \in [successful: Nat, failed: Nat, skipped: Nat, conflict: Nat]
BY CountIsNat DEF Census

\* _fail_running_artifacts leaves no row running and touches no other row.
LEMMA FailRunningFacts ==
  ASSUME NEW a \in [Artifacts -> ArtifactStatuses \cup {NoStatus}]
  PROVE  /\ FailRunning(a) \in [Artifacts -> ArtifactStatuses \cup {NoStatus}]
         /\ \A r \in Artifacts : FailRunning(a)[r] # "RUNNING"
         /\ \A r \in Artifacts : a[r] # "RUNNING" => FailRunning(a)[r] = a[r]
BY DEF FailRunning, ArtifactStatuses

\* The targets of the state machine are statuses; every status that is not
\* terminal may be left for FAILED and for CANCELLED.
LEMMA MoveFacts ==
  ASSUME NEW t \in Types, NEW s \in DOMAIN Transitions(t)
  PROVE  /\ s \in Statuses \ Terminal
         /\ Transitions(t)[s] \subseteq Statuses
         /\ Stops \subseteq Transitions(t)[s]
         /\ Transitions(t)[s] \subseteq Terminal \cup DOMAIN Transitions(t)
<1>1. CASE t = "EXPORT"
  BY <1>1 DEF Transitions, ExportTransitions, Statuses, Terminal, Executing,
              Resting, Stops
<1>2. CASE t = "IMPORT"
  BY <1>2 DEF Transitions, ImportTransitions, Statuses, Terminal, Executing,
              Resting, Stops
<1> QED BY <1>1, <1>2 DEF Types

-------------------------------------------------------------------------------
\* Type correctness.

\* Mark, on a typed state and with a terminal status, keeps the rows typed.
LEMMA MarkType ==
  ASSUME TypeOK, NEW o \in Ops, NEW s \in Statuses, Mark(o, s)
  PROVE  /\ status' \in [Ops -> Statuses \cup {NoStatus}]
         /\ artifacts' \in [Ops -> [Artifacts -> ArtifactStatuses \cup {NoStatus}]]
         /\ counts' \in [Ops -> [successful: Nat, failed: Nat, skipped: Nat, conflict: Nat]]
<1>1. FailRunning(artifacts[o]) \in [Artifacts -> ArtifactStatuses \cup {NoStatus}]
  BY FailRunningFacts DEF TypeOK
<1>2. Census(FailRunning(artifacts[o]))
        \in [successful: Nat, failed: Nat, skipped: Nat, conflict: Nat]
  BY CensusType
<1> HIDE DEF FailRunning, Census
<1> QED BY <1>1, <1>2 DEF Mark, TypeOK

\* The initial state is typed.
LEMMA TypeInit == Init => TypeOK
<1>1. Census([r \in Artifacts |-> NoStatus])
        \in [successful: Nat, failed: Nat, skipped: Nat, conflict: Nat]
  BY CensusType
<1>2. {0} \subseteq Claims \cup {0} /\ "unborn" \in Phases
  BY DEF Phases
<1> QED BY <1>1, <1>2 DEF Init, InitWith, TypeOK, NoToken

\* One entry of a table by operation and claim may be overwritten.
LEMMA PendingType ==
  ASSUME NEW f \in [Ops -> [Claims -> BOOLEAN]], NEW o \in Ops, NEW n \in Claims,
         NEW b \in BOOLEAN
  PROVE  [f EXCEPT ![o][n] = b] \in [Ops -> [Claims -> BOOLEAN]]
OBVIOUS

\* Every action of the rows' requests keeps the state typed.
LEMMA TypeRequest ==
  ASSUME TypeOK, NEW o \in Ops, Request(o)
  PROVE  TypeOK'
<1>1. ASSUME NEW t \in Types, NEW s \in Resting, Create(o, t, s) PROVE TypeOK'
  <2>1. s \in Statuses /\ t \in Types
    BY DEF Statuses
  <2>2. [r \in Artifacts |-> IF t = "EXPORT" THEN "PENDING" ELSE NoStatus]
          \in [Artifacts -> ArtifactStatuses \cup {NoStatus}]
    BY DEF ArtifactStatuses
  <2> QED BY <1>1, <2>1, <2>2 DEF Create, NewRow, TypeOK
<1>2. CASE Submit(o)
  <2>1. claims[o] + 1 \in Claims
    <3>1. claims[o] \in 0..MaxClaims /\ claims[o] < MaxClaims
      BY <1>2, SizesAssumption DEF Submit, TypeOK, Claims
    <3> QED BY <3>1, SizesAssumption DEF Claims
  <2>2. "scheduled" \in Phases
    BY DEF Phases, Live
  <2> QED BY <1>2, <2>1, <2>2 DEF Submit, Goes, TypeOK, rows
<1>3. CASE StartFails(o)
  BY <1>3 DEF StartFails, TypeOK, rows
<1>4. CASE Cancel(o)
  <2>1. cancelRequested' \in [Ops -> BOOLEAN]
    BY <1>4 DEF Cancel, RequestCancel, TypeOK
  <2>2. CASE HasLiveTask(o)
    <3>1. tasks[o] \in Claims
      BY <2>2 DEF HasLiveTask, TypeOK
    <3>2. [cancelPending EXCEPT ![o][tasks[o]] = TRUE] \in [Ops -> [Claims -> BOOLEAN]]
      BY <3>1, PendingType DEF TypeOK
    <3> QED BY <1>4, <2>1, <2>2, <3>2 DEF Cancel, TypeOK
  <2>3. CASE ~HasLiveTask(o)
    BY <1>4, <2>1, <2>3, MarkType DEF Cancel, TypeOK, Statuses, Terminal
  <2> QED BY <2>2, <2>3
<1> QED BY <1>1, <1>2, <1>3, <1>4 DEF Request

\* Every end of a worker keeps the state typed.
LEMMA TypeEnds ==
  ASSUME TypeOK, NEW o \in Ops, NEW n \in Claims, NEW s \in Statuses, Ends(o, n, s)
  PROVE  TypeOK'
<1>1. phase' \in [Ops -> [Claims -> Phases]]
  BY DEF Ends, Goes, TypeOK, Phases
<1>2. cancelPending' \in [Ops -> [Claims -> BOOLEAN]]
  BY DEF Ends, TypeOK
<1>3. token' \in [Ops -> Claims \cup {NoToken}]
  BY DEF Ends, Release, TypeOK
<1>4. workspace' \subseteq Ops
  BY DEF Ends, TypeOK
<1> QED BY <1>1, <1>2, <1>3, <1>4, MarkType DEF Ends, TypeOK

\* Every step of a task keeps the state typed.
LEMMA TypeTask ==
  ASSUME TypeOK, NEW o \in Ops, NEW n \in Claims, TaskStep(o, n)
  PROVE  TypeOK'
<1> DEFINE Going(p) == phase' = [phase EXCEPT ![o][n] = p]
<1>0. \A p \in Phases : Going(p) => phase' \in [Ops -> [Claims -> Phases]]
  BY DEF TypeOK
<1>p. {"queued", "running", "unwinding", "done", "gone"} \subseteq Phases
  BY DEF Phases, Live, InBody
<1>c. [cancelPending EXCEPT ![o][n] = FALSE] \in [Ops -> [Claims -> BOOLEAN]]
  BY DEF TypeOK
<1>r. Release(o, n) => token' \in [Ops -> Claims \cup {NoToken}]
  BY DEF Release, TypeOK
<1>f. FailedAs \in Statuses /\ CancelledAs \in Statuses
  BY DEF FailedAs, CancelledAs, Statuses, Terminal
<1>1. CASE TaskStarts(o, n)
  BY <1>0, <1>p, <1>1 DEF TaskStarts, Goes, TypeOK, rows
<1>2. CASE TaskNeverStarts(o, n)
  BY <1>0, <1>p, <1>c, <1>2 DEF TaskNeverStarts, Goes, TypeOK, rows
<1>3. CASE AcquireSlot(o, n)
  BY <1>0, <1>p, <1>3 DEF AcquireSlot, Goes, TypeOK, rows
<1>4. CASE CancelUnwinds(o, n)
  BY <1>0, <1>p, <1>c, <1>4 DEF CancelUnwinds, Goes, TypeOK, rows
<1>5. ASSUME NEW s \in Statuses, WorkerMoves(o, n, s) PROVE TypeOK'
  BY <1>5 DEF WorkerMoves, TypeOK, memory
<1>6. ASSUME NEW r \in Artifacts, NEW s \in ArtifactStatuses,
             WorkerSetsArtifact(o, n, r, s)
      PROVE  TypeOK'
  <2>1. artifacts' \in [Ops -> [Artifacts -> ArtifactStatuses \cup {NoStatus}]]
    BY <1>6 DEF WorkerSetsArtifact, TypeOK
  <2>2. counts' \in [Ops -> [successful: Nat, failed: Nat, skipped: Nat, conflict: Nat]]
    BY <1>6, CensusType DEF WorkerSetsArtifact, TypeOK
  <2> QED BY <1>6, <2>1, <2>2 DEF WorkerSetsArtifact, TypeOK, memory
<1>7. CASE WorkerAddsArtifacts(o, n)
  BY <1>7 DEF WorkerAddsArtifacts, TypeOK, memory, ArtifactStatuses
<1>8. CASE WorkerTogglesWorkspace(o, n)
  BY <1>8 DEF WorkerTogglesWorkspace, TypeOK, memory, rows
<1>9. CASE WorkerReturns(o, n)
  BY <1>0, <1>p, <1>r, <1>9 DEF WorkerReturns, Goes, TypeOK
<1>10. CASE WorkerFails(o, n)
  BY <1>f, <1>10, TypeEnds DEF WorkerFails
<1>11. CASE WorkerCancelled(o, n)
  BY <1>f, <1>11, TypeEnds DEF WorkerCancelled
<1>12. CASE WorkerStopped(o, n)
  BY <1>0, <1>p, <1>c, <1>r, <1>12 DEF WorkerStopped, Goes, TypeOK
<1>13. CASE ForgetTask(o, n)
  <2>1. tasks' \in [Ops -> Claims \cup {0}]
    BY <1>13 DEF ForgetTask, TypeOK
  <2> QED BY <1>0, <1>p, <1>13, <2>1 DEF ForgetTask, Goes, TypeOK, rows
<1> QED BY <1>1, <1>2, <1>3, <1>4, <1>5, <1>6, <1>7, <1>8, <1>9, <1>10, <1>11, <1>12,
           <1>13 DEF TaskStep, WorkerStep, WorkerEnds

\* Every step of the process keeps the state typed.
LEMMA TypeProcess ==
  ASSUME TypeOK, ProcessStep
  PROVE  TypeOK'
<1>1. CASE ShutdownBegins
  BY <1>1 DEF ShutdownBegins, TypeOK, rows
<1>2. ASSUME Lost
      PROVE  /\ process' \in {"up", "stopping", "down"}
             /\ starting' \subseteq Ops
             /\ tasks' \in [Ops -> Claims \cup {0}]
             /\ phase' \in [Ops -> [Claims -> Phases]]
             /\ cancelPending' \in [Ops -> [Claims -> BOOLEAN]]
             /\ type' = type /\ claims' = claims
  BY <1>2 DEF Lost, Phases
<1>3. CASE ShutdownEnds
  BY <1>2, <1>3 DEF ShutdownEnds, TypeOK
<1>4. CASE Crash
  BY <1>2, <1>4 DEF Crash, TypeOK
<1>5. ASSUME NEW o \in Ops, NEW n \in Claims, NEW b \in BOOLEAN, CrashInEnd(o, n, b)
      PROVE  TypeOK'
  <2>1. FailedAs \in Statuses /\ CancelledAs \in Statuses
    BY DEF FailedAs, CancelledAs, Statuses, Terminal
  <2>2. PICK s \in Statuses : Mark(o, s)
    BY <1>5, <2>1 DEF CrashInEnd
  <2>3. token' \in [Ops -> Claims \cup {NoToken}]
    BY <1>5 DEF CrashInEnd, Release, TypeOK
  <2> QED BY <1>2, <1>5, <2>2, <2>3, MarkType DEF CrashInEnd, TypeOK
<1>6. ASSUME NEW o \in Ops, NEW b \in BOOLEAN, CrashInCancel(o, b)
      PROVE  TypeOK'
  <2>1. cancelRequested' \in [Ops -> BOOLEAN]
    BY <1>6 DEF CrashInCancel, RequestCancel, TypeOK
  <2>2. CASE b
    BY <1>2, <1>6, <2>1, <2>2, MarkType DEF CrashInCancel, TypeOK, Statuses, Terminal
  <2>3. CASE ~b
    BY <1>2, <1>6, <2>1, <2>3 DEF CrashInCancel, TypeOK
  <2> QED BY <2>2, <2>3
<1>7. CASE Startup
  <2>1. \A o \in Ops : ReconciledStatus(o) \in Statuses \cup {NoStatus}
    BY DEF ReconciledStatus, TypeOK, Statuses, Terminal
  <2>2. artifacts' \in [Ops -> [Artifacts -> ArtifactStatuses \cup {NoStatus}]]
    BY <1>7, FailRunningFacts DEF Startup, TypeOK
  <2>3. counts' \in [Ops -> [successful: Nat, failed: Nat, skipped: Nat, conflict: Nat]]
    BY <1>7, CensusType DEF Startup, TypeOK
  <2>4. token' \in [Ops -> Claims \cup {NoToken}]
    BY <1>7 DEF Startup, TypeOK
  <2>5. status' \in [Ops -> Statuses \cup {NoStatus}]
    BY <1>7, <2>1 DEF Startup
  <2>6. workspace' \subseteq Ops
    BY <1>7 DEF Startup, TypeOK
  <2> QED BY <1>7, <2>2, <2>3, <2>4, <2>5, <2>6 DEF Startup, TypeOK, memory
<1> QED BY <1>1, <1>3, <1>4, <1>5, <1>6, <1>7 DEF ProcessStep

\* The state is typed in every behaviour of the manager.
THEOREM TypeCorrect == Spec => []TypeOK
<1>1. Init => TypeOK
  BY TypeInit
<1>2. TypeOK /\ [Next]_vars => TypeOK'
  <2> SUFFICES ASSUME TypeOK, [Next]_vars PROVE TypeOK'
    OBVIOUS
  <2>1. CASE Next
    BY <2>1, TypeRequest, TypeTask, TypeProcess DEF Next
  <2>2. CASE UNCHANGED vars
    BY <2>2 DEF vars, rows, memory, TypeOK
  <2> QED BY <2>1, <2>2
<1> QED BY <1>1, <1>2, PTL DEF Spec

-------------------------------------------------------------------------------
\* Ownership: a live worker holds the claim and is the registered task.

Owned == WorkerOwnsOperation /\ LiveTaskIsRegistered /\ DownIsEmpty

\* Goes moves one coroutine and no other.
LEMMA GoesFacts ==
  ASSUME TypeOK, NEW o \in Ops, NEW n \in Claims, NEW p, Goes(o, n, p)
  PROVE  \A oo \in Ops, nn \in Claims :
           phase'[oo][nn] = IF oo = o /\ nn = n THEN p ELSE phase[oo][nn]
BY DEF TypeOK, Goes

\* What no step of task n of operation o does: revive a coroutine, touch
\* another task, clear a claim or an entry that is not its own, or clear its own
\* while it stays alive.
LEMMA TaskFrame ==
  ASSUME TypeOK, NEW o \in Ops, NEW n \in Claims, TaskStep(o, n)
  PROVE  /\ process' = process /\ starting' = starting
         /\ \A oo \in Ops, nn \in Claims :
              /\ LiveTask(oo, nn)' => LiveTask(oo, nn)
              /\ cancelPending'[oo][nn] => cancelPending[oo][nn]
              /\ token'[oo] # token[oo] =>
                   /\ oo = o /\ token[oo] = n /\ token'[oo] = NoToken
                   /\ ~LiveTask(o, n)'
              /\ tasks'[oo] # tasks[oo] =>
                   /\ oo = o /\ tasks[oo] = n
                   /\ ~LiveTask(o, n)'
<1>p. /\ \A p \in {"queued", "running", "unwinding"} : p \in Live
      /\ \A p \in {"done", "gone"} : p \notin Live
  BY DEF Live, InBody
<1>c. ASSUME cancelPending' = [cancelPending EXCEPT ![o][n] = FALSE],
             NEW oo \in Ops, NEW nn \in Claims, cancelPending'[oo][nn]
      PROVE  cancelPending[oo][nn]
  BY <1>c DEF TypeOK
<1>r. ASSUME Release(o, n), NEW oo \in Ops, token'[oo] # token[oo]
      PROVE  oo = o /\ token[oo] = n /\ token'[oo] = NoToken
  BY <1>r DEF Release, TypeOK
<1>1. CASE TaskStarts(o, n)
  BY <1>1, <1>p, GoesFacts DEF TaskStarts, LiveTask, rows, Live
<1>2. CASE TaskNeverStarts(o, n)
  BY <1>2, <1>p, <1>c, GoesFacts DEF TaskNeverStarts, LiveTask, rows
<1>3. CASE AcquireSlot(o, n)
  BY <1>3, <1>p, GoesFacts DEF AcquireSlot, LiveTask, rows
<1>4. CASE CancelUnwinds(o, n)
  BY <1>4, <1>p, <1>c, GoesFacts DEF CancelUnwinds, LiveTask, rows
<1>5. CASE WorkerStep(o, n)
  BY <1>5 DEF WorkerStep, WorkerMoves, WorkerSetsArtifact, WorkerAddsArtifacts,
              WorkerTogglesWorkspace, LiveTask, rows, memory
<1>6. CASE WorkerReturns(o, n)
  BY <1>6, <1>p, <1>r, GoesFacts DEF WorkerReturns, LiveTask
<1>7. ASSUME NEW s, Ends(o, n, s), phase[o][n] \in Live
      PROVE  /\ process' = process /\ starting' = starting
             /\ \A oo \in Ops, nn \in Claims :
                  /\ LiveTask(oo, nn)' => LiveTask(oo, nn)
                  /\ cancelPending'[oo][nn] => cancelPending[oo][nn]
                  /\ token'[oo] # token[oo] =>
                       /\ oo = o /\ token[oo] = n /\ token'[oo] = NoToken
                       /\ ~LiveTask(o, n)'
                  /\ tasks'[oo] = tasks[oo]
  BY <1>7, <1>p, <1>c, <1>r, GoesFacts DEF Ends, LiveTask
<1>8. CASE WorkerFails(o, n)
  BY <1>7, <1>8, <1>p DEF WorkerFails, MayFail
<1>9. CASE WorkerCancelled(o, n)
  BY <1>7, <1>9, <1>p DEF WorkerCancelled, MayCancel, InBody
<1>10. CASE WorkerStopped(o, n)
  BY <1>10, <1>p, <1>c, <1>r, GoesFacts DEF WorkerStopped, LiveTask
<1>11. CASE ForgetTask(o, n)
  <2>1. \A oo \in Ops : tasks'[oo] # tasks[oo] => oo = o /\ tasks[oo] = n
    BY <1>11 DEF ForgetTask, TypeOK
  <2> QED BY <1>11, <1>p, <2>1, GoesFacts DEF ForgetTask, LiveTask, rows
<1> QED BY <1>1, <1>2, <1>3, <1>4, <1>5, <1>6, <1>8, <1>9, <1>10, <1>11
        DEF TaskStep, WorkerEnds

\* A step of a task keeps ownership.
LEMMA OwnedTask ==
  ASSUME TypeOK, Owned, NEW o \in Ops, NEW n \in Claims, TaskStep(o, n)
  PROVE  Owned'
<1> USE TaskFrame
<1>1. WorkerOwnsOperation'
  BY DEF Owned, WorkerOwnsOperation
<1>2. LiveTaskIsRegistered'
  BY DEF Owned, LiveTaskIsRegistered
<1>3. DownIsEmpty'
  BY DEF Owned, DownIsEmpty
<1> QED BY <1>1, <1>2, <1>3 DEF Owned

\* A request keeps ownership: only submit touches it, and it finds no live task.
LEMMA OwnedRequest ==
  ASSUME TypeOK, Owned, NEW o \in Ops, Request(o)
  PROVE  Owned'
<1>1. process = "up" /\ process' = "up"
  BY DEF Request, Create, NewRow, Submit, StartFails, Cancel
<1>2. DownIsEmpty'
  BY <1>1 DEF DownIsEmpty
<1>3. ASSUME token' = token, tasks' = tasks, phase' = phase PROVE Owned'
  BY <1>2, <1>3 DEF Owned, WorkerOwnsOperation, LiveTaskIsRegistered, LiveTask
<1>4. CASE Submit(o)
  <2> DEFINE n == claims[o] + 1
  <2>1. Goes(o, n, "scheduled") /\ n \in Claims
    <3>1. claims[o] \in 0..MaxClaims /\ claims[o] < MaxClaims
      BY <1>4, SizesAssumption DEF Submit, TypeOK, Claims
    <3> QED BY <1>4, <3>1, SizesAssumption DEF Submit, Claims
  <2>2. \A nn \in Claims : ~LiveTask(o, nn)
    <3> SUFFICES ASSUME NEW nn \in Claims, LiveTask(o, nn) PROVE FALSE
      OBVIOUS
    <3>1. tasks[o] = nn /\ nn # 0
      BY SizesAssumption DEF Owned, LiveTaskIsRegistered, Claims
    <3> QED BY <1>4, <3>1 DEF Submit, HasLiveTask
  <2>3. \A oo \in Ops, nn \in Claims : LiveTask(oo, nn)' =>
          (oo = o /\ nn = n) \/ (oo # o /\ LiveTask(oo, nn))
    BY <2>1, <2>2, GoesFacts DEF LiveTask
  <2>4. /\ \A oo \in Ops : oo # o => token'[oo] = token[oo] /\ tasks'[oo] = tasks[oo]
        /\ token'[o] = n /\ tasks'[o] = n
    BY <1>4 DEF Submit, TypeOK
  <2> QED BY <1>2, <2>3, <2>4 DEF Owned, WorkerOwnsOperation, LiveTaskIsRegistered
<1> QED BY <1>3, <1>4 DEF Request, Create, NewRow, StartFails, Cancel, rows

\* A step of the process keeps ownership: all tasks end with the process.
LEMMA OwnedProcess ==
  ASSUME TypeOK, Owned, ProcessStep
  PROVE  Owned'
<1>1. CASE ShutdownBegins
  BY <1>1 DEF ShutdownBegins, rows, Owned, WorkerOwnsOperation, LiveTaskIsRegistered,
              DownIsEmpty, LiveTask
<1>2. ASSUME Lost PROVE Owned'
  <2>1. \A o \in Ops, n \in Claims : ~LiveTask(o, n)' /\ ~cancelPending'[o][n]
    BY <1>2 DEF Lost, LiveTask, Live, InBody
  <2> QED BY <1>2, <2>1 DEF Lost, Owned, WorkerOwnsOperation, LiveTaskIsRegistered,
                            DownIsEmpty
<1>3. CASE Startup
  <2>1. \A o \in Ops, n \in Claims : ~LiveTask(o, n)'
    BY <1>3 DEF Startup, Owned, DownIsEmpty, LiveTask, memory
  <2> QED BY <1>3, <2>1 DEF Startup, Owned, WorkerOwnsOperation, LiveTaskIsRegistered,
                            DownIsEmpty
<1> QED BY <1>1, <1>2, <1>3
        DEF ProcessStep, ShutdownEnds, Crash, CrashInEnd, CrashInCancel

-------------------------------------------------------------------------------
\* The abstract state machine: every step of the manager is a step of it.

Rowed == NothingWithoutRow /\ StatusOfType /\ CancelIsRequested

\* The abstract specification speaks of the same state machine.
LEMMA SameStates ==
  /\ Lifecycle!NoStatus = NoStatus
  /\ Lifecycle!Types = Types
  /\ Lifecycle!Terminal = Terminal
  /\ \A t : Lifecycle!InitialStatuses(t) = InitialStatuses(t)
  /\ \A t, a, b : Lifecycle!MayMove(t, a, b) = MayMove(t, a, b)
BY DEF Lifecycle!NoStatus, NoStatus, Lifecycle!Types, Types, Lifecycle!Terminal,
       Terminal, Lifecycle!InitialStatuses, InitialStatuses, Lifecycle!MayMove, MayMove,
       Lifecycle!Transitions, Transitions, Lifecycle!ExportTransitions,
       ExportTransitions, Lifecycle!ImportTransitions, ImportTransitions,
       Lifecycle!Stops, Stops

\* A row that exists and is not terminal may be stopped.
LEMMA StopMove ==
  ASSUME StatusOfType, NEW o \in Ops, status[o] \notin Terminal \cup {NoStatus},
         NEW s \in Stops
  PROVE  MayMove(type[o], status[o], s)
<1>1. type[o] \in Types /\ status[o] \in DOMAIN Transitions(type[o])
  BY DEF StatusOfType
<1>2. s \in Transitions(type[o])[status[o]]
  BY <1>1, MoveFacts
<1> QED BY <1>1, <1>2 DEF MayMove

\* Mark moves one row, unless it is terminal, and settles its artifacts.
LEMMA MarkFacts ==
  ASSUME TypeOK, NEW o \in Ops, NEW s, Mark(o, s)
  PROVE  \A oo \in Ops :
           /\ status'[oo] = IF oo = o /\ status[o] \notin Terminal THEN s ELSE status[oo]
           /\ artifacts'[oo] = IF oo = o /\ status[o] \notin Terminal
                                 THEN FailRunning(artifacts[o]) ELSE artifacts[oo]
           /\ counts'[oo] = IF oo = o /\ status[o] \notin Terminal
                              THEN Census(FailRunning(artifacts[o])) ELSE counts[oo]
BY DEF Mark, TypeOK

\* A row that is marked takes an edge of the state machine or rests.
LEMMA MarkLifecycle ==
  ASSUME TypeOK, Rowed, NEW o \in Ops, NEW s \in Stops, Mark(o, s),
         status[o] # NoStatus, type' = type,
         \A oo \in Ops : oo # o => cancelRequested'[oo] = cancelRequested[oo],
         status[o] \in Terminal => cancelRequested'[o] = cancelRequested[o],
         cancelRequested[o] => cancelRequested'[o],
         s = "CANCELLED" /\ status[o] \notin Terminal => cancelRequested'[o]
  PROVE  Lifecycle!Next
<1> SUFFICES ASSUME NEW oo \in Ops
             PROVE  Lifecycle!Rests(oo) \/ Lifecycle!Moves(oo)
  BY DEF Lifecycle!Next
<1>1. CASE oo # o \/ status[o] \in Terminal
  BY <1>1, MarkFacts DEF Lifecycle!Rests
<1>2. CASE oo = o /\ status[o] \notin Terminal
  <2>1. MayMove(type[o], status[o], s)
    BY <1>2, StopMove DEF Rowed
  <2> QED BY <1>2, <2>1, MarkFacts, SameStates DEF Lifecycle!Moves
<1> QED BY <1>1, <1>2

\* A step that leaves type, status and request alone is a stutter of each row.
LEMMA RestLifecycle ==
  ASSUME type' = type, status' = status, cancelRequested' = cancelRequested
  PROVE  Lifecycle!Next
BY DEF Lifecycle!Next, Lifecycle!Rests

\* A request of the API.
LEMMA LifecycleRequest ==
  ASSUME TypeOK, Owned, Rowed, NEW o \in Ops, Request(o)
  PROVE  Lifecycle!Next
<1>1. ASSUME NEW t \in Types, NEW s \in Resting, Create(o, t, s) PROVE Lifecycle!Next
  <2>1. Lifecycle!Born(o)
    BY <1>1, SameStates DEF Create, NewRow, Lifecycle!Born, TypeOK, Rowed, NothingWithoutRow
  <2>2. ASSUME NEW oo \in Ops, oo # o PROVE Lifecycle!Rests(oo)
    BY <1>1, <2>2 DEF Create, NewRow, Lifecycle!Rests, TypeOK
  <2> QED BY <2>1, <2>2 DEF Lifecycle!Next
<1>2. CASE Submit(o) \/ StartFails(o)
  BY <1>2, RestLifecycle DEF Submit, StartFails, rows
<1>3. CASE Cancel(o)
  <2>1. \A oo \in Ops :
          cancelRequested'[oo] =
            IF oo = o THEN cancelRequested[o] \/ status[o] \notin Terminal
                      ELSE cancelRequested[oo]
    BY <1>3 DEF Cancel, RequestCancel, TypeOK
  <2>2. CASE HasLiveTask(o)
    <3> SUFFICES ASSUME NEW oo \in Ops PROVE Lifecycle!Rests(oo) \/ Lifecycle!Asked(oo)
      BY DEF Lifecycle!Next
    <3>1. CASE oo # o \/ status[o] \in Terminal
      BY <1>3, <2>1, <2>2, <3>1 DEF Cancel, Lifecycle!Rests, TypeOK
    <3>2. CASE oo = o /\ status[o] \notin Terminal
      BY <1>3, <2>1, <2>2, <3>2, SameStates DEF Cancel, Lifecycle!Asked
    <3> QED BY <3>1, <3>2
  <2>3. CASE ~HasLiveTask(o)
    <3>1. /\ Mark(o, "CANCELLED") /\ status[o] # NoStatus /\ type' = type
          /\ "CANCELLED" \in Stops
      BY <1>3, <2>3 DEF Cancel, Stops
    <3>2. /\ \A oo \in Ops : oo # o => cancelRequested'[oo] = cancelRequested[oo]
          /\ status[o] \in Terminal => cancelRequested'[o] = cancelRequested[o]
          /\ cancelRequested[o] => cancelRequested'[o]
          /\ status[o] \notin Terminal => cancelRequested'[o]
      BY <2>1 DEF TypeOK
    <3> QED BY <3>1, <3>2, MarkLifecycle
  <2> QED BY <2>2, <2>3
<1> QED BY <1>1, <1>2, <1>3 DEF Request

\* How a live worker may be ended.
LEMMA EndsFacts ==
  ASSUME TypeOK, Owned, Rowed, NEW o \in Ops, NEW n \in Claims
  PROVE  /\ MayFail(o, n) => status[o] # NoStatus
         /\ MayCancel(o, n) => status[o] # NoStatus
         /\ FailedAs \in Stops /\ FailedAs # "CANCELLED"
         /\ CancelledAs \in Stops
         /\ MayCancel(o, n) /\ CancelledAs = "CANCELLED" /\ status[o] \notin Terminal =>
              cancelRequested[o]
BY DEF MayFail, MayCancel, FailedAs, CancelledAs, Stops, Rowed, NothingWithoutRow,
       CancelIsRequested, LiveTask, Live, InBody

\* A step of a task.
LEMMA LifecycleTask ==
  ASSUME TypeOK, Owned, Rowed, NEW o \in Ops, NEW n \in Claims, TaskStep(o, n)
  PROVE  Lifecycle!Next
<1>1. CASE \/ TaskStarts(o, n) \/ TaskNeverStarts(o, n) \/ AcquireSlot(o, n)
           \/ CancelUnwinds(o, n) \/ WorkerReturns(o, n) \/ WorkerStopped(o, n)
           \/ ForgetTask(o, n)
  BY <1>1, RestLifecycle DEF TaskStarts, TaskNeverStarts, AcquireSlot, CancelUnwinds,
     WorkerReturns, WorkerStopped, ForgetTask, rows
<1>2. ASSUME NEW s \in Statuses, WorkerMoves(o, n, s) PROVE Lifecycle!Next
  <2> SUFFICES ASSUME NEW oo \in Ops PROVE Lifecycle!Rests(oo) \/ Lifecycle!Moves(oo)
    BY DEF Lifecycle!Next
  <2>1. CASE oo # o
    BY <1>2, <2>1 DEF WorkerMoves, Lifecycle!Rests, TypeOK
  <2>2. CASE oo = o
    BY <1>2, <2>2, SameStates DEF WorkerMoves, Lifecycle!Moves, TypeOK, Stops
  <2> QED BY <2>1, <2>2
<1>3. CASE \/ \E r \in Artifacts, s \in ArtifactStatuses : WorkerSetsArtifact(o, n, r, s)
           \/ WorkerAddsArtifacts(o, n) \/ WorkerTogglesWorkspace(o, n)
  BY <1>3, RestLifecycle DEF WorkerSetsArtifact, WorkerAddsArtifacts,
     WorkerTogglesWorkspace, rows
<1>4. CASE WorkerFails(o, n)
  BY <1>4, EndsFacts, MarkLifecycle DEF WorkerFails, Ends
<1>5. CASE WorkerCancelled(o, n)
  BY <1>5, EndsFacts, MarkLifecycle DEF WorkerCancelled, Ends
<1> QED BY <1>1, <1>2, <1>3, <1>4, <1>5 DEF TaskStep, WorkerStep, WorkerEnds

\* What the reconciliation makes of a row is an edge of the state machine.
LEMMA ReconciledFacts ==
  ASSUME TypeOK, Rowed, NEW o \in Ops
  PROVE  \/ ReconciledStatus(o) = status[o]
         \/ /\ ReconciledStatus(o) \in Stops
            /\ status[o] \notin Terminal \cup {NoStatus}
            /\ ReconciledStatus(o) = "CANCELLED" => cancelRequested[o]
<1>1. Selected(o) => status[o] # NoStatus
  BY DEF Selected, Rowed, NothingWithoutRow, Executing, NoStatus
<1> QED BY <1>1 DEF ReconciledStatus, Stops

\* A step of the process.
LEMMA LifecycleProcess ==
  ASSUME TypeOK, Owned, Rowed, ProcessStep
  PROVE  Lifecycle!Next
<1>1. CASE ShutdownBegins \/ ShutdownEnds \/ Crash
  BY <1>1, RestLifecycle DEF ShutdownBegins, ShutdownEnds, Crash, Lost, rows
<1>2. ASSUME NEW o \in Ops, NEW n \in Claims, NEW b \in BOOLEAN, CrashInEnd(o, n, b)
      PROVE  Lifecycle!Next
  BY <1>2, EndsFacts, MarkLifecycle DEF CrashInEnd, Lost
<1>3. ASSUME NEW o \in Ops, NEW b \in BOOLEAN, CrashInCancel(o, b)
      PROVE  Lifecycle!Next
  <2>1. \A oo \in Ops :
          cancelRequested'[oo] = IF oo = o THEN TRUE ELSE cancelRequested[oo]
    BY <1>3 DEF CrashInCancel, RequestCancel, TypeOK
  <2>2. CASE b
    <3>1. /\ Mark(o, "CANCELLED") /\ status[o] \notin Terminal \cup {NoStatus}
          /\ type' = type /\ "CANCELLED" \in Stops
      BY <1>3, <2>2 DEF CrashInCancel, Lost, Stops
    <3> QED BY <2>1, <3>1, MarkLifecycle
  <2>3. CASE ~b
    <3> SUFFICES ASSUME NEW oo \in Ops PROVE Lifecycle!Rests(oo) \/ Lifecycle!Asked(oo)
      BY DEF Lifecycle!Next
    <3> QED BY <1>3, <2>1, <2>3, SameStates
            DEF CrashInCancel, Lost, Lifecycle!Rests, Lifecycle!Asked
  <2> QED BY <2>2, <2>3
<1>4. CASE Startup
  <2> SUFFICES ASSUME NEW o \in Ops PROVE Lifecycle!Rests(o) \/ Lifecycle!Moves(o)
    BY DEF Lifecycle!Next
  <2>1. /\ status'[o] = ReconciledStatus(o) /\ type' = type
        /\ cancelRequested' = cancelRequested
    BY <1>4 DEF Startup
  <2>2. CASE ReconciledStatus(o) = status[o]
    BY <2>1, <2>2 DEF Lifecycle!Rests
  <2>3. CASE ReconciledStatus(o) # status[o]
    <3>1. MayMove(type[o], status[o], status'[o])
      BY <2>1, <2>3, ReconciledFacts, StopMove DEF Rowed
    <3> QED BY <2>1, <2>3, <3>1, ReconciledFacts, SameStates DEF Lifecycle!Moves
  <2> QED BY <2>2, <2>3
<1> QED BY <1>1, <1>2, <1>3, <1>4 DEF ProcessStep

-------------------------------------------------------------------------------
\* Rows: which exist, in which status, and who may have been cancelled.

\* No row disappears, and a row that does not exist was not asked to cancel.
LEMMA RowsStay ==
  ASSUME Lifecycle!Next, NEW o \in Ops, status'[o] = NoStatus
  PROVE  status[o] = NoStatus /\ cancelRequested'[o] = cancelRequested[o]
<1>1. ~Lifecycle!Born(o)
  BY SameStates DEF Lifecycle!Born, InitialStatuses, NoStatus
<1>2. ~Lifecycle!Moves(o)
  <2>1. \A t, s : ~MayMove(t, s, NoStatus)
    BY DEF MayMove, Transitions, ExportTransitions, ImportTransitions, Stops, NoStatus
  <2> QED BY <2>1, SameStates DEF Lifecycle!Moves
<1>3. ~Lifecycle!Asked(o)
  BY SameStates DEF Lifecycle!Asked
<1> QED BY <1>1, <1>2, <1>3 DEF Lifecycle!Next, Lifecycle!Rests

\* Every row keeps a status of its type.
LEMMA StatusOfTypeStep ==
  ASSUME StatusOfType, Lifecycle!Next
  PROVE  StatusOfType'
<1> SUFFICES ASSUME NEW o \in Ops, status'[o] # NoStatus
             PROVE  /\ type'[o] \in Types
                    /\ status'[o] \in Terminal \cup DOMAIN Transitions(type'[o])
  BY DEF StatusOfType
<1>1. CASE Lifecycle!Born(o)
  BY <1>1, SameStates DEF Lifecycle!Born, InitialStatuses, Types, Transitions,
     ExportTransitions, ImportTransitions
<1>2. CASE Lifecycle!Rests(o) \/ Lifecycle!Asked(o)
  BY <1>2 DEF Lifecycle!Rests, Lifecycle!Asked, StatusOfType
<1>3. CASE Lifecycle!Moves(o)
  <2>1. type'[o] = type[o] /\ MayMove(type[o], status[o], status'[o])
    BY <1>3, SameStates DEF Lifecycle!Moves
  <2>2. status[o] # NoStatus
    BY <2>1 DEF MayMove, Transitions, ExportTransitions, ImportTransitions, NoStatus
  <2> QED BY <2>1, <2>2, MoveFacts DEF StatusOfType, MayMove
<1> QED BY <1>1, <1>2, <1>3 DEF Lifecycle!Next

\* A step of a task leaves the artifacts of every other operation alone, and
\* those of its own if they do not exist.
LEMMA TaskArtifacts ==
  ASSUME TypeOK, Rowed, NEW o \in Ops, NEW n \in Claims, TaskStep(o, n),
         NEW oo \in Ops, status[oo] = NoStatus
  PROVE  artifacts'[oo] = artifacts[oo]
<1>1. phase[o][n] \in Live => oo # o
  BY DEF Rowed, NothingWithoutRow, LiveTask
<1>2. CASE \/ TaskStarts(o, n) \/ TaskNeverStarts(o, n) \/ AcquireSlot(o, n)
           \/ CancelUnwinds(o, n) \/ WorkerReturns(o, n) \/ WorkerStopped(o, n)
           \/ ForgetTask(o, n) \/ WorkerTogglesWorkspace(o, n)
           \/ \E s \in Statuses : WorkerMoves(o, n, s)
  BY <1>2 DEF TaskStarts, TaskNeverStarts, AcquireSlot, CancelUnwinds, WorkerReturns,
     WorkerStopped, ForgetTask, WorkerTogglesWorkspace, WorkerMoves, rows
<1>3. CASE \E r \in Artifacts, s \in ArtifactStatuses : WorkerSetsArtifact(o, n, r, s)
  BY <1>1, <1>3 DEF WorkerSetsArtifact, Working, Live, InBody, TypeOK
<1>4. CASE WorkerAddsArtifacts(o, n)
  BY <1>1, <1>4 DEF WorkerAddsArtifacts, Working, Live, InBody, TypeOK
<1>5. CASE WorkerFails(o, n) \/ WorkerCancelled(o, n)
  BY <1>1, <1>5, MarkFacts DEF WorkerFails, WorkerCancelled, Ends, MayFail, MayCancel,
     Live, InBody
<1> QED BY <1>2, <1>3, <1>4, <1>5 DEF TaskStep, WorkerStep, WorkerEnds

\* Nothing comes to refer to a row that does not exist.
LEMMA NothingWithoutRowStep ==
  ASSUME TypeOK, Owned, Rowed, Next, Lifecycle!Next
  PROVE  NothingWithoutRow'
<1> SUFFICES ASSUME NEW oo \in Ops, status'[oo] = NoStatus
             PROVE  /\ token'[oo] = NoToken
                    /\ ~cancelRequested'[oo]
                    /\ oo \notin starting'
                    /\ \A nn \in Claims : ~LiveTask(oo, nn)'
                    /\ \A r \in Artifacts : artifacts'[oo][r] = NoStatus
  BY DEF NothingWithoutRow
<1>0. /\ status[oo] = NoStatus
      /\ token[oo] = NoToken
      /\ ~cancelRequested[oo] /\ ~cancelRequested'[oo]
      /\ oo \notin starting
      /\ \A nn \in Claims : ~LiveTask(oo, nn)
      /\ \A r \in Artifacts : artifacts[oo][r] = NoStatus
  BY RowsStay DEF Rowed, NothingWithoutRow
<1>1. ASSUME NEW o \in Ops, NEW t \in Types, NEW s \in Resting, Create(o, t, s)
      PROVE  /\ token'[oo] = NoToken /\ oo \notin starting'
             /\ \A nn \in Claims : ~LiveTask(oo, nn)'
             /\ artifacts'[oo] = artifacts[oo]
  <2>1. s # NoStatus
    BY DEF Resting, NoStatus
  <2>2. oo # o
    BY <1>1, <2>1 DEF Create, NewRow, TypeOK
  <2> QED BY <1>0, <1>1, <2>2 DEF Create, NewRow, LiveTask, TypeOK
<1>2. ASSUME NEW o \in Ops, Submit(o)
      PROVE  /\ token'[oo] = NoToken /\ oo \notin starting'
             /\ \A nn \in Claims : ~LiveTask(oo, nn)'
             /\ artifacts'[oo] = artifacts[oo]
  <2>1. oo # o
    BY <1>0, <1>2 DEF Submit, NoStatus
  <2>2. phase'[oo] = phase[oo]
    BY <1>2, <2>1 DEF Submit, Goes, TypeOK
  <2> QED BY <1>0, <1>2, <2>1, <2>2 DEF Submit, LiveTask, TypeOK
<1>3. ASSUME NEW o \in Ops, StartFails(o) \/ Cancel(o)
      PROVE  /\ token'[oo] = NoToken /\ oo \notin starting'
             /\ \A nn \in Claims : ~LiveTask(oo, nn)'
             /\ artifacts'[oo] = artifacts[oo]
  <2>1. CASE StartFails(o)
    BY <1>0, <2>1 DEF StartFails, LiveTask, rows
  <2>2. CASE Cancel(o)
    BY <1>0, <2>2, MarkFacts DEF Cancel, LiveTask
  <2> QED BY <1>3, <2>1, <2>2
<1>4. ASSUME NEW o \in Ops, NEW n \in Claims, TaskStep(o, n)
      PROVE  /\ token'[oo] = NoToken /\ oo \notin starting'
             /\ \A nn \in Claims : ~LiveTask(oo, nn)'
             /\ artifacts'[oo] = artifacts[oo]
  <2>1. n # 0
    BY SizesAssumption DEF Claims
  <2> QED BY <1>0, <1>4, <2>1, TaskFrame, TaskArtifacts DEF NoToken
<1>5. ASSUME ProcessStep
      PROVE  /\ token'[oo] = NoToken /\ oo \notin starting'
             /\ \A nn \in Claims : ~LiveTask(oo, nn)'
             /\ artifacts'[oo] = artifacts[oo]
  <2>1. CASE ShutdownBegins
    BY <1>0, <2>1 DEF ShutdownBegins, LiveTask, rows
  <2>2. ASSUME Lost
        PROVE  oo \notin starting' /\ \A nn \in Claims : ~LiveTask(oo, nn)'
    BY <2>2 DEF Lost, LiveTask, Live, InBody
  <2>3. CASE ShutdownEnds \/ Crash
    BY <1>0, <2>2, <2>3 DEF ShutdownEnds, Crash
  <2>4. ASSUME NEW o \in Ops, NEW n \in Claims, NEW b \in BOOLEAN, CrashInEnd(o, n, b)
        PROVE  token'[oo] = NoToken /\ artifacts'[oo] = artifacts[oo]
    <3>1. \E s : Mark(o, s)
      BY <2>4 DEF CrashInEnd
    <3>2. oo # o
      BY <1>0, <2>4, EndsFacts DEF CrashInEnd
    <3>3. token'[oo] = token[oo]
      BY <2>4, <3>2 DEF CrashInEnd, Release, TypeOK
    <3> QED BY <1>0, <3>1, <3>2, <3>3, MarkFacts
  <2>5. ASSUME NEW o \in Ops, NEW b \in BOOLEAN, CrashInCancel(o, b)
        PROVE  token'[oo] = NoToken /\ artifacts'[oo] = artifacts[oo]
    <3>1. oo # o
      BY <1>0, <2>5 DEF CrashInCancel
    <3> QED BY <1>0, <2>5, <3>1, MarkFacts DEF CrashInCancel
  <2>6. CASE Startup
    <3>1. ~Selected(oo)
      BY <1>0 DEF Selected, Executing, NoStatus
    <3>2. ~Reconciled(oo)
      BY <3>1 DEF Reconciled, ReconciledStatus
    <3> QED BY <1>0, <2>6, <3>1, <3>2 DEF Startup, memory, LiveTask, TypeOK
  <2> QED BY <1>5, <2>1, <2>2, <2>3, <2>4, <2>5, <2>6
          DEF ProcessStep, CrashInEnd, CrashInCancel
<1> QED BY <1>0, <1>1, <1>2, <1>3, <1>4, <1>5 DEF Next, Request

-------------------------------------------------------------------------------
\* Cancellation: who has been cancelled was asked to be.

\* A request stays on record, and a terminal row stays terminal.
LEMMA RequestStays ==
  ASSUME Rowed, Lifecycle!Next, NEW o \in Ops,
         cancelRequested[o] \/ status[o] \in Terminal
  PROVE  cancelRequested'[o] \/ status'[o] \in Terminal
<1>1. ~Lifecycle!Born(o)
  BY SameStates DEF Lifecycle!Born, Rowed, NothingWithoutRow, Terminal, NoStatus
<1> QED BY <1>1, SameStates DEF Lifecycle!Next, Lifecycle!Rests, Lifecycle!Moves,
           Lifecycle!Asked, MayMove

\* A step of a task cancels nobody; a worker unwinds only after it was cancelled.
LEMMA TaskCancels ==
  ASSUME TypeOK, NEW o \in Ops, NEW n \in Claims, TaskStep(o, n),
         NEW oo \in Ops, NEW nn \in Claims
  PROVE  /\ cancelPending'[oo][nn] => cancelPending[oo][nn]
         /\ phase'[oo][nn] = "unwinding" =>
              cancelPending[oo][nn] \/ phase[oo][nn] = "unwinding"
<1>1. cancelPending'[oo][nn] => cancelPending[oo][nn]
  BY TaskFrame
<1>2. CASE CancelUnwinds(o, n)
  BY <1>1, <1>2, GoesFacts DEF CancelUnwinds
<1>3. CASE \E p \in {"queued", "running", "done", "gone"} : Goes(o, n, p)
  BY <1>1, <1>3, GoesFacts
<1>4. CASE phase' = phase
  BY <1>1, <1>4
<1> QED BY <1>2, <1>3, <1>4
        DEF TaskStep, WorkerStep, WorkerEnds, TaskStarts, TaskNeverStarts, AcquireSlot,
            WorkerMoves, WorkerSetsArtifact, WorkerAddsArtifacts, WorkerTogglesWorkspace,
            WorkerReturns, WorkerFails, WorkerCancelled, WorkerStopped, ForgetTask, Ends,
            memory

\* A task that ends was not cancelled, or the end consumes the CancelledError.
LEMMA TaskPending ==
  ASSUME TypeOK, CancelIsRequested, NEW o \in Ops, NEW n \in Claims, TaskStep(o, n),
         NEW oo \in Ops, NEW nn \in Claims, cancelPending'[oo][nn]
  PROVE  LiveTask(oo, nn)'
<1>0. cancelPending[oo][nn] /\ LiveTask(oo, nn)
  BY TaskCancels DEF CancelIsRequested
<1>1. CASE oo = o /\ nn = n
  <2>1. cancelPending' # [cancelPending EXCEPT ![o][n] = FALSE]
    BY <1>1 DEF TypeOK
  <2> QED BY <1>0, <1>1, <2>1
      DEF TaskStep, WorkerStep, WorkerEnds, TaskStarts, TaskNeverStarts, AcquireSlot,
          CancelUnwinds, WorkerMoves, WorkerSetsArtifact, WorkerAddsArtifacts,
          WorkerTogglesWorkspace, WorkerReturns, WorkerFails, WorkerCancelled,
          WorkerStopped, ForgetTask, Ends, Working, LiveTask, Live, InBody
<1>2. CASE ~(oo = o /\ nn = n)
  <2>1. CASE phase' = phase
    BY <1>0, <2>1 DEF LiveTask
  <2>2. ASSUME NEW p, Goes(o, n, p) PROVE LiveTask(oo, nn)'
    BY <1>0, <1>2, <2>2, GoesFacts DEF LiveTask
  <2> QED BY <2>1, <2>2
      DEF TaskStep, WorkerStep, WorkerEnds, TaskStarts, TaskNeverStarts, AcquireSlot,
          CancelUnwinds, WorkerMoves, WorkerSetsArtifact, WorkerAddsArtifacts,
          WorkerTogglesWorkspace, WorkerReturns, WorkerFails, WorkerCancelled,
          WorkerStopped, ForgetTask, Ends, memory
<1> QED BY <1>1, <1>2

\* Every step keeps the record of who asked.
LEMMA CancelIsRequestedStep ==
  ASSUME TypeOK, Owned, Rowed, Next, Lifecycle!Next
  PROVE  CancelIsRequested'
<1> SUFFICES ASSUME NEW oo \in Ops, NEW nn \in Claims
             PROVE  /\ cancelPending'[oo][nn] => LiveTask(oo, nn)'
                    /\ process' # "stopping" /\ (cancelPending'[oo][nn]
                                                \/ phase'[oo][nn] = "unwinding") =>
                         cancelRequested'[oo] \/ status'[oo] \in Terminal
  BY DEF CancelIsRequested
<1>0. /\ cancelPending[oo][nn] => LiveTask(oo, nn)
      /\ process # "stopping" /\ (cancelPending[oo][nn] \/ phase[oo][nn] = "unwinding") =>
           cancelRequested'[oo] \/ status'[oo] \in Terminal
  BY RequestStays DEF Rowed, CancelIsRequested
<1>1. CASE \/ \E o \in Ops, t \in Types, s \in Resting : Create(o, t, s)
           \/ \E o \in Ops : StartFails(o)
  BY <1>0, <1>1 DEF Create, NewRow, StartFails, LiveTask
<1>2. ASSUME NEW o \in Ops, Submit(o)
      PROVE  /\ cancelPending' = cancelPending /\ process' = process
             /\ LiveTask(oo, nn) => LiveTask(oo, nn)'
             /\ phase'[oo][nn] = "unwinding" => phase[oo][nn] = "unwinding"
  <2> DEFINE n == claims[o] + 1
  <2>1. n \in Claims /\ Goes(o, n, "scheduled")
    <3>1. claims[o] \in 0..MaxClaims /\ claims[o] < MaxClaims
      BY <1>2, SizesAssumption DEF Submit, TypeOK, Claims
    <3> QED BY <1>2, <3>1, SizesAssumption DEF Submit, Claims
  <2> QED BY <1>2, <2>1, GoesFacts DEF Submit, LiveTask, Live
<1>3. ASSUME NEW o \in Ops, Cancel(o)
      PROVE  /\ process' = process /\ phase' = phase
             /\ cancelPending'[oo][nn] /\ ~cancelPending[oo][nn] =>
                  /\ LiveTask(oo, nn)
                  /\ cancelRequested'[oo] \/ status'[oo] \in Terminal
  <2>1. CASE HasLiveTask(o)
    <3>1. cancelPending'[oo][nn] /\ ~cancelPending[oo][nn] => oo = o /\ nn = tasks[o]
      BY <1>3, <2>1 DEF Cancel, TypeOK
    <3>2. cancelRequested'[o] \/ status'[o] \in Terminal
      BY <1>3, <2>1 DEF Cancel, RequestCancel, TypeOK
    <3> QED BY <1>3, <2>1, <3>1, <3>2 DEF Cancel, HasLiveTask
  <2>2. CASE ~HasLiveTask(o)
    BY <1>3, <2>2 DEF Cancel
  <2> QED BY <2>1, <2>2
<1>4. ASSUME NEW o \in Ops, NEW n \in Claims, TaskStep(o, n)
      PROVE  /\ process' = process
             /\ cancelPending'[oo][nn] => cancelPending[oo][nn] /\ LiveTask(oo, nn)'
             /\ phase'[oo][nn] = "unwinding" =>
                  cancelPending[oo][nn] \/ phase[oo][nn] = "unwinding"
  BY <1>4, TaskCancels, TaskPending, TaskFrame DEF Rowed
<1>5. CASE ShutdownBegins
  BY <1>5 DEF ShutdownBegins, LiveTask
<1>6. CASE Startup
  <2>1. ~cancelPending[oo][nn] /\ phase[oo][nn] # "unwinding"
    BY <1>6 DEF Startup, Owned, DownIsEmpty, LiveTask, Live, InBody
  <2> QED BY <1>6, <2>1 DEF Startup, memory
<1>7. CASE Lost
  BY <1>7 DEF Lost
<1>8. ASSUME NEW o \in Ops, Request(o)
      PROVE  /\ cancelPending'[oo][nn] => LiveTask(oo, nn)'
             /\ process' # "stopping" /\ (cancelPending'[oo][nn]
                                         \/ phase'[oo][nn] = "unwinding") =>
                  cancelRequested'[oo] \/ status'[oo] \in Terminal
  BY <1>0, <1>1, <1>2, <1>3, <1>8 DEF Request, LiveTask
<1>9. ASSUME ProcessStep
      PROVE  /\ cancelPending'[oo][nn] => LiveTask(oo, nn)'
             /\ process' # "stopping" /\ (cancelPending'[oo][nn]
                                         \/ phase'[oo][nn] = "unwinding") =>
                  cancelRequested'[oo] \/ status'[oo] \in Terminal
  BY <1>0, <1>5, <1>6, <1>7, <1>9
     DEF ProcessStep, ShutdownEnds, Crash, CrashInEnd, CrashInCancel, ShutdownBegins
<1> QED BY <1>0, <1>4, <1>8, <1>9 DEF Next

-------------------------------------------------------------------------------
\* Artifact rows and the counters of their operation.

\* Rows nobody has worked on count for nothing, whether they exist or not.
LEMMA CensusOfWaiting ==
  ASSUME NEW a, NEW b,
         \A r \in Artifacts : a[r] \in {NoStatus, "PENDING"} /\ b[r] \in {NoStatus, "PENDING"}
  PROVE  Census(a) = Census(b)
<1>1. ASSUME NEW ss \in {{"IMPORTED", "VERIFIED"}, {"FAILED"}, {"SKIPPED"}, {"CONFLICT"}}
      PROVE  Count(a, ss) = Count(b, ss)
  <2>1. {r \in Artifacts : a[r] \in ss} = {} /\ {r \in Artifacts : b[r] \in ss} = {}
    BY DEF NoStatus
  <2> QED BY <2>1 DEF Count
<1> QED BY <1>1 DEF Census

\* Every step keeps the counters equal to the census of the rows.
LEMMA CountsStep ==
  ASSUME TypeOK, Rowed, CountsMatchRows, Next
  PROVE  CountsMatchRows'
<1> SUFFICES ASSUME NEW oo \in Ops PROVE counts'[oo] = Census(artifacts'[oo])
  BY DEF CountsMatchRows, Census, Count
<1>0. counts[oo] = Census(artifacts[oo])
  BY DEF CountsMatchRows
<1>1. ASSUME counts' = counts, artifacts' = artifacts
      PROVE  counts'[oo] = Census(artifacts'[oo])
  BY <1>0, <1>1
<1>2. ASSUME NEW o \in Ops, NEW s, Mark(o, s)
      PROVE  counts'[oo] = Census(artifacts'[oo])
  BY <1>0, <1>2, MarkFacts
<1>3. ASSUME NEW o \in Ops, NEW t \in Types, NEW s \in Resting, Create(o, t, s)
      PROVE  counts'[oo] = Census(artifacts'[oo])
  <2>1. CASE oo = o
    <3>1. \A r \in Artifacts : artifacts[o][r] = NoStatus
      BY <1>3 DEF Create, NewRow, Rowed, NothingWithoutRow
    <3>2. \A r \in Artifacts : artifacts'[o][r] \in {NoStatus, "PENDING"}
      BY <1>3 DEF Create, NewRow, TypeOK
    <3>3. Census(artifacts'[o]) = Census(artifacts[o])
      BY <3>1, <3>2, CensusOfWaiting
    <3> QED BY <1>0, <1>3, <2>1, <3>3 DEF Create, NewRow
  <2>2. CASE oo # o
    BY <1>0, <1>3, <2>2 DEF Create, NewRow, TypeOK
  <2> QED BY <2>1, <2>2
<1>4. ASSUME NEW o \in Ops, Submit(o) \/ StartFails(o) \/ Cancel(o)
      PROVE  counts'[oo] = Census(artifacts'[oo])
  BY <1>1, <1>2, <1>4 DEF Submit, StartFails, Cancel, rows
<1>5. ASSUME NEW o \in Ops, NEW n \in Claims, NEW r \in Artifacts,
             NEW s \in ArtifactStatuses, WorkerSetsArtifact(o, n, r, s)
      PROVE  counts'[oo] = Census(artifacts'[oo])
  BY <1>0, <1>5 DEF WorkerSetsArtifact, TypeOK
<1>6. ASSUME NEW o \in Ops, NEW n \in Claims, WorkerAddsArtifacts(o, n)
      PROVE  counts'[oo] = Census(artifacts'[oo])
  <2>1. CASE oo = o
    <3>1. /\ \A r \in Artifacts : artifacts[o][r] = NoStatus
          /\ \A r \in Artifacts : artifacts'[o][r] = "PENDING"
      BY <1>6 DEF WorkerAddsArtifacts, TypeOK
    <3>2. Census(artifacts'[o]) = Census(artifacts[o])
      BY <3>1, CensusOfWaiting
    <3> QED BY <1>0, <1>6, <2>1, <3>2 DEF WorkerAddsArtifacts
  <2>2. CASE oo # o
    BY <1>0, <1>6, <2>2 DEF WorkerAddsArtifacts, TypeOK
  <2> QED BY <2>1, <2>2
<1>7. ASSUME NEW o \in Ops, NEW n \in Claims, TaskStep(o, n)
      PROVE  counts'[oo] = Census(artifacts'[oo])
  BY <1>1, <1>2, <1>5, <1>6, <1>7
     DEF TaskStep, WorkerStep, WorkerEnds, TaskStarts, TaskNeverStarts, AcquireSlot,
         CancelUnwinds, WorkerMoves, WorkerTogglesWorkspace, WorkerReturns, WorkerFails,
         WorkerCancelled, WorkerStopped, ForgetTask, Ends, rows
<1>8. CASE Startup
  <2>1. CASE Selected(oo) /\ status[oo] \notin Terminal
    BY <1>8, <2>1 DEF Startup
  <2>2. CASE ~(Selected(oo) /\ status[oo] \notin Terminal)
    <3>1. ~Reconciled(oo)
      BY <2>2 DEF Reconciled, ReconciledStatus
    <3> QED BY <1>0, <1>8, <2>2, <3>1 DEF Startup
  <2> QED BY <2>1, <2>2
<1>9. CASE ProcessStep
  BY <1>1, <1>2, <1>8, <1>9 DEF ProcessStep, ShutdownBegins, ShutdownEnds, Crash,
     CrashInEnd, CrashInCancel, rows
<1> QED BY <1>3, <1>4, <1>7, <1>9 DEF Next, Request

\* Every step keeps the artifacts of terminal operations settled.
LEMMA SettledStep ==
  ASSUME TypeOK, Rowed, TerminalArtifactsSettled, Next
  PROVE  TerminalArtifactsSettled'
<1> SUFFICES ASSUME NEW oo \in Ops, status'[oo] \in Terminal, NEW q \in Artifacts
             PROVE  artifacts'[oo][q] # "RUNNING"
  BY DEF TerminalArtifactsSettled
<1>0. status[oo] \in Terminal => artifacts[oo][q] # "RUNNING"
  BY DEF TerminalArtifactsSettled
<1>1. ASSUME status' = status, artifacts' = artifacts
      PROVE  artifacts'[oo][q] # "RUNNING"
  BY <1>0, <1>1
<1>f. \A o \in Ops : FailRunning(artifacts[o])[q] # "RUNNING"
  BY FailRunningFacts DEF TypeOK
<1>2. ASSUME NEW o \in Ops, NEW s, Mark(o, s)
      PROVE  artifacts'[oo][q] # "RUNNING"
  BY <1>0, <1>2, <1>f, MarkFacts
<1>3. ASSUME NEW o \in Ops, NEW t \in Types, NEW s \in Resting, Create(o, t, s)
      PROVE  artifacts'[oo][q] # "RUNNING"
  BY <1>0, <1>3 DEF Create, NewRow, TypeOK, NoStatus
<1>4. ASSUME NEW o \in Ops, Submit(o) \/ StartFails(o) \/ Cancel(o)
      PROVE  artifacts'[oo][q] # "RUNNING"
  BY <1>1, <1>2, <1>4 DEF Submit, StartFails, Cancel, rows
<1>5. ASSUME NEW o \in Ops, NEW n \in Claims, NEW r \in Artifacts,
             NEW s \in ArtifactStatuses, WorkerSetsArtifact(o, n, r, s)
      PROVE  artifacts'[oo][q] # "RUNNING"
  <2>1. oo # o
    BY <1>5 DEF WorkerSetsArtifact
  <2>2. artifacts'[oo] = artifacts[oo] /\ status' = status
    BY <1>5, <2>1 DEF WorkerSetsArtifact, TypeOK
  <2> QED BY <1>0, <2>2
<1>6. ASSUME NEW o \in Ops, NEW n \in Claims, WorkerAddsArtifacts(o, n)
      PROVE  artifacts'[oo][q] # "RUNNING"
  BY <1>0, <1>6 DEF WorkerAddsArtifacts, TypeOK
<1>7. ASSUME NEW o \in Ops, NEW n \in Claims, NEW s \in Statuses, WorkerMoves(o, n, s)
      PROVE  artifacts'[oo][q] # "RUNNING"
  BY <1>0, <1>7 DEF WorkerMoves, TypeOK
<1>8. ASSUME NEW o \in Ops, NEW n \in Claims, TaskStep(o, n)
      PROVE  artifacts'[oo][q] # "RUNNING"
  BY <1>1, <1>2, <1>5, <1>6, <1>7, <1>8
     DEF TaskStep, WorkerStep, WorkerEnds, TaskStarts, TaskNeverStarts, AcquireSlot,
         CancelUnwinds, WorkerTogglesWorkspace, WorkerReturns, WorkerFails,
         WorkerCancelled, WorkerStopped, ForgetTask, Ends, rows
<1>9. CASE Startup
  <2>1. status'[oo] = ReconciledStatus(oo)
    BY <1>9 DEF Startup
  <2>2. CASE Reconciled(oo)
    BY <1>9, <1>f, <2>2 DEF Startup
  <2>3. CASE ~Reconciled(oo)
    BY <1>0, <1>9, <2>1, <2>3 DEF Startup, Reconciled
  <2> QED BY <2>2, <2>3
<1>10. CASE ProcessStep
  BY <1>1, <1>2, <1>9, <1>10 DEF ProcessStep, ShutdownBegins, ShutdownEnds, Crash,
     CrashInEnd, CrashInCancel, rows
<1> QED BY <1>3, <1>4, <1>8, <1>10 DEF Next, Request

-------------------------------------------------------------------------------
\* The theorems.

\* The initial state is consistent.
LEMMA ConsistentInit == Init => Consistent
<1> SUFFICES ASSUME Init PROVE Consistent
  OBVIOUS
<1>1. TypeOK
  BY TypeInit
<1>2. \A o \in Ops, n \in Claims :
        phase[o][n] = "unborn" /\ ~LiveTask(o, n) /\ ~cancelPending[o][n]
  BY DEF Init, InitWith, LiveTask, Live, InBody
<1>3. WorkerOwnsOperation /\ LiveTaskIsRegistered /\ DownIsEmpty
  BY <1>2 DEF Init, InitWith, WorkerOwnsOperation, LiveTaskIsRegistered, DownIsEmpty
<1>4. NothingWithoutRow
  BY <1>2 DEF Init, InitWith, NothingWithoutRow
<1>5. StatusOfType /\ CancelIsRequested
  BY <1>2 DEF Init, InitWith, StatusOfType, CancelIsRequested
<1>6. CountsMatchRows
  BY DEF Init, InitWith, CountsMatchRows
<1>7. TerminalArtifactsSettled
  BY DEF Init, InitWith, TerminalArtifactsSettled, Terminal, NoStatus
<1> QED BY <1>1, <1>3, <1>4, <1>5, <1>6, <1>7 DEF Consistent

\* A step of the manager, or a stutter, from a consistent state is a step of
\* the abstract state machine, or a stutter.
LEMMA StepImplementsLifecycle ==
  ASSUME Consistent, [Next]_vars
  PROVE  [Lifecycle!Next]_(Lifecycle!lifecycleVars)
<1>1. TypeOK /\ Owned /\ Rowed
  BY DEF Consistent, Owned, Rowed
<1>2. CASE Next
  BY <1>1, <1>2, LifecycleRequest, LifecycleTask, LifecycleProcess DEF Next
<1>3. CASE UNCHANGED vars
  BY <1>3 DEF vars, rows, Lifecycle!lifecycleVars
<1> QED BY <1>2, <1>3

\* A step, or a stutter, keeps the state consistent.
LEMMA ConsistentStep == Consistent /\ [Next]_vars => Consistent'
<1> SUFFICES ASSUME Consistent, [Next]_vars PROVE Consistent'
  OBVIOUS
<1>1. /\ TypeOK /\ Owned /\ Rowed
      /\ CountsMatchRows /\ TerminalArtifactsSettled
  BY DEF Consistent, Owned, Rowed
<1>2. CASE Next
  <2>1. Lifecycle!Next
    BY <1>1, <1>2, LifecycleRequest, LifecycleTask, LifecycleProcess DEF Next
  <2>2. TypeOK'
    BY <1>1, <1>2, TypeRequest, TypeTask, TypeProcess DEF Next
  <2>3. Owned'
    BY <1>1, <1>2, OwnedRequest, OwnedTask, OwnedProcess DEF Next
  <2>4. NothingWithoutRow'
    BY <1>1, <1>2, <2>1, NothingWithoutRowStep
  <2>5. StatusOfType'
    BY <1>1, <2>1, StatusOfTypeStep DEF Rowed
  <2>6. CancelIsRequested'
    BY <1>1, <1>2, <2>1, CancelIsRequestedStep
  <2>7. CountsMatchRows'
    BY <1>1, <1>2, CountsStep
  <2>8. TerminalArtifactsSettled'
    BY <1>1, <1>2, SettledStep
  <2> QED BY <2>2, <2>3, <2>4, <2>5, <2>6, <2>7, <2>8 DEF Consistent, Owned
<1>3. CASE UNCHANGED vars
  BY <1>3 DEF vars, rows, memory, Consistent, TypeOK, WorkerOwnsOperation,
     LiveTaskIsRegistered, DownIsEmpty, NothingWithoutRow, StatusOfType,
     CancelIsRequested, CountsMatchRows, TerminalArtifactsSettled, LiveTask
<1> QED BY <1>2, <1>3

\* Every reachable state is consistent: typed, with every live worker holding
\* the claim of its operation and registered for cancellation, rows in statuses
\* of their type, counters equal to the rows, terminal operations settled.
THEOREM AlwaysConsistent == Spec => []Consistent
BY ConsistentInit, ConsistentStep, PTL DEF Spec

\* No operation is ever worked on without holding its claim, so by two workers
\* at once (_claim_worker, _release_worker, submit).
THEOREM OwnershipHolds == Spec => []WorkerOwnsOperation
<1>1. Consistent => WorkerOwnsOperation
  BY DEF Consistent
<1> QED BY <1>1, AlwaysConsistent, PTL

\* cancel() and shutdown() find every live task (submit, _forget_task).
THEOREM RegistrationHolds == Spec => []LiveTaskIsRegistered
<1>1. Consistent => LiveTaskIsRegistered
  BY DEF Consistent
<1> QED BY <1>1, AlwaysConsistent, PTL

\* The stored counters are those of the artifact rows (_recalculate_counts).
THEOREM CountsHold == Spec => []CountsMatchRows
<1>1. Consistent => CountsMatchRows
  BY DEF Consistent
<1> QED BY <1>1, AlwaysConsistent, PTL

\* No terminal operation shows a running artifact (_fail_running_artifacts).
THEOREM SettledHolds == Spec => []TerminalArtifactsSettled
<1>1. Consistent => TerminalArtifactsSettled
  BY DEF Consistent
<1> QED BY <1>1, AlwaysConsistent, PTL

\* The manager implements the abstract state machine of an operation: rows are
\* created once, follow the edges of their type, are cancelled only on request
\* and never change again when terminal, across crashes and restarts.
THEOREM LifecycleImplemented == Spec => ImplementsLifecycle
<1>1. Init => Lifecycle!Init
  BY SameStates DEF Init, InitWith, Lifecycle!Init
<1>2. Consistent /\ [Next]_vars => [Lifecycle!Next]_(Lifecycle!lifecycleVars)
  BY StepImplementsLifecycle
<1> QED BY <1>1, <1>2, AlwaysConsistent, PTL DEF Spec, ImplementsLifecycle, Lifecycle!Spec

-------------------------------------------------------------------------------
\* Nobody is forgotten: an executing row has its worker, a cancellation reaches it.

\* Only a worker that was executing cleans up after a cancellation.
UnwindingExecutes ==
  \A o \in Ops, n \in Claims : phase[o][n] = "unwinding" => status[o] \in Executing

\* shutdown() has cancelled every task that is still alive.
StoppingIsCancelled ==
  process = "stopping" =>
    \A o \in Ops, n \in Claims :
      LiveTask(o, n) => cancelPending[o][n] \/ phase[o][n] = "unwinding"

\* The inductive invariant, next to Consistent: someone attends to what is to be done.
Attended ==
  ExecutingHasWorker /\ CancelReachesWorker /\ UnwindingExecutes /\ StoppingIsCancelled

\* An operation has at most one live task.
LEMMA OneTask ==
  ASSUME Owned, NEW o \in Ops, NEW n \in Claims, LiveTask(o, n)
  PROVE  HasLiveTask(o) /\ \A nn \in Claims : LiveTask(o, nn) => nn = n
<1>1. tasks[o] = n /\ n # 0
  BY SizesAssumption DEF Owned, LiveTaskIsRegistered, Claims
<1> QED BY <1>1 DEF Owned, LiveTaskIsRegistered, HasLiveTask

\* The ways a task of an operation goes on or ends, with the status it leaves.
Turn(o, n) ==
  \/ /\ phase[o][n] \notin InBody /\ ~LiveTask(o, n)'
     /\ status' = status
  \/ /\ phase[o][n] \in InBody /\ ~LiveTask(o, n)'
     /\ status'[o] \in Terminal \cup {"READY"}
  \/ /\ phase[o][n] \in {"scheduled", "queued"} /\ phase'[o][n] \in {"queued", "running"}
     /\ ~cancelPending[o][n] /\ ~cancelPending'[o][n]
     /\ status' = status
  \/ /\ phase[o][n] = "running" /\ phase'[o][n] = "unwinding"
     /\ status' = status /\ status[o] \in Executing
  \/ /\ phase[o][n] = "running" /\ phase'[o][n] = "running"
     /\ ~cancelPending[o][n] /\ ~cancelPending'[o][n]
     /\ status[o] \in Terminal => status' = status

\* Every step of a task is one of these and leaves all other tasks alone.
LEMMA TaskTurns ==
  ASSUME TypeOK, NEW o \in Ops, NEW n \in Claims, TaskStep(o, n)
  PROVE  /\ Turn(o, n)
         /\ process' = process /\ cancelRequested' = cancelRequested
         /\ \A oo \in Ops : oo # o => status'[oo] = status[oo]
         /\ \A oo \in Ops, nn \in Claims : oo # o \/ nn # n =>
              phase'[oo][nn] = phase[oo][nn] /\ cancelPending'[oo][nn] = cancelPending[oo][nn]
<1> DEFINE Frame == /\ process' = process /\ cancelRequested' = cancelRequested
                    /\ \A oo \in Ops : oo # o => status'[oo] = status[oo]
                    /\ \A oo \in Ops, nn \in Claims : oo # o \/ nn # n =>
                         /\ phase'[oo][nn] = phase[oo][nn]
                         /\ cancelPending'[oo][nn] = cancelPending[oo][nn]
<1>c. ASSUME cancelPending' = [cancelPending EXCEPT ![o][n] = FALSE],
             NEW oo \in Ops, NEW nn \in Claims, oo # o \/ nn # n
      PROVE  cancelPending'[oo][nn] = cancelPending[oo][nn]
  BY <1>c DEF TypeOK
<1>l. \A p \in {"done", "gone"} : Goes(o, n, p) => ~LiveTask(o, n)'
  BY GoesFacts DEF LiveTask, Live, InBody
<1>1. CASE TaskStarts(o, n) \/ AcquireSlot(o, n)
  BY <1>1, GoesFacts DEF TaskStarts, AcquireSlot, Turn, rows
<1>2. CASE TaskNeverStarts(o, n)
  <2>1. \A oo \in Ops, nn \in Claims : oo # o \/ nn # n => phase'[oo][nn] = phase[oo][nn]
    BY <1>2, GoesFacts DEF TaskNeverStarts
  <2>2. Turn(o, n)
    BY <1>2, <1>l DEF TaskNeverStarts, Turn, rows, InBody
  <2> QED BY <1>2, <1>c, <2>1, <2>2 DEF TaskNeverStarts, rows
<1>3. CASE ForgetTask(o, n)
  BY <1>3, <1>l, GoesFacts DEF ForgetTask, Turn, rows, InBody
<1>4. CASE CancelUnwinds(o, n)
  <2>1. /\ phase'[o][n] = "unwinding"
        /\ \A oo \in Ops, nn \in Claims : oo # o \/ nn # n => phase'[oo][nn] = phase[oo][nn]
    BY <1>4, GoesFacts DEF CancelUnwinds
  <2>2. Turn(o, n)
    BY <1>4, <2>1 DEF CancelUnwinds, Turn, rows
  <2> QED BY <1>4, <1>c, <2>1, <2>2 DEF CancelUnwinds, rows
<1>5. CASE WorkerStep(o, n)
  <2>1. ASSUME NEW s \in Statuses, WorkerMoves(o, n, s) PROVE Turn(o, n) /\ Frame
    BY <2>1 DEF WorkerMoves, Working, MayMove, Turn, TypeOK, memory
  <2>2. CASE \/ \E r \in Artifacts, s \in ArtifactStatuses : WorkerSetsArtifact(o, n, r, s)
             \/ WorkerAddsArtifacts(o, n) \/ WorkerTogglesWorkspace(o, n)
    BY <2>2 DEF WorkerSetsArtifact, WorkerAddsArtifacts, WorkerTogglesWorkspace, Working,
       Turn, rows, memory
  <2> QED BY <1>5, <2>1, <2>2 DEF WorkerStep
<1>6. CASE WorkerReturns(o, n) \/ WorkerStopped(o, n)
  BY <1>6, <1>c, <1>l, GoesFacts DEF WorkerReturns, WorkerStopped, Working, MayCancel, Turn,
     InBody
<1>7. ASSUME NEW s \in Stops, Ends(o, n, s), phase[o][n] \in InBody PROVE Turn(o, n) /\ Frame
  <2>1. status'[o] \in Terminal /\ \A oo \in Ops : oo # o => status'[oo] = status[oo]
    BY <1>7, MarkFacts DEF Ends, Stops, Terminal
  <2>2. \A oo \in Ops, nn \in Claims : oo # o \/ nn # n => phase'[oo][nn] = phase[oo][nn]
    BY <1>7, GoesFacts DEF Ends
  <2>3. Turn(o, n)
    BY <1>7, <1>l, <2>1 DEF Ends, Turn
  <2> QED BY <1>7, <1>c, <2>1, <2>2, <2>3 DEF Ends
<1>8. CASE WorkerFails(o, n) \/ WorkerCancelled(o, n)
  BY <1>7, <1>8 DEF WorkerFails, WorkerCancelled, MayFail, MayCancel, FailedAs, CancelledAs,
     Stops, InBody
<1> QED BY <1>1, <1>2, <1>3, <1>4, <1>5, <1>6, <1>8 DEF TaskStep, WorkerEnds

\* A step of a task forgets nobody.
LEMMA AttendedTask ==
  ASSUME TypeOK, Owned, Attended, NEW o \in Ops, NEW n \in Claims, TaskStep(o, n)
  PROVE  Attended'
<1>1. ExecutingHasWorker'
  <2> SUFFICES ASSUME process # "down", NEW oo \in Ops, status'[oo] \in Executing
               PROVE  \E nn \in Claims : phase'[oo][nn] \in InBody
    BY TaskTurns DEF ExecutingHasWorker
  <2>1. CASE oo # o
    BY <2>1, TaskTurns DEF Attended, ExecutingHasWorker
  <2>2. CASE oo = o /\ phase'[o][n] \in InBody
    BY <2>2
  <2>3. CASE oo = o /\ phase'[o][n] \notin InBody
    <3>1. status'[o] \notin Terminal \cup {"READY"}
      BY <2>3 DEF Executing, Terminal
    <3>2. status' = status /\ phase[o][n] \notin InBody
      BY <2>3, <3>1, TaskTurns DEF Turn, InBody
    <3>3. PICK nn \in Claims : phase[o][nn] \in InBody
      BY <2>3, <3>2 DEF Attended, ExecutingHasWorker
    <3>4. nn # n
      BY <3>2, <3>3
    <3> QED BY <2>3, <3>3, <3>4, TaskTurns
  <2> QED BY <2>1, <2>2, <2>3
<1>2. CancelReachesWorker' /\ StoppingIsCancelled'
  <2> SUFFICES ASSUME NEW oo \in Ops, NEW nn \in Claims, LiveTask(oo, nn)',
                      process = "stopping" \/ (cancelRequested[oo] /\ status'[oo] \notin Terminal)
               PROVE  cancelPending'[oo][nn] \/ phase'[oo][nn] = "unwinding"
    BY TaskTurns DEF CancelReachesWorker, StoppingIsCancelled
  <2>1. LiveTask(oo, nn)
    BY TaskFrame
  <2>2. CASE oo # o
    BY <2>1, <2>2, TaskTurns DEF Attended, CancelReachesWorker, StoppingIsCancelled
  <2>3. CASE oo = o /\ nn # n
    <3>1. ~LiveTask(o, n)
      BY <2>1, <2>3, OneTask
    <3>2. status' = status
      BY <3>1, TaskTurns DEF Turn, LiveTask, Live, InBody
    <3> QED
      BY <2>1, <2>3, <3>2, TaskTurns DEF Attended, CancelReachesWorker, StoppingIsCancelled
  <2>4. CASE oo = o /\ nn = n
    <3>1. CASE phase'[o][n] = "unwinding"
      BY <2>4, <3>1
    <3>2. CASE phase'[o][n] # "unwinding"
      <4>1. /\ ~cancelPending[o][n] /\ phase[o][n] # "unwinding"
            /\ status'[o] \notin Terminal => status[o] \notin Terminal
        BY <2>4, <3>2, TaskTurns DEF Turn
      <4> QED BY <2>1, <2>4, <4>1 DEF Attended, CancelReachesWorker, StoppingIsCancelled
    <3> QED BY <3>1, <3>2
  <2> QED BY <2>2, <2>3, <2>4
<1>3. UnwindingExecutes'
  <2> SUFFICES ASSUME NEW oo \in Ops, NEW nn \in Claims, phase'[oo][nn] = "unwinding"
               PROVE  status'[oo] \in Executing
    BY DEF UnwindingExecutes
  <2>1. CASE oo # o
    BY <2>1, TaskTurns DEF Attended, UnwindingExecutes
  <2>2. CASE oo = o /\ nn # n
    <3>1. phase[o][nn] = "unwinding" /\ LiveTask(o, nn)
      BY <2>2, TaskTurns DEF LiveTask, Live, InBody
    <3>2. ~LiveTask(o, n)
      BY <2>2, <3>1, OneTask
    <3>3. status' = status
      BY <3>2, TaskTurns DEF Turn, LiveTask, Live, InBody
    <3> QED BY <2>2, <3>1, <3>3 DEF Attended, UnwindingExecutes
  <2>3. CASE oo = o /\ nn = n
    BY <2>3, TaskTurns DEF Turn, LiveTask, Live, InBody
  <2> QED BY <2>1, <2>2, <2>3
<1> QED BY <1>1, <1>2, <1>3 DEF Attended

\* A request forgets nobody: submit finds no live task, cancel() reaches the one there is.
LEMMA AttendedRequest ==
  ASSUME TypeOK, Owned, Rowed, Attended, NEW o \in Ops, Request(o)
  PROVE  Attended'
<1>1. process = "up" /\ process' = "up"
  BY DEF Request, Create, NewRow, Submit, StartFails, Cancel
<1>2. StoppingIsCancelled'
  BY <1>1 DEF StoppingIsCancelled
<1>3. ASSUME NEW t \in Types, NEW s \in Resting, Create(o, t, s) PROVE Attended'
  <2>1. /\ UNCHANGED <<phase, cancelPending, cancelRequested>>
        /\ status[o] = NoStatus /\ ~cancelRequested[o] /\ \A n \in Claims : ~LiveTask(o, n)
        /\ status'[o] = s /\ \A oo \in Ops : oo # o => status'[oo] = status[oo]
    BY <1>3 DEF Create, NewRow, Rowed, NothingWithoutRow, TypeOK
  <2>2. s \notin Executing
    BY DEF Resting, Executing
  <2> QED
    BY <1>1, <1>2, <2>1, <2>2 DEF Attended, ExecutingHasWorker, CancelReachesWorker,
       UnwindingExecutes, LiveTask, Live, InBody
<1>4. CASE Submit(o)
  <2> DEFINE n == claims[o] + 1
  <2>1. /\ n \in Claims /\ Goes(o, n, "scheduled") /\ ~cancelRequested[o]
        /\ UNCHANGED <<status, cancelPending, cancelRequested>>
    <3>1. claims[o] \in 0..MaxClaims /\ claims[o] < MaxClaims
      BY <1>4, SizesAssumption DEF Submit, TypeOK, Claims
    <3> QED BY <1>4, <3>1, SizesAssumption DEF Submit, Claims, Claimable
  <2>2. \A nn \in Claims : ~LiveTask(o, nn)
    BY <1>4, OneTask DEF Submit
  <2> HIDE DEF n
  <2>3. \A oo \in Ops, nn \in Claims : oo # o => phase'[oo][nn] = phase[oo][nn]
    BY <2>1, GoesFacts
  <2>4. \A nn \in Claims : phase'[o][nn] # "unwinding"
    BY <2>1, <2>2, GoesFacts DEF LiveTask, Live, InBody
  <2>5. status[o] \notin Executing
    BY <1>1, <2>2 DEF Attended, ExecutingHasWorker, LiveTask, Live
  <2>6. ExecutingHasWorker'
    BY <1>1, <2>1, <2>3, <2>5 DEF Attended, ExecutingHasWorker
  <2>7. CancelReachesWorker'
    BY <2>1, <2>3 DEF Attended, CancelReachesWorker, LiveTask
  <2>8. UnwindingExecutes'
    BY <2>1, <2>3, <2>4 DEF Attended, UnwindingExecutes
  <2> QED BY <1>2, <2>6, <2>7, <2>8 DEF Attended
<1>5. CASE StartFails(o)
  BY <1>1, <1>2, <1>5 DEF StartFails, rows, Attended, ExecutingHasWorker, CancelReachesWorker,
     UnwindingExecutes, LiveTask
<1>6. CASE Cancel(o)
  <2>1. /\ phase' = phase
        /\ \A oo \in Ops : oo # o => cancelRequested'[oo] = cancelRequested[oo]
    BY <1>6 DEF Cancel, RequestCancel, TypeOK
  <2>2. CASE HasLiveTask(o)
    <3>1. /\ status' = status
          /\ cancelPending' = [cancelPending EXCEPT ![o][tasks[o]] = TRUE]
      BY <1>6, <2>2 DEF Cancel
    <3>2. /\ \A n \in Claims : LiveTask(o, n) => cancelPending'[o][n]
          /\ \A oo \in Ops, n \in Claims : oo # o => cancelPending'[oo][n] = cancelPending[oo][n]
      BY <3>1 DEF Owned, LiveTaskIsRegistered, TypeOK
    <3> QED
      BY <1>1, <1>2, <2>1, <3>1, <3>2 DEF Attended, ExecutingHasWorker, CancelReachesWorker,
         UnwindingExecutes, LiveTask
  <2>3. CASE ~HasLiveTask(o)
    <3>1. /\ UNCHANGED cancelPending /\ Mark(o, "CANCELLED")
          /\ \A n \in Claims : ~LiveTask(o, n)
      BY <1>6, <2>3, OneTask DEF Cancel
    <3>2. /\ \A oo \in Ops : oo # o => status'[oo] = status[oo]
          /\ status'[o] \notin Executing
      BY <3>1, MarkFacts DEF Executing, Terminal
    <3> QED
      BY <1>1, <1>2, <2>1, <3>1, <3>2 DEF Attended, ExecutingHasWorker, CancelReachesWorker,
         UnwindingExecutes, LiveTask, Live, InBody
  <2> QED BY <2>2, <2>3
<1> QED BY <1>3, <1>4, <1>5, <1>6 DEF Request

\* Shutdown cancels every task; a lost process has none; startup leaves none executing.
LEMMA AttendedProcess ==
  ASSUME TypeOK, Owned, Attended, ProcessStep
  PROVE  Attended'
<1>1. CASE ShutdownBegins
  <2>1. \A o \in Ops, n \in Claims :
          cancelPending'[o][n] <=> tasks[o] = n /\ LiveTask(o, n)
    BY <1>1 DEF ShutdownBegins
  <2>2. UNCHANGED <<status, cancelRequested, phase>> /\ process = "up"
    BY <1>1 DEF ShutdownBegins, rows
  <2>3. \A o \in Ops, n \in Claims : LiveTask(o, n)' => cancelPending'[o][n]
    BY <2>1, <2>2 DEF Owned, LiveTaskIsRegistered, LiveTask
  <2> QED
    BY <2>2, <2>3 DEF Attended, ExecutingHasWorker, CancelReachesWorker, UnwindingExecutes,
       StoppingIsCancelled
<1>2. CASE Lost
  <2>1. \A o \in Ops, n \in Claims : ~LiveTask(o, n)' /\ phase'[o][n] # "unwinding"
    BY <1>2 DEF Lost, LiveTask, Live, InBody
  <2> QED
    BY <1>2, <2>1 DEF Lost, Attended, ExecutingHasWorker, CancelReachesWorker,
       UnwindingExecutes, StoppingIsCancelled
<1>3. CASE Startup
  <2>1. \A o \in Ops, n \in Claims : ~LiveTask(o, n)' /\ phase'[o][n] # "unwinding"
    BY <1>3 DEF Startup, memory, Owned, DownIsEmpty, LiveTask, Live, InBody
  <2>2. \A o \in Ops : status'[o] \notin Executing
    BY <1>3 DEF Startup, ReconciledStatus, Selected, Executing, Terminal
  <2> QED
    BY <1>3, <2>1, <2>2 DEF Startup, Attended, ExecutingHasWorker, CancelReachesWorker,
       UnwindingExecutes, StoppingIsCancelled
<1> QED BY <1>1, <1>2, <1>3 DEF ProcessStep, ShutdownEnds, Crash, CrashInEnd, CrashInCancel

\* In every reachable state nobody is forgotten (submit, cancel, shutdown, _run_worker,
\* reconcile_interrupted_operations).
THEOREM AlwaysAttended == Spec => []Attended
<1>1. Init => Attended
  BY DEF Init, InitWith, Attended, ExecutingHasWorker, CancelReachesWorker, UnwindingExecutes,
     StoppingIsCancelled, LiveTask, Live, InBody, Executing, NoStatus
<1>2. Consistent /\ Attended /\ [Next]_vars => Attended'
  <2> SUFFICES ASSUME Consistent, Attended, [Next]_vars PROVE Attended'
    OBVIOUS
  <2>1. TypeOK /\ Owned /\ Rowed
    BY DEF Consistent, Owned, Rowed
  <2>2. CASE Next
    BY <2>1, <2>2, AttendedRequest, AttendedTask, AttendedProcess DEF Next
  <2>3. CASE UNCHANGED vars
    BY <2>3 DEF vars, rows, memory, Attended, ExecutingHasWorker, CancelReachesWorker,
       UnwindingExecutes, StoppingIsCancelled, LiveTask
  <2> QED BY <2>2, <2>3
<1> QED BY <1>1, <1>2, AlwaysConsistent, PTL DEF Spec

\* No row is left in an executing status without a worker in this process
\* (_run_worker, reconcile_interrupted_operations).
THEOREM ExecutingHolds == Spec => []ExecutingHasWorker
<1>1. Attended => ExecutingHasWorker
  BY DEF Attended
<1> QED BY <1>1, AlwaysAttended, PTL

\* No request to cancel is missed by a worker that goes on (cancel, _run_worker).
THEOREM CancelHolds == Spec => []CancelReachesWorker
<1>1. Attended => CancelReachesWorker
  BY DEF Attended
<1> QED BY <1>1, AlwaysAttended, PTL

-------------------------------------------------------------------------------
\* What no step does.

\* A workspace goes with the end of its own worker, or when there is no worker.
THEOREM WorkspaceStays == Spec => WorkspaceNotPulled
<1> DEFINE Stay == \A o \in Ops, n \in Claims :
                     /\ o \in workspace /\ o \notin workspace'
                     /\ phase[o][n] \in InBody /\ phase'[o][n] \in InBody
                     => WorkerTogglesWorkspace(o, n)
<1>1. Consistent /\ [Next]_vars => [Stay]_vars
  <2> SUFFICES ASSUME Consistent, Next, NEW o \in Ops, NEW n \in Claims,
                      o \in workspace, o \notin workspace',
                      phase[o][n] \in InBody, phase'[o][n] \in InBody
               PROVE  WorkerTogglesWorkspace(o, n)
    OBVIOUS
  <2>1. TypeOK /\ Owned /\ Rowed
    BY DEF Consistent, Owned, Rowed
  <2>2. LiveTask(o, n) /\ HasLiveTask(o) /\ \A nn \in Claims : LiveTask(o, nn) => nn = n
    BY <2>1, OneTask DEF LiveTask, Live
  <2>3. ASSUME NEW oo \in Ops, Request(oo) PROVE FALSE
    <3>1. oo = o /\ Cancel(o) /\ ~HasLiveTask(o)
      BY <2>3 DEF Request, Create, NewRow, Submit, StartFails, Cancel
    <3> QED BY <2>2, <3>1
  <2>4. ASSUME NEW oo \in Ops, NEW nn \in Claims, TaskStep(oo, nn)
        PROVE  WorkerTogglesWorkspace(o, n)
    <3>1. CASE \E m \in Ops, k \in Claims : WorkerTogglesWorkspace(m, k) /\ m = oo /\ k = nn
      <4>1. oo = o
        BY <3>1 DEF WorkerTogglesWorkspace
      <4>2. nn = n
        BY <2>2, <3>1, <4>1 DEF WorkerTogglesWorkspace, Working, LiveTask, Live, InBody
      <4> QED BY <3>1, <4>1, <4>2
    <3>2. CASE \E s : Ends(oo, nn, s) /\ phase[oo][nn] \in InBody
      <4>1. oo = o
        BY <3>2 DEF Ends
      <4>2. nn = n
        BY <2>2, <3>2, <4>1 DEF LiveTask, Live
      <4>3. phase'[o][n] = "done"
        BY <2>1, <3>2, <4>1, <4>2, GoesFacts DEF Ends
      <4> QED BY <4>3 DEF InBody
    <3>3. CASE workspace' = workspace
      BY <3>3
    <3> QED
      BY <2>4, <3>1, <3>2, <3>3 DEF TaskStep, TaskStarts, TaskNeverStarts, AcquireSlot,
         CancelUnwinds, WorkerStep, WorkerMoves, WorkerSetsArtifact, WorkerAddsArtifacts,
         WorkerEnds, WorkerReturns, WorkerFails, WorkerCancelled, WorkerStopped, ForgetTask,
         MayFail, MayCancel, InBody
  <2>5. CASE ProcessStep
    <3>1. ~Lost
      BY DEF Lost, InBody
    <3>2. ~Startup
      BY <2>1, <2>2 DEF Startup, Owned, DownIsEmpty
    <3> QED BY <2>5, <3>1, <3>2 DEF ProcessStep, ShutdownBegins, ShutdownEnds, Crash, CrashInEnd,
               CrashInCancel
  <2> QED BY <2>3, <2>4, <2>5 DEF Next
<1> QED BY <1>1, AlwaysConsistent, PTL DEF Spec, WorkspaceNotPulled

\* A READY operation nobody asked to cancel outlives a stop and a restart, with its
\* workspace (_handle_shutdown_interruption, reconcile_interrupted_operations).
THEOREM ReadySurvives == Spec => ReadySurvivesRestart
<1> DEFINE Survive == (process \in {"stopping", "down"} \/ process' = "stopping") =>
              \A o \in Ops : status[o] = "READY" /\ ~cancelRequested'[o] =>
                status'[o] = "READY" /\ (o \in workspace => o \in workspace')
<1>1. Consistent /\ Attended /\ [Next]_vars => [Survive]_vars
  <2> SUFFICES ASSUME Consistent, Attended, Next,
                      process \in {"stopping", "down"} \/ process' = "stopping",
                      NEW o \in Ops, status[o] = "READY", ~cancelRequested'[o]
               PROVE  status'[o] = "READY" /\ (o \in workspace => o \in workspace')
    OBVIOUS
  <2>1. TypeOK /\ Owned /\ Rowed
    BY DEF Consistent, Owned, Rowed
  <2>2. ASSUME NEW n \in Claims, process = "stopping", LiveTask(o, n)
        PROVE  cancelPending[o][n]
    BY <2>2 DEF Attended, StoppingIsCancelled, UnwindingExecutes, Executing
  <2>3. ASSUME NEW oo \in Ops, Request(oo) PROVE FALSE
    BY <2>3 DEF Request, Create, NewRow, Submit, StartFails, Cancel
  <2>4. ASSUME NEW oo \in Ops, NEW n \in Claims, TaskStep(oo, n)
        PROVE  status'[o] = "READY" /\ (o \in workspace => o \in workspace')
    <3>1. process = "stopping" \/ ~LiveTask(oo, n)
      BY <2>1, <2>4, TaskFrame DEF Owned, DownIsEmpty
    <3>2. CASE WorkerStep(oo, n)
      <4>1. oo # o
        BY <2>2, <3>1, <3>2 DEF WorkerStep, WorkerMoves, WorkerSetsArtifact,
           WorkerAddsArtifacts, WorkerTogglesWorkspace, Working, LiveTask, Live, InBody
      <4> QED
        BY <2>1, <3>2, <4>1 DEF WorkerStep, WorkerMoves, WorkerSetsArtifact,
           WorkerAddsArtifacts, WorkerTogglesWorkspace, TypeOK, rows
    <3>3. CASE WorkerFails(oo, n) \/ WorkerCancelled(oo, n)
      <4>1. oo # o
        BY <2>2, <3>1, <3>3 DEF WorkerFails, WorkerCancelled, MayFail, MayCancel, Interrupted,
           LiveTask, Live, InBody
      <4> QED
        BY <2>1, <3>3, <4>1, MarkFacts DEF WorkerFails, WorkerCancelled, Ends
    <3> QED
      BY <2>4, <3>2, <3>3 DEF TaskStep, TaskStarts, TaskNeverStarts, AcquireSlot,
         CancelUnwinds, WorkerEnds, WorkerReturns, WorkerStopped, ForgetTask, rows
  <2>5. CASE ProcessStep
    <3>1. CASE ShutdownBegins \/ ShutdownEnds \/ Crash
      BY <3>1 DEF ShutdownBegins, ShutdownEnds, Crash, rows
    <3>2. ASSUME NEW oo \in Ops, NEW n \in Claims, NEW b \in BOOLEAN, CrashInEnd(oo, n, b)
          PROVE  status'[o] = "READY" /\ (o \in workspace => o \in workspace')
      <4>1. process = "stopping"
        BY <3>2 DEF CrashInEnd, Lost
      <4>2. oo # o
        BY <2>2, <3>2, <4>1 DEF CrashInEnd, MayFail, MayCancel, Interrupted, LiveTask, Live,
           InBody
      <4> QED BY <2>1, <3>2, <4>2, MarkFacts DEF CrashInEnd
    <3>3. ASSUME NEW oo \in Ops, NEW b \in BOOLEAN, CrashInCancel(oo, b) PROVE FALSE
      BY <3>3 DEF CrashInCancel, Lost
    <3>4. CASE Startup
      <4>1. ~cancelRequested[o] /\ ReconciledStatus(o) = "READY"
        BY <3>4 DEF Startup, ReconciledStatus, Terminal
      <4> QED BY <3>4, <4>1 DEF Startup, Reconciled
    <3> QED BY <2>5, <3>1, <3>2, <3>3, <3>4 DEF ProcessStep
  <2> QED BY <2>3, <2>4, <2>5 DEF Next
<1> QED BY <1>1, AlwaysConsistent, AlwaysAttended, PTL DEF Spec, ReadySurvivesRestart

\* After a restart nothing is claimed or executing, and a claimed operation that was asked
\* to cancel is CANCELLED (reconcile_interrupted_operations).
THEOREM RestartHolds == Spec => RestartSettles
<1> DEFINE Settle == process = "down" /\ process' = "up" =>
              \A o \in Ops :
                /\ token'[o] = NoToken
                /\ status'[o] \notin Executing
                /\ token[o] # NoToken /\ cancelRequested[o] /\ status[o] \notin Terminal =>
                     status'[o] = "CANCELLED"
<1>1. TypeOK /\ [Next]_vars => [Settle]_vars
  <2> SUFFICES ASSUME TypeOK, Next, process = "down", process' = "up" PROVE Settle
    OBVIOUS
  <2>1. Startup
    <3>1. \A o \in Ops : ~Request(o)
      BY DEF Request, Create, NewRow, Submit, StartFails, Cancel
    <3>2. \A o \in Ops, n \in Claims : ~TaskStep(o, n)
      BY TaskFrame
    <3> QED BY <3>1, <3>2 DEF Next, ProcessStep, ShutdownBegins, ShutdownEnds, Crash,
               CrashInEnd, CrashInCancel
  <2> QED BY <2>1 DEF Startup, ReconciledStatus, Selected, Executing, Terminal
<1> QED BY <1>1, TypeCorrect, PTL DEF Spec, RestartSettles

===============================================================================
