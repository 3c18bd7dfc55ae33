--------------------------- MODULE OperationStates ---------------------------
(***************************************************************************)
(* The persisted state machine of an operation and of one artifact row:    *)
(* backend/app/domain/operations.py, the status enumerations of            *)
(* domain/bundle.py and the artifact table of services/operation_manager.py*)
(***************************************************************************)

NoStatus == "NONE"     \* no row with this id

Types == {"EXPORT", "IMPORT"}

Terminal == {"COMPLETED", "FAILED", "REJECTED", "CANCELLED"}

Executing == {"VALIDATING", "RUNNING", "PACKAGING", "VERIFYING", "IMPORTING",
              "VERIFYING_TARGET"}

Resting == {"CREATED", "UPLOADED", "DISCOVERED", "READY"}

Statuses == Terminal \cup Executing \cup Resting

Stops == {"FAILED", "CANCELLED"}

ExportTransitions ==
  [CREATED    |-> {"VALIDATING"} \cup Stops,
   VALIDATING |-> {"RUNNING"} \cup Stops,
   RUNNING    |-> {"PACKAGING"} \cup Stops,
   PACKAGING  |-> {"VERIFYING"} \cup Stops,
   VERIFYING  |-> {"COMPLETED"} \cup Stops]

ImportTransitions ==
  [UPLOADED         |-> {"VERIFYING", "REJECTED"} \cup Stops,
   DISCOVERED       |-> {"VERIFYING", "REJECTED"} \cup Stops,
   VERIFYING        |-> {"READY", "REJECTED"} \cup Stops,
   READY            |-> {"IMPORTING"} \cup Stops,
   IMPORTING        |-> {"VERIFYING_TARGET"} \cup Stops,
   VERIFYING_TARGET |-> {"COMPLETED"} \cup Stops]

Transitions(t) == IF t = "EXPORT" THEN ExportTransitions ELSE ImportTransitions

\* validate_transition(type, current, target) returns without raising.
MayMove(t, current, target) ==
  /\ current \notin Terminal
  /\ current \in DOMAIN Transitions(t)
  /\ target \in Transitions(t)[current]

\* _validate_initial_status
InitialStatuses(t) ==
  IF t = "EXPORT" THEN {"CREATED"} ELSE {"UPLOADED", "DISCOVERED"}

------------------------------------------------------------------------------
ArtifactStatuses == {"PENDING", "RUNNING", "IMPORTED", "SKIPPED", "CONFLICT",
                     "FAILED", "VERIFIED"}

ArtifactTransitions ==
  [PENDING  |-> {"RUNNING", "SKIPPED", "CONFLICT", "FAILED"},
   RUNNING  |-> {"IMPORTED", "SKIPPED", "CONFLICT", "FAILED", "VERIFIED"},
   IMPORTED |-> {"VERIFIED", "FAILED"}]

ArtifactMayMove(current, target) ==
  /\ current \in DOMAIN ArtifactTransitions
  /\ target \in ArtifactTransitions[current]

==============================================================================
