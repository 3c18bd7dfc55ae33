-------------------------- MODULE OperationLifecycle --------------------------
(***************************************************************************)
(* What the portal promises of an operation row, whatever the number of    *)
(* workers, crashes and restarts between two reads of it: the row is       *)
(* created once in an initial status of its type, then follows the edges   *)
(* of the state machine and no others, is CANCELLED only after somebody    *)
(* asked for it, and never changes again once it is terminal.  One step    *)
(* may move several rows (a restart reconciles all of them at once).       *)
(***************************************************************************)
EXTENDS OperationStates

CONSTANT Ops

VARIABLES type, status, cancelRequested

lifecycleVars == <<type, status, cancelRequested>>

Init ==
  /\ type = [o \in Ops |-> NoStatus]
  /\ status = [o \in Ops |-> NoStatus]
  /\ cancelRequested = [o \in Ops |-> FALSE]

Born(o) ==
  /\ status[o] = NoStatus
  /\ type'[o] \in Types
  /\ status'[o] \in InitialStatuses(type'[o])
  /\ cancelRequested'[o] = FALSE

Rests(o) ==
  /\ type'[o] = type[o]
  /\ status'[o] = status[o]
  /\ cancelRequested'[o] = cancelRequested[o]

\* A row takes one edge; CANCELLED only when the request is on record.
Moves(o) ==
  /\ type'[o] = type[o]
  /\ MayMove(type[o], status[o], status'[o])
  /\ cancelRequested[o] => cancelRequested'[o]
  /\ status'[o] = "CANCELLED" => cancelRequested'[o]

\* The request is recorded; the row stays where it is.
Asked(o) ==
  /\ type'[o] = type[o]
  /\ status[o] \notin Terminal \cup {NoStatus}
  /\ status'[o] = status[o]
  /\ cancelRequested'[o] = TRUE

Next ==
  \A o \in Ops : Born(o) \/ Rests(o) \/ Moves(o) \/ Asked(o)

Spec == Init /\ [][Next]_lifecycleVars

===============================================================================
