----------------------------- MODULE MCImportIntake -----------------------------
(* Two requests of ImportIntake next to each other. *)
EXTENDS ImportIntake

CONSTANTS q1, q2

MCRequests == {q1, q2}
MCDeliveries == {1, 2}
MCNoBad == {}
===============================================================================
