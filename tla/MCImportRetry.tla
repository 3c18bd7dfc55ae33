----------------------------- MODULE MCImportRetry -----------------------------
(* Small instances of ImportRetry. *)
EXTENDS ImportRetry, TLC

CONSTANTS o1, o2

MCOps == {o1, o2}
MCNoArtifact == {}
MCSymmetry == Permutations({o1, o2})
===============================================================================
