----------------------------- MODULE MCRuntimeMode -----------------------------
(* Small instances of RuntimeMode. *)
EXTENDS RuntimeMode, TLC

CONSTANTS o1, o2

MCOps == {o1, o2}
MCOneOp == {o1}
MCNoArtifact == {}
MCSymmetry == Permutations({o1, o2})
===============================================================================
