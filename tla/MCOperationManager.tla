-------------------------- MODULE MCOperationManager --------------------------
(* Small instances of OperationManager. *)
EXTENDS OperationManager, TLC

CONSTANTS o1, o2, r1, r2

MCOps == {o1, o2}
MCOneOp == {o1}
MCArtifacts == {r1, r2}
MCOneArtifact == {r1}
MCNoArtifact == {}
MCSymmetry == Permutations({o1, o2})
MCRowSymmetry == Permutations({r1, r2})
===============================================================================
