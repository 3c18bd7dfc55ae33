------------------------------ MODULE MCTransfers ------------------------------
(***************************************************************************)
(* Small instances of the modules a delivery goes through, checked in one  *)
(* run: a behaviour is a behaviour of one of them, which `component'       *)
(* names, and leaves the variables of the others as they start.            *)
(***************************************************************************)
EXTENDS ImportIntake, ImportExecution, ExportPublication, BundleFormat,
        RegistryTransfer, TLC

CONSTANTS q1, q2,                            \* ImportIntake
          o1, r1, r2,                        \* ImportExecution
          e1, e2,                            \* ExportPublication
          i1, ch, stray, img, chart, x, y, k1, k2, d1, d2,   \* BundleFormat
          c1, c2, ra, rb, j1, j2             \* RegistryTransfer

VARIABLE component

MCRequests == {q1, q2}
MCDeliveries == {1, 2, 3}
MCBad == {2}

MCImports == {o1}
MCRefs == {r1, r2}
MCContested == {r1}
MCCharts == {2}
MCMappings == {<<r1, r2>>, <<r2, r2>>}

MCExports == {e1, e2}

MCParcels == {d1, d2}
MCPaths == {i1, ch, stray}
MCRoots == {img, chart}
MCRootOf == i1 :> img @@ ch :> chart @@ stray :> NoRoot
MCChartRoots == {chart}
MCBytes == {x, y}
MCPayloads == {i1 :> x @@ ch :> x, i1 :> y @@ ch :> x, ch :> x @@ stray :> y}
MCSigningKeys == {k1, k2}

MCBodies == {c1, c2}
MCWraps == {0, 1}
MCRepos == {ra, rb}
MCSharedRepos == {rb}
MCImporters == {j1, j2}

MCSymmetry ==
  Permutations(MCSigningKeys) \cup Permutations(MCExports) \cup Permutations(MCImporters)

TransfersInit ==
  /\ component \in {"intake", "execution", "export", "format", "transfer"}
  /\ IntakeInit /\ ExecutionInit /\ ExportInit /\ BundleInit /\ TransferInit

TransfersNext ==
  /\ component' = component
  /\ \/ /\ component = "intake" /\ IntakeNext
        /\ UNCHANGED <<executionVars, exportVars, bundleVars, transferVars>>
     \/ /\ component = "execution" /\ ExecutionNext
        /\ UNCHANGED <<intakeVars, exportVars, bundleVars, transferVars>>
     \/ /\ component = "export" /\ ExportNext
        /\ UNCHANGED <<intakeVars, executionVars, bundleVars, transferVars>>
     \/ /\ component = "format" /\ BundleNext
        /\ UNCHANGED <<intakeVars, executionVars, exportVars, transferVars>>
     \/ /\ component = "transfer" /\ TransferNext
        /\ UNCHANGED <<intakeVars, executionVars, exportVars, bundleVars>>

TransfersSpec ==
  TransfersInit /\ [][TransfersNext]_<<component, intakeVars, executionVars,
                                       exportVars, bundleVars, transferVars>>

===============================================================================
