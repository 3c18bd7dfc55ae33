--------------------------- MODULE ExportPublication ---------------------------
(***************************************************************************)
(* backend/app/services/export_orchestrator.py with the publication guard  *)
(* of export_publication_guard.py, the files that                          *)
(* bundle_package_service.build_bundle publishes, the recovery of          *)
(* export_recovery.py and the expiry of storage_retention.py: how the      *)
(* three files of a delivery appear in the outgoing directory and who      *)
(* takes them away when the export does not complete.                      *)
(*                                                                         *)
(* A delivery belongs to one export operation.  From its claim to          *)
(* packaging its row is in one stage, "RUNNING", whatever it transfers     *)
(* meanwhile.  The thread that packages is not stopped by a cancellation.  *)
(***************************************************************************)
EXTENDS Naturals, Sequences, SequencesExt

CONSTANT Exports

VARIABLES
  exportStatus,  \* of the operation
  exporter,      \* the request that starts it, then its asyncio task
  packer,        \* build_bundle in its thread
  files,         \* what lies under the names of the delivery
  owned,         \* _owned_deliveries, in memory
  bundle,        \* operations with bundle_filename, bundle_sha256, bundle_size_bytes
  handoff,       \* operations with handoff_filename, handoff_sha256, ...
  expired,       \* deliveries the retention has begun to remove
  up             \* the process runs

threadVars == <<packer, files, owned>>
rowVars == <<exportStatus, bundle, handoff>>
exportVars == <<rowVars, exporter, threadVars, expired, up>>

Parts == {"archive", "sidecar", "handoff"}
ExporterLives == {"running", "building", "draining"}
ExportTerminal == {"COMPLETED", "FAILED", "CANCELLED"}
ExportStatuses == ExportTerminal \cup {"NONE", "CREATED", "RUNNING", "PACKAGING", "VERIFYING"}
Finished == {"built", "raised"}

ExportInit ==
  /\ exportStatus = [d \in Exports |-> "NONE"]
  /\ exporter = [d \in Exports |-> "none"]
  /\ packer = [d \in Exports |-> "none"]
  /\ files = [d \in Exports |-> [p \in Parts |-> "none"]]
  /\ owned = {} /\ bundle = {} /\ handoff = {} /\ expired = {}
  /\ up = TRUE

ExportBecomes(d, s) == exportStatus' = [exportStatus EXCEPT ![d] = s]
Without(f, gone) == [p \in Parts |-> IF p \in gone THEN "none" ELSE f[p]]
Put(d, part, what) == files' = [files EXCEPT ![d][part] = what]
Steps(d, step) == packer' = [packer EXCEPT ![d] = step]
Published(d) == \A p \in Parts : files[d][p] = "own"

\* Somebody copies a file of the same name into the directory, before the
\* portal publishes its own under that name.
OutsiderDelivers(d, part) ==
  /\ files[d][part] = "none"
  /\ packer[d] \in {"none", "queued", "checked"}
                     \cup CASE part = "archive" -> {}
                            [] part = "sidecar" -> {"archive"}
                            [] part = "handoff" -> {"archive", "pair"}
  /\ d \notin expired
  /\ exportStatus[d] \in {"RUNNING", "PACKAGING"}
  /\ Put(d, part, "foreign")
  /\ UNCHANGED <<rowVars, exporter, packer, owned, expired, up>>

-------------------------------------------------------------------------------
\* build_bundle in its thread.

\* None of the three names is taken.
ThreadChecks(d) ==
  /\ packer[d] = "queued"
  /\ \A p \in Parts : files[d][p] = "none"
  /\ Steps(d, "checked")
  /\ UNCHANGED <<rowVars, exporter, files, owned, expired, up>>

\* A name is taken, now or when the archive is linked, or anything else fails
\* before the archive has its name.
ThreadGivesUp(d) ==
  /\ packer[d] \in {"queued", "checked"}
  /\ Steps(d, "raised")
  /\ UNCHANGED <<rowVars, exporter, files, owned, expired, up>>

\* The directories are on two file systems and the copy breaks off.
ThreadCopyFails(d) ==
  /\ packer[d] = "checked" /\ files[d].archive = "none"
  /\ Put(d, "archive", "partial")
  /\ Steps(d, "raised")
  /\ UNCHANGED <<rowVars, exporter, owned, expired, up>>

\* _stage_archive creates the name or raises; then the ownership is recorded.
ThreadPublishesArchive(d) ==
  /\ packer[d] = "checked" /\ files[d].archive = "none"
  /\ Put(d, "archive", "own")
  /\ owned' = owned \cup {d}
  /\ Steps(d, "archive")
  /\ UNCHANGED <<rowVars, exporter, expired, up>>

ThreadPublishesSidecar(d) ==
  /\ packer[d] = "archive" /\ files[d].sidecar = "none"
  /\ Put(d, "sidecar", "own")
  /\ Steps(d, "pair")
  /\ UNCHANGED <<rowVars, exporter, owned, expired, up>>

\* The sidecar cannot be created, for whatever reason.
ThreadTakesBack(d) ==
  /\ packer[d] = "archive"
  /\ Put(d, "archive", "none")
  /\ owned' = owned \ {d}
  /\ Steps(d, "raised")
  /\ UNCHANGED <<rowVars, exporter, expired, up>>

ThreadPublishesHandoff(d) ==
  /\ packer[d] = "pair" /\ files[d].handoff = "none"
  /\ Put(d, "handoff", "own")
  /\ Steps(d, "built")
  /\ UNCHANGED <<rowVars, exporter, owned, expired, up>>

\* A BundlePackageError leaves archive and sidecar to the worker.
ThreadMeetsHandoff(d) ==
  /\ packer[d] = "pair" /\ files[d].handoff = "foreign"
  /\ Steps(d, "raised")
  /\ UNCHANGED <<rowVars, exporter, files, owned, expired, up>>

\* Any other error removes the three files and keeps the ownership.
ThreadLosesHandoff(d) ==
  /\ packer[d] = "pair"
  /\ files' = [files EXCEPT ![d] = Without(@, Parts)]
  /\ Steps(d, "raised")
  /\ UNCHANGED <<rowVars, exporter, owned, expired, up>>

-------------------------------------------------------------------------------
\* The request, then the worker in the event loop.

\* start_export with _prepare_export_operation in a thread: the identity, the profile
\* and the selection have been looked at, and the row has its delivery_id.
StartsExport(d) ==
  /\ up
  /\ exportStatus[d] = "NONE"
  /\ ExportBecomes(d, "CREATED")
  /\ exporter' = [exporter EXCEPT ![d] = "starting"]
  /\ UNCHANGED <<bundle, handoff, threadVars, expired, up>>

\* submit claims the row; the worker compares the profile and takes its first stages.
SubmitsExport(d) ==
  /\ exporter[d] = "starting"
  /\ ExportBecomes(d, "RUNNING")
  /\ exporter' = [exporter EXCEPT ![d] = "running"]
  /\ UNCHANGED <<bundle, handoff, threadVars, expired, up>>

\* submit is refused, by a switch of the mode for one, and the row stays.
SubmitRefused(d) ==
  /\ exporter[d] = "starting"
  /\ exporter' = [exporter EXCEPT ![d] = "none"]
  /\ UNCHANGED <<rowVars, threadVars, expired, up>>

\* The transfer fails or is cancelled; nothing of it is in the directory.
MaterialiseEnds(d) ==
  /\ exporter[d] = "running"
  /\ \E s \in {"FAILED", "CANCELLED"} : ExportBecomes(d, s)
  /\ exporter' = [exporter EXCEPT ![d] = "ended"]
  /\ UNCHANGED <<bundle, handoff, threadVars, expired, up>>

Packages(d) ==
  /\ exporter[d] = "running"
  /\ ExportBecomes(d, "PACKAGING")
  /\ exporter' = [exporter EXCEPT ![d] = "building"]
  /\ Steps(d, "queued")
  /\ UNCHANGED <<bundle, handoff, files, owned, expired, up>>

\* Wrong: the names of a delivery are enough to remove what they name.
MayCleanAny(d) == packer[d] \in Finished

MayClean(d) == d \in owned

CleaningOrderReversed == <<"archive", "sidecar", "handoff">>

CleaningOrder == <<"handoff", "sidecar", "archive">>

\* _cleanup_published_delivery and _clear_bundle_metadata.
Cleans(d) ==
  /\ files' = IF MayClean(d) THEN [files EXCEPT ![d] = Without(@, ToSet(CleaningOrder))]
                             ELSE files
  /\ owned' = owned \ {d}
  /\ bundle' = bundle \ {d}
  /\ handoff' = handoff \ {d}

ExportEnds(d, s) ==
  /\ ExportBecomes(d, s)
  /\ exporter' = [exporter EXCEPT ![d] = "ended"]

BuildFails(d) ==
  /\ exporter[d] = "building" /\ packer[d] = "raised"
  /\ Cleans(d)
  /\ ExportEnds(d, "FAILED")
  /\ UNCHANGED <<packer, expired, up>>

\* VERIFYING, the rows and COMPLETED follow one another without an await, when
\* the three files are the ones that were built.
Completes(d) ==
  /\ exporter[d] = "building" /\ packer[d] = "built"
  /\ Published(d)
  /\ bundle' = bundle \cup {d}
  /\ handoff' = handoff \cup {d}
  /\ ExportEnds(d, "COMPLETED")
  /\ UNCHANGED <<threadVars, expired, up>>

\* A cancellation on record, a file that differs or a row that cannot be written.
RejectsBuild(d) ==
  /\ exporter[d] = "building" /\ packer[d] = "built"
  /\ Cleans(d)
  /\ \E s \in {"FAILED", "CANCELLED"} : ExportEnds(d, s)
  /\ UNCHANGED <<packer, expired, up>>

\* The task is cancelled: it waits for the thread.
CancelBuild(d) ==
  /\ exporter[d] = "building"
  /\ exporter' = [exporter EXCEPT ![d] = "draining"]
  /\ UNCHANGED <<rowVars, threadVars, expired, up>>

\* It is cancelled again while it waits.  The handler of the wait catches
\* Exception only, so the task ends and the thread goes on, unless it had no
\* executor yet.
CancelAgain(d) ==
  /\ exporter[d] = "draining"
  /\ ExportBecomes(d, "CANCELLED")
  /\ exporter' = [exporter EXCEPT ![d] = "abandoned"]
  /\ Steps(d, IF packer[d] = "queued" THEN "none" ELSE packer[d])
  /\ UNCHANGED <<bundle, handoff, files, owned, expired, up>>

\* Wrong: a cancelled worker leaves at once what its thread has published.
DrainedLeaving(d) ==
  /\ exporter[d] = "draining" /\ packer[d] \in Finished
  /\ ExportEnds(d, "CANCELLED")
  /\ UNCHANGED <<bundle, handoff, threadVars, expired, up>>

Drained(d) ==
  /\ exporter[d] = "draining" /\ packer[d] \in Finished
  /\ Cleans(d)
  /\ ExportEnds(d, "CANCELLED")
  /\ UNCHANGED <<packer, expired, up>>

-------------------------------------------------------------------------------
\* The process dies, between two steps or within one of the worker.

Dies(f, s, shown) ==
  /\ up' = FALSE
  /\ files' = f
  /\ exportStatus' = s
  /\ bundle' = bundle \cup shown
  /\ handoff' = handoff \cup shown
  /\ exporter' = [d \in Exports |->
       CASE exporter[d] = "starting" -> "none"
         [] exporter[d] \in ExporterLives -> "lost"
         [] OTHER -> exporter[d]]
  /\ packer' = [d \in Exports |-> "none"]
  /\ owned' = {}
  /\ UNCHANGED expired

ExportCrash == up /\ Dies(files, exportStatus, {})

DiesCopying(d) ==
  /\ packer[d] = "checked" /\ files[d].archive = "none"
  /\ Dies([files EXCEPT ![d].archive = "partial"], exportStatus, {})

\* Between VERIFYING and COMPLETED, before or after the rows are written.
DiesVerifying(d) ==
  /\ exporter[d] = "building" /\ packer[d] = "built"
  /\ \E shown \in {{}, {d}} :
       /\ shown # {} => Published(d)
       /\ Dies(files, [exportStatus EXCEPT ![d] = "VERIFYING"], shown)

\* In the middle of a cleanup.
DiesCleaning(d) ==
  /\ MayClean(d)
  /\ \/ exporter[d] = "building" /\ packer[d] \in Finished
     \/ exporter[d] = "draining" /\ packer[d] \in Finished
  /\ \E k \in 1..Len(CleaningOrder) :
       \E s \in {"PACKAGING"} \cup (IF exporter[d] = "building" /\ packer[d] = "built"
                                    THEN {"VERIFYING"} ELSE {}) :
         Dies([files EXCEPT ![d] = Without(@, ToSet(SubSeq(CleaningOrder, 1, k)))],
              [exportStatus EXCEPT ![d] = s], {})

-------------------------------------------------------------------------------
\* Startup and retention.

\* Wrong: recovery takes every operation that shows a bundle.
RecoverableAny == bundle

\* The exports reconcile_incomplete_export_publications cleans up after.
Recoverable == {d \in bundle : exportStatus[d] # "COMPLETED"}

RecoveryRemoves == {"archive", "sidecar"}

Recovered == bundle \ Recoverable

\* reconcile_interrupted_operations: by whether a cancellation was on record.  A row
\* nobody has claimed is not selected.
ExportReconciled(s) ==
  IF s \in ExportTerminal \cup {"NONE", "CREATED"} THEN {s} ELSE {"FAILED", "CANCELLED"}

\* The process dies in recovery: sidecars go first, rows are written at the end.
DiesRecovering(d) ==
  /\ ~up
  /\ d \in Recoverable
  /\ Put(d, "sidecar", "none")
  /\ UNCHANGED <<rowVars, exporter, packer, owned, expired, up>>

ExportRestart ==
  /\ ~up
  /\ up' = TRUE
  /\ files' = [d \in Exports |-> IF d \in Recoverable
                                    THEN Without(files[d], RecoveryRemoves) ELSE files[d]]
  /\ bundle' = Recovered
  /\ exportStatus' \in {s \in [Exports -> ExportStatuses] :
                    \A d \in Exports : s[d] \in ExportReconciled(exportStatus[d])}
  /\ UNCHANGED <<handoff, exporter, packer, owned, expired>>

\* _remove_export_delivery: one name after the other, in this order.
RetentionOrder == <<"archive", "sidecar", "handoff">>

\* cleanup_transfer_storage in its thread, for an export that completed long ago.  A
\* pass that was cut short is taken up by the next.
ExportRetention(d) ==
  /\ up
  /\ exportStatus[d] = "COMPLETED"
  /\ \E k \in 1..Len(RetentionOrder) :
       /\ files[d][RetentionOrder[k]] # "none"
       /\ \A j \in 1..k - 1 : files[d][RetentionOrder[j]] = "none"
       /\ Put(d, RetentionOrder[k], "none")
  /\ expired' = expired \cup {d}
  /\ UNCHANGED <<rowVars, exporter, packer, owned, up>>

-------------------------------------------------------------------------------
\* What a browser may download.

\* bundle_metadata: row, archive and sidecar go together.
BundleOffered(d) ==
  /\ exportStatus[d] = "COMPLETED" /\ d \in bundle
  /\ files[d].archive = "own" /\ files[d].sidecar = "own"

\* handoff_metadata: that, and the handoff is the one of the row.
HandoffOffered(d) == BundleOffered(d) /\ d \in handoff /\ files[d].handoff = "own"

-------------------------------------------------------------------------------
ThreadStep(d) ==
  \/ ThreadChecks(d) \/ ThreadGivesUp(d) \/ ThreadCopyFails(d)
  \/ ThreadPublishesArchive(d) \/ ThreadPublishesSidecar(d) \/ ThreadTakesBack(d)
  \/ ThreadPublishesHandoff(d) \/ ThreadMeetsHandoff(d) \/ ThreadLosesHandoff(d)

WorkerStep(d) ==
  \/ StartsExport(d) \/ SubmitsExport(d) \/ SubmitRefused(d)
  \/ MaterialiseEnds(d) \/ Packages(d) \/ BuildFails(d) \/ Completes(d)
  \/ RejectsBuild(d) \/ CancelBuild(d) \/ CancelAgain(d) \/ Drained(d)

ExportNext ==
  \/ \E d \in Exports :
       \/ ThreadStep(d) \/ WorkerStep(d)
       \/ DiesCopying(d) \/ DiesVerifying(d) \/ DiesCleaning(d) \/ DiesRecovering(d)
       \/ ExportRetention(d)
       \/ \E part \in Parts : OutsiderDelivers(d, part)
  \/ ExportCrash
  \/ ExportRestart

ExportSpec == ExportInit /\ [][ExportNext]_exportVars

-------------------------------------------------------------------------------
\* The type invariant.
ExportTypeOK ==
  /\ exportStatus \in [Exports -> ExportStatuses]
  /\ exporter \in [Exports -> ExporterLives \cup {"none", "starting", "ended", "abandoned", "lost"}]
  /\ packer \in [Exports -> Finished \cup {"none", "queued", "checked", "archive", "pair"}]
  /\ files \in [Exports -> [Parts -> {"none", "own", "partial", "foreign"}]]
  /\ owned \subseteq Exports /\ bundle \subseteq Exports
  /\ handoff \subseteq Exports /\ expired \subseteq Exports
  /\ up \in BOOLEAN

\* A COMPLETED export can be downloaded, archive, sidecar and handoff, through every
\* crash, recovery and other export, until the retention takes it up
\* (export_orchestrator.py bundle_metadata, handoff_metadata).
CompletedIsPublished ==
  \A d \in Exports :
    exportStatus[d] = "COMPLETED" => d \in expired \/ HandoffOffered(d)

\* A worker that ended by itself, after a failure at any point or one
\* cancellation at any point, has left no archive and no sidecar of its own
\* (export_orchestrator.py _build_bundle_cancellation_safe, the handlers of
\* _run_export and the take-back of the guard).  A copy that broke off is left.
EndedLeavesNothing ==
  \A d \in Exports :
    exporter[d] = "ended" /\ exportStatus[d] # "COMPLETED" =>
      files[d].archive # "own" /\ files[d].sidecar # "own"

\* Whoever finds the sidecar of a delivery finds the archive it vouches for, also
\* after a crash in the middle of a cleanup or of the recovery: the sidecar comes
\* last and goes first (export_publication_guard.py, export_recovery.py).  The
\* retention alone takes the archive first; what it has begun is offered to nobody.
ReadinessImpliesArchive ==
  \A d \in Exports :
    /\ files[d].sidecar = "own" => files[d].archive = "own" \/ d \in expired
    /\ d \in expired => ~BundleOffered(d)

\* No step removes or replaces an archive or a sidecar of somebody else
\* (docs/export-orchestration.md, publication ownership and no-replace).
ForeignDeliveryStays ==
  [][\A d \in Exports : \A p \in {"archive", "sidecar"} :
       files[d][p] = "foreign" => files'[d][p] = "foreign"]_exportVars

\* Once startup has reconciled an export that was interrupted, no sidecar of it
\* announces a delivery: the ownership was on record before the sidecar appeared
\* (docs/export-orchestration.md, workflow and crash recovery).
RestartLeavesNothingReady ==
  up => \A d \in Exports : exporter[d] = "lost" => files[d].sidecar # "own"
===============================================================================
