------------------------ MODULE ExportPublicationProofs ------------------------
(***************************************************************************)
(* What exports publish and what they leave behind, for every number of    *)
(* exports, through every crash, recovery and cancellation.                *)
(***************************************************************************)
EXTENDS ExportPublication, TLAPS

\* No file of the portal, and none of somebody else, is under the two names.
NoOwn(d) == files[d].archive # "own" /\ files[d].sidecar # "own"
NoForeign(d) == files[d].archive # "foreign" /\ files[d].sidecar # "foreign"

\* The task, the row and the thread belong together.
Stages(d) ==
  /\ exporter[d] = "none" => exportStatus[d] \in {"NONE", "CREATED"} /\ packer[d] = "none"
  /\ exporter[d] = "starting" => exportStatus[d] = "CREATED" /\ packer[d] = "none"
  /\ exporter[d] = "running" => exportStatus[d] = "RUNNING" /\ packer[d] = "none"
  /\ exporter[d] \in {"building", "draining"} =>
       exportStatus[d] = "PACKAGING" /\ packer[d] # "none"
  /\ exporter[d] = "abandoned" => exportStatus[d] = "CANCELLED"
  /\ exporter[d] = "ended" =>
       exportStatus[d] \in ExportTerminal /\ packer[d] \in Finished \cup {"none"}
  /\ exporter[d] = "lost" =>
       /\ exportStatus[d] \in (IF up THEN {"FAILED", "CANCELLED"}
                               ELSE {"RUNNING", "PACKAGING", "VERIFYING", "FAILED", "CANCELLED"})
       /\ packer[d] = "none"
  /\ ~up => packer[d] = "none" /\ exporter[d] \notin ExporterLives \cup {"starting"}

\* How far the thread has come tells which files are there.
ThreadsFiles(d) ==
  /\ exporter[d] \in {"none", "starting", "running"} \/ packer[d] \in {"queued", "checked"} =>
       NoOwn(d) /\ d \notin owned
  /\ packer[d] = "archive" => files[d].archive = "own" /\ files[d].sidecar # "own"
  /\ packer[d] = "pair" => files[d].archive = "own" /\ files[d].sidecar = "own"
  /\ packer[d] \in {"archive", "pair"} => d \in owned
  /\ exporter[d] \in {"building", "draining"} /\ packer[d] \in Finished =>
       IF d \in owned THEN NoForeign(d) ELSE NoOwn(d)

\* An export that has ended without a delivery, one with, and what the retention took.
EndsFiles(d) ==
  /\ exporter[d] = "ended" /\ exportStatus[d] # "COMPLETED" => NoOwn(d)
  /\ exportStatus[d] = "COMPLETED" =>
       /\ exporter[d] = "ended" /\ d \in bundle \cap handoff
       /\ d \in expired \/ Published(d)
  /\ d \in expired => exportStatus[d] = "COMPLETED" /\ files[d].archive = "none"
  /\ files[d].sidecar = "own" => files[d].archive = "own" \/ d \in expired

\* A row that shows a bundle shows its own.
ShownIsOwn(d) == d \in bundle => exportStatus[d] \in {"COMPLETED", "VERIFYING"} /\ NoForeign(d)

\* What holds of one delivery at every time.
Tidy(d) ==
  /\ Stages(d)
  /\ ThreadsFiles(d)
  /\ EndsFiles(d)
  /\ ShownIsOwn(d)

\* The inductive invariant: it speaks of every delivery by itself.
AllTidy == ExportTypeOK /\ \A d \in Exports : Tidy(d)

-------------------------------------------------------------------------------
(***************************************************************************)
(* Files                                                                   *)
(***************************************************************************)

\* One name changes.
LEMMA PutFacts ==
  ASSUME ExportTypeOK, NEW d \in Exports, NEW part \in Parts,
         NEW what \in {"none", "own", "partial", "foreign"}, Put(d, part, what)
  PROVE  /\ files' \in [Exports -> [Parts -> {"none", "own", "partial", "foreign"}]]
         /\ files'[d][part] = what
         /\ \A p \in Parts : p # part => files'[d][p] = files[d][p]
         /\ \A e \in Exports : e # d => files'[e] = files[e]
BY DEF Put, ExportTypeOK

\* Removal keeps the type.
LEMMA WithoutType ==
  ASSUME NEW f \in [Parts -> {"none", "own", "partial", "foreign"}], NEW gone
  PROVE  Without(f, gone) \in [Parts -> {"none", "own", "partial", "foreign"}]
BY DEF Without

\* The cleanup removes everything, and a part of it the sidecar before the archive.
LEMMA CleaningFacts ==
  /\ Len(CleaningOrder) = 3
  /\ ToSet(CleaningOrder) = Parts
  /\ \A k \in 1..3 : "archive" \in ToSet(SubSeq(CleaningOrder, 1, k))
                      => "sidecar" \in ToSet(SubSeq(CleaningOrder, 1, k))
<1>1. /\ Len(CleaningOrder) = 3 /\ DOMAIN CleaningOrder = 1..3
      /\ CleaningOrder[1] = "handoff" /\ CleaningOrder[2] = "sidecar"
      /\ CleaningOrder[3] = "archive"
  BY DEF CleaningOrder
<1>2. CleaningOrder \in Seq(Parts)
  BY DEF CleaningOrder, Parts
<1>3. ToSet(CleaningOrder) = Parts
  BY <1>1 DEF ToSet, Parts
<1>4. ASSUME NEW k \in 1..3, "archive" \in ToSet(SubSeq(CleaningOrder, 1, k))
      PROVE  "sidecar" \in ToSet(SubSeq(CleaningOrder, 1, k))
  <2>1. /\ DOMAIN SubSeq(CleaningOrder, 1, k) = 1..k
        /\ \A i \in 1..k : SubSeq(CleaningOrder, 1, k)[i] = CleaningOrder[i]
    BY <1>1, <1>2
  <2>2. PICK i \in 1..k : CleaningOrder[i] = "archive"
    BY <1>4, <2>1 DEF ToSet
  <2>3. 2 \in 1..k
    BY <1>1, <2>2
  <2> QED
    BY <1>1, <2>1, <2>3 DEF ToSet
<1> QED
  BY <1>1, <1>3, <1>4

\* What a cleanup leaves.
LEMMA CleansFacts ==
  ASSUME ExportTypeOK, NEW d \in Exports, Cleans(d),
         IF d \in owned THEN NoForeign(d) ELSE NoOwn(d)
  PROVE  /\ files' \in [Exports -> [Parts -> {"none", "own", "partial", "foreign"}]]
         /\ owned' = owned \ {d} /\ bundle' = bundle \ {d} /\ handoff' = handoff \ {d}
         /\ NoOwn(d)'
         /\ \A p \in {"archive", "sidecar"} : files[d][p] = "foreign" => files'[d][p] = "foreign"
         /\ \A e \in Exports : e # d => files'[e] = files[e]
<1>1. Without(files[d], Parts) = [p \in Parts |-> "none"]
  BY DEF Without
<1>2. files' = IF d \in owned THEN [files EXCEPT ![d] = [p \in Parts |-> "none"]] ELSE files
  BY <1>1, CleaningFacts DEF Cleans, MayClean
<1> QED
  BY <1>2 DEF Cleans, ExportTypeOK, NoOwn, NoForeign, Parts

-------------------------------------------------------------------------------
(***************************************************************************)
(* One delivery at a time                                                  *)
(***************************************************************************)
SameDelivery(d) ==
  /\ exportStatus'[d] = exportStatus[d] /\ exporter'[d] = exporter[d]
  /\ packer'[d] = packer[d] /\ files'[d] = files[d]
  /\ (d \in owned' <=> d \in owned) /\ (d \in bundle' <=> d \in bundle)
  /\ (d \in handoff' <=> d \in handoff) /\ (d \in expired' <=> d \in expired)

\* A delivery that a step does not touch stays tidy.
LEMMA SameIsTidy ==
  ASSUME NEW d \in Exports, Tidy(d), SameDelivery(d), up' = up
  PROVE  Tidy(d)'
BY DEF SameDelivery, Tidy, Stages, ThreadsFiles, EndsFiles, ShownIsOwn, NoOwn, NoForeign,
   Published

\* A step of one delivery does not touch another.
LEMMA OthersAreSame ==
  ASSUME AllTidy, NEW d \in Exports,
         \/ ThreadStep(d) \/ WorkerStep(d) \/ DiesRecovering(d) \/ ExportRetention(d)
         \/ \E part \in Parts : OutsiderDelivers(d, part),
         NEW e \in Exports, e # d
  PROVE  SameDelivery(e) /\ up' = up
<1> USE DEF AllTidy, ExportTypeOK, SameDelivery, rowVars, threadVars
<1>1. CASE ThreadStep(d)
  BY <1>1 DEF ThreadStep, ThreadChecks, ThreadGivesUp, ThreadCopyFails, ThreadPublishesArchive,
     ThreadPublishesSidecar, ThreadTakesBack, ThreadPublishesHandoff, ThreadMeetsHandoff,
     ThreadLosesHandoff, Put, Steps
<1>2. CASE WorkerStep(d)
  BY <1>2 DEF WorkerStep, StartsExport, SubmitsExport, SubmitRefused, MaterialiseEnds, Packages,
     BuildFails, Completes, RejectsBuild, CancelBuild, CancelAgain, Drained, ExportBecomes,
     ExportEnds, Cleans, Steps
<1>3. CASE DiesRecovering(d) \/ ExportRetention(d)
  BY <1>3 DEF DiesRecovering, ExportRetention, Put
<1>4. CASE \E part \in Parts : OutsiderDelivers(d, part)
  BY <1>4 DEF OutsiderDelivers, Put
<1> QED
  BY <1>1, <1>2, <1>3, <1>4

\* The thread publishes in its order and takes back what it has to.
LEMMA ThreadKeepsTidy ==
  ASSUME AllTidy, NEW d \in Exports, ThreadStep(d)
  PROVE  ExportTypeOK' /\ Tidy(d)'
<1>0. ExportTypeOK /\ Tidy(d)
  BY DEF AllTidy
<1>1. /\ UNCHANGED <<exportStatus, exporter, bundle, handoff, expired, up>>
      /\ packer[d] \in {"queued", "checked", "archive", "pair"}
  BY DEF ThreadStep, ThreadChecks, ThreadGivesUp, ThreadCopyFails, ThreadPublishesArchive,
     ThreadPublishesSidecar, ThreadTakesBack, ThreadPublishesHandoff, ThreadMeetsHandoff,
     ThreadLosesHandoff, rowVars
<1>2. exporter[d] \in {"building", "draining", "abandoned"} /\ up
  BY <1>0, <1>1 DEF ExportTypeOK, Tidy, Stages, ExporterLives, Finished
<1>3. exportStatus[d] \in {"PACKAGING", "CANCELLED"} /\ d \notin expired
  BY <1>0, <1>1, <1>2 DEF Tidy, Stages, EndsFiles
<1>4. \A step \in Finished \cup {"checked", "archive", "pair"} : Steps(d, step) =>
        /\ packer' \in [Exports -> Finished \cup {"none", "queued", "checked", "archive", "pair"}]
        /\ packer'[d] = step
  BY <1>0 DEF Steps, ExportTypeOK, Finished
<1> USE DEF Finished
<1>5. CASE ThreadChecks(d) \/ ThreadGivesUp(d) \/ ThreadMeetsHandoff(d)
  <2>1. /\ UNCHANGED <<files, owned>>
        /\ \/ packer[d] = "queued" /\ packer'[d] = "checked"
           \/ packer[d] \in {"queued", "checked", "pair"} /\ packer'[d] = "raised"
        /\ packer' \in [Exports -> Finished \cup {"none", "queued", "checked", "archive", "pair"}]
    BY <1>4, <1>5 DEF ThreadChecks, ThreadGivesUp, ThreadMeetsHandoff
  <2>2. ExportTypeOK'
    BY <1>0, <1>1, <2>1 DEF ExportTypeOK
  <2> QED
    BY <1>0, <1>1, <1>2, <1>3, <2>1, <2>2 DEF Tidy, Stages, ThreadsFiles, EndsFiles, ShownIsOwn,
       NoOwn, NoForeign, Published
<1>6. CASE ThreadCopyFails(d)
  <2>1. /\ UNCHANGED owned
        /\ packer[d] = "checked" /\ packer'[d] = "raised"
        /\ packer' \in [Exports -> Finished \cup {"none", "queued", "checked", "archive", "pair"}]
        /\ files' \in [Exports -> [Parts -> {"none", "own", "partial", "foreign"}]]
        /\ files'[d].archive = "partial" /\ files'[d].sidecar = files[d].sidecar
    BY <1>0, <1>4, <1>6, PutFacts DEF ThreadCopyFails, Parts
  <2>2. ExportTypeOK'
    BY <1>0, <1>1, <2>1 DEF ExportTypeOK
  <2> QED
    BY <1>0, <1>1, <1>2, <1>3, <2>1, <2>2 DEF Tidy, Stages, ThreadsFiles, EndsFiles, ShownIsOwn,
       NoOwn, NoForeign
<1>7. CASE ThreadPublishesArchive(d)
  <2>1. /\ owned' = owned \cup {d}
        /\ packer[d] = "checked" /\ packer'[d] = "archive"
        /\ packer' \in [Exports -> Finished \cup {"none", "queued", "checked", "archive", "pair"}]
        /\ files' \in [Exports -> [Parts -> {"none", "own", "partial", "foreign"}]]
        /\ files'[d].archive = "own" /\ files'[d].sidecar = files[d].sidecar
    BY <1>0, <1>4, <1>7, PutFacts DEF ThreadPublishesArchive, Parts
  <2>2. ExportTypeOK'
    BY <1>0, <1>1, <2>1 DEF ExportTypeOK
  <2> QED
    BY <1>0, <1>1, <1>2, <1>3, <2>1, <2>2 DEF Tidy, Stages, ThreadsFiles, EndsFiles, ShownIsOwn,
       NoOwn, NoForeign
<1>8. CASE ThreadPublishesSidecar(d) \/ ThreadPublishesHandoff(d)
  <2>1. /\ UNCHANGED owned
        /\ \/ packer[d] = "archive" /\ packer'[d] = "pair"
           \/ packer[d] = "pair" /\ packer'[d] = "built"
        /\ packer' \in [Exports -> Finished \cup {"none", "queued", "checked", "archive", "pair"}]
        /\ files' \in [Exports -> [Parts -> {"none", "own", "partial", "foreign"}]]
        /\ files'[d].archive = files[d].archive /\ files'[d].sidecar = "own"
    BY <1>0, <1>4, <1>8, PutFacts DEF ThreadPublishesSidecar, ThreadPublishesHandoff, Parts, Tidy,
       ThreadsFiles
  <2>2. ExportTypeOK'
    BY <1>0, <1>1, <2>1 DEF ExportTypeOK
  <2> QED
    BY <1>0, <1>1, <1>2, <1>3, <2>1, <2>2 DEF Tidy, Stages, ThreadsFiles, EndsFiles, ShownIsOwn,
       NoOwn, NoForeign
<1>9. CASE ThreadTakesBack(d)
  <2>1. /\ owned' = owned \ {d}
        /\ packer[d] = "archive" /\ packer'[d] = "raised"
        /\ packer' \in [Exports -> Finished \cup {"none", "queued", "checked", "archive", "pair"}]
        /\ files' \in [Exports -> [Parts -> {"none", "own", "partial", "foreign"}]]
        /\ files'[d].archive = "none" /\ files'[d].sidecar = files[d].sidecar
    BY <1>0, <1>4, <1>9, PutFacts DEF ThreadTakesBack, Parts
  <2>2. ExportTypeOK'
    BY <1>0, <1>1, <2>1 DEF ExportTypeOK
  <2> QED
    BY <1>0, <1>1, <1>2, <1>3, <2>1, <2>2 DEF Tidy, Stages, ThreadsFiles, EndsFiles, ShownIsOwn,
       NoOwn, NoForeign
<1>10. CASE ThreadLosesHandoff(d)
  <2>1. /\ UNCHANGED owned
        /\ packer[d] = "pair" /\ packer'[d] = "raised"
        /\ packer' \in [Exports -> Finished \cup {"none", "queued", "checked", "archive", "pair"}]
        /\ files' = [files EXCEPT ![d] = Without(files[d], Parts)]
    BY <1>4, <1>10 DEF ThreadLosesHandoff
  <2>2. /\ files' \in [Exports -> [Parts -> {"none", "own", "partial", "foreign"}]]
        /\ files'[d].archive = "none" /\ files'[d].sidecar = "none"
    BY <1>0, <2>1 DEF ExportTypeOK, Without, Parts
  <2>3. ExportTypeOK'
    BY <1>0, <1>1, <2>1, <2>2 DEF ExportTypeOK
  <2> QED
    BY <1>0, <1>1, <1>2, <1>3, <2>1, <2>2, <2>3 DEF Tidy, Stages, ThreadsFiles, EndsFiles,
       ShownIsOwn, NoOwn, NoForeign
<1> QED
  BY <1>5, <1>6, <1>7, <1>8, <1>9, <1>10 DEF ThreadStep

\* Somebody else's file appears only where the portal has none.
LEMMA OutsiderKeepsTidy ==
  ASSUME AllTidy, NEW d \in Exports, NEW part \in Parts, OutsiderDelivers(d, part)
  PROVE  ExportTypeOK' /\ Tidy(d)'
<1>0. ExportTypeOK /\ Tidy(d)
  BY DEF AllTidy
<1>1. /\ UNCHANGED <<exportStatus, exporter, packer, owned, bundle, handoff, expired, up>>
      /\ packer[d] \notin Finished
      /\ packer[d] = "pair" => part = "handoff"
      /\ packer[d] = "archive" => part # "archive"
      /\ files[d][part] = "none" /\ exportStatus[d] \in {"RUNNING", "PACKAGING"}
  BY DEF OutsiderDelivers, rowVars, Parts, Finished
<1>2. /\ files' \in [Exports -> [Parts -> {"none", "own", "partial", "foreign"}]]
      /\ files'[d][part] = "foreign"
      /\ \A p \in Parts : p # part => files'[d][p] = files[d][p]
  BY <1>0, PutFacts DEF OutsiderDelivers
<1>3. ExportTypeOK'
  BY <1>0, <1>1, <1>2 DEF ExportTypeOK
<1>4. Stages(d)'
  BY <1>0, <1>1 DEF Tidy, Stages
<1>5. ThreadsFiles(d)'
  BY <1>0, <1>1, <1>2 DEF Tidy, ThreadsFiles, NoOwn, NoForeign, Parts
<1>6. EndsFiles(d)' /\ ShownIsOwn(d)'
  BY <1>0, <1>1, <1>2 DEF Tidy, EndsFiles, ShownIsOwn, NoOwn, Parts
<1> QED
  BY <1>3, <1>4, <1>5, <1>6 DEF Tidy

\* The request and the worker: files change only in a cleanup.
LEMMA WorkerKeepsTidy ==
  ASSUME AllTidy, NEW d \in Exports, WorkerStep(d)
  PROVE  ExportTypeOK' /\ Tidy(d)'
<1>0. ExportTypeOK /\ Tidy(d)
  BY DEF AllTidy
<1>1. CASE \/ StartsExport(d) \/ SubmitsExport(d) \/ SubmitRefused(d) \/ MaterialiseEnds(d)
           \/ Packages(d) \/ CancelBuild(d) \/ CancelAgain(d)
  <2>1. UNCHANGED <<files, owned, bundle, handoff, expired, up>>
    BY <1>1 DEF StartsExport, SubmitsExport, SubmitRefused, MaterialiseEnds, Packages,
       CancelBuild, CancelAgain, threadVars, rowVars
  <2>2. /\ exportStatus' \in [Exports -> ExportStatuses]
        /\ exporter' \in [Exports -> ExporterLives \cup
                                      {"none", "starting", "ended", "abandoned", "lost"}]
        /\ packer' \in [Exports -> Finished \cup {"none", "queued", "checked", "archive", "pair"}]
    <3>1. \A st \in ExportStatuses : [exportStatus EXCEPT ![d] = st] \in [Exports -> ExportStatuses]
      BY <1>0 DEF ExportTypeOK
    <3>2. {"CREATED", "RUNNING", "FAILED", "CANCELLED", "PACKAGING"} \subseteq ExportStatuses
      BY DEF ExportStatuses, ExportTerminal
    <3>3. exportStatus' \in [Exports -> ExportStatuses]
      BY <1>0, <1>1, <3>1, <3>2 DEF StartsExport, SubmitsExport, SubmitRefused, MaterialiseEnds,
         Packages, CancelBuild, CancelAgain, rowVars, ExportBecomes, ExportTypeOK
    <3>4. exporter' \in [Exports -> ExporterLives \cup
                                    {"none", "starting", "ended", "abandoned", "lost"}]
      BY <1>0, <1>1 DEF StartsExport, SubmitsExport, SubmitRefused, MaterialiseEnds,
         Packages, CancelBuild, CancelAgain, ExporterLives, ExportTypeOK
    <3>5. packer' \in [Exports -> Finished \cup {"none", "queued", "checked", "archive", "pair"}]
      BY <1>0, <1>1 DEF StartsExport, SubmitsExport, SubmitRefused, MaterialiseEnds,
         Packages, CancelBuild, CancelAgain, threadVars, Steps, ExportTypeOK
    <3> QED
      BY <3>3, <3>4, <3>5
  <2>3. \/ /\ exportStatus[d] = "NONE" /\ exportStatus'[d] = "CREATED" /\ up
           /\ exporter'[d] = "starting" /\ packer' = packer
        \/ /\ exporter[d] = "starting" /\ exportStatus'[d] = "RUNNING"
           /\ exporter'[d] = "running" /\ packer' = packer
        \/ /\ exporter[d] = "starting" /\ exportStatus' = exportStatus
           /\ exporter'[d] = "none" /\ packer' = packer
        \/ /\ exporter[d] = "running" /\ exportStatus'[d] \in {"FAILED", "CANCELLED"}
           /\ exporter'[d] = "ended" /\ packer' = packer
        \/ /\ exporter[d] = "running" /\ exportStatus'[d] = "PACKAGING"
           /\ exporter'[d] = "building" /\ packer'[d] = "queued"
        \/ /\ exporter[d] = "building" /\ exportStatus' = exportStatus
           /\ exporter'[d] = "draining" /\ packer' = packer
        \/ /\ exporter[d] = "draining" /\ exportStatus'[d] = "CANCELLED"
           /\ exporter'[d] = "abandoned"
           /\ packer'[d] = IF packer[d] = "queued" THEN "none" ELSE packer[d]
    BY <1>0, <1>1 DEF StartsExport, SubmitsExport, SubmitRefused, MaterialiseEnds, Packages,
       CancelBuild, CancelAgain, threadVars, rowVars, ExportBecomes, Steps, ExportTypeOK
  <2>4. Stages(d)'
    BY <1>0, <2>1, <2>3 DEF Tidy, Stages, ExportTypeOK, ExportTerminal, ExporterLives, Finished
  <2>5. ThreadsFiles(d)'
    BY <1>0, <2>1, <2>3 DEF Tidy, Stages, ThreadsFiles, NoOwn, NoForeign, ExportTypeOK,
       ExportTerminal, ExporterLives, Finished
  <2>6. EndsFiles(d)' /\ ShownIsOwn(d)'
    BY <1>0, <2>1, <2>3 DEF Tidy, Stages, ThreadsFiles, EndsFiles, ShownIsOwn, NoOwn, NoForeign,
       Published
  <2>7. ExportTypeOK'
    BY <1>0, <2>1, <2>2 DEF ExportTypeOK
  <2> QED
    BY <2>4, <2>5, <2>6, <2>7 DEF Tidy
<1>2. CASE BuildFails(d) \/ RejectsBuild(d) \/ Drained(d)
  <2>1. /\ exporter[d] \in {"building", "draining"} /\ packer[d] \in Finished
        /\ Cleans(d) /\ UNCHANGED <<packer, expired, up>>
        /\ \E s \in {"FAILED", "CANCELLED"} : ExportEnds(d, s)
    BY <1>2 DEF BuildFails, RejectsBuild, Drained, Finished
  <2>2. /\ files' \in [Exports -> [Parts -> {"none", "own", "partial", "foreign"}]]
        /\ owned' = owned \ {d} /\ bundle' = bundle \ {d} /\ handoff' = handoff \ {d}
        /\ NoOwn(d)'
    BY <1>0, <2>1, CleansFacts DEF Tidy, ThreadsFiles
  <2>3. /\ exportStatus'[d] \in {"FAILED", "CANCELLED"} /\ exporter'[d] = "ended"
        /\ exportStatus' \in [Exports -> ExportStatuses]
        /\ exporter' \in [Exports -> ExporterLives \cup
                                      {"none", "starting", "ended", "abandoned", "lost"}]
    BY <1>0, <2>1 DEF ExportEnds, ExportBecomes, ExportTypeOK, ExportStatuses, ExportTerminal
  <2>4. ExportTypeOK'
    BY <1>0, <2>1, <2>2, <2>3 DEF ExportTypeOK
  <2>5. Stages(d)' /\ ThreadsFiles(d)'
    BY <1>0, <2>1, <2>2, <2>3 DEF Tidy, Stages, ThreadsFiles, ExportTerminal, ExporterLives,
       Finished
  <2>6. EndsFiles(d)' /\ ShownIsOwn(d)'
    BY <1>0, <2>1, <2>2, <2>3 DEF Tidy, Stages, EndsFiles, ShownIsOwn, NoOwn
  <2> QED
    BY <2>4, <2>5, <2>6 DEF Tidy
<1>3. CASE Completes(d)
  <2>1. /\ exporter[d] = "building" /\ packer[d] = "built" /\ Published(d)
        /\ UNCHANGED <<packer, files, owned, expired, up>>
        /\ bundle' = bundle \cup {d} /\ handoff' = handoff \cup {d}
        /\ exportStatus'[d] = "COMPLETED" /\ exporter'[d] = "ended"
        /\ exportStatus' \in [Exports -> ExportStatuses]
        /\ exporter' \in [Exports -> ExporterLives \cup
                                      {"none", "starting", "ended", "abandoned", "lost"}]
    BY <1>0, <1>3 DEF Completes, ExportEnds, ExportBecomes, threadVars, ExportTypeOK,
       ExportStatuses, ExportTerminal
  <2>2. files[d].archive = "own" /\ files[d].sidecar = "own"
    BY <2>1 DEF Published, Parts
  <2>3. ExportTypeOK'
    BY <1>0, <2>1 DEF ExportTypeOK
  <2>4. Stages(d)' /\ ThreadsFiles(d)'
    BY <1>0, <2>1, <2>2 DEF Tidy, Stages, ThreadsFiles, ExportTerminal, ExporterLives, Finished
  <2>5. EndsFiles(d)' /\ ShownIsOwn(d)'
    BY <1>0, <2>1, <2>2 DEF Tidy, Stages, EndsFiles, ShownIsOwn, NoForeign, Published
  <2> QED
    BY <2>3, <2>4, <2>5 DEF Tidy
<1> QED
  BY <1>1, <1>2, <1>3 DEF WorkerStep

\* Recovery takes the sidecar first; the retention an archive of which nobody needs
\* the sidecar.
LEMMA RemovalKeepsTidy ==
  ASSUME AllTidy, NEW d \in Exports, DiesRecovering(d) \/ ExportRetention(d)
  PROVE  ExportTypeOK' /\ Tidy(d)'
<1>0. ExportTypeOK /\ Tidy(d)
  BY DEF AllTidy
<1>1. CASE DiesRecovering(d)
  <2>1. /\ UNCHANGED <<exportStatus, exporter, packer, owned, bundle, handoff, expired, up>>
        /\ ~up /\ d \in bundle /\ exportStatus[d] # "COMPLETED"
        /\ Put(d, "sidecar", "none")
    BY <1>1 DEF DiesRecovering, Recoverable, rowVars
  <2>2. /\ files' \in [Exports -> [Parts -> {"none", "own", "partial", "foreign"}]]
        /\ files'[d].sidecar = "none" /\ files'[d].archive = files[d].archive
    BY <1>0, <2>1, PutFacts DEF Parts
  <2>3. ExportTypeOK'
    BY <1>0, <2>1, <2>2 DEF ExportTypeOK
  <2> QED
    BY <1>0, <2>1, <2>2, <2>3 DEF Tidy, Stages, ThreadsFiles, EndsFiles, ShownIsOwn, NoOwn,
       NoForeign, Finished
<1>2. CASE ExportRetention(d)
  <2>1. /\ UNCHANGED <<exportStatus, exporter, packer, owned, bundle, handoff, up>>
        /\ exportStatus[d] = "COMPLETED" /\ expired' = expired \cup {d}
    BY <1>2 DEF ExportRetention, rowVars
  <2>2. PICK k \in 1..Len(RetentionOrder) :
             /\ files[d][RetentionOrder[k]] # "none"
             /\ \A j \in 1..k - 1 : files[d][RetentionOrder[j]] = "none"
             /\ Put(d, RetentionOrder[k], "none")
    BY <1>2 DEF ExportRetention
  <2>3. /\ k \in 1..3 /\ RetentionOrder[1] = "archive" /\ RetentionOrder[k] \in Parts
    BY DEF RetentionOrder, Parts
  <2>4. k = 1 \/ files[d].archive = "none"
    BY <2>2, <2>3
  <2>5. /\ files' \in [Exports -> [Parts -> {"none", "own", "partial", "foreign"}]]
        /\ files'[d][RetentionOrder[k]] = "none"
        /\ \A p \in Parts : p # RetentionOrder[k] => files'[d][p] = files[d][p]
    BY <1>0, <2>2, <2>3, PutFacts
  <2>6. /\ files'[d].archive = "none"
        /\ \A p \in Parts : files'[d][p] \in {"none", files[d][p]}
    BY <2>3, <2>4, <2>5 DEF Parts
  <2>7. ExportTypeOK'
    BY <1>0, <2>1, <2>5 DEF ExportTypeOK
  <2>8. exporter[d] = "ended" /\ NoForeign(d)
    BY <1>0, <2>1 DEF Tidy, EndsFiles, ShownIsOwn, ExportTypeOK
  <2> QED
    BY <1>0, <2>1, <2>6, <2>7, <2>8 DEF Tidy, Stages, ThreadsFiles, EndsFiles, ShownIsOwn, NoOwn,
       NoForeign, Parts, Finished
<1> QED
  BY <1>1, <1>2

\* Whatever files a crash leaves of its own delivery, all workers and threads are gone.
LEMMA DeathKeepsTidy ==
  ASSUME AllTidy, up, NEW f, NEW s, NEW shown, Dies(f, s, shown),
         f \in [Exports -> [Parts -> {"none", "own", "partial", "foreign"}]],
         s \in [Exports -> ExportStatuses], shown \subseteq Exports,
         \A d \in Exports :
           /\ s[d] # exportStatus[d] =>
                exporter[d] \in {"building", "draining"} /\ s[d] \in {"PACKAGING", "VERIFYING"}
           /\ f[d].sidecar = "own" => f[d].archive = "own" \/ d \in expired
           /\ \/ f[d] = files[d]
              \/ exporter[d] \in {"building", "draining", "abandoned"}
           /\ d \in shown => /\ s[d] = "VERIFYING"
                             /\ f[d].archive # "foreign" /\ f[d].sidecar # "foreign"
  PROVE  AllTidy'
<1>1. ExportTypeOK'
  BY DEF AllTidy, Dies, ExportTypeOK, ExporterLives
<1>2. ASSUME NEW d \in Exports PROVE Tidy(d)'
  <2>0. ExportTypeOK /\ Tidy(d)
    BY DEF AllTidy
  <2>1. /\ up' = FALSE /\ files'[d] = f[d] /\ exportStatus'[d] = s[d]
        /\ bundle' = bundle \cup shown /\ handoff' = handoff \cup shown
        /\ packer'[d] = "none" /\ d \notin owned' /\ expired' = expired
        /\ exporter'[d] = CASE exporter[d] = "starting" -> "none"
                            [] exporter[d] \in ExporterLives -> "lost"
                            [] OTHER -> exporter[d]
    BY DEF Dies
  <2>2. \/ exporter[d] = "starting" /\ exporter'[d] = "none"
        \/ exporter[d] \in ExporterLives /\ exporter'[d] = "lost"
        \/ exporter[d] \notin ExporterLives \cup {"starting"} /\ exporter'[d] = exporter[d]
    BY <2>1 DEF ExporterLives
  <2>3. Stages(d)'
    BY <2>0, <2>1, <2>2 DEF Tidy, Stages, ExporterLives
  <2>4. ThreadsFiles(d)'
    BY <2>0, <2>1, <2>2 DEF Tidy, ThreadsFiles, ExporterLives, NoOwn
  <2>5. EndsFiles(d)'
    BY <2>0, <2>1, <2>2 DEF Tidy, Stages, EndsFiles, ExporterLives, NoOwn, Published
  <2>6. ShownIsOwn(d)'
    BY <2>0, <2>1, <2>2 DEF Tidy, Stages, EndsFiles, ShownIsOwn, ExporterLives, NoForeign
  <2> QED
    BY <2>3, <2>4, <2>5, <2>6 DEF Tidy
<1> QED
  BY <1>1, <1>2 DEF AllTidy

\* The process dies between two steps, in a copy, before or after the rows are written,
\* or in the middle of a cleanup.
LEMMA CrashKeepsTidy ==
  ASSUME AllTidy,
         \/ ExportCrash
         \/ \E d \in Exports : DiesCopying(d) \/ DiesVerifying(d) \/ DiesCleaning(d)
  PROVE  AllTidy'
<1>0. ExportTypeOK /\ \A e \in Exports : Tidy(e)
  BY DEF AllTidy
<1>1. CASE ExportCrash
  <2>1. up /\ Dies(files, exportStatus, {})
    BY <1>1 DEF ExportCrash
  <2> QED
    BY <1>0, <2>1, DeathKeepsTidy DEF ExportTypeOK, Tidy, EndsFiles
<1>2. ASSUME NEW d \in Exports, DiesCopying(d) PROVE AllTidy'
  <2> DEFINE f == [files EXCEPT ![d].archive = "partial"]
  <2>1. packer[d] = "checked" /\ Dies(f, exportStatus, {})
    BY <1>2 DEF DiesCopying
  <2>2. up /\ exporter[d] \in {"building", "draining", "abandoned"} /\ NoOwn(d)
    BY <1>0, <2>1 DEF Tidy, Stages, ThreadsFiles, ExportTypeOK, ExporterLives, Finished
  <2>3. /\ f \in [Exports -> [Parts -> {"none", "own", "partial", "foreign"}]]
        /\ f[d].sidecar = files[d].sidecar
        /\ \A e \in Exports : e # d => f[e] = files[e]
    BY <1>0 DEF ExportTypeOK, Parts
  <2> HIDE DEF f
  <2>4. \A e \in Exports :
          /\ f[e].sidecar = "own" => f[e].archive = "own" \/ e \in expired
          /\ f[e] = files[e] \/ exporter[e] \in {"building", "draining", "abandoned"}
    BY <1>0, <2>2, <2>3 DEF Tidy, EndsFiles, NoOwn
  <2> QED
    BY <1>0, <2>1, <2>2, <2>3, <2>4, DeathKeepsTidy DEF ExportTypeOK
<1>3. ASSUME NEW d \in Exports, DiesVerifying(d) PROVE AllTidy'
  <2> DEFINE s == [exportStatus EXCEPT ![d] = "VERIFYING"]
  <2>1. PICK shown \in {{}, {d}} : /\ shown # {} => Published(d)
                                  /\ Dies(files, s, shown)
    BY <1>3 DEF DiesVerifying
  <2>2. up /\ exporter[d] = "building"
    BY <1>0, <1>3 DEF DiesVerifying, Tidy, Stages, ExportTypeOK
  <2>3. /\ s \in [Exports -> ExportStatuses] /\ s[d] = "VERIFYING"
        /\ \A e \in Exports : e # d => s[e] = exportStatus[e]
    BY <1>0 DEF ExportTypeOK, ExportStatuses
  <2> HIDE DEF s
  <2>4. \A e \in Exports :
          /\ s[e] # exportStatus[e] =>
               exporter[e] \in {"building", "draining"} /\ s[e] \in {"PACKAGING", "VERIFYING"}
          /\ files[e].sidecar = "own" => files[e].archive = "own" \/ e \in expired
          /\ e \in shown => /\ s[e] = "VERIFYING"
                            /\ files[e].archive # "foreign" /\ files[e].sidecar # "foreign"
    BY <1>0, <2>1, <2>2, <2>3 DEF Tidy, EndsFiles, Published, Parts
  <2> QED
    BY <1>0, <2>1, <2>2, <2>3, <2>4, DeathKeepsTidy DEF ExportTypeOK
<1>4. ASSUME NEW d \in Exports, DiesCleaning(d) PROVE AllTidy'
  <2>1. /\ exporter[d] \in {"building", "draining"} /\ packer[d] \in Finished
        /\ \E k \in 1..3, st \in {"PACKAGING", "VERIFYING"} :
             Dies([files EXCEPT ![d] = Without(files[d], ToSet(SubSeq(CleaningOrder, 1, k)))],
                  [exportStatus EXCEPT ![d] = st], {})
    BY <1>4, CleaningFacts DEF DiesCleaning
  <2>2. PICK k \in 1..3, st \in {"PACKAGING", "VERIFYING"} :
             Dies([files EXCEPT ![d] = Without(files[d], ToSet(SubSeq(CleaningOrder, 1, k)))],
                  [exportStatus EXCEPT ![d] = st], {})
    BY <2>1
  <2> DEFINE gone == ToSet(SubSeq(CleaningOrder, 1, k))
             left == Without(files[d], gone)
             f == [files EXCEPT ![d] = left]
             s == [exportStatus EXCEPT ![d] = st]
  <2>3. "archive" \in gone => "sidecar" \in gone
    BY CleaningFacts
  <2> HIDE DEF gone
  <2>4. /\ left \in [Parts -> {"none", "own", "partial", "foreign"}]
        /\ left.sidecar = "own" => files[d].sidecar = "own" /\ left.archive = files[d].archive
    BY <1>0, <2>3, WithoutType DEF ExportTypeOK, Without, Parts
  <2> HIDE DEF left
  <2>5. /\ f \in [Exports -> [Parts -> {"none", "own", "partial", "foreign"}]]
        /\ f[d] = left /\ \A e \in Exports : e # d => f[e] = files[e]
        /\ s \in [Exports -> ExportStatuses] /\ s[d] = st
        /\ \A e \in Exports : e # d => s[e] = exportStatus[e]
    BY <1>0, <2>4 DEF ExportTypeOK, ExportStatuses
  <2>6. Dies(f, s, {})
    BY <2>2 DEF f, s, left, gone
  <2> HIDE DEF f, s
  <2>7. up
    BY <1>0, <2>1 DEF Tidy, Stages, ExporterLives, ExportTypeOK
  <2>8. \A e \in Exports :
          /\ s[e] # exportStatus[e] =>
               exporter[e] \in {"building", "draining"} /\ s[e] \in {"PACKAGING", "VERIFYING"}
          /\ f[e].sidecar = "own" => f[e].archive = "own" \/ e \in expired
          /\ f[e] = files[e] \/ exporter[e] \in {"building", "draining", "abandoned"}
    BY <1>0, <2>1, <2>4, <2>5 DEF Tidy, EndsFiles
  <2> QED
    BY <1>0, <2>5, <2>6, <2>7, <2>8, DeathKeepsTidy
<1> QED
  BY <1>1, <1>2, <1>3, <1>4

\* Startup ends what was interrupted and removes what its rows show.
LEMMA RestartKeepsTidy ==
  ASSUME AllTidy, ExportRestart
  PROVE  AllTidy'
<1>0. ExportTypeOK /\ \A e \in Exports : Tidy(e)
  BY DEF AllTidy
<1>1. /\ ~up /\ up' = TRUE /\ UNCHANGED <<handoff, exporter, packer, owned, expired>>
      /\ bundle' = bundle \ Recoverable
      /\ exportStatus' \in [Exports -> ExportStatuses]
      /\ \A e \in Exports : exportStatus'[e] \in ExportReconciled(exportStatus[e])
      /\ files' = [e \in Exports |-> IF e \in Recoverable
                                    THEN Without(files[e], RecoveryRemoves) ELSE files[e]]
  BY DEF ExportRestart, Recovered
<1>2. files' \in [Exports -> [Parts -> {"none", "own", "partial", "foreign"}]]
  BY <1>0, <1>1, WithoutType DEF ExportTypeOK
<1>3. ExportTypeOK'
  BY <1>0, <1>1, <1>2 DEF ExportTypeOK
<1>4. ASSUME NEW d \in Exports PROVE Tidy(d)'
  <2>0. Tidy(d) /\ packer[d] = "none" /\ exporter[d] \in {"none", "ended", "abandoned", "lost"}
    BY <1>0, <1>1 DEF Tidy, Stages, ExportTypeOK, ExporterLives
  <2>1. d \in Recoverable <=> d \in bundle /\ exportStatus[d] # "COMPLETED"
    BY DEF Recoverable
  <2>2. CASE d \in Recoverable
    <3>1. files'[d].archive = "none" /\ files'[d].sidecar = "none"
      BY <1>1, <2>2 DEF Without, RecoveryRemoves, Parts
    <3>2. exportStatus[d] = "VERIFYING" /\ exporter[d] = "lost"
      BY <1>0, <2>0, <2>1, <2>2 DEF Tidy, Stages, ShownIsOwn, ExportTypeOK, ExportTerminal
    <3>3. exportStatus'[d] \in {"FAILED", "CANCELLED"}
      BY <1>1, <3>2 DEF ExportReconciled, ExportTerminal
    <3> QED
      BY <1>1, <2>0, <2>2, <3>1, <3>2, <3>3 DEF Tidy, Stages, ThreadsFiles, EndsFiles, ShownIsOwn,
         NoOwn, Finished
  <2>3. CASE d \notin Recoverable
    <3>1. files'[d] = files[d] /\ (d \in bundle' <=> d \in bundle)
      BY <1>1, <2>3
    <3>2. \/ exportStatus'[d] = exportStatus[d] /\ exporter[d] # "lost"
          \/ exporter[d] = "lost" /\ exportStatus'[d] \in {"FAILED", "CANCELLED"}
      BY <1>1, <2>0 DEF Tidy, Stages, ExportReconciled, ExportTerminal
    <3>3. Stages(d)' /\ ThreadsFiles(d)'
      BY <1>1, <2>0, <3>1, <3>2 DEF Tidy, Stages, ThreadsFiles, NoOwn, Finished, ExporterLives
    <3>4. EndsFiles(d)' /\ ShownIsOwn(d)'
      BY <1>1, <2>0, <2>1, <2>3, <3>1, <3>2 DEF Tidy, EndsFiles, ShownIsOwn, NoOwn, NoForeign,
         Published
    <3> QED
      BY <3>3, <3>4 DEF Tidy
  <2> QED
    BY <2>2, <2>3
<1> QED
  BY <1>3, <1>4 DEF AllTidy

-------------------------------------------------------------------------------
\* At first the directory is empty.
LEMMA TidyInit == ExportInit => AllTidy
BY DEF ExportInit, AllTidy, ExportTypeOK, Tidy, Stages, ThreadsFiles, EndsFiles, ShownIsOwn, NoOwn,
   ExportStatuses, ExportTerminal, ExporterLives, Finished, Parts

\* Every step keeps all deliveries tidy.
LEMMA TidyStep == AllTidy /\ [ExportNext]_exportVars => AllTidy'
<1> SUFFICES ASSUME AllTidy, [ExportNext]_exportVars PROVE AllTidy'
  OBVIOUS
<1>1. ASSUME NEW d \in Exports,
             \/ ThreadStep(d) \/ WorkerStep(d) \/ DiesRecovering(d) \/ ExportRetention(d)
             \/ \E part \in Parts : OutsiderDelivers(d, part)
      PROVE  AllTidy'
  <2>1. ExportTypeOK' /\ Tidy(d)'
    BY <1>1, ThreadKeepsTidy, WorkerKeepsTidy, RemovalKeepsTidy, OutsiderKeepsTidy
  <2>2. \A e \in Exports : e # d => Tidy(e)'
    BY <1>1, OthersAreSame, SameIsTidy DEF AllTidy
  <2> QED
    BY <2>1, <2>2 DEF AllTidy
<1>2. CASE UNCHANGED exportVars
  <2>1. \A e \in Exports : Tidy(e)'
    BY <1>2, SameIsTidy DEF AllTidy, SameDelivery, exportVars, rowVars, threadVars
  <2>2. ExportTypeOK'
    BY <1>2 DEF AllTidy, ExportTypeOK, exportVars, rowVars, threadVars
  <2> QED
    BY <2>1, <2>2 DEF AllTidy
<1> QED
  BY <1>1, <1>2, CrashKeepsTidy, RestartKeepsTidy DEF ExportNext

\* Every delivery is tidy at every time (export_orchestrator.py,
\* export_publication_guard.py, export_recovery.py).
THEOREM AlwaysTidy == ExportSpec => []AllTidy
BY TidyInit, TidyStep, PTL DEF ExportSpec

\* A COMPLETED export can be downloaded until the retention takes it up
\* (export_orchestrator.py bundle_metadata, handoff_metadata).
THEOREM PublicationHolds == ExportSpec => []CompletedIsPublished
<1>1. AllTidy => CompletedIsPublished
  BY DEF AllTidy, Tidy, EndsFiles, CompletedIsPublished, HandoffOffered, BundleOffered, Published,
     Parts
<1> QED
  BY <1>1, AlwaysTidy, PTL

\* A worker that ended by itself without completing has left no archive and no sidecar
\* of its own (export_orchestrator.py, export_publication_guard.py).
THEOREM CleanEndHolds == ExportSpec => []EndedLeavesNothing
<1>1. AllTidy => EndedLeavesNothing
  BY DEF AllTidy, Tidy, EndsFiles, NoOwn, EndedLeavesNothing
<1> QED
  BY <1>1, AlwaysTidy, PTL

\* A sidecar announces an archive that is there, and nothing that expires is offered
\* (export_publication_guard.py, export_recovery.py, storage_retention.py).
THEOREM ReadinessHolds == ExportSpec => []ReadinessImpliesArchive
<1>1. AllTidy => ReadinessImpliesArchive
  BY DEF AllTidy, Tidy, EndsFiles, ReadinessImpliesArchive, BundleOffered
<1> QED
  BY <1>1, AlwaysTidy, PTL

\* What a delivery's own thread, worker, recovery or expiry, or an outsider, does to its
\* archive and its sidecar: a foreign one stays.
LEMMA OwnStepsSpareForeign ==
  ASSUME AllTidy, NEW d \in Exports,
         \/ ThreadStep(d) \/ WorkerStep(d) \/ DiesRecovering(d) \/ ExportRetention(d)
         \/ \E part \in Parts : OutsiderDelivers(d, part),
         NEW p \in {"archive", "sidecar"}, files[d][p] = "foreign"
  PROVE  files'[d][p] = "foreign"
<1>0. ExportTypeOK /\ Tidy(d) /\ p \in Parts
  BY DEF AllTidy, Parts
<1>1. ASSUME NEW part \in Parts, NEW what \in {"none", "own", "partial", "foreign"},
             Put(d, part, what), files[d][part] # "foreign"
      PROVE  files'[d][p] = "foreign"
  <2>1. \A q \in Parts : q # part => files'[d][q] = files[d][q]
    BY <1>0, <1>1, PutFacts
  <2> QED
    BY <1>0, <1>1, <2>1
<1>2. CASE ThreadStep(d)
  <2>1. CASE ThreadChecks(d) \/ ThreadGivesUp(d) \/ ThreadMeetsHandoff(d)
    BY <2>1 DEF ThreadChecks, ThreadGivesUp, ThreadMeetsHandoff
  <2>2. CASE \/ ThreadCopyFails(d) \/ ThreadPublishesArchive(d) \/ ThreadPublishesSidecar(d)
             \/ ThreadPublishesHandoff(d)
    <3>1. \E part \in Parts, what \in {"own", "partial"} :
            Put(d, part, what) /\ files[d][part] = "none"
      BY <2>2 DEF ThreadCopyFails, ThreadPublishesArchive, ThreadPublishesSidecar,
         ThreadPublishesHandoff, Parts
    <3> QED
      BY <1>1, <3>1
  <2>3. CASE ThreadTakesBack(d)
    <3>1. Put(d, "archive", "none") /\ files[d]["archive"] = "own"
      BY <1>0, <2>3 DEF ThreadTakesBack, Tidy, ThreadsFiles
    <3> QED
      BY <1>1, <3>1 DEF Parts
  <2>4. CASE ThreadLosesHandoff(d)
    BY <1>0, <2>4 DEF ThreadLosesHandoff, Tidy, ThreadsFiles
  <2> QED
    BY <1>2, <2>1, <2>2, <2>3, <2>4 DEF ThreadStep
<1>3. CASE WorkerStep(d)
  <2>1. CASE BuildFails(d) \/ RejectsBuild(d) \/ Drained(d)
    <3>1. Cleans(d) /\ exporter[d] \in {"building", "draining"} /\ packer[d] \in Finished
      BY <2>1 DEF BuildFails, RejectsBuild, Drained, Finished
    <3>2. IF d \in owned THEN NoForeign(d) ELSE NoOwn(d)
      BY <1>0, <3>1 DEF Tidy, ThreadsFiles
    <3> QED
      BY <1>0, <3>1, <3>2, CleansFacts
  <2>2. CASE ~(BuildFails(d) \/ RejectsBuild(d) \/ Drained(d))
    <3>1. UNCHANGED files
      BY <1>3, <2>2 DEF WorkerStep, StartsExport, SubmitsExport, SubmitRefused, MaterialiseEnds,
         Packages, Completes, CancelBuild, CancelAgain, threadVars
    <3> QED
      BY <3>1
  <2> QED
    BY <2>1, <2>2
<1>4. CASE DiesRecovering(d) \/ ExportRetention(d)
  <2>1. NoForeign(d)
    BY <1>0, <1>4 DEF DiesRecovering, ExportRetention, Recoverable, Tidy, EndsFiles, ShownIsOwn
  <2> QED
    BY <2>1 DEF NoForeign
<1>5. CASE \E part \in Parts : OutsiderDelivers(d, part)
  BY <1>1, <1>5 DEF OutsiderDelivers
<1> QED
  BY <1>2, <1>3, <1>4, <1>5

\* No crash and no restart removes or replaces a foreign archive or sidecar.
LEMMA OutagesSpareForeign ==
  ASSUME AllTidy, NEW d \in Exports,
         \/ ExportCrash \/ ExportRestart
         \/ \E e \in Exports : DiesCopying(e) \/ DiesVerifying(e) \/ DiesCleaning(e),
         NEW p \in {"archive", "sidecar"}, files[d][p] = "foreign"
  PROVE  files'[d][p] = "foreign"
<1>0. ExportTypeOK /\ \A e \in Exports : Tidy(e)
  BY DEF AllTidy
<1>1. CASE ExportCrash \/ \E e \in Exports : DiesVerifying(e)
  BY <1>1 DEF ExportCrash, DiesVerifying, Dies
<1>2. ASSUME NEW e \in Exports, DiesCopying(e) PROVE files'[d][p] = "foreign"
  <2>1. files' = [files EXCEPT ![e].archive = "partial"] /\ files[e].archive = "none"
    BY <1>2 DEF DiesCopying, Dies
  <2> QED
    BY <1>0, <2>1 DEF ExportTypeOK, Parts
<1>3. ASSUME NEW e \in Exports, DiesCleaning(e) PROVE files'[d][p] = "foreign"
  <2>1. /\ e \in owned /\ exporter[e] \in {"building", "draining"} /\ packer[e] \in Finished
        /\ \E left : files' = [files EXCEPT ![e] = left]
    BY <1>3 DEF DiesCleaning, MayClean, Dies
  <2>2. d # e
    BY <1>0, <2>1 DEF Tidy, ThreadsFiles, NoForeign
  <2> QED
    BY <1>0, <2>1, <2>2 DEF ExportTypeOK
<1>4. CASE ExportRestart
  <2>1. d \notin Recoverable
    BY <1>0 DEF Recoverable, Tidy, ShownIsOwn, NoForeign
  <2> QED
    BY <1>4, <2>1 DEF ExportRestart
<1> QED
  BY <1>1, <1>2, <1>3, <1>4

\* Archives and sidecars of somebody else are never removed or replaced
\* (export_publication_guard.py).
THEOREM ForeignStays == ExportSpec => ForeignDeliveryStays
<1> DEFINE Stay == \A d \in Exports : \A p \in {"archive", "sidecar"} :
                     files[d][p] = "foreign" => files'[d][p] = "foreign"
<1>1. AllTidy /\ [ExportNext]_exportVars => [Stay]_exportVars
  <2> SUFFICES ASSUME AllTidy, ExportNext, NEW d \in Exports, NEW p \in {"archive", "sidecar"},
                      files[d][p] = "foreign"
               PROVE  files'[d][p] = "foreign"
    OBVIOUS
  <2>1. ASSUME NEW e \in Exports,
               \/ ThreadStep(e) \/ WorkerStep(e) \/ DiesRecovering(e) \/ ExportRetention(e)
               \/ \E part \in Parts : OutsiderDelivers(e, part)
        PROVE  files'[d][p] = "foreign"
    <3>1. CASE e = d
      BY <2>1, <3>1, OwnStepsSpareForeign
    <3>2. CASE e # d
      BY <2>1, <3>2, OthersAreSame DEF SameDelivery
    <3> QED
      BY <3>1, <3>2
  <2> QED
    BY <2>1, OutagesSpareForeign DEF ExportNext
<1> QED
  BY <1>1, AlwaysTidy, PTL DEF ExportSpec, ForeignDeliveryStays

===============================================================================
