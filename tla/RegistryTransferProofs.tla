------------------------ MODULE RegistryTransferProofs ------------------------
(***************************************************************************)
(* What a bundle carries and what an import leaves behind for the next     *)
(* one, for every set of contents, manifests, repositories and workers,    *)
(* whoever moves the tags.                                                 *)
(***************************************************************************)
EXTENDS RegistryTransfer, TLAPS

\* What a tag may name, and what a worker may have noted of it.
Held == [content : Bodies \cup {Nobody}, wrap : Wraps]

Steps == {"idle", "looked", "pushing", "pushed", "verified"}

\* The types the steps rely on.
SourceTyped ==
  /\ tag \in Held
  /\ taker \in [at : {"idle", "picked", "resolved", "inspected", "copied"}, client : Clients,
                chosen : Held, seen : Held, payload : Held]
  /\ packed \in [client : Clients, digest : Held, payload : Held]

TargetTyped ==
  /\ target \in [Repos -> Held]
  /\ importer \in [Importers -> [at : Steps, repo : Repos \cup {Nobody}, over : BOOLEAN,
                                 found : {"none", "absent", "conflict"}, shown : Held]]
  /\ \A j \in Importers : importer[j].at # "idle" => importer[j].repo \in Repos

\* Nothing is packed while an export is under way.
OneExport == taker # NoExport => packed = NoBundle

Exclusive == Repos \ SharedRepos

\* Before there is a bundle nothing is imported, and what nobody else writes is empty.
NothingBefore ==
  packed = NoBundle =>
    /\ \A j \in Importers : importer[j] = NoImport
    /\ pairs = {}
    /\ \A r \in Exclusive : target[r] = Gone

\* A pair tells of this bundle.
PairsOfBundle == \A p \in pairs : p.source = packed.digest

\* Somebody has pushed to r and will still note what is there.
UnderWay(r) ==
  \E j \in Importers :
    /\ importer[j].repo = r
    /\ importer[j].at = "pushed" \/ (importer[j].at = "verified"
                                     /\ importer[j].shown = target[r])

\* A receipt names what r holds.
Noted(r) == \E p \in pairs : p.receipt /\ p.repo = r /\ p.observed = target[r]

\* What an import has put where nobody else writes: the image of the bundle, or a chart
\* whose manifest is noted or about to be.
Brought ==
  \A r \in Exclusive \ cut :
    target[r] # Gone => IF IsChart THEN UnderWay(r) \/ Noted(r)
                                   ELSE target[r] = packed.digest

\* The inductive invariant.
Carried ==
  /\ SourceTyped
  /\ TargetTyped
  /\ OneExport
  /\ NothingBefore
  /\ PairsOfBundle
  /\ ImageCarriesSelection
  /\ Brought

-------------------------------------------------------------------------------
\* No content is a manifest like any other.
LEMMA GoneHeld == Gone \in Held /\ Manifests \subseteq Held
BY TransferAssumption DEF Gone, Held, Manifests

\* At first nothing is packed.
LEMMA CarriedInit == TransferInit => Carried
<1> SUFFICES ASSUME TransferInit PROVE Carried
  OBVIOUS
<1>1. Gone \in Held
  BY GoneHeld
<1>2. SourceTyped
  <2>1. tag \in Held
    BY TransferAssumption DEF TransferInit, Held
  <2> QED
    BY <1>1, <2>1 DEF TransferInit, SourceTyped, NoExport, NoBundle, Clients
<1>3. TargetTyped
  BY <1>1 DEF TransferInit, TargetTyped, NoImport, Steps
<1> QED
  BY <1>2, <1>3 DEF TransferInit, Carried, OneExport, NothingBefore, PairsOfBundle, NoExport,
     NoBundle, Clients, ImageCarriesSelection, Brought, Exclusive

\* The steps of an export up to the packing, and those of others, leave the bundle and
\* what an import may rely on alone.
LEMMA BeforePacking ==
  ASSUME Carried,
         \/ SourceMoves \/ TargetMoves
         \/ \E client \in Clients : Picks(client)
         \/ SelectionResolves \/ ExportGivesUp \/ Copies
         \/ SkopeoInspectsSource \/ NexusInspectsSource \/ HelmAsksDigest
  PROVE  Carried'
<1>1. UNCHANGED <<packed, importer, pairs, cut>>
  BY DEF SourceMoves, TargetMoves, Picks, SelectionResolves, ExportGivesUp, Copies, OnSource,
         SkopeoInspectsSource, NexusInspectsSource, HelmAsksDigest, sourceVars, ExporterAt
<1>2. target' \in [Repos -> Held] /\ \A r \in Exclusive : target'[r] = target[r]
  <2>1. CASE TargetMoves
    BY <2>1, GoneHeld DEF Carried, TargetTyped, TargetMoves, Exclusive
  <2>2. CASE ~TargetMoves
    <3>1. target' = target
      BY <2>2 DEF SourceMoves, Picks, SelectionResolves, ExportGivesUp, Copies, OnSource,
                  SkopeoInspectsSource, NexusInspectsSource, HelmAsksDigest
    <3> QED
      BY <3>1 DEF Carried, TargetTyped
  <2> QED
    BY <2>1, <2>2
<1>3. OneExport' /\ SourceTyped'
  <2>1. CASE SourceMoves
    BY <2>1, <1>1, TransferAssumption DEF Carried, OneExport, SourceMoves, SourceTyped, Held
  <2>2. CASE TargetMoves
    BY <2>2, <1>1 DEF Carried, OneExport, TargetMoves, sourceVars, SourceTyped
  <2>3. CASE \E client \in Clients : Picks(client)
    BY <2>3, <1>1, GoneHeld DEF Carried, Picks, OnSource, OneExport, NoExport, SourceTyped
  <2>4. CASE ExportGivesUp
    BY <2>4, <1>1, GoneHeld DEF Carried, ExportGivesUp, OnSource, OneExport, NoExport,
                                Clients, SourceTyped
  <2>5. CASE \/ SelectionResolves \/ Copies
             \/ SkopeoInspectsSource \/ NexusInspectsSource \/ HelmAsksDigest
    <3>1. taker # NoExport
      BY <2>5 DEF SelectionResolves, Copies, SkopeoInspectsSource, NexusInspectsSource,
                  HelmAsksDigest, NoExport
    <3>2. UNCHANGED <<tag, packed>>
      BY <2>5, <1>1 DEF SelectionResolves, Copies, SkopeoInspectsSource,
         NexusInspectsSource, HelmAsksDigest, OnSource
    <3>3. SourceTyped'
      <4>1. CASE SelectionResolves
        BY <4>1, <3>2 DEF Carried, SelectionResolves, ExporterAt, SourceTyped
      <4>2. CASE Copies
        BY <4>2, <3>2 DEF Carried, Copies, SourceTyped
      <4>3. CASE SkopeoInspectsSource \/ NexusInspectsSource \/ HelmAsksDigest
        BY <4>3, <3>2 DEF Carried, SkopeoInspectsSource, NexusInspectsSource,
                          HelmAsksDigest, SourceTyped
      <4> QED
        BY <2>5, <4>1, <4>2, <4>3
    <3> QED
      BY <1>1, <3>1, <3>3 DEF Carried, OneExport
  <2> QED
    BY <2>1, <2>2, <2>3, <2>4, <2>5
<1>4. TargetTyped'
  BY <1>1, <1>2 DEF Carried, TargetTyped
<1>5. Brought'
  BY <1>1, <1>2 DEF Carried, Brought, UnderWay, Noted, IsChart, Exclusive
<1> QED
  BY <1>1, <1>2, <1>3, <1>4, <1>5
     DEF Carried, NothingBefore, PairsOfBundle, ImageCarriesSelection, IsChart

\* Packing: of an image the digest chosen, seen and copied is one.
LEMMA Packing ==
  ASSUME Carried, Materializes
  PROVE  Carried'
<1>1. taker # NoExport /\ packed = NoBundle
  BY DEF Carried, OneExport, Materializes, CopiedImage, CopiedChart, NoExport
<1>2. UNCHANGED <<target, importer, pairs, cut>> /\ taker' = NoExport
  BY DEF Materializes, OnSource
<1>3. /\ \A j \in Importers : importer[j] = NoImport
      /\ pairs = {}
      /\ \A r \in Exclusive : target[r] = Gone
  BY <1>1 DEF Carried, NothingBefore
<1>4. ImageCarriesSelection'
  BY DEF Materializes, CopiedImage, CopiedChart, ImageCarriesSelection, IsChart
<1>5. SourceTyped'
  BY GoneHeld DEF Carried, Materializes, OnSource, SourceTyped, NoExport, Clients
<1>6. TargetTyped'
  BY <1>2 DEF Carried, TargetTyped
<1>7. NothingBefore' /\ PairsOfBundle' /\ Brought'
  BY <1>2, <1>3 DEF NothingBefore, PairsOfBundle, Brought, Exclusive
<1> QED
  BY <1>2, <1>4, <1>5, <1>6, <1>7 DEF Carried, OneExport

-------------------------------------------------------------------------------
\* What every step of an import leaves alone.
LEMMA ImportKeepsSource ==
  ASSUME Carried, UNCHANGED sourceVars, packed # NoBundle
  PROVE  SourceTyped' /\ OneExport' /\ NothingBefore' /\ ImageCarriesSelection'
BY DEF Carried, sourceVars, SourceTyped, OneExport, NothingBefore, ImageCarriesSelection,
       IsChart

\* The worker of a step is at work, on a bundle that is there.
LEMMA ImportHasBundle ==
  ASSUME Carried, NEW j \in Importers, importer[j].at # "idle"
  PROVE  packed # NoBundle /\ importer[j].repo \in Repos
BY DEF Carried, NothingBefore, NoImport, TargetTyped

\* The look before a transfer.
LEMMA Looking ==
  ASSUME Carried, NEW j \in Importers, NEW r \in Repos, NEW over \in BOOLEAN,
         LooksBefore(j, r, over)
  PROVE  Carried'
<1>1. packed # NoBundle /\ UNCHANGED <<tag, taker, packed, target, pairs, cut>>
  BY DEF LooksBefore, sourceVars
<1>2. \A i \in Importers : importer'[i] = importer[i] \/ importer[i] = NoImport
  BY DEF LooksBefore, Importer, Carried, TargetTyped
<1>3. TargetTyped'
  <2>1. CASE UNCHANGED importer
    BY <1>1, <2>1 DEF Carried, TargetTyped
  <2>2. CASE ~UNCHANGED importer
    <3> DEFINE looked == [NoImport EXCEPT !.at = "looked", !.repo = r, !.over = over,
                                          !.found = Answer(r)]
    <3>1. importer' = [importer EXCEPT ![j] = looked] /\ Answer(r) \in {"absent", "conflict"}
      BY <2>2 DEF LooksBefore, Importer
    <3>2. looked.repo \in Repos /\ looked \in
            [at : Steps, repo : Repos \cup {Nobody}, over : BOOLEAN,
             found : {"none", "absent", "conflict"}, shown : Held]
      BY <3>1, GoneHeld DEF NoImport, Steps
    <3> HIDE DEF looked
    <3> QED
      BY <1>1, <3>1, <3>2 DEF Carried, TargetTyped
  <2> QED
    BY <2>1, <2>2
<1>4. Brought'
  BY <1>1, <1>2 DEF Carried, Brought, UnderWay, Noted, IsChart, NoImport
<1> QED
  BY <1>1, <1>3, <1>4, ImportKeepsSource DEF Carried, sourceVars, PairsOfBundle

\* A worker that stops after its push leaves a mark.
LEMMA GivingUp ==
  ASSUME Carried, NEW j \in Importers, NEW client \in Clients, GivesUp(j, client)
  PROVE  Carried'
<1>1. /\ UNCHANGED <<tag, taker, packed, target, pairs>>
      /\ importer' = [importer EXCEPT ![j] = NoImport]
      /\ packed # NoBundle
  BY ImportHasBundle DEF GivesUp, OnTarget, sourceVars, Importer
<1>2. /\ importer[j].at \in {"pushed", "verified"} => importer[j].repo \in cut'
      /\ cut \subseteq cut'
  BY DEF GivesUp
<1>3. TargetTyped'
  BY <1>1, GoneHeld DEF Carried, TargetTyped, NoImport, Steps
<1>4. Brought'
  <2> SUFFICES ASSUME NEW r \in Exclusive \ cut', target[r] # Gone
               PROVE  IF IsChart THEN UnderWay(r)' \/ Noted(r) ELSE target[r] = packed.digest
    BY <1>1 DEF Brought, Noted, IsChart, Exclusive
  <2>1. IF IsChart THEN UnderWay(r) \/ Noted(r) ELSE target[r] = packed.digest
    BY <1>2 DEF Carried, Brought
  <2>2. UnderWay(r) => UnderWay(r)'
    BY <1>1, <1>2 DEF UnderWay, Carried, TargetTyped
  <2> QED
    BY <2>1, <2>2
<1> QED
  BY <1>1, <1>3, <1>4, ImportKeepsSource DEF Carried, sourceVars, PairsOfBundle

\* The checks before a push only move the worker on.
LEMMA Checking ==
  ASSUME Carried, NEW j \in Importers,
         SkopeoChecksPayload(j) \/ NexusChecksPayload(j) \/ HelmLooksAgain(j)
  PROVE  Carried'
<1>1. /\ UNCHANGED <<tag, taker, packed, target, pairs, cut>>
      /\ importer' = [importer EXCEPT ![j].at = "pushing"]
      /\ importer[j].at = "looked"
  BY DEF SkopeoChecksPayload, NexusChecksPayload, HelmLooksAgain, OnTarget, sourceVars,
         ImporterAt
<1>2. packed # NoBundle
  BY <1>1, ImportHasBundle
<1>3. TargetTyped'
  BY <1>1 DEF Carried, TargetTyped, Steps
<1>4. \A i \in Importers : i # j => importer'[i] = importer[i]
  BY <1>1 DEF Carried, TargetTyped
<1>5. Brought'
  BY <1>1, <1>4 DEF Carried, Brought, UnderWay, Noted, IsChart
<1> QED
  BY <1>1, <1>2, <1>3, <1>5, ImportKeepsSource DEF Carried, sourceVars, PairsOfBundle

\* A push: an image is the one of the bundle, a chart is what its worker will note.
LEMMA Landing ==
  ASSUME Carried, NEW j \in Importers, Lands(j)
  PROVE  Carried'
<1>1. PICK w \in Wraps :
        /\ ~IsChart => w = packed.payload.wrap
        /\ target' = [target EXCEPT ![importer[j].repo] =
                        [content |-> packed.payload.content, wrap |-> w]]
  BY DEF Lands
<1>2. /\ UNCHANGED <<tag, taker, packed, pairs>>
      /\ cut' = cut \ {importer[j].repo}
      /\ importer' = [importer EXCEPT ![j].at = "pushed"]
      /\ importer[j].at = "pushing"
  BY DEF Lands, OnTarget, sourceVars, ImporterAt
<1>3. packed # NoBundle /\ importer[j].repo \in Repos
  BY <1>2, ImportHasBundle
<1>4. packed.payload \in Held
  BY DEF Carried, SourceTyped
<1>5. TargetTyped'
  <2>1. target' \in [Repos -> Held]
    BY <1>1, <1>4 DEF Carried, TargetTyped, Held
  <2>2. "pushed" \in Steps
    BY DEF Steps
  <2> QED
    BY <1>2, <1>3, <2>1, <2>2 DEF Carried, TargetTyped
<1>6. Brought'
  <2> SUFFICES ASSUME NEW r \in Exclusive \ cut', target'[r] # Gone
               PROVE  IF IsChart THEN UnderWay(r)' \/ Noted(r)'
                                 ELSE target'[r] = packed.digest
    BY <1>2 DEF Brought, IsChart, Exclusive
  <2>1. CASE r = importer[j].repo
    <3>1. UnderWay(r)'
      BY <1>2, <2>1 DEF UnderWay, Carried, TargetTyped
    <3>2. ~IsChart => target'[r] = packed.payload
      BY <1>1, <1>3, <1>4, <2>1 DEF Carried, TargetTyped, Held
    <3> QED
      BY <3>1, <3>2 DEF Carried, ImageCarriesSelection
  <2>2. CASE r # importer[j].repo
    <3>1. target'[r] = target[r] /\ r \notin cut
      BY <1>1, <1>2, <2>2 DEF Carried, TargetTyped, Exclusive
    <3>2. UnderWay(r) => UnderWay(r)'
      BY <1>2, <2>2, <3>1 DEF UnderWay, Carried, TargetTyped
    <3>3. Noted(r) => Noted(r)'
      BY <1>2, <3>1 DEF Noted
    <3> QED
      BY <3>1, <3>2, <3>3 DEF Carried, Brought
  <2> QED
    BY <2>1, <2>2
<1> QED
  BY <1>2, <1>3, <1>5, <1>6, ImportKeepsSource DEF Carried, sourceVars, PairsOfBundle

\* The verification of an image ends its worker.
LEMMA VerifyingImage ==
  ASSUME Carried, NEW j \in Importers, SkopeoVerifies(j) \/ NexusVerifies(j)
  PROVE  Carried'
<1>1. /\ UNCHANGED <<tag, taker, packed, target, pairs, cut>>
      /\ importer' = [importer EXCEPT ![j] = NoImport]
      /\ ~IsChart /\ importer[j].at # "idle"
  BY DEF SkopeoVerifies, NexusVerifies, OnTarget, sourceVars, Importer, IsChart
<1>2. packed # NoBundle
  BY <1>1, ImportHasBundle
<1>3. TargetTyped'
  BY <1>1, GoneHeld DEF Carried, TargetTyped, NoImport, Steps
<1>4. Brought'
  BY <1>1 DEF Carried, Brought, IsChart
<1> QED
  BY <1>1, <1>2, <1>3, <1>4, ImportKeepsSource DEF Carried, sourceVars, PairsOfBundle

\* The verification of a chart: its worker knows what is there, and so does the row.
LEMMA VerifyingChart ==
  ASSUME Carried, NEW j \in Importers, HelmVerifies(j)
  PROVE  Carried'
<1> DEFINE shown == target[importer[j].repo]
           next == [importer[j] EXCEPT !.at = "verified", !.shown = shown]
<1>1. /\ UNCHANGED <<tag, taker, packed, target, cut>>
      /\ importer' = [importer EXCEPT ![j] = next]
      /\ pairs' = pairs \cup {PairOf(j, shown, FALSE)}
      /\ importer[j].at = "pushed"
  BY DEF HelmVerifies, OnTarget, sourceVars, Importer
<1>2. packed # NoBundle /\ importer[j].repo \in Repos
  BY <1>1, ImportHasBundle
<1>3. shown \in Held
  BY <1>2 DEF Carried, TargetTyped
<1>4. TargetTyped'
  <2>1. next.repo \in Repos /\ next \in
          [at : Steps, repo : Repos \cup {Nobody}, over : BOOLEAN,
           found : {"none", "absent", "conflict"}, shown : Held]
    BY <1>2, <1>3 DEF Carried, TargetTyped, Steps
  <2> HIDE DEF next
  <2> QED
    BY <1>1, <2>1 DEF Carried, TargetTyped
<1>5. PairsOfBundle'
  BY <1>1 DEF Carried, PairsOfBundle, PairOf
<1>6. Brought'
  <2>1. \A r \in Repos : UnderWay(r) => UnderWay(r)'
    BY <1>1 DEF UnderWay, Carried, TargetTyped
  <2>2. \A r \in Repos : Noted(r) => Noted(r)'
    BY <1>1 DEF Noted
  <2> QED
    BY <1>1, <2>1, <2>2 DEF Carried, Brought, IsChart, Exclusive
<1> QED
  BY <1>1, <1>2, <1>4, <1>5, <1>6, ImportKeepsSource DEF Carried, sourceVars

\* The receipt notes what its worker has seen, under the repository it pushed to.
LEMMA WritingReceipt ==
  ASSUME Carried, NEW j \in Importers, WritesReceipt(j)
  PROVE  Carried'
<1>1. /\ UNCHANGED <<tag, taker, packed, target, cut>>
      /\ importer' = [importer EXCEPT ![j] = NoImport]
      /\ pairs' = pairs \cup {PairOf(j, importer[j].shown, TRUE)}
      /\ importer[j].at = "verified"
  BY DEF WritesReceipt, OnTarget, sourceVars, Importer
<1>2. packed # NoBundle
  BY <1>1, ImportHasBundle
<1>3. TargetTyped'
  BY <1>1, GoneHeld DEF Carried, TargetTyped, NoImport, Steps
<1>4. PairsOfBundle'
  BY <1>1 DEF Carried, PairsOfBundle, PairOf
<1>5. Brought'
  <2>1. \A r \in Repos : UnderWay(r) => UnderWay(r)' \/ Noted(r)'
    <3> SUFFICES ASSUME NEW r \in Repos, UnderWay(r), ~UnderWay(r)'
                 PROVE  Noted(r)'
      OBVIOUS
    <3>1. importer[j].repo = r /\ importer[j].shown = target[r]
      BY <1>1 DEF UnderWay, Carried, TargetTyped
    <3> DEFINE new == PairOf(j, importer[j].shown, TRUE)
    <3>2. new.receipt /\ new.repo = r /\ new.observed = target'[r]
      BY <1>1, <3>1 DEF PairOf
    <3>3. new \in pairs'
      BY <1>1
    <3> HIDE DEF new
    <3> QED
      BY <3>2, <3>3 DEF Noted
  <2>2. \A r \in Repos : Noted(r) => Noted(r)'
    BY <1>1 DEF Noted
  <2> QED
    BY <1>1, <2>1, <2>2 DEF Carried, Brought, IsChart, Exclusive
<1> QED
  BY <1>1, <1>2, <1>3, <1>4, <1>5, ImportKeepsSource DEF Carried, sourceVars

-------------------------------------------------------------------------------
\* Every step keeps the invariant.
LEMMA CarriedStep ==
  ASSUME Carried, [TransferNext]_transferVars
  PROVE  Carried'
<1>1. CASE UNCHANGED transferVars
  BY <1>1 DEF transferVars, Carried, SourceTyped, TargetTyped, OneExport, NothingBefore,
     PairsOfBundle, ImageCarriesSelection, Brought, UnderWay, Noted, IsChart
<1>2. CASE SourceMoves \/ TargetMoves \/ ExportStep
  BY <1>2, BeforePacking, Packing DEF ExportStep
<1>3. ASSUME NEW j \in Importers, ImportStep(j)
      PROVE  Carried'
  <2>1. CASE SkopeoGivesUp(j) \/ NexusGivesUp(j) \/ HelmGivesUp(j)
    BY <2>1, GivingUp DEF SkopeoGivesUp, NexusGivesUp, HelmGivesUp, Clients
  <2>2. CASE ~(SkopeoGivesUp(j) \/ NexusGivesUp(j) \/ HelmGivesUp(j))
    BY <1>3, <2>2, Looking, Checking, Landing, VerifyingImage, VerifyingChart, WritingReceipt
       DEF ImportStep
  <2> QED
    BY <2>1, <2>2
<1> QED
  BY <1>1, <1>2, <1>3 DEF TransferNext

\* What is brought and not under way is found again.
LEMMA BroughtIsFound == Carried => ImportIsReplayable
<1> SUFFICES ASSUME Carried, NEW r \in Repos \ (SharedRepos \cup cut), target[r] # Gone,
                    \A j \in Importers : importer[j].repo = r =>
                      importer[j].at \notin {"pushed", "verified"}
             PROVE  Answer(r) = "same"
  BY DEF ImportIsReplayable
<1>1. CASE ~IsChart
  BY <1>1 DEF Carried, Brought, Exclusive, Answer, Inspected
<1>2. CASE IsChart
  <2>1. Noted(r)
    BY <1>2 DEF Carried, Brought, Exclusive, UnderWay
  <2>2. PairVerified(r)
    BY <2>1 DEF Noted, PairVerified, Carried, PairsOfBundle
  <2> QED
    BY <1>2, <2>2 DEF Answer, InspectedChart, Inspected
<1> QED
  BY <1>1, <1>2

\* An image in a bundle is the one that was chosen (export_artifact_materializer.py,
\* skopeo_service.py, nexus_service.py).
THEOREM SelectionHolds == TransferSpec => []ImageCarriesSelection
<1>1. TransferSpec => []Carried
  BY CarriedInit, CarriedStep, PTL DEF TransferSpec
<1> QED
  BY <1>1, PTL DEF Carried

\* What an import has brought the next one finds, whoever pushes over whom, unless the
\* last push was left without its receipt (import_helm_service.py,
\* import_destination_plan.py).
THEOREM ReplayableHolds == TransferSpec => []ImportIsReplayable
<1>1. TransferSpec => []Carried
  BY CarriedInit, CarriedStep, PTL DEF TransferSpec
<1> QED
  BY <1>1, BroughtIsFound, PTL
===============================================================================
