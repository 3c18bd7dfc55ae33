---------------------------- MODULE RegistryTransfer ----------------------------
(***************************************************************************)
(* One artifact on its way from a SOURCE tag into a bundle and from the    *)
(* bundle to TARGET repositories: selection (export_selection.py), the     *)
(* copy into a payload (export_artifact_materializer.py), inspection, push *)
(* and verification by Skopeo, Nexus and Helm (skopeo_service.py,          *)
(* nexus_service.py, helm_oci_service.py, import_helm_service.py).         *)
(* Every command is an await: tags move between any two of them.           *)
(*                                                                         *)
(* A manifest is known by its digest.  An image keeps its manifest on the  *)
(* way; a chart is a package that a push wraps into a manifest of its own, *)
(* not necessarily the one it had at SOURCE.                               *)
(***************************************************************************)
EXTENDS Naturals

CONSTANTS
  Bodies,      \* image contents and chart packages
  Wraps,       \* the manifests one package may get
  Repos,       \* TARGET repositories
  SharedRepos, \* those that somebody else writes too
  SourceRepo,  \* the one whose path is that of the artifact at SOURCE
  Importers,   \* workers that bring the bundle in, one after the other or together
  MaxImports,  \* bound: transfers to TARGET
  Nobody       \* no content

Manifests == [content : Bodies, wrap : Wraps]
Gone == [content |-> Nobody, wrap |-> 0]

ASSUME TransferAssumption ==
  /\ Bodies # {} /\ Nobody \notin Bodies
  /\ 0 \in Wraps /\ Wraps \subseteq Nat
  /\ SharedRepos \subseteq Repos /\ SourceRepo \in Repos
  /\ MaxImports \in Nat

VARIABLES
  tag,       \* the manifest the SOURCE tag names
  taker,     \* the handler and the worker that take the artifact out
  packed,    \* what the signed bundle says of the artifact, and its payload
  target,    \* the manifest a TARGET repository holds, or Gone
  importer,  \* the workers that bring the artifact in
  pairs,     \* VERIFIED rows of charts: repository, digests, and whether in a receipt
  cut,       \* history: repositories where an import ended early after their last push
  imports    \* transfers so far

transferVars == <<tag, taker, packed, target, importer, pairs, cut, imports>>
sourceVars == <<tag, taker, packed>>

Clients == {"skopeo", "nexus", "helm"}
NoExport == [at |-> "idle", client |-> "skopeo", chosen |-> Gone, seen |-> Gone, payload |-> Gone]
NoImport == [at |-> "idle", repo |-> Nobody, over |-> FALSE, found |-> "none", shown |-> Gone]
NoBundle == [client |-> "skopeo", digest |-> Gone, payload |-> Gone]

IsChart == packed.client = "helm"

TransferInit ==
  /\ tag \in [content : {CHOOSE c \in Bodies : TRUE}, wrap : {0}]
  /\ taker = NoExport
  /\ packed = NoBundle
  /\ target = [r \in Repos |-> Gone]
  /\ importer = [j \in Importers |-> NoImport]
  /\ pairs = {} /\ cut = {}
  /\ imports = 0

-------------------------------------------------------------------------------
\* Somebody pushes to the SOURCE tag, or to a TARGET repository, or deletes there.
SourceMoves ==
  /\ \E c \in Bodies : tag' = [content |-> c, wrap |-> 0]
  /\ UNCHANGED <<taker, packed, target, importer, pairs, cut, imports>>

TargetMoves ==
  /\ \E r \in SharedRepos, m \in Manifests \cup {Gone} : target' = [target EXCEPT ![r] = m]
  /\ UNCHANGED <<sourceVars, importer, pairs, cut, imports>>

-------------------------------------------------------------------------------
(***************************************************************************)
(* Export                                                                  *)
(***************************************************************************)
ExporterAt(step) == taker' = [taker EXCEPT !.at = step]
OnSource == UNCHANGED <<tag, target, importer, pairs, cut, imports>>

\* The user picks what the browser shows: digest and kind of the tag.
Picks(client) ==
  /\ taker = NoExport /\ packed = NoBundle
  /\ taker' = [NoExport EXCEPT !.at = "picked", !.client = client, !.chosen = tag]
  /\ UNCHANGED packed
  /\ OnSource

\* resolve_export_selection: the tag still has the chosen digest.
SelectionResolves ==
  /\ taker.at = "picked"
  /\ tag = taker.chosen
  /\ ExporterAt("resolved")
  /\ UNCHANGED packed
  /\ OnSource

\* Any failure, a timeout included, ends the artifact; its payload is not packed.
ExportGivesUp ==
  /\ taker.at # "idle"
  /\ taker' = NoExport
  /\ UNCHANGED packed
  /\ OnSource

\* inspect of the tag, before the copy.
SkopeoInspectsSource ==
  /\ taker.at = "resolved" /\ taker.client = "skopeo"
  /\ taker' = [taker EXCEPT !.at = "inspected", !.seen = tag]
  /\ UNCHANGED packed
  /\ OnSource

NexusInspectsSource ==
  /\ taker.at = "resolved" /\ taker.client = "nexus"
  /\ taker' = [taker EXCEPT !.at = "inspected", !.seen = tag]
  /\ UNCHANGED packed
  /\ OnSource

\* pull_chart asks Harbor for the digest.
HelmAsksDigest ==
  /\ taker.at = "resolved" /\ taker.client = "helm"
  /\ taker' = [taker EXCEPT !.at = "inspected", !.seen = tag]
  /\ UNCHANGED packed
  /\ OnSource

\* Copy and pull go by the tag, whatever it names by now.
Copies ==
  /\ taker.at = "inspected"
  /\ taker' = [taker EXCEPT !.at = "copied", !.payload = tag]
  /\ UNCHANGED packed
  /\ OnSource

\* Wrong: the digest of the payload is taken for that of the inspection.
CopiedUnchecked == taker.at = "copied" /\ taker.client \in {"skopeo", "nexus"}

\* The digest of the OCI payload is that of the inspection before the copy.
CopiedImage ==
  /\ taker.at = "copied" /\ taker.client \in {"skopeo", "nexus"}
  /\ taker.payload = taker.seen

\* A package has no digest to compare: what was pulled is what is packed.
CopiedChart == taker.at = "copied" /\ taker.client = "helm"

\* materialize: what was seen is what was chosen.  The bundle names the chosen digest.
Materializes ==
  /\ CopiedImage \/ CopiedChart
  /\ taker.seen = taker.chosen
  /\ packed' = [client |-> taker.client, digest |-> taker.chosen,
                payload |-> taker.payload]
  /\ taker' = NoExport
  /\ OnSource

-------------------------------------------------------------------------------
(***************************************************************************)
(* Import                                                                  *)
(***************************************************************************)
Importer(j, r) == importer' = [importer EXCEPT ![j] = r]
ImporterAt(j, step) == importer' = [importer EXCEPT ![j].at = step]
OnTarget == UNCHANGED <<sourceVars, imports>>

\* inspect_target of the images: absent, the same digest, or another one.
Inspected(r) ==
  CASE target[r] = Gone -> "absent"
    [] target[r] = packed.digest -> "same"
    [] OTHER -> "conflict"

\* _verified_digest_pair_matches_target: a row with the present target as its repository,
\* or one whose receipt names the present target.  row.repository is the path at SOURCE,
\* wherever the import has put the chart.
PairVerified(r) ==
  \E p \in pairs :
    /\ r = SourceRepo \/ (p.receipt /\ p.repo = r)
    /\ p.source = packed.digest /\ p.observed = target[r]

\* inspect_target of the charts: a manifest that an import has verified is the same.
InspectedChart(r) ==
  IF Inspected(r) = "conflict" /\ PairVerified(r) THEN "same" ELSE Inspected(r)

Answer(r) == IF IsChart THEN InspectedChart(r) ELSE Inspected(r)

\* The worker looks right before the transfer, with the flag of its import: the same
\* manifest is left as it is, and so is another one without the permission to replace it.
LooksBefore(j, r, over) ==
  /\ importer[j] = NoImport /\ packed # NoBundle
  /\ imports < MaxImports
  /\ imports' = imports + 1
  /\ IF Answer(r) = "absent" \/ (Answer(r) = "conflict" /\ over)
     THEN Importer(j, [NoImport EXCEPT !.at = "looked", !.repo = r, !.over = over,
                                       !.found = Answer(r)])
     ELSE UNCHANGED importer
  /\ UNCHANGED <<sourceVars, target, pairs, cut>>

\* The command fails, or a timeout, a cancellation or the end of the process stops the
\* import: what it has done to the registry, and to its row, by then stays.
GivesUp(j, client) ==
  /\ importer[j].at # "idle" /\ packed.client = client
  /\ Importer(j, NoImport)
  /\ cut' = IF importer[j].at \in {"pushed", "verified"} THEN cut \cup {importer[j].repo}
                                                       ELSE cut
  /\ UNCHANGED <<target, pairs>>
  /\ OnTarget

SkopeoGivesUp(j) == GivesUp(j, "skopeo")
NexusGivesUp(j) == GivesUp(j, "nexus")
HelmGivesUp(j) == GivesUp(j, "helm")

\* import_image: the payload is what the bundle names.
SkopeoChecksPayload(j) ==
  /\ importer[j].at = "looked" /\ packed.client = "skopeo"
  /\ packed.payload = packed.digest
  /\ ImporterAt(j, "pushing")
  /\ UNCHANGED <<target, pairs, cut>>
  /\ OnTarget

NexusChecksPayload(j) ==
  /\ importer[j].at = "looked" /\ packed.client = "nexus"
  /\ packed.payload = packed.digest
  /\ ImporterAt(j, "pushing")
  /\ UNCHANGED <<target, pairs, cut>>
  /\ OnTarget

\* push_chart looks a second time; only an announced conflict may be there.
HelmLooksAgain(j) ==
  /\ importer[j].at = "looked" /\ IsChart
  /\ \/ InspectedChart(importer[j].repo) = "absent"
     \/ importer[j].over /\ importer[j].found = "conflict"
  /\ ImporterAt(j, "pushing")
  /\ UNCHANGED <<target, pairs, cut>>
  /\ OnTarget

\* The registry takes the push, whatever is there; a package is wrapped anew.  The
\* command may be killed before anybody learns of it.
Lands(j) ==
  /\ importer[j].at = "pushing"
  /\ \E w \in Wraps :
       /\ ~IsChart => w = packed.payload.wrap
       /\ target' = [target EXCEPT ![importer[j].repo] =
                       [content |-> packed.payload.content, wrap |-> w]]
  /\ cut' = cut \ {importer[j].repo}
  /\ ImporterAt(j, "pushed")
  /\ UNCHANGED pairs
  /\ OnTarget

\* The digest at TARGET after the push is the expected one.
SkopeoVerifies(j) ==
  /\ importer[j].at = "pushed" /\ packed.client = "skopeo"
  /\ target[importer[j].repo] = packed.digest
  /\ Importer(j, NoImport)
  /\ UNCHANGED <<target, pairs, cut>>
  /\ OnTarget

NexusVerifies(j) ==
  /\ importer[j].at = "pushed" /\ packed.client = "nexus"
  /\ target[importer[j].repo] = packed.digest
  /\ Importer(j, NoImport)
  /\ UNCHANGED <<target, pairs, cut>>
  /\ OnTarget

\* The row or the receipt of an import: where the chart went, and what was seen there.
PairOf(j, shown, receipt) ==
  [repo |-> importer[j].repo, source |-> packed.digest, observed |-> shown,
   receipt |-> receipt]

\* A chart is verified by whatever digest Harbor shows after the push, which the row keeps.
HelmVerifies(j) ==
  LET shown == target[importer[j].repo]
  IN  /\ importer[j].at = "pushed" /\ IsChart
      /\ shown # Gone
      /\ pairs' = pairs \cup {PairOf(j, shown, FALSE)}
      /\ Importer(j, [importer[j] EXCEPT !.at = "verified", !.shown = shown])
      /\ UNCHANGED <<target, cut>>
      /\ OnTarget

\* Wrong: the receipt names the path at SOURCE, as the row does.
WritesSourceReceipt(j) ==
  /\ importer[j].at = "verified"
  /\ pairs' = pairs \cup {[PairOf(j, importer[j].shown, TRUE) EXCEPT !.repo = SourceRepo]}
  /\ Importer(j, NoImport)
  /\ UNCHANGED <<target, cut>>
  /\ OnTarget

\* _write_receipt, when the worker is through: the pair with the mapped target.
WritesReceipt(j) ==
  /\ importer[j].at = "verified"
  /\ pairs' = pairs \cup {PairOf(j, importer[j].shown, TRUE)}
  /\ Importer(j, NoImport)
  /\ UNCHANGED <<target, cut>>
  /\ OnTarget

-------------------------------------------------------------------------------
ExportStep ==
  \/ \E client \in Clients : Picks(client)
  \/ SelectionResolves \/ ExportGivesUp \/ Copies \/ Materializes
  \/ SkopeoInspectsSource \/ NexusInspectsSource \/ HelmAsksDigest

ImportStep(j) ==
  \/ \E r \in Repos, over \in BOOLEAN : LooksBefore(j, r, over)
  \/ SkopeoGivesUp(j) \/ NexusGivesUp(j) \/ HelmGivesUp(j) \/ Lands(j)
  \/ SkopeoChecksPayload(j) \/ NexusChecksPayload(j) \/ HelmLooksAgain(j)
  \/ SkopeoVerifies(j) \/ NexusVerifies(j) \/ HelmVerifies(j) \/ WritesReceipt(j)

TransferNext ==
  SourceMoves \/ TargetMoves \/ ExportStep \/ \E j \in Importers : ImportStep(j)

TransferSpec == TransferInit /\ [][TransferNext]_transferVars

-------------------------------------------------------------------------------
(***************************************************************************)
(* Properties                                                              *)
(***************************************************************************)
TransferTypeOK ==
  /\ tag \in Manifests
  /\ taker.at \in {"idle", "picked", "resolved", "inspected", "copied"}
  /\ {taker.chosen, taker.seen, taker.payload} \subseteq Manifests \cup {Gone}
  /\ packed.client \in Clients
  /\ target \in [Repos -> Manifests \cup {Gone}]
  /\ \A j \in Importers :
       importer[j].at \in {"idle", "looked", "pushing", "pushed", "verified"}
  /\ pairs \subseteq [repo : Repos, source : Manifests, observed : Manifests,
                      receipt : BOOLEAN]
  /\ cut \subseteq Repos
  /\ imports \in 0..MaxImports

\* An image packed carries the manifest that was chosen, however often the tag moved
\* while it was resolved, inspected and copied.
ImageCarriesSelection == IsChart \/ packed.payload = packed.digest

\* The next import finds what an import has brought: in a repository nobody else writes,
\* whatever is there counts as the same once no import is between its push and its
\* receipt, though charts get a new manifest with every push, imports push over one
\* another and each verifies whatever it sees.  The exception is a repository where,
\* since the last push landed, an import that had pushed ended before its receipt.
ImportIsReplayable ==
  \A r \in Repos \ (SharedRepos \cup cut) :
    target[r] # Gone /\ (\A j \in Importers : importer[j].repo = r =>
                           importer[j].at \notin {"pushed", "verified"})
      => Answer(r) = "same"
===============================================================================
