---------------------------- MODULE BundleFormat ----------------------------
(***************************************************************************)
(* A bundle from its packing at SOURCE to its extraction at TARGET         *)
(* (bundle_package_service.py) and the signed handoff that travels beside  *)
(* it (media_handoff.py).                                                  *)
(*                                                                         *)
(* A digest is the content it was taken of, a signature the pair of key    *)
(* and signed text.  The medium between the contours may damage a file,    *)
(* lose it, or bring the parts of two deliveries together.  When the files *)
(* of a delivery are published and taken away is the subject of            *)
(* ExportPublication and ImportIntake.                                     *)
(***************************************************************************)
EXTENDS Naturals, FiniteSets

CONSTANTS
  Parcels,      \* delivery_id
  SigningKeys,  \* SOURCE keys
  Paths,        \* payload files an archive may hold
  Roots,        \* payload_path of the artifacts
  RootOf,       \* the root a path lies under, or NoRoot
  ChartRoots,   \* those that are a .tgz file, not an OCI directory
  Bytes,        \* contents of a file
  Payloads,     \* payload directories an export hands over
  MaxDamages,   \* bound: accidents of the medium
  NoRoot, NoRecord

PathsOf(root) == {p \in Paths : RootOf[p] = root}

ASSUME BundleAssumption ==
  /\ RootOf \in [Paths -> Roots \cup {NoRoot}] /\ NoRoot \notin Roots
  /\ ChartRoots \subseteq Roots
  /\ Payloads \subseteq UNION {[paths -> Bytes] : paths \in SUBSET Paths}
  /\ \A root \in ChartRoots : Cardinality(PathsOf(root)) = 1
  /\ MaxDamages \in Nat

VARIABLES
  built,     \* history: what SOURCE has published of a delivery
  medium,    \* what the medium holds of it
  damages,   \* accidents so far
  trusted,   \* the keys in the directory of trusted keys
  staged,    \* the files an import has claimed
  accepted,  \* the result of verify_bundle
  unpacking, \* members in the temporary directory of an extraction
  unpacked   \* the extraction directory

bundleVars == <<built, medium, damages, trusted, staged, accepted, unpacking, unpacked>>

BundleInit ==
  /\ built = [d \in Parcels |-> NoRecord]
  /\ medium = [d \in Parcels |-> NoRecord]
  /\ damages = 0
  /\ trusted = {}
  /\ staged = NoRecord /\ accepted = NoRecord
  /\ unpacking = NoRecord /\ unpacked = NoRecord

-------------------------------------------------------------------------------
(***************************************************************************)
(* Packing                                                                 *)
(***************************************************************************)

\* _payload_stats: the digest of a chart file, or of the listing of a directory.
Stats(root, sums) == [p \in PathsOf(root) \cap DOMAIN sums |-> sums[p]]

\* _stage_payloads and _copy_directory_snapshot: payloads do not overlap, a chart is
\* one file.  What is staged no longer changes.
Stageable(payload) ==
  /\ DOMAIN payload # {}
  /\ \A p \in DOMAIN payload : RootOf[p] # NoRoot

\* _build_descriptors
Descriptors(payload) ==
  LET roots == {RootOf[p] : p \in DOMAIN payload}
  IN  [root \in roots |-> Stats(root, payload)]

\* _build_manifest
Manifest(d, payload) == [delivery |-> d, artifacts |-> Descriptors(payload)]

Signature(key, text) == [key |-> key, text |-> text]

\* The content of the archive: manifest.json, manifest.sig, checksums.sha256, payload.
Archive(d, key, payload) ==
  [manifest |-> Manifest(d, payload), signature |-> Signature(key, Manifest(d, payload)),
   checksums |-> payload, files |-> payload]

\* The line of the sidecar: digest and name.
Sidecar(d, archive) == [name |-> d, digest |-> archive]

\* MediaHandoffService.build
HandoffText(d, key, archive) ==
  [delivery |-> d, key |-> key, bundle |-> archive, sidecar |-> Sidecar(d, archive)]

Handoff(d, key, archive) ==
  LET text == HandoffText(d, key, archive)
  IN  [text |-> text, signature |-> Signature(key, text)]

-------------------------------------------------------------------------------
(***************************************************************************)
(* Verification                                                            *)
(***************************************************************************)

\* _inspect_archive and _read_small_member: the three critical files are there.
Inspectable(a) == NoRecord \notin {a.manifest, a.signature, a.checksums}

\* _parse_canonical_manifest: the schema asks for artifacts.
ManifestParses(a) == DOMAIN a.manifest.artifacts # {}

\* _verify_signature: by any trusted key, over the bytes of manifest.json.
SignatureTrusted(a, keys) ==
  a.signature.key \in keys /\ a.signature.text = a.manifest

\* _parse_checksums
ChecksumsParse(a) == DOMAIN a.checksums # {}

\* _validate_payload_layout: the archive holds the files the checksums list, every
\* artifact has files, and every file has an artifact.
LayoutDeclared(a) ==
  /\ DOMAIN a.files = DOMAIN a.checksums
  /\ \A root \in DOMAIN a.manifest.artifacts : PathsOf(root) \cap DOMAIN a.checksums # {}
  /\ \A p \in DOMAIN a.checksums : RootOf[p] \in DOMAIN a.manifest.artifacts

\* _verify_payload_checksums
HashesMatch(a) == \A p \in DOMAIN a.checksums : a.files[p] = a.checksums[p]

\* Wrong: the unsigned list of checksums is all that binds the payload.
ChecksumsSuffice(a) == TRUE

\* _verify_descriptor_metadata: the checksums are those the signed manifest was built of.
DescriptorsMatch(a) ==
  \A root \in DOMAIN a.manifest.artifacts :
    a.manifest.artifacts[root] = Stats(root, a.checksums)

\* _verify_sidecar, when there is one.
SidecarMatches(d, s) == s.sidecar = NoRecord \/ s.sidecar = Sidecar(d, s.archive)

\* The checks of _verify_bundle, in their order.
BundleVerified(a, keys) ==
  /\ Inspectable(a)
  /\ ManifestParses(a)
  /\ SignatureTrusted(a, keys)
  /\ ChecksumsParse(a)
  /\ LayoutDeclared(a)
  /\ HashesMatch(a)
  /\ DescriptorsMatch(a)

\* verify_from_root: signed by an enabled key, and both files are the listed ones.
HandoffVerified(d, s) ==
  /\ s.handoff # NoRecord
  /\ s.handoff.signature = Signature(s.handoff.text.key, s.handoff.text)
  /\ s.handoff.text.key \in trusted
  /\ s.handoff.text.bundle = s.archive
  /\ s.handoff.text.sidecar = s.sidecar
  /\ s.handoff.text.delivery = d

-------------------------------------------------------------------------------
(***************************************************************************)
(* Steps                                                                   *)
(***************************************************************************)

\* build_bundle: once for a delivery; the archive is verified with the own key before
\* it is published.
Builds(d, key, payload) ==
  LET a == Archive(d, key, payload)
      published == [archive |-> a, sidecar |-> Sidecar(d, a), handoff |-> Handoff(d, key, a)]
  IN  /\ built[d] = NoRecord /\ staged = NoRecord
      /\ Stageable(payload)
      /\ BundleVerified(a, {key})
      /\ built' = [built EXCEPT ![d] = published]
      /\ medium' = [medium EXCEPT ![d] = published]
      /\ UNCHANGED <<damages, trusted, staged, accepted, unpacking, unpacked>>

\* The three loose files of a delivery, or the members of its archive, come to harm,
\* before they are claimed: the claim moves them off the medium.
Harmed(d, s) ==
  /\ medium[d] # NoRecord /\ staged = NoRecord
  /\ damages < MaxDamages
  /\ damages' = damages + 1
  /\ medium' = [medium EXCEPT ![d] = s]
  /\ UNCHANGED <<built, trusted, staged, accepted, unpacking, unpacked>>

WithFiles(s, members) == [s EXCEPT !.archive.files = members]

FileDamaged(d) ==
  \E p \in Paths, b \in Bytes :
    Harmed(d, WithFiles(medium[d],
                        [q \in DOMAIN medium[d].archive.files \cup {p} |->
                           IF q = p THEN b ELSE medium[d].archive.files[q]]))

FileLost(d) ==
  \E p \in Paths :
    Harmed(d, WithFiles(medium[d],
                        [q \in DOMAIN medium[d].archive.files \ {p} |->
                           medium[d].archive.files[q]]))

\* A member of the archive of another delivery, or one of its loose files.
PartsMixed(d, e) ==
  /\ medium[e] # NoRecord
  /\ \/ \E part \in {"manifest", "signature", "checksums", "files"} :
          Harmed(d, [medium[d] EXCEPT !.archive[part] = medium[e].archive[part]])
     \/ \E part \in {"archive", "sidecar", "handoff"} :
          Harmed(d, [medium[d] EXCEPT ![part] = medium[e][part]])

HandoffLost(d) == Harmed(d, [medium[d] EXCEPT !.handoff = NoRecord])

\* An administrator trusts a key, or retires it.
TrustChanges(key) ==
  /\ trusted' = IF key \in trusted THEN trusted \ {key} ELSE trusted \cup {key}
  /\ UNCHANGED <<built, medium, damages, staged, accepted, unpacking, unpacked>>

Stages(d, s) ==
  /\ medium[d] # NoRecord /\ staged = NoRecord
  /\ staged' = [delivery |-> d, archive |-> s.archive, sidecar |-> s.sidecar]
  /\ UNCHANGED <<built, medium, damages, trusted, accepted, unpacking, unpacked>>

\* Physical media, or a browser that sends the three files.
StagesWithHandoff(d) == medium[d] # NoRecord /\ HandoffVerified(d, medium[d]) /\ Stages(d, medium[d])

\* A browser may send the archive alone.
StagesAlone(d) == medium[d] # NoRecord /\ Stages(d, [medium[d] EXCEPT !.sidecar = NoRecord])

\* verify_bundle for the preview.
VerifiesStaged ==
  /\ staged # NoRecord /\ accepted = NoRecord
  /\ SidecarMatches(staged.delivery, staged)
  /\ BundleVerified(staged.archive, trusted)
  /\ accepted' = [key |-> staged.archive.signature.key, manifest |-> staged.archive.manifest]
  /\ UNCHANGED <<built, medium, damages, trusted, staged, unpacking, unpacked>>

\* A bundle that is refused ends its import.
RefusesStaged ==
  /\ staged # NoRecord /\ accepted = NoRecord
  /\ ~(SidecarMatches(staged.delivery, staged) /\ BundleVerified(staged.archive, trusted))
  /\ staged' = NoRecord
  /\ UNCHANGED <<built, medium, damages, trusted, accepted, unpacking, unpacked>>

\* The worker verifies again, with the keys of now, and extracts into a directory
\* that must not exist.
ExtractionBegins ==
  /\ accepted # NoRecord /\ unpacking = NoRecord /\ unpacked = NoRecord
  /\ BundleVerified(staged.archive, trusted)
  /\ unpacking' = {}
  /\ UNCHANGED <<built, medium, damages, trusted, staged, accepted, unpacked>>

\* One member after the other, in the order of the archive.
ExtractsMember ==
  /\ unpacking # NoRecord /\ unpacking # DOMAIN staged.archive.files
  /\ LET next == CHOOSE p \in DOMAIN staged.archive.files : p \notin unpacking
     IN  unpacking' = unpacking \cup {next}
  /\ UNCHANGED <<built, medium, damages, trusted, staged, accepted, unpacked>>

\* Wrong: the directory is there from the first member on.
SomeExtracted == unpacking # NoRecord /\ unpacking # {}

\* The temporary directory is renamed after the last member.
AllExtracted == unpacking # NoRecord /\ unpacking = DOMAIN staged.archive.files

ExtractionPublished ==
  /\ AllExtracted
  /\ unpacked' = [p \in unpacking |-> staged.archive.files[p]]
  /\ unpacking' = NoRecord
  /\ UNCHANGED <<built, medium, damages, trusted, staged, accepted>>

\* An error removes the temporary directory, a crash leaves it; neither is the target.
ExtractionDies ==
  /\ unpacking # NoRecord
  /\ unpacking' = NoRecord
  /\ UNCHANGED <<built, medium, damages, trusted, staged, accepted, unpacked>>

BundleNext ==
  \/ \E d \in Parcels, key \in SigningKeys, payload \in Payloads : Builds(d, key, payload)
  \/ \E d \in Parcels : FileDamaged(d) \/ FileLost(d) \/ HandoffLost(d)
  \/ \E d, e \in Parcels : PartsMixed(d, e)
  \/ \E key \in SigningKeys : TrustChanges(key)
  \/ \E d \in Parcels : StagesWithHandoff(d) \/ StagesAlone(d)
  \/ VerifiesStaged \/ RefusesStaged
  \/ ExtractionBegins \/ ExtractsMember \/ ExtractionPublished \/ ExtractionDies

BundleSpec == BundleInit /\ [][BundleNext]_bundleVars

-------------------------------------------------------------------------------
(***************************************************************************)
(* Properties                                                              *)
(***************************************************************************)
BundleTypeOK ==
  /\ \A d \in Parcels : built[d] = NoRecord <=> medium[d] = NoRecord
  /\ damages \in 0..MaxDamages
  /\ trusted \subseteq SigningKeys
  /\ accepted # NoRecord => staged # NoRecord /\ accepted.key \in SigningKeys
  /\ unpacking # NoRecord => accepted # NoRecord /\ unpacking \subseteq Paths
  /\ unpacked # NoRecord => accepted # NoRecord

\* What TARGET has accepted is, manifest and payload, one delivery as SOURCE has
\* published it: no damage to a file, no list of checksums that fits the wrong
\* payload, no manifest with the signature or the files of another delivery.
AcceptedIsBuilt ==
  accepted # NoRecord =>
    \E d \in Parcels :
      /\ built[d] # NoRecord
      /\ accepted.manifest = built[d].archive.manifest
      /\ accepted.key = built[d].archive.signature.key
      /\ staged.archive.files = built[d].archive.files

\* An extraction directory holds every file of the delivery it was accepted as,
\* however often extractions fail or the process is lost between two members.
UnpackedIsWhole ==
  unpacked # NoRecord =>
    \E d \in Parcels :
      /\ built[d] # NoRecord
      /\ accepted.manifest = built[d].archive.manifest
      /\ unpacked = built[d].archive.files
===============================================================================
