---------------------------- MODULE KeyTrust ----------------------------
(***************************************************************************)
(* Signing identities of SOURCE, the directory of trusted keys of TARGET,  *)
(* the packages between them, and the imports whose signer must stay       *)
(* trusted (key_management.py, source_trust_package.py,                    *)
(* trusted_key_retirement.py, api/key_settings.py).                        *)
(*                                                                         *)
(* Requests about keys run one at a time under the mode lock, which the    *)
(* creation of an import needs too; but a change of the directory is a     *)
(* series of file operations, which a crash may cut short and which the    *)
(* thread of a verification sees one by one.                               *)
(***************************************************************************)
EXTENDS Naturals, Sequences, FiniteSets

CONSTANTS
  OwnKeys,     \* keys SOURCE may generate or install
  Stranger,    \* a key that is not of SOURCE
  FirstKey,    \* the key TARGET was set up with by hand
  ByHand,      \* the file name it was given
  Previews,    \* imports
  MaxTrusted,  \* bundle_max_trusted_keys
  NoKey

AllKeys == OwnKeys \cup {Stranger}

ASSUME TrustAssumption ==
  /\ Stranger \notin OwnKeys /\ FirstKey \in OwnKeys
  /\ NoKey \notin AllKeys /\ ByHand \notin AllKeys
  /\ MaxTrusted \in Nat \ {0}

VARIABLES
  active, pending,  \* the two private keys of SOURCE
  generated,        \* history: keys SOURCE has had
  package,          \* the trust package on its way
  files,            \* TARGET: the key in a file of the directory
  changes,          \* file operations the request in progress has left to do
  tangled,          \* history: a request has left a key under the name of another
  verdicts          \* the verification of an import and its result

sourceKeys == <<active, pending, generated>>
trustVars == <<sourceKeys, package, files, changes, tangled, verdicts>>

Names == (AllKeys \cup {ByHand}) \X {"pem", "disabled"}
EnabledPath(k) == <<k, "pem">>
DisabledPath(k) == <<k, "disabled">>
PemNames == {n \in Names : n[2] = "pem"}
NoPackage == [key |-> NoKey, endorsed |-> NoKey, endorser |-> NoKey]
NewImport == [at |-> "none", signer |-> NoKey, listed |-> {}, found |-> NoKey]

TrustInit ==
  /\ active = NoKey /\ pending = NoKey
  /\ generated = {FirstKey}
  /\ package = NoPackage
  /\ files = [n \in Names |-> IF n = EnabledPath(ByHand) THEN FirstKey ELSE NoKey]
  /\ changes = <<>>
  /\ tangled = FALSE
  /\ verdicts = [i \in Previews |-> NewImport]

-------------------------------------------------------------------------------
(***************************************************************************)
(* SOURCE                                                                  *)
(***************************************************************************)
OnlySource == UNCHANGED <<package, files, changes, tangled, verdicts>>

\* _atomic_create_private_key: the file is linked into place, never over another one.
Vacant(slot) == slot = NoKey

GeneratesSigningKey(k) ==
  /\ Vacant(active) /\ k \in OwnKeys \ generated
  /\ active' = k /\ generated' = generated \cup {k}
  /\ UNCHANGED pending
  /\ OnlySource

\* A PEM of the administrator; only while there is none.
InstallsSigningKey(k) ==
  /\ Vacant(active) /\ k \in OwnKeys
  /\ active' = k /\ generated' = generated \cup {k}
  /\ UNCHANGED pending
  /\ OnlySource

PreparesPending(k) ==
  /\ active # NoKey /\ Vacant(pending) /\ k \in OwnKeys \ generated
  /\ pending' = k /\ generated' = generated \cup {k}
  /\ UNCHANGED active
  /\ OnlySource

\* The fingerprint the administrator has seen; one rename replaces the key.
ActivatesPending(expected) ==
  /\ pending # NoKey /\ pending = expected
  /\ active' = pending /\ pending' = NoKey
  /\ UNCHANGED generated
  /\ OnlySource

CancelsPending(expected) ==
  /\ pending # NoKey /\ pending = expected
  /\ pending' = NoKey
  /\ UNCHANGED <<active, generated>>
  /\ OnlySource

\* build: the public key of the active identity.
ExportsPackage ==
  /\ active # NoKey
  /\ package' = [NoPackage EXCEPT !.key = active]
  /\ UNCHANGED <<sourceKeys, files, changes, tangled, verdicts>>

\* build_pending: that of the pending one, and an endorsement the active one has signed.
ExportsPendingPackage ==
  /\ active # NoKey /\ pending # NoKey
  /\ package' = [key |-> pending, endorsed |-> pending, endorser |-> active]
  /\ UNCHANGED <<sourceKeys, files, changes, tangled, verdicts>>

\* A package of somebody else, or one whose key does not go with its endorsement.
StrangePackage ==
  /\ package.key # Stranger
  /\ \/ package' = [NoPackage EXCEPT !.key = Stranger]
     \/ package' = [package EXCEPT !.key = Stranger]
     \/ package' = [key |-> Stranger, endorsed |-> Stranger, endorser |-> Stranger]
  /\ UNCHANGED <<sourceKeys, files, changes, tangled, verdicts>>

-------------------------------------------------------------------------------
(***************************************************************************)
(* The directory of TARGET                                                 *)
(***************************************************************************)

\* _find_trusted_key_files: by content, not by name.
Matches(k) == {n \in Names : files[n] = k}

\* _read_public_key_file for each of them, and list_trusted_keys.
KeysOf(names) == {files[n] : n \in names} \ {NoKey}
Listed == KeysOf(Names)
TrustedNow == KeysOf(PemNames)

\* _atomic_write, unlink and os.replace
Write(n, k) == [do |-> "write", names |-> {n}, key |-> k, to |-> n]
Unlink(ns) == [do |-> "unlink", names |-> ns, key |-> NoKey, to |-> <<>>]
Rename(n, m) == [do |-> "rename", names |-> {n}, key |-> NoKey, to |-> m]

\* add_trusted_public_key; enabling does the same.
AddSteps(k) ==
  <<Write(EnabledPath(k), k), Unlink(Matches(k) \ {EnabledPath(k)}), Unlink({DisabledPath(k)})>>

DisableSteps(k) ==
  <<Write(DisabledPath(k), k), Unlink(Matches(k) \ {DisabledPath(k)}),
    Unlink({EnabledPath(k)})>>

RemoveSteps(k) == <<Unlink(Matches(k)), Unlink({EnabledPath(k), DisabledPath(k)})>>

\* The state that a replacement leaves, and the name that goes with it.
KeptOn(p, k) == \E n \in Matches(p) \cup Matches(k) : n[2] = "pem"
PathOf(k, on) == IF on THEN EnabledPath(k) ELSE DisabledPath(k)

\* replace_trusted_public_key by a key the directory knows: it takes over the state.
TakeOverSteps(p, k) ==
  LET target == PathOf(k, KeptOn(p, k))
      previous == IF p = k THEN {} ELSE Matches(p) \cup {EnabledPath(p), DisabledPath(p)}
  IN  <<Write(target, k), Unlink(Matches(k) \ {target}), Unlink({PathOf(k, ~KeptOn(p, k))}),
        Unlink(previous \ {target})>>

\* By a new key: into the file of the old one, which then gets its name.
SlotSteps(p, k, slot) ==
  <<Write(slot, k), Unlink(Matches(p) \ {slot}), Rename(slot, PathOf(k, KeptOn(p, k))),
    Unlink({PathOf(k, ~KeptOn(p, k))})>>

Tangles(fs) == \E n \in Names : n[1] # ByHand /\ fs[n] \notin {NoKey, n[1]}

\* mode_guard: the lock is free.
NoRequest == changes = <<>>

Begins(steps) ==
  /\ changes' = steps
  /\ UNCHANGED <<sourceKeys, package, files, tangled, verdicts>>

Unfinished(i) == verdicts[i].at \notin {"none", "ended"}

\* Wrong: only imports that are known to be signed with the key are looked at.
RetirableIfUnused(k) ==
  k \in Listed /\ \A i \in Previews : Unfinished(i) => verdicts[i].signer # k

\* require_retirable: an import whose signer is not known yet blocks every key.
Retirable(k) ==
  k \in Listed /\ \A i \in Previews : Unfinished(i) => verdicts[i].signer \notin {k, NoKey}

\* A public key from the administrator, who vouches for it.
AddsTrustedKey(k) ==
  /\ NoRequest
  /\ k \in generated
  /\ k \in Listed \/ Cardinality(Listed) < MaxTrusted
  /\ Begins(AddSteps(k))

EnablesTrustedKey(k) == NoRequest /\ k \in Listed /\ Begins(AddSteps(k))

DisablesTrustedKey(k) == NoRequest /\ Retirable(k) /\ Begins(DisableSteps(k))

RemovesTrustedKey(k) == NoRequest /\ Retirable(k) /\ Begins(RemoveSteps(k))

ReplacesTrustedKey(p, k) ==
  /\ NoRequest
  /\ k \in generated /\ p \in Listed
  /\ p # k => Retirable(p)
  /\ files[PathOf(k, KeptOn(p, k))] \in {NoKey, p, k}
  /\ IF p = k \/ k \in Listed
     THEN Begins(TakeOverSteps(p, k))
     ELSE \E slot \in Matches(p) :
            /\ slot[2] = "pem" \/ Matches(p) \cap PemNames = {}
            /\ Begins(SlotSteps(p, k, slot))

\* Wrong: an endorsement of another key will do.
EndorsedAtAll == package.endorsed # NoKey /\ package.endorser \in TrustedNow

\* _verify_rotation_endorsement: of this key, by one that is enabled.
Endorsed ==
  /\ package.endorsed = package.key
  /\ package.endorser \in TrustedNow

\* import_package: a known key is enabled, a new one needs an endorsement, or the
\* fingerprint that SOURCE has told the administrator.
Admitted(told) ==
  \/ package.key \in Listed \ TrustedNow
  \/ /\ package.key \notin Listed
     /\ IF package.endorsed # NoKey THEN Endorsed
        ELSE told \in generated /\ told = package.key
     /\ Cardinality(Listed) < MaxTrusted

ImportsPackage(told) ==
  /\ NoRequest
  /\ package # NoPackage
  /\ Admitted(told)
  /\ Begins(AddSteps(package.key))

\* One file operation of the request in progress; the rename may fail.
ChangesFile ==
  /\ changes # <<>>
  /\ LET step == Head(changes)
         there == {n \in step.names : files[n] # NoKey}
     IN \/ /\ step.do = "write"
           /\ files' = [n \in Names |-> IF n \in step.names THEN step.key ELSE files[n]]
           /\ changes' = Tail(changes)
        \/ /\ step.do = "unlink" /\ there # {}
           /\ \E n \in there : files' = [files EXCEPT ![n] = NoKey]
           /\ UNCHANGED changes
        \/ /\ step.do = "unlink" /\ there = {}
           /\ changes' = Tail(changes)
           /\ UNCHANGED files
        \/ /\ step.do = "rename" /\ there # {}
           /\ \E n \in there :
                files' \in {files, [files EXCEPT ![n] = NoKey, ![step.to] = files[n]]}
           /\ changes' = Tail(changes)
  /\ tangled' = (tangled \/ (changes' = <<>> /\ Tangles(files')))
  /\ UNCHANGED <<sourceKeys, package, verdicts>>

\* The process is lost and starts again: the directory stays as it is, verifications
\* fail (reconcile_interrupted_operations).
TargetRestarts ==
  /\ changes' = <<>>
  /\ tangled' = (tangled \/ Tangles(files))
  /\ verdicts' = [i \in Previews |->
       IF verdicts[i].at \in {"created", "listed", "verified"}
       THEN [NewImport EXCEPT !.at = "ended"] ELSE verdicts[i]]
  /\ UNCHANGED <<sourceKeys, package, files>>

-------------------------------------------------------------------------------
(***************************************************************************)
(* Imports                                                                 *)
(***************************************************************************)
VerdictOf(i, r) == verdicts' = [verdicts EXCEPT ![i] = r]
OnlyImports == UNCHANGED <<sourceKeys, package, files, changes, tangled>>

\* The row is created under the mode lock.
CreatesImport(i) ==
  /\ NoRequest
  /\ verdicts[i].at = "none"
  /\ VerdictOf(i, [NewImport EXCEPT !.at = "created"])
  /\ OnlyImports

\* _load_trusted_public_keys in the thread: the names of the enabled files, ...
ListsTrust(i) ==
  /\ verdicts[i].at = "created"
  /\ VerdictOf(i, [NewImport EXCEPT !.at = "listed",
                                    !.listed = {n \in PemNames : files[n] # NoKey}])
  /\ OnlyImports

LoadsTrust(i) ==
  /\ verdicts[i].listed # {} /\ Cardinality(verdicts[i].listed) <= MaxTrusted
  /\ \A n \in verdicts[i].listed : files[n] # NoKey

\* ... then each of them, and the one that has signed the bundle.
ReadsTrust(i, signer) ==
  /\ verdicts[i].at = "listed"
  /\ LoadsTrust(i)
  /\ signer \in {files[n] : n \in verdicts[i].listed}
  /\ VerdictOf(i, [NewImport EXCEPT !.at = "verified", !.found = signer])
  /\ OnlyImports

\* persist_verified_signer, and READY.
BindsSigner(i) ==
  /\ verdicts[i].at = "verified"
  /\ VerdictOf(i, [NewImport EXCEPT !.at = "ready", !.signer = verdicts[i].found])
  /\ OnlyImports

\* Untrusted, not readable, cancelled; or the import has run.
ImportEnds(i) ==
  /\ Unfinished(i)
  /\ VerdictOf(i, [NewImport EXCEPT !.at = "ended"])
  /\ OnlyImports

TrustNext ==
  \/ \E k \in OwnKeys : GeneratesSigningKey(k) \/ InstallsSigningKey(k) \/ PreparesPending(k)
                        \/ ActivatesPending(k) \/ CancelsPending(k)
  \/ ExportsPackage \/ ExportsPendingPackage \/ StrangePackage
  \/ \E k \in AllKeys : AddsTrustedKey(k) \/ EnablesTrustedKey(k) \/ DisablesTrustedKey(k)
                        \/ RemovesTrustedKey(k) \/ ImportsPackage(k)
  \/ \E p, k \in AllKeys : ReplacesTrustedKey(p, k)
  \/ ChangesFile \/ TargetRestarts
  \/ \E i \in Previews : CreatesImport(i) \/ ListsTrust(i) \/ BindsSigner(i) \/ ImportEnds(i)
  \/ \E i \in Previews, k \in AllKeys : ReadsTrust(i, k)

TrustSpec == TrustInit /\ [][TrustNext]_trustVars

-------------------------------------------------------------------------------
(***************************************************************************)
(* Properties                                                              *)
(***************************************************************************)
TrustTypeOK ==
  /\ {active, pending} \subseteq OwnKeys \cup {NoKey}
  /\ generated \subseteq OwnKeys
  /\ package \in [key : AllKeys \cup {NoKey}, endorsed : AllKeys \cup {NoKey},
                  endorser : AllKeys \cup {NoKey}]
  /\ files \in [Names -> AllKeys \cup {NoKey}]
  /\ tangled \in BOOLEAN
  /\ \A i \in Previews : verdicts[i].signer \in AllKeys \cup {NoKey}

\* TARGET trusts no key that SOURCE has never had, whichever packages arrive, with
\* whichever endorsements, and however the requests about the directory end.
TrustIsGenuine == Listed \subseteq generated

\* The signer of an import that waits for its start is enabled: no request has retired
\* the key while the bundle was verified, while its result was bound to the row, or
\* since; unless an interrupted replacement has left a key under the name of another.
PreparedIsTrusted ==
  tangled \/ \A i \in Previews : verdicts[i].at = "ready" => verdicts[i].signer \in TrustedNow
===============================================================================
