---------------------------- MODULE KeyTrustProofs ----------------------------
(***************************************************************************)
(* TARGET trusts SOURCE keys only, and keeps the signers of prepared       *)
(* imports enabled, for every set of keys and imports and every limit of   *)
(* trusted keys.                                                           *)
(***************************************************************************)
EXTENDS KeyTrust, TLAPS

KeyOrNone == AllKeys \cup {NoKey}

FileSteps ==
  [do : {"write", "unlink", "rename"}, names : SUBSET Names, key : KeyOrNone,
   to : Names \cup {<<>>}]

\* What SOURCE has told anybody: its keys, and whom an endorsement by one of its keys
\* is for.
SourceIsGenuine ==
  /\ generated \subseteq OwnKeys
  /\ {active, pending} \subseteq generated \cup {NoKey}
  /\ package \in [key : KeyOrNone, endorsed : KeyOrNone, endorser : KeyOrNone]
  /\ package.endorser \in OwnKeys => package.endorsed \in generated

\* The directory, and what a request is about to write there.
DirectoryIsGenuine ==
  /\ files \in [Names -> generated \cup {NoKey}]
  /\ changes \in Seq(FileSteps)
  /\ \A i \in 1..Len(changes) : changes[i].do = "write" => changes[i].key \in generated

\* The inductive invariant: a request is admitted by what the directory holds, and the
\* directory by what requests before it have left to do.
Genuine == SourceIsGenuine /\ DirectoryIsGenuine

-------------------------------------------------------------------------------
(***************************************************************************)
(* A key that somebody relies on outlives the request in progress: its     *)
(* file is spared by everything left to do, or the next step writes one    *)
(* that is.                                                                *)
(***************************************************************************)
Spares(step, n, s) ==
  /\ n \in step.names => step.do = "write" /\ step.key = s
  /\ step.do = "rename" => step.to # n

SparesAll(steps, n, s) == \A i \in 1..Len(steps) : Spares(steps[i], n, s)

Stays(s) == \E n \in PemNames : files[n] = s /\ SparesAll(changes, n, s)

HeadWrites(s) ==
  /\ changes # <<>> /\ Head(changes).do = "write" /\ Head(changes).key = s
  /\ Head(changes).names \cap PemNames # {}

Arrives(s) ==
  /\ HeadWrites(s)
  /\ \E m \in PemNames : Head(changes).names = {m} /\ SparesAll(Tail(changes), m, s)

Survives(s) == Stays(s) \/ Arrives(s)

\* An import has been created whose signer is not bound yet.
Unbound(i) == verdicts[i].at \in {"created", "listed", "verified"}

VerdictsTyped ==
  /\ DOMAIN verdicts = Previews
  /\ \A i \in Previews :
    /\ verdicts[i] \in [at : {"none", "created", "listed", "verified", "ready", "ended"},
                        signer : KeyOrNone, listed : SUBSET PemNames, found : KeyOrNone]
    /\ Unbound(i) => verdicts[i].signer = NoKey
    /\ verdicts[i].at = "ready" => verdicts[i].signer # NoKey
    /\ verdicts[i].at = "verified" => verdicts[i].found # NoKey

Relied(s) ==
  \E i \in Previews : \/ verdicts[i].at = "ready" /\ verdicts[i].signer = s
                      \/ verdicts[i].at = "verified" /\ verdicts[i].found = s

ReliedSurvive == \A s \in AllKeys : Relied(s) => s \in TrustedNow /\ Survives(s)

\* Next to an import whose signer is not bound only requests run that take no key away.
OnlyGentle ==
  (\E i \in Previews : Unbound(i)) =>
    /\ \A j \in 1..Len(changes) :
         changes[j].do # "rename" /\ (changes[j].do = "write" => j = 1)
    /\ \A s \in AllKeys : s \in TrustedNow \/ HeadWrites(s) => Survives(s)

Reliance ==
  /\ VerdictsTyped
  /\ ~tangled => /\ changes = <<>> => ~Tangles(files)
                 /\ ReliedSurvive
                 /\ OnlyGentle

-------------------------------------------------------------------------------
\* Removing the first step of a request keeps the rest as it is.
LEMMA TailKeeps ==
  ASSUME DirectoryIsGenuine, changes # <<>>
  PROVE  /\ Head(changes) \in FileSteps
         /\ Head(changes).do = "write" => Head(changes).key \in generated
         /\ Tail(changes) \in Seq(FileSteps)
         /\ \A i \in 1..Len(Tail(changes)) :
              Tail(changes)[i].do = "write" => Tail(changes)[i].key \in generated
<1>1. changes \in Seq(FileSteps)
  BY DEF DirectoryIsGenuine
<1>2. Len(changes) \in Nat /\ Len(changes) > 0 /\ Head(changes) = changes[1]
  BY <1>1
<1>3. Len(Tail(changes)) = Len(changes) - 1 /\ Tail(changes) \in Seq(FileSteps)
  BY <1>1
<1>4. \A i \in 1..Len(Tail(changes)) : Tail(changes)[i] = changes[i + 1]
  BY <1>1, <1>2, <1>3
<1>5. Head(changes) \in FileSteps
  BY <1>1
<1> QED
  BY <1>2, <1>3, <1>4, <1>5 DEF DirectoryIsGenuine

\* What the directory lists has been generated.
LEMMA ListedIsGenuine ==
  ASSUME DirectoryIsGenuine
  PROVE  Listed \subseteq generated /\ TrustedNow \subseteq generated
BY DEF DirectoryIsGenuine, Listed, TrustedNow, KeysOf, PemNames

\* A package that is admitted carries a generated key.
LEMMA AdmittedIsGenuine ==
  ASSUME Genuine, NEW told \in AllKeys, Admitted(told)
  PROVE  package.key \in generated
<1>1. Listed \subseteq generated /\ TrustedNow \subseteq generated
  BY ListedIsGenuine DEF Genuine
<1>2. CASE package.key \in Listed \ TrustedNow
  BY <1>1, <1>2
<1>3. CASE package.endorsed # NoKey /\ Endorsed
  BY <1>1, <1>3 DEF Endorsed, Genuine, SourceIsGenuine
<1>4. CASE told \in generated /\ told = package.key
  BY <1>4
<1> QED
  BY <1>2, <1>3, <1>4 DEF Admitted

\* The requests of the directory write nothing but the key they are about.
LEMMA RequestsAreGenuine ==
  ASSUME Genuine, NEW steps \in Seq(FileSteps), Begins(steps),
         \A i \in 1..Len(steps) : steps[i].do = "write" => steps[i].key \in generated
  PROVE  Genuine'
BY DEF Begins, Genuine, SourceIsGenuine, DirectoryIsGenuine, sourceKeys

\* Adding a key writes that key only.
LEMMA AddWritesItsKey ==
  ASSUME Genuine, NEW k \in generated, Begins(AddSteps(k))
  PROVE  Genuine'
<1> DEFINE steps == AddSteps(k)
<1>0. k \in AllKeys
  BY DEF Genuine, SourceIsGenuine, AllKeys
<1>1. steps \in Seq(FileSteps)
  BY <1>0 DEF AddSteps, FileSteps, Write, Unlink, KeyOrNone, Names, EnabledPath, DisabledPath,
              Matches
<1>2. \A i \in 1..Len(steps) : steps[i].do = "write" => steps[i].key \in generated
  BY DEF AddSteps, Write, Unlink
<1> QED
  BY <1>1, <1>2, RequestsAreGenuine

\* Disabling writes the key it disables.
LEMMA DisableWritesItsKey ==
  ASSUME Genuine, NEW k \in generated, Begins(DisableSteps(k))
  PROVE  Genuine'
<1> DEFINE steps == DisableSteps(k)
<1>0. k \in AllKeys
  BY DEF Genuine, SourceIsGenuine, AllKeys
<1>1. steps \in Seq(FileSteps)
  BY <1>0 DEF DisableSteps, FileSteps, Write, Unlink, KeyOrNone, Names, EnabledPath,
              DisabledPath, Matches
<1>2. \A i \in 1..Len(steps) : steps[i].do = "write" => steps[i].key \in generated
  BY DEF DisableSteps, Write, Unlink
<1> QED
  BY <1>1, <1>2, RequestsAreGenuine

\* Removing writes no key.
LEMMA RemoveWritesNothing ==
  ASSUME Genuine, NEW k \in AllKeys, Begins(RemoveSteps(k))
  PROVE  Genuine'
<1> DEFINE steps == RemoveSteps(k)
<1>1. steps \in Seq(FileSteps)
  BY DEF RemoveSteps, FileSteps, Unlink, KeyOrNone, Names, EnabledPath, DisabledPath, Matches
<1>2. \A i \in 1..Len(steps) : steps[i].do = "write" => steps[i].key \in generated
  BY DEF RemoveSteps, Unlink
<1> QED
  BY <1>1, <1>2, RequestsAreGenuine

\* A replacement by a known key writes the new key only.
LEMMA TakeOverWritesItsKey ==
  ASSUME Genuine, NEW p \in AllKeys, NEW k \in generated, Begins(TakeOverSteps(p, k))
  PROVE  Genuine'
<1> DEFINE steps == TakeOverSteps(p, k)
<1>0. k \in AllKeys
  BY DEF Genuine, SourceIsGenuine, AllKeys
<1>1. PathOf(k, KeptOn(p, k)) \in Names /\ PathOf(k, ~KeptOn(p, k)) \in Names
  BY <1>0 DEF PathOf, Names, EnabledPath, DisabledPath
<1>2. steps \in Seq(FileSteps)
  BY <1>0, <1>1 DEF TakeOverSteps, FileSteps, Write, Unlink, KeyOrNone, Names, EnabledPath,
                    DisabledPath, Matches
<1>3. \A i \in 1..Len(steps) : steps[i].do = "write" => steps[i].key \in generated
  BY DEF TakeOverSteps, Write, Unlink
<1> QED
  BY <1>2, <1>3, RequestsAreGenuine

\* A replacement by a new key writes the new key only.
LEMMA SlotWritesItsKey ==
  ASSUME Genuine, NEW p \in AllKeys, NEW k \in generated, NEW slot \in Names,
         Begins(SlotSteps(p, k, slot))
  PROVE  Genuine'
<1> DEFINE steps == SlotSteps(p, k, slot)
<1>0. k \in AllKeys
  BY DEF Genuine, SourceIsGenuine, AllKeys
<1>1. PathOf(k, KeptOn(p, k)) \in Names /\ PathOf(k, ~KeptOn(p, k)) \in Names
  BY <1>0 DEF PathOf, Names, EnabledPath, DisabledPath
<1>2. steps \in Seq(FileSteps)
  BY <1>0, <1>1 DEF SlotSteps, FileSteps, Write, Unlink, Rename, KeyOrNone, Matches
<1>3. \A i \in 1..Len(steps) : steps[i].do = "write" => steps[i].key \in generated
  BY DEF SlotSteps, Write, Unlink, Rename
<1> QED
  BY <1>2, <1>3, RequestsAreGenuine

-------------------------------------------------------------------------------
\* The actions of SOURCE, and the medium.
LEMMA SourceKeepsGenuine ==
  ASSUME TrustAssumption, Genuine,
         \/ \E k \in OwnKeys : \/ GeneratesSigningKey(k) \/ InstallsSigningKey(k)
                               \/ PreparesPending(k) \/ ActivatesPending(k)
                               \/ CancelsPending(k)
         \/ ExportsPackage \/ ExportsPendingPackage \/ StrangePackage
  PROVE  Genuine'
<1> USE DEF Genuine, SourceIsGenuine, DirectoryIsGenuine
<1>1. ASSUME NEW k \in OwnKeys,
             GeneratesSigningKey(k) \/ InstallsSigningKey(k) \/ PreparesPending(k)
      PROVE  Genuine'
  BY <1>1 DEF GeneratesSigningKey, InstallsSigningKey, PreparesPending, OnlySource
<1>2. ASSUME NEW k \in OwnKeys, ActivatesPending(k) \/ CancelsPending(k)
      PROVE  Genuine'
  BY <1>2 DEF ActivatesPending, CancelsPending, OnlySource
<1>3. CASE ExportsPackage
  BY <1>3 DEF ExportsPackage, TrustAssumption, NoPackage, KeyOrNone, AllKeys, sourceKeys
<1>4. CASE ExportsPendingPackage
  BY <1>4 DEF ExportsPendingPackage, KeyOrNone, AllKeys, sourceKeys
<1>5. CASE StrangePackage
  BY <1>5 DEF StrangePackage, TrustAssumption, NoPackage, KeyOrNone, AllKeys, sourceKeys
<1> QED
  BY <1>1, <1>2, <1>3, <1>4, <1>5

\* The requests about the directory.
LEMMA RequestKeepsGenuine ==
  ASSUME Genuine, NEW k \in AllKeys,
         \/ AddsTrustedKey(k) \/ EnablesTrustedKey(k) \/ DisablesTrustedKey(k)
         \/ RemovesTrustedKey(k) \/ ImportsPackage(k)
         \/ \E p \in AllKeys : ReplacesTrustedKey(p, k)
  PROVE  Genuine'
<1>1. Listed \subseteq generated
  BY ListedIsGenuine DEF Genuine
<1>2. CASE AddsTrustedKey(k)
  BY <1>2, AddWritesItsKey DEF AddsTrustedKey
<1>3. CASE EnablesTrustedKey(k)
  BY <1>1, <1>3, AddWritesItsKey DEF EnablesTrustedKey
<1>4. CASE DisablesTrustedKey(k)
  BY <1>1, <1>4, DisableWritesItsKey DEF DisablesTrustedKey, Retirable
<1>5. CASE RemovesTrustedKey(k)
  BY <1>5, RemoveWritesNothing DEF RemovesTrustedKey
<1>6. CASE ImportsPackage(k)
  BY <1>6, AdmittedIsGenuine, AddWritesItsKey DEF ImportsPackage
<1>7. ASSUME NEW p \in AllKeys, ReplacesTrustedKey(p, k)
      PROVE  Genuine'
  <2>1. k \in generated /\ Matches(p) \subseteq Names
    BY <1>7 DEF ReplacesTrustedKey, Matches
  <2>2. CASE Begins(TakeOverSteps(p, k))
    BY <2>1, <2>2, TakeOverWritesItsKey
  <2>3. CASE \E slot \in Matches(p) : Begins(SlotSteps(p, k, slot))
    BY <2>1, <2>3, SlotWritesItsKey
  <2> QED
    BY <1>7, <2>2, <2>3 DEF ReplacesTrustedKey
<1> QED
  BY <1>2, <1>3, <1>4, <1>5, <1>6, <1>7

\* One file operation.
LEMMA FileStepKeepsGenuine ==
  ASSUME Genuine, ChangesFile
  PROVE  Genuine'
<1> DEFINE step == Head(changes)
<1>1. /\ changes # <<>>
      /\ UNCHANGED <<sourceKeys, package, verdicts>>
  BY DEF ChangesFile
<1>2. /\ step \in FileSteps
      /\ step.do = "write" => step.key \in generated
      /\ Tail(changes) \in Seq(FileSteps)
      /\ \A i \in 1..Len(Tail(changes)) :
           Tail(changes)[i].do = "write" => Tail(changes)[i].key \in generated
  BY <1>1, TailKeeps DEF Genuine
<1>3. changes' \in {changes, Tail(changes)}
  BY DEF ChangesFile
<1>4. files' \in [Names -> generated \cup {NoKey}]
  <2>1. files \in [Names -> generated \cup {NoKey}] /\ step.names \subseteq Names
    BY <1>2 DEF Genuine, DirectoryIsGenuine, FileSteps
  <2>2. CASE step.do = "write"
    BY <1>2, <2>1, <2>2 DEF ChangesFile
  <2>3. CASE step.do = "unlink"
    BY <2>1, <2>3 DEF ChangesFile
  <2>4. CASE step.do = "rename"
    BY <2>1, <2>4 DEF ChangesFile
  <2> QED
    BY <1>2, <2>2, <2>3, <2>4 DEF FileSteps
<1> QED
  BY <1>1, <1>2, <1>3, <1>4 DEF Genuine, SourceIsGenuine, DirectoryIsGenuine, sourceKeys

\* The key TARGET was set up with is one of SOURCE.
LEMMA GenuineInit == TrustAssumption /\ TrustInit => Genuine
BY DEF TrustInit, TrustAssumption, Genuine, SourceIsGenuine, DirectoryIsGenuine, NoPackage,
       KeyOrNone, AllKeys

\* Every step keeps the invariant.
LEMMA GenuineStep ==
  ASSUME TrustAssumption, Genuine, [TrustNext]_trustVars
  PROVE  Genuine'
<1>1. CASE ChangesFile
  BY <1>1, FileStepKeepsGenuine
<1>2. CASE TargetRestarts
  BY <1>2 DEF TargetRestarts, Genuine, SourceIsGenuine, DirectoryIsGenuine, sourceKeys
<1>3. ASSUME NEW i \in Previews,
             \/ CreatesImport(i) \/ ListsTrust(i) \/ BindsSigner(i) \/ ImportEnds(i)
             \/ \E k \in AllKeys : ReadsTrust(i, k)
      PROVE  Genuine'
  <2>1. OnlyImports
    BY <1>3 DEF CreatesImport, ListsTrust, BindsSigner, ImportEnds, ReadsTrust
  <2> QED
    BY <2>1 DEF OnlyImports, Genuine, SourceIsGenuine, DirectoryIsGenuine, sourceKeys
<1>4. CASE UNCHANGED trustVars
  BY <1>4 DEF trustVars, Genuine, SourceIsGenuine, DirectoryIsGenuine, sourceKeys
<1> QED
  BY <1>1, <1>2, <1>3, <1>4, SourceKeepsGenuine, RequestKeepsGenuine DEF TrustNext

\* Everything SOURCE and the directory hold goes back to a key that was generated.
THEOREM AlwaysGenuine == TrustSpec => []Genuine
BY TrustAssumption, GenuineInit, GenuineStep, PTL DEF TrustSpec

\* TARGET never trusts a key SOURCE has not had (source_trust_package.py,
\* key_management.py).
THEOREM TrustHolds == TrustSpec => []TrustIsGenuine
<1>1. Genuine => TrustIsGenuine
  BY ListedIsGenuine DEF Genuine, TrustIsGenuine
<1> QED
  BY <1>1, AlwaysGenuine, PTL

-------------------------------------------------------------------------------
(***************************************************************************)
(* The signer of a prepared import                                         *)
(***************************************************************************)

\* A directory in order: a named file holds its own key or none.
LEMMA NamedFile ==
  ASSUME TrustAssumption, Genuine, ~Tangles(files), NEW k \in AllKeys
  PROVE  /\ EnabledPath(k) \in PemNames /\ files[EnabledPath(k)] \in {NoKey, k}
         /\ DisabledPath(k) \in Names \ PemNames /\ files[DisabledPath(k)] \in {NoKey, k}
BY DEF TrustAssumption, Tangles, EnabledPath, DisabledPath, PemNames, Names

\* A request that begins leaves an enabled key in one of its files if it spares it.
LEMMA BeginStays ==
  ASSUME NEW steps, Begins(steps), NEW s, NEW n \in PemNames, files[n] = s,
         SparesAll(steps, n, s)
  PROVE  Survives(s)'
BY DEF Begins, Survives, Stays, SparesAll, Spares, PemNames, Names

\* A request that begins by writing a key into an enabled file, and spares that file.
LEMMA BeginArrives ==
  ASSUME NEW steps, Begins(steps), NEW s, NEW m \in PemNames, steps # <<>>,
         Head(steps).do = "write", Head(steps).key = s, Head(steps).names = {m},
         SparesAll(Tail(steps), m, s)
  PROVE  Survives(s)'
<1>1. changes' = steps
  BY DEF Begins
<1>2. HeadWrites(s)'
  BY <1>1 DEF HeadWrites, PemNames, Names
<1>3. Arrives(s)'
  BY <1>1, <1>2 DEF Arrives, SparesAll, Spares, PemNames, Names
<1> QED
  BY <1>3 DEF Survives

\* Adding a key takes no other one away, and the key arrives.
LEMMA AddSurvives ==
  ASSUME TrustAssumption, Genuine, ~Tangles(files), NEW k \in generated,
         Begins(AddSteps(k)), NEW s \in AllKeys, s \in TrustedNow \/ s = k
  PROVE  Survives(s)'
<1> DEFINE steps == AddSteps(k)
<1>0. k \in AllKeys
  BY DEF Genuine, SourceIsGenuine, AllKeys
<1>1. CASE s = k
  <2>1. EnabledPath(k) \in PemNames /\ DisabledPath(k) # EnabledPath(k)
    BY <1>0, NamedFile
  <2>3. steps # <<>> /\ Head(steps) = Write(EnabledPath(k), k)
    BY DEF AddSteps
  <2> DEFINE rest == <<Unlink(Matches(k) \ {EnabledPath(k)}), Unlink({DisabledPath(k)})>>
  <2>4. Tail(steps) = rest
    BY DEF AddSteps
  <2>5. SparesAll(rest, EnabledPath(k), k)
    BY <2>1 DEF SparesAll, Spares, Unlink
  <2>6. Head(steps).do = "write" /\ Head(steps).key = k /\ Head(steps).names = {EnabledPath(k)}
    BY <2>3 DEF Write
  <2> QED
    BY <1>1, <2>1, <2>3, <2>4, <2>5, <2>6, BeginArrives
<1>2. CASE s # k
  <2>1. PICK n \in PemNames : files[n] = s
    BY <1>2 DEF TrustedNow, KeysOf
  <2>2. n # EnabledPath(k) /\ n # DisabledPath(k) /\ n \notin Matches(k)
    BY <1>0, <1>2, <2>1, NamedFile DEF TrustAssumption, Matches
  <2>3. SparesAll(steps, n, s)
    BY <2>2 DEF AddSteps, SparesAll, Spares, Write, Unlink
  <2> QED
    BY <2>1, <2>3, BeginStays
<1> QED
  BY <1>1, <1>2

\* Disabling or removing a key spares the files of the others.
LEMMA DisableSurvives ==
  ASSUME TrustAssumption, Genuine, ~Tangles(files), NEW k \in AllKeys,
         Begins(DisableSteps(k)) \/ Begins(RemoveSteps(k)),
         NEW s \in TrustedNow, s # k
  PROVE  Survives(s)'
<1>1. PICK n \in PemNames : files[n] = s /\ s # NoKey
  BY DEF TrustedNow, KeysOf
<1>2. n # EnabledPath(k) /\ n # DisabledPath(k) /\ n \notin Matches(k)
  BY <1>1, NamedFile DEF Matches
<1>3. SparesAll(DisableSteps(k), n, s)
  BY <1>2 DEF DisableSteps, SparesAll, Spares, Write, Unlink
<1>4. SparesAll(RemoveSteps(k), n, s)
  BY <1>2 DEF RemoveSteps, SparesAll, Spares, Unlink
<1> QED
  BY <1>1, <1>3, <1>4, BeginStays

\* A replacement by a known key takes the replaced one only.
LEMMA TakeOverSurvives ==
  ASSUME TrustAssumption, Genuine, ~Tangles(files), NEW p \in AllKeys, NEW k \in generated,
         Begins(TakeOverSteps(p, k)), NEW s \in TrustedNow, s = p => p = k
  PROVE  Survives(s)'
<1> DEFINE steps == TakeOverSteps(p, k)
           target == PathOf(k, KeptOn(p, k))
           other == PathOf(k, ~KeptOn(p, k))
           previous == IF p = k THEN {} ELSE Matches(p) \cup {EnabledPath(p), DisabledPath(p)}
<1>0. k \in AllKeys
  BY DEF Genuine, SourceIsGenuine, AllKeys
<1>1. PICK n \in PemNames : files[n] = s /\ s # NoKey
  BY DEF TrustedNow, KeysOf
<1>2. steps = <<Write(target, k), Unlink(Matches(k) \ {target}), Unlink({other}),
                Unlink(previous \ {target})>>
  BY DEF TakeOverSteps
<1>3. {target, other} = {EnabledPath(k), DisabledPath(k)}
  BY DEF PathOf
<1>4. CASE s = k
  <2>1. KeptOn(p, k)
    BY <1>1, <1>4 DEF KeptOn, Matches, PemNames
  <2>2. target = EnabledPath(k) /\ other = DisabledPath(k)
    BY <2>1 DEF PathOf
  <2>3. target \in PemNames /\ other # target
    BY <1>0, <2>2, NamedFile
  <2>5. steps # <<>> /\ Head(steps) = Write(target, k)
    BY <1>2
  <2> DEFINE rest == <<Unlink(Matches(k) \ {target}), Unlink({other}), Unlink(previous \ {target})>>
  <2>6. Tail(steps) = rest
    BY <1>2
  <2>7. SparesAll(rest, target, k)
    BY <2>3 DEF SparesAll, Spares, Unlink
  <2>8. Head(steps).do = "write" /\ Head(steps).key = k /\ Head(steps).names = {target}
    BY <2>5 DEF Write
  <2> QED
    BY <1>4, <2>3, <2>5, <2>6, <2>7, <2>8, BeginArrives
<1>5. CASE s # k
  <2>1. s # p
    BY <1>5
  <2>2. n \notin {EnabledPath(k), DisabledPath(k), EnabledPath(p), DisabledPath(p)}
    BY <1>0, <1>1, <1>5, <2>1, NamedFile
  <2>3. n \notin Matches(k) /\ n \notin Matches(p)
    BY <1>1, <1>5, <2>1 DEF Matches
  <2>4. n # target /\ n # other /\ n \notin previous
    BY <1>3, <2>2, <2>3
  <2>5. SparesAll(steps, n, s)
    BY <1>2, <2>3, <2>4 DEF SparesAll, Spares, Write, Unlink
  <2> QED
    BY <1>1, <2>5, BeginStays
<1> QED
  BY <1>4, <1>5

\* A replacement by a new key takes the replaced one only.
LEMMA SlotSurvives ==
  ASSUME TrustAssumption, Genuine, ~Tangles(files), NEW p \in AllKeys, NEW k \in generated,
         NEW slot \in Matches(p), k \notin Listed,
         Begins(SlotSteps(p, k, slot)), NEW s \in TrustedNow, s # p
  PROVE  Survives(s)'
<1> DEFINE steps == SlotSteps(p, k, slot)
           target == PathOf(k, KeptOn(p, k))
           other == PathOf(k, ~KeptOn(p, k))
<1>0. k \in AllKeys
  BY DEF Genuine, SourceIsGenuine, AllKeys
<1>1. PICK n \in PemNames : files[n] = s /\ s # NoKey
  BY DEF TrustedNow, KeysOf
<1>2. s # k
  BY <1>1 DEF Listed, KeysOf, PemNames
<1>3. n # slot /\ n \notin Matches(p)
  BY <1>1 DEF Matches
<1>4. n # EnabledPath(k) /\ n # DisabledPath(k)
  BY <1>0, <1>1, <1>2, NamedFile
<1>5. n # target /\ n # other
  BY <1>4 DEF PathOf
<1>6. steps = <<Write(slot, k), Unlink(Matches(p) \ {slot}), Rename(slot, target), Unlink({other})>>
  BY DEF SlotSteps
<1>7. SparesAll(steps, n, s)
  BY <1>3, <1>5, <1>6 DEF SparesAll, Spares, Write, Unlink, Rename
<1> QED
  BY <1>1, <1>7, BeginStays

-------------------------------------------------------------------------------
\* What a file operation leaves of a file that it spares.
LEMMA SparedFile ==
  ASSUME Genuine, ChangesFile, NEW s, NEW n \in PemNames,
         files[n] = s, Spares(Head(changes), n, s)
  PROVE  files'[n] = s
<1> DEFINE step == Head(changes)
<1>1. files \in [Names -> generated \cup {NoKey}] /\ n \in Names
  BY DEF Genuine, DirectoryIsGenuine, PemNames
<1>2. step \in FileSteps
  BY TailKeeps DEF Genuine, ChangesFile
<1>3. CASE step.do = "write"
  BY <1>1, <1>3 DEF ChangesFile, Spares
<1>4. CASE step.do = "unlink"
  BY <1>1, <1>4 DEF ChangesFile, Spares
<1>5. CASE step.do = "rename"
  BY <1>1, <1>5 DEF ChangesFile, Spares
<1> QED
  BY <1>2, <1>3, <1>4, <1>5 DEF FileSteps

\* What is left to do after one step spares what all of it spared.
LEMMA RestSpares ==
  ASSUME Genuine, ChangesFile, NEW s, NEW n, SparesAll(Tail(changes), n, s),
         changes' = changes => SparesAll(changes, n, s)
  PROVE  SparesAll(changes, n, s)'
<1>1. changes' \in {changes, Tail(changes)}
  BY DEF ChangesFile
<1> QED
  BY <1>1 DEF SparesAll, Spares

\* Steps that spare a file: the first one and the rest.
LEMMA AllSpareRest ==
  ASSUME Genuine, changes # <<>>, NEW s, NEW n, SparesAll(changes, n, s)
  PROVE  Spares(Head(changes), n, s) /\ SparesAll(Tail(changes), n, s)
<1>1. changes \in Seq(FileSteps)
  BY DEF Genuine, DirectoryIsGenuine
<1>2. Len(changes) \in Nat /\ Len(changes) > 0 /\ Head(changes) = changes[1]
  BY <1>1
<1>3. Len(Tail(changes)) = Len(changes) - 1
  BY <1>1
<1>4. \A i \in 1..Len(Tail(changes)) : Tail(changes)[i] = changes[i + 1]
  BY <1>1, <1>2, <1>3
<1> QED
  BY <1>2, <1>3, <1>4 DEF SparesAll

\* A key that survives is in a file that stays once the step is done.
LEMMA SurvivesStep ==
  ASSUME Genuine, ChangesFile, NEW s, Survives(s)
  PROVE  Stays(s)'
<1>0. changes # <<>>
  BY DEF ChangesFile
<1>1. CASE Stays(s)
  <2>1. PICK n \in PemNames : files[n] = s /\ SparesAll(changes, n, s)
    BY <1>1 DEF Stays
  <2>2. Spares(Head(changes), n, s) /\ SparesAll(Tail(changes), n, s)
    BY <1>0, <2>1, AllSpareRest
  <2>3. files'[n] = s
    BY <2>1, <2>2, SparedFile
  <2>4. SparesAll(changes, n, s)'
    BY <2>1, <2>2, RestSpares
  <2> QED
    BY <2>3, <2>4 DEF Stays, PemNames, Names
<1>2. CASE Arrives(s)
  <2>1. PICK m \in PemNames : Head(changes).names = {m} /\ SparesAll(Tail(changes), m, s)
    BY <1>2 DEF Arrives
  <2>2. Head(changes).do = "write" /\ Head(changes).key = s
    BY <1>2 DEF Arrives, HeadWrites
  <2>3. files'[m] = s /\ changes' = Tail(changes)
    BY <2>1, <2>2 DEF ChangesFile, PemNames
  <2>4. changes # Tail(changes)
    BY <1>0 DEF Genuine, DirectoryIsGenuine
  <2>5. SparesAll(changes, m, s)'
    BY <2>1, <2>3, <2>4, RestSpares
  <2> QED
    BY <2>3, <2>5 DEF Stays, PemNames, Names
<1> QED
  BY <1>1, <1>2 DEF Survives

\* A key with a file that is spared is enabled after the step.
LEMMA StaysIsTrustedThen ==
  ASSUME NEW s, s # NoKey, Stays(s)'
  PROVE  s \in TrustedNow'
BY DEF Stays, TrustedNow, KeysOf, PemNames, Names

\* The steps that only change what SOURCE or the medium hold.
LEMMA RelianceElsewhere ==
  ASSUME Reliance, UNCHANGED <<files, changes, tangled, verdicts>>
  PROVE  Reliance'
BY DEF Reliance, VerdictsTyped, Unbound, ReliedSurvive, Relied, OnlyGentle, Survives, Stays,
       Arrives, HeadWrites, SparesAll, Spares, TrustedNow, KeysOf, Tangles, PemNames, Names

\* One file operation takes nobody the key it relies on.
LEMMA FileStepKeepsReliance ==
  ASSUME TrustAssumption, Genuine, Reliance, ChangesFile
  PROVE  Reliance'
<1>1. changes # <<>> /\ verdicts' = verdicts
  BY DEF ChangesFile
<1>2. VerdictsTyped'
  BY <1>1 DEF Reliance, VerdictsTyped, Unbound
<1>3. ASSUME ~tangled'
      PROVE  /\ ~tangled
             /\ changes' = <<>> => ~Tangles(files)'
  BY <1>3 DEF ChangesFile, Tangles, Names
<1>4. ASSUME ~tangled
      PROVE  ReliedSurvive'
  <2>1. SUFFICES ASSUME NEW s \in AllKeys, Relied(s)'
                 PROVE  s \in TrustedNow' /\ Survives(s)'
    BY DEF ReliedSurvive, AllKeys
  <2>2. Relied(s)
    BY <1>1, <2>1 DEF Relied
  <2>3. Stays(s)'
    BY <1>4, <2>2, SurvivesStep DEF Reliance, ReliedSurvive
  <2> QED
    BY <2>3, StaysIsTrustedThen DEF Survives, TrustAssumption
<1>5. ASSUME ~tangled
      PROVE  OnlyGentle'
  <2>1. SUFFICES ASSUME \E i \in Previews : Unbound(i)
                 PROVE  /\ \A j \in 1..Len(changes') :
                             /\ changes'[j].do # "rename"
                             /\ changes'[j].do = "write" => j = 1
                        /\ \A s \in AllKeys : (s \in TrustedNow' \/ HeadWrites(s)') => Survives(s)'
    BY <1>1 DEF OnlyGentle, Unbound, AllKeys
  <2>2. \A j \in 1..Len(changes) :
          changes[j].do # "rename" /\ (changes[j].do = "write" => j = 1)
    BY <1>5, <2>1 DEF Reliance, OnlyGentle
  <2>3. changes \in Seq(FileSteps) /\ Len(changes) \in Nat /\ Len(changes) > 0
        /\ Head(changes) = changes[1]
    BY <1>1 DEF Genuine, DirectoryIsGenuine
  <2>4. /\ Len(Tail(changes)) = Len(changes) - 1
        /\ \A j \in 1..Len(Tail(changes)) : Tail(changes)[j] = changes[j + 1]
    BY <2>3
  <2>5. \A j \in 1..Len(Tail(changes)) :
          Tail(changes)[j].do # "rename" /\ Tail(changes)[j].do # "write"
    BY <2>2, <2>3, <2>4
  <2>6. \/ changes' = Tail(changes)
        \/ changes' = changes /\ Head(changes).do = "unlink"
    BY DEF ChangesFile
  <2>7. \A s : ~HeadWrites(s)'
    <3>1. CASE changes' = Tail(changes)
      <4>1. Tail(changes) # <<>> => Head(Tail(changes)) = Tail(changes)[1] /\ Len(Tail(changes)) >= 1
        BY <2>3
      <4> QED
        BY <2>5, <3>1, <4>1 DEF HeadWrites
    <3>2. CASE changes' = changes /\ Head(changes).do = "unlink"
      BY <3>2 DEF HeadWrites
    <3> QED
      BY <2>6, <3>1, <3>2
  <2>8. ASSUME NEW s \in AllKeys, s \in TrustedNow'
        PROVE  Survives(s)'
    <3>1. PICK n \in PemNames : files'[n] = s
      BY <2>8 DEF TrustedNow, KeysOf, PemNames, Names
    <3>2. s # NoKey /\ n \in Names
      BY <3>1 DEF TrustAssumption, PemNames
    <3>3. Head(changes) \in FileSteps /\ Head(changes).do # "rename"
      BY <1>1, <2>2, <2>3, TailKeeps DEF Genuine
    <3>4. s \in TrustedNow \/ HeadWrites(s)
      <4>1. CASE Head(changes).do = "write"
        <5>1. files[n] = s \/ HeadWrites(s)
          BY <1>1, <3>1, <3>2, <4>1 DEF ChangesFile, HeadWrites
        <5> QED
          BY <3>2, <5>1 DEF TrustedNow, KeysOf
      <4>2. CASE Head(changes).do = "unlink"
        <5>1. files[n] = s
          BY <3>1, <3>2, <4>2 DEF ChangesFile, Genuine, DirectoryIsGenuine
        <5> QED
          BY <3>2, <5>1 DEF TrustedNow, KeysOf
      <4> QED
        BY <3>3, <4>1, <4>2 DEF FileSteps
    <3> QED
      BY <1>5, <2>1, <3>4, SurvivesStep DEF Reliance, OnlyGentle, Survives
  <2> QED
    BY <2>2, <2>3, <2>4, <2>5, <2>6, <2>7, <2>8
<1> QED
  BY <1>2, <1>3, <1>4, <1>5 DEF Reliance

\* A request that begins: nobody's key goes, and next to an unbound import no key at all.
LEMMA BeginKeepsReliance ==
  ASSUME Reliance, NEW steps, steps # <<>>, Begins(steps),
         ~tangled => \A s \in AllKeys : Relied(s) => Survives(s)',
         ~tangled /\ (\E i \in Previews : Unbound(i)) =>
           /\ \A j \in 1..Len(steps) :
                steps[j].do # "rename" /\ (steps[j].do = "write" => j = 1)
           /\ \A s \in AllKeys : s \in TrustedNow \/ HeadWrites(s)' => Survives(s)'
  PROVE  Reliance'
<1>1. changes' = steps /\ UNCHANGED <<files, tangled, verdicts>>
  BY DEF Begins
<1>2. VerdictsTyped'
  BY <1>1 DEF Reliance, VerdictsTyped, Unbound
<1>3. TrustedNow' = TrustedNow
  BY <1>1 DEF TrustedNow, KeysOf
<1>4. ~tangled => ReliedSurvive'
  BY <1>1, <1>3 DEF Reliance, ReliedSurvive, Relied, AllKeys
<1>5. ~tangled => OnlyGentle'
  BY <1>1, <1>3 DEF OnlyGentle, Unbound, AllKeys
<1> QED
  BY <1>1, <1>2, <1>4, <1>5 DEF Reliance

\* An import whose signer is not known blocks every retirement, and a prepared one that
\* of its signer.
LEMMA RetiredIsNotRelied ==
  ASSUME Reliance, NEW k \in AllKeys, Retirable(k)
  PROVE  (\A i \in Previews : ~Unbound(i)) /\ ~Relied(k)
BY DEF Reliance, VerdictsTyped, Retirable, Unfinished, Unbound, Relied

\* Adding or enabling a key.
LEMMA AddKeepsReliance ==
  ASSUME TrustAssumption, Genuine, Reliance, NoRequest, NEW k \in generated,
         Begins(AddSteps(k))
  PROVE  Reliance'
<1> DEFINE steps == AddSteps(k)
<1>1. steps # <<>> /\ changes' = steps
  BY DEF AddSteps, Begins
<1>2. ~tangled => ~Tangles(files)
  BY DEF Reliance, NoRequest
<1>3. \A j \in 1..Len(steps) : steps[j].do # "rename" /\ (steps[j].do = "write" => j = 1)
  BY DEF AddSteps, Write, Unlink
<1>4. ASSUME NEW s \in AllKeys, HeadWrites(s)'
      PROVE  s = k
  <2>1. Head(steps) = Write(EnabledPath(k), k)
    BY DEF AddSteps
  <2> QED
    BY <1>1, <1>4, <2>1 DEF HeadWrites, Write
<1>5. ~tangled => \A s \in AllKeys : s \in TrustedNow \/ s = k => Survives(s)'
  BY <1>2, AddSurvives
<1>6. ~tangled => \A s \in AllKeys : Relied(s) => s \in TrustedNow
  BY DEF Reliance, ReliedSurvive
<1> QED
  BY <1>1, <1>3, <1>4, <1>5, <1>6, BeginKeepsReliance

\* Disabling or removing a key that may be retired.
LEMMA RetirementKeepsReliance ==
  ASSUME TrustAssumption, Genuine, Reliance, NoRequest, NEW k \in AllKeys, Retirable(k),
         Begins(DisableSteps(k)) \/ Begins(RemoveSteps(k))
  PROVE  Reliance'
<1>1. DisableSteps(k) # <<>> /\ RemoveSteps(k) # <<>>
  BY DEF DisableSteps, RemoveSteps
<1>2. (\A i \in Previews : ~Unbound(i)) /\ ~Relied(k)
  BY RetiredIsNotRelied
<1>3. ~tangled => \A s \in AllKeys : Relied(s) => Survives(s)'
  <2>1. SUFFICES ASSUME ~tangled, NEW s \in AllKeys, Relied(s)
                 PROVE  Survives(s)'
    OBVIOUS
  <2>2. ~Tangles(files) /\ s \in TrustedNow /\ s # k
    BY <1>2, <2>1 DEF Reliance, ReliedSurvive, NoRequest
  <2> QED
    BY <2>2, DisableSurvives
<1> QED
  BY <1>1, <1>2, <1>3, BeginKeepsReliance

\* Replacing a key that may be retired.
LEMMA ReplacementKeepsReliance ==
  ASSUME TrustAssumption, Genuine, Reliance, NEW p \in AllKeys, NEW k \in AllKeys,
         ReplacesTrustedKey(p, k)
  PROVE  Reliance'
<1>1. NoRequest /\ k \in generated /\ p \in Listed /\ (p # k => Retirable(p))
  BY DEF ReplacesTrustedKey
<1>2. ~tangled => ~Tangles(files)
  BY <1>1 DEF Reliance, NoRequest
<1>3. ASSUME NEW s \in AllKeys, Relied(s), ~tangled
      PROVE  s \in TrustedNow /\ (s = p => p = k)
  BY <1>1, <1>3, RetiredIsNotRelied DEF Reliance, ReliedSurvive
<1>4. CASE Begins(TakeOverSteps(p, k))
  <2> DEFINE steps == TakeOverSteps(p, k)
             target == PathOf(k, KeptOn(p, k))
  <2>1. steps # <<>> /\ changes' = steps /\ Head(steps) = Write(target, k)
    BY <1>4 DEF TakeOverSteps, Begins
  <2>2. \A j \in 1..Len(steps) : steps[j].do # "rename" /\ (steps[j].do = "write" => j = 1)
    BY DEF TakeOverSteps, Write, Unlink
  <2>3. ~tangled => \A s \in AllKeys : Relied(s) => Survives(s)'
    BY <1>1, <1>2, <1>3, <1>4, TakeOverSurvives
  <2>4. (\E i \in Previews : Unbound(i)) => p = k
    BY <1>1, RetiredIsNotRelied
  <2>5. ASSUME NEW s \in AllKeys, p = k, HeadWrites(s)'
        PROVE  s \in TrustedNow
    <3>1. s = k /\ target \in PemNames
      BY <2>1, <2>5 DEF HeadWrites, Write, PemNames, Names
    <3>2. KeptOn(p, k)
      BY <3>1 DEF PathOf, DisabledPath, PemNames
    <3> QED
      BY <1>1, <2>5, <3>1, <3>2, ListedIsGenuine
         DEF KeptOn, Matches, TrustedNow, KeysOf, PemNames, TrustAssumption
  <2>6. ~tangled /\ p = k => \A s \in AllKeys : s \in TrustedNow \/ HeadWrites(s)' => Survives(s)'
    BY <1>1, <1>2, <1>4, <2>5, TakeOverSurvives
  <2> QED
    BY <1>4, <2>1, <2>2, <2>3, <2>4, <2>6, BeginKeepsReliance
<1>5. CASE \E slot \in Matches(p) : p # k /\ k \notin Listed /\ Begins(SlotSteps(p, k, slot))
  <2>1. PICK slot \in Matches(p) : Begins(SlotSteps(p, k, slot))
    BY <1>5
  <2>2. SlotSteps(p, k, slot) # <<>>
    BY DEF SlotSteps
  <2>3. \A i \in Previews : ~Unbound(i)
    BY <1>1, <1>5, RetiredIsNotRelied
  <2>4. ~tangled => \A s \in AllKeys : Relied(s) => Survives(s)'
    BY <1>1, <1>2, <1>3, <1>5, <2>1, SlotSurvives
  <2> QED
    BY <2>1, <2>2, <2>3, <2>4, BeginKeepsReliance
<1> QED
  BY <1>4, <1>5 DEF ReplacesTrustedKey

\* The requests about the directory.
LEMMA RequestKeepsReliance ==
  ASSUME TrustAssumption, Genuine, Reliance, NEW k \in AllKeys,
         \/ AddsTrustedKey(k) \/ EnablesTrustedKey(k) \/ DisablesTrustedKey(k)
         \/ RemovesTrustedKey(k) \/ ImportsPackage(k)
         \/ \E p \in AllKeys : ReplacesTrustedKey(p, k)
  PROVE  Reliance'
<1>1. Listed \subseteq generated
  BY ListedIsGenuine DEF Genuine
<1>2. CASE AddsTrustedKey(k) \/ EnablesTrustedKey(k)
  BY <1>1, <1>2, AddKeepsReliance DEF AddsTrustedKey, EnablesTrustedKey
<1>3. CASE DisablesTrustedKey(k) \/ RemovesTrustedKey(k)
  BY <1>3, RetirementKeepsReliance DEF DisablesTrustedKey, RemovesTrustedKey
<1>4. CASE ImportsPackage(k)
  BY <1>4, AdmittedIsGenuine, AddKeepsReliance DEF ImportsPackage
<1> QED
  BY <1>2, <1>3, <1>4, ReplacementKeepsReliance

-------------------------------------------------------------------------------
\* A restart forgets the request and every verification.
LEMMA RestartKeepsReliance ==
  ASSUME Genuine, Reliance, TargetRestarts
  PROVE  Reliance'
<1>1. changes' = <<>> /\ files' = files /\ tangled' = (tangled \/ Tangles(files))
  BY DEF TargetRestarts
<1>2. /\ DOMAIN verdicts' = Previews
      /\ \A i \in Previews :
           verdicts'[i] = IF Unbound(i) THEN [NewImport EXCEPT !.at = "ended"] ELSE verdicts[i]
  BY DEF TargetRestarts, Unbound
<1>3. VerdictsTyped' /\ \A i \in Previews : ~Unbound(i)'
  BY <1>2 DEF Reliance, VerdictsTyped, Unbound, NewImport, KeyOrNone
<1>4. ASSUME NEW s \in AllKeys, Relied(s)'
      PROVE  Relied(s)
  BY <1>2, <1>4 DEF Relied, Unbound, NewImport
<1>5. ASSUME NEW s \in AllKeys, s \in TrustedNow
      PROVE  s \in TrustedNow' /\ Survives(s)'
  <2>1. PICK n \in PemNames : files[n] = s /\ s # NoKey
    BY <1>5 DEF TrustedNow, KeysOf
  <2>2. SparesAll(changes, n, s)'
    BY <1>1 DEF SparesAll, Spares
  <2>3. Stays(s)'
    BY <1>1, <2>1, <2>2 DEF Stays, PemNames, Names
  <2> QED
    BY <2>1, <2>3, StaysIsTrustedThen DEF Survives
<1>6. ~tangled => ReliedSurvive'
  BY <1>4, <1>5 DEF Reliance, ReliedSurvive, AllKeys
<1>7. ~tangled' => ~Tangles(files)'
  BY <1>1 DEF Tangles, Names
<1> QED
  BY <1>1, <1>3, <1>6, <1>7 DEF Reliance, OnlyGentle

\* Nothing is left to do, or only what takes no key away: an enabled key survives.
LEMMA QuietSurvives ==
  ASSUME NEW s, s \in TrustedNow, changes = <<>>
  PROVE  Survives(s)
BY DEF TrustedNow, KeysOf, Survives, Stays, SparesAll

\* A step of an import: what it relies on from now on is enabled and survives, and its
\* signer is not open next to a request unless it was before.
LEMMA ImportKeepsReliance ==
  ASSUME Reliance, OnlyImports, NEW i \in Previews, NEW r, VerdictOf(i, r),
         r \in [at : {"none", "created", "listed", "verified", "ready", "ended"},
                signer : KeyOrNone, listed : SUBSET PemNames, found : KeyOrNone],
         r.at \in {"created", "listed", "verified"} => r.signer = NoKey,
         r.at = "ready" => r.signer # NoKey,
         r.at = "verified" => r.found # NoKey,
         ~tangled => \A s \in AllKeys :
           (r.at = "ready" /\ r.signer = s) \/ (r.at = "verified" /\ r.found = s)
             => s \in TrustedNow /\ Survives(s),
         r.at \in {"created", "listed", "verified"} => Unbound(i) \/ changes = <<>>
  PROVE  Reliance'
<1>1. UNCHANGED <<files, changes, tangled>>
  BY DEF OnlyImports
<1>2. /\ DOMAIN verdicts' = Previews
      /\ \A j \in Previews : verdicts'[j] = IF j = i THEN r ELSE verdicts[j]
  BY DEF VerdictOf, Reliance, VerdictsTyped
<1>3. VerdictsTyped'
  BY <1>2 DEF Reliance, VerdictsTyped, Unbound, KeyOrNone, AllKeys, PemNames, Names
<1>4. TrustedNow' = TrustedNow /\ \A s : /\ Survives(s)' <=> Survives(s)
                                         /\ HeadWrites(s)' <=> HeadWrites(s)
  BY <1>1 DEF TrustedNow, KeysOf, Survives, Stays, Arrives, HeadWrites, SparesAll, Spares,
              PemNames, Names
<1>5. ~tangled => ReliedSurvive'
  <2>1. SUFFICES ASSUME ~tangled, NEW s \in AllKeys, Relied(s)'
                 PROVE  s \in TrustedNow /\ Survives(s)
    BY <1>4 DEF ReliedSurvive, AllKeys
  <2>2. PICK j \in Previews : \/ verdicts'[j].at = "ready" /\ verdicts'[j].signer = s
                              \/ verdicts'[j].at = "verified" /\ verdicts'[j].found = s
    BY <2>1 DEF Relied
  <2>3. CASE j = i
    BY <1>2, <2>1, <2>2, <2>3
  <2>4. CASE j # i
    BY <1>2, <2>1, <2>2, <2>4 DEF Reliance, ReliedSurvive, Relied
  <2> QED
    BY <2>3, <2>4
<1>6. ~tangled => OnlyGentle'
  <2>1. SUFFICES ASSUME ~tangled, NEW j \in Previews, Unbound(j)'
                 PROVE  /\ \A m \in 1..Len(changes) :
                             /\ changes[m].do # "rename"
                             /\ changes[m].do = "write" => m = 1
                        /\ \A s \in AllKeys : s \in TrustedNow \/ HeadWrites(s) => Survives(s)
    BY <1>1, <1>4 DEF OnlyGentle, AllKeys
  <2>2. CASE \E m \in Previews : Unbound(m)
    BY <2>1, <2>2 DEF Reliance, OnlyGentle
  <2>3. CASE ~\E m \in Previews : Unbound(m)
    <3>1. j = i /\ changes = <<>>
      BY <1>2, <2>1, <2>3 DEF Unbound
    <3> QED
      BY <3>1, QuietSurvives DEF HeadWrites
  <2> QED
    BY <2>2, <2>3
<1> QED
  BY <1>1, <1>3, <1>5, <1>6 DEF Reliance, Tangles, Names

\* The steps of an import.
LEMMA ImportStepKeepsReliance ==
  ASSUME TrustAssumption, Genuine, Reliance, NEW i \in Previews,
         \/ CreatesImport(i) \/ ListsTrust(i) \/ BindsSigner(i) \/ ImportEnds(i)
         \/ \E k \in AllKeys : ReadsTrust(i, k)
  PROVE  Reliance'
<1> USE DEF NewImport, KeyOrNone, Unbound
<1>0. VerdictsTyped
  BY DEF Reliance
<1>1. CASE CreatesImport(i)
  BY <1>1, ImportKeepsReliance DEF CreatesImport, NoRequest
<1>2. CASE ListsTrust(i)
  <2> DEFINE r == [NewImport EXCEPT !.at = "listed",
                                    !.listed = {n \in PemNames : files[n] # NoKey}]
  <2>1. r \in [at : {"none", "created", "listed", "verified", "ready", "ended"},
               signer : KeyOrNone, listed : SUBSET PemNames, found : KeyOrNone]
        /\ r.at = "listed" /\ r.signer = NoKey
    OBVIOUS
  <2>2. VerdictOf(i, r) /\ OnlyImports /\ Unbound(i)
    BY <1>2 DEF ListsTrust
  <2> HIDE DEF r
  <2> QED
    BY <2>1, <2>2, ImportKeepsReliance
<1>3. ASSUME NEW k \in AllKeys, ReadsTrust(i, k)
      PROVE  Reliance'
  <2> DEFINE r == [NewImport EXCEPT !.at = "verified", !.found = k]
  <2>1. r \in [at : {"none", "created", "listed", "verified", "ready", "ended"},
               signer : KeyOrNone, listed : SUBSET PemNames, found : KeyOrNone]
        /\ r.at = "verified" /\ r.signer = NoKey /\ r.found = k
    OBVIOUS
  <2>2. VerdictOf(i, r) /\ OnlyImports /\ Unbound(i)
    BY <1>3 DEF ReadsTrust
  <2>3. k # NoKey
    BY DEF TrustAssumption
  <2>4. k \in TrustedNow
    <3>1. verdicts[i].listed \subseteq PemNames
      BY <1>0 DEF VerdictsTyped
    <3> QED
      BY <1>3, <2>3, <3>1 DEF ReadsTrust, TrustedNow, KeysOf
  <2>5. ~tangled => Survives(k)
    BY <2>2, <2>4 DEF Reliance, OnlyGentle
  <2> HIDE DEF r
  <2> QED
    BY <2>1, <2>2, <2>3, <2>4, <2>5, ImportKeepsReliance
<1>4. CASE BindsSigner(i)
  <2> DEFINE r == [NewImport EXCEPT !.at = "ready", !.signer = verdicts[i].found]
  <2>1. verdicts[i].found \in AllKeys /\ verdicts[i].found # NoKey
    BY <1>0, <1>4 DEF VerdictsTyped, BindsSigner
  <2>2. r \in [at : {"none", "created", "listed", "verified", "ready", "ended"},
               signer : KeyOrNone, listed : SUBSET PemNames, found : KeyOrNone]
        /\ r.at = "ready" /\ r.signer = verdicts[i].found
    BY <2>1
  <2>3. VerdictOf(i, r) /\ OnlyImports /\ Relied(verdicts[i].found)
    BY <1>4 DEF BindsSigner, Relied
  <2>4. ~tangled => verdicts[i].found \in TrustedNow /\ Survives(verdicts[i].found)
    BY <2>1, <2>3 DEF Reliance, ReliedSurvive
  <2> HIDE DEF r
  <2> QED
    BY <2>1, <2>2, <2>3, <2>4, ImportKeepsReliance
<1>5. CASE ImportEnds(i)
  <2> DEFINE r == [NewImport EXCEPT !.at = "ended"]
  <2>1. r \in [at : {"none", "created", "listed", "verified", "ready", "ended"},
               signer : KeyOrNone, listed : SUBSET PemNames, found : KeyOrNone]
        /\ r.at = "ended"
    OBVIOUS
  <2>2. VerdictOf(i, r) /\ OnlyImports
    BY <1>5 DEF ImportEnds
  <2> HIDE DEF r
  <2> QED
    BY <2>1, <2>2, ImportKeepsReliance
<1> QED
  BY <1>1, <1>2, <1>3, <1>4, <1>5

-------------------------------------------------------------------------------
\* TARGET starts with one key, in a file that has no name of a key, and no imports.
LEMMA RelianceInit == TrustAssumption /\ TrustInit => Reliance
<1> SUFFICES ASSUME TrustAssumption, TrustInit
             PROVE  Reliance
  OBVIOUS
<1>1. VerdictsTyped /\ \A i \in Previews : ~Unbound(i) /\ verdicts[i].at = "none"
  BY DEF TrustInit, VerdictsTyped, Unbound, NewImport, KeyOrNone
<1>2. ~Tangles(files)
  <2>1. \A n \in Names : n[1] # ByHand => n # EnabledPath(ByHand)
    BY DEF EnabledPath
  <2>2. \A n \in Names : n[1] # ByHand => files[n] = NoKey
    BY <2>1 DEF TrustInit
  <2> QED
    BY <2>2 DEF Tangles
<1> QED
  BY <1>1, <1>2 DEF Reliance, ReliedSurvive, Relied, OnlyGentle

\* Every step keeps what the prepared imports rely on.
LEMMA RelianceStep ==
  ASSUME TrustAssumption, Genuine, Reliance, [TrustNext]_trustVars
  PROVE  Reliance'
<1>1. CASE \/ \E k \in OwnKeys : \/ GeneratesSigningKey(k) \/ InstallsSigningKey(k)
                                 \/ PreparesPending(k) \/ ActivatesPending(k)
                                 \/ CancelsPending(k)
           \/ ExportsPackage \/ ExportsPendingPackage \/ StrangePackage
           \/ UNCHANGED trustVars
  <2>1. UNCHANGED <<files, changes, tangled, verdicts>>
    BY <1>1 DEF GeneratesSigningKey, InstallsSigningKey, PreparesPending, ActivatesPending,
                CancelsPending, OnlySource, ExportsPackage, ExportsPendingPackage,
                StrangePackage, trustVars
  <2> QED
    BY <2>1, RelianceElsewhere
<1>2. CASE ChangesFile
  BY <1>2, FileStepKeepsReliance
<1>3. CASE TargetRestarts
  BY <1>3, RestartKeepsReliance
<1> QED
  BY <1>1, <1>2, <1>3, RequestKeepsReliance, ImportStepKeepsReliance DEF TrustNext

\* The signer of a prepared import stays enabled whatever requests, verifications and
\* restarts do (trusted_key_retirement.py, key_management.py), unless a key has been
\* left under the name of another.
THEOREM SignerHolds == TrustSpec => []PreparedIsTrusted
<1>1. Reliance => PreparedIsTrusted
  <2>1. SUFFICES ASSUME Reliance, ~tangled, NEW i \in Previews, verdicts[i].at = "ready"
                 PROVE  verdicts[i].signer \in TrustedNow
    BY DEF PreparedIsTrusted
  <2>2. verdicts[i].signer \in AllKeys
    BY <2>1 DEF Reliance, VerdictsTyped, KeyOrNone
  <2> QED
    BY <2>1, <2>2 DEF Reliance, ReliedSurvive, Relied
<1>2. TrustInit => Genuine /\ Reliance
  BY TrustAssumption, GenuineInit, RelianceInit
<1>3. Genuine /\ Reliance /\ [TrustNext]_trustVars => Genuine' /\ Reliance'
  BY TrustAssumption, GenuineStep, RelianceStep
<1> QED
  BY <1>1, <1>2, <1>3, PTL DEF TrustSpec
=================================================================================
