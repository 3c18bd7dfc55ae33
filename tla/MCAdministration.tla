--------------------------- MODULE MCAdministration ---------------------------
(***************************************************************************)
(* Small instances of the modules an administrator works on: keys,         *)
(* profiles, transfer policies, accounts, and the mode with the retries    *)
(* its switch has to meet.  They are checked in one run: a behaviour is a  *)
(* behaviour of one of them, which `component' names, and leaves the       *)
(* variables of the others as they start.                                  *)
(***************************************************************************)
EXTENDS KeyTrust, HarborProfiles, ImportRetry, TransferPolicy, Accounts, TLC

CONSTANTS k1, k2, i1,                 \* KeyTrust
          o1, l1,                     \* HarborProfiles
          m1, m2,                     \* ImportRetry
          p1, p2,                     \* profiles; the handlers of policies and logins
          a, b                        \* addresses of profiles; accounts

VARIABLE component

MCOwnKeys == {k1, k2}
MCPreviews == {i1}

MCProfileIds == {p1, p2}
MCAddresses == {a, b}
MCBindables == {o1, l1}
MCLegacyBound == {l1}

MCOps == {m1, m2}
MCNoArtifact == {}

MCPatchers == {p1, p2}
MCPatches == {"upload" :> 2, "archive" :> 1, "container" :> 1 @@ "projects" :> 1}
MCEnvironments == {"upload" :> 1 @@ "archive" :> 2 @@ "extracted" :> 2}

MCStrict == [s \in {a, b, ClientAddress} |-> IF s = ClientAddress THEN 2 ELSE 1]

MCSymmetry == Permutations(MCProfileIds) \cup Permutations(MCAddresses)

AdministrationInit ==
  /\ component \in {"keys", "profiles", "retries", "policies", "accounts"}
  /\ TrustInit /\ ProfilesInit /\ RetryInit /\ PolicyInit /\ AccountsInit
  /\ component # "retries" => Init /\ mode = "SOURCE"

AdministrationNext ==
  /\ component' = component
  /\ \/ component = "keys" /\ TrustNext
        /\ UNCHANGED <<profileVars, everything, policyVars, accountVars>>
     \/ component = "profiles" /\ ProfilesNext
        /\ UNCHANGED <<trustVars, everything, policyVars, accountVars>>
     \/ component = "retries" /\ RetryNext
        /\ UNCHANGED <<trustVars, profileVars, policyVars, accountVars>>
     \/ component = "policies" /\ PolicyNext
        /\ UNCHANGED <<trustVars, profileVars, everything, accountVars>>
     \/ component = "accounts" /\ AccountsNext
        /\ UNCHANGED <<trustVars, profileVars, everything, policyVars>>

administrationVars ==
  <<component, trustVars, profileVars, everything, policyVars, accountVars>>

AdministrationSpec == AdministrationInit /\ [][AdministrationNext]_administrationVars

===============================================================================
