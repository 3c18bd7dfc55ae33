--------------------------- MODULE TransferPolicy ---------------------------
(***************************************************************************)
(* The policies an administrator keeps in the database                     *)
(* (services/transfer_policy, services/destination_mapping_policy,         *)
(* api/transfer_settings): limits, copied into the shared Settings, and    *)
(* mapping defaults with a revision, which every destination plan reads.   *)
(*                                                                         *)
(* The handlers of PATCH run in threads.  Every key is a row of its own    *)
(* and every read of a row a transaction of its own: SQLite serialises     *)
(* only from the first write of a handler to its commit.                   *)
(***************************************************************************)
EXTENDS Integers, Sequences, FiniteSets, Functions

CONSTANTS
  Patchers,     \* handlers of PATCH
  Patches,      \* what they are asked to set: field to value
  Environments, \* Settings as the environment gives them
  MaxRevision   \* bound: changes of the mapping defaults

\* POLICY_FIELDS, in the order in which they are read: import_max_upload_bytes,
\* bundle_max_archive_bytes, bundle_max_extracted_bytes.  The others are stored and
\* read alike and have no relation to another field; operation_max_concurrent is
\* applied by the next start only.
LimitFields == <<"upload", "archive", "extracted">>
Limits == Range(LimitFields)

\* A default project and the table of projects.
Mappings == {"container", "projects"}

Unset == 0   \* no row of the limit, no default project

ASSUME PolicyAssumption ==
  /\ Environments # {} /\ Environments \subseteq [Limits -> Nat \ {Unset}]
  /\ \A p \in Patches :
       /\ DOMAIN p \subseteq Limits \cup Mappings
       /\ \A f \in DOMAIN p : p[f] \in Nat /\ (f \in Limits => p[f] # Unset)
  /\ MaxRevision \in Nat

VARIABLES
  service,   \* is the portal up
  settings,  \* the limits in the shared Settings
  table,     \* SettingMetadata: the committed limits, mapping defaults and revision
  patchers,  \* the handlers of PATCH
  planner,   \* the planner that resolves a request: what it has read so far
  collided   \* history: a mapping was committed with a revision already given

policyVars == <<service, settings, table, patchers, planner, collided>>

Nothing == << >>
IdlePatcher == [at |-> "idle", patch |-> Nothing, seen |-> Nothing, mapping |-> Nothing]

PolicyInit ==
  /\ service = "down"
  /\ settings \in Environments
  /\ table = [f \in Limits \cup Mappings \cup {"revision"} |-> Unset]
  /\ patchers = [h \in Patchers |-> IdlePatcher]
  /\ planner = Nothing
  /\ collided = FALSE

-------------------------------------------------------------------------------
\* _configured_values, of some state of the rows: Settings where there is no row.
Configured(rowsOf) ==
  [f \in Limits |-> IF rowsOf[f] = Unset THEN settings[f] ELSE rowsOf[f]]

\* _validate
Valid(limits) ==
  limits["upload"] <= limits["archive"] /\ limits["archive"] <= limits["extracted"]

\* The next key of a sequence of reads.
NextOf(keys, seen) == keys[Cardinality(DOMAIN seen) + 1]
ReadAll(keys, seen) == Cardinality(DOMAIN seen) = Len(keys)
Seeing(seen, key, value) == [k \in DOMAIN seen \cup {key} |-> IF k = key THEN value ELSE seen[k]]

\* Wrong: the revision is read after the defaults.
RevisionLast == <<"container", "projects", "revision">>

\* DestinationMappingPolicyService.resolve
MappingKeys == <<"revision", "container", "projects">>

\* apply_persisted_at_startup: an inconsistent policy keeps the portal down.
PortalStarts(environment) ==
  /\ service = "down"
  /\ LET limits == [f \in Limits |-> IF table[f] = Unset THEN environment[f] ELSE table[f]]
     IN  Valid(limits) /\ settings' = limits
  /\ service' = "up"
  /\ UNCHANGED <<table, patchers, planner, collided>>

\* An uncommitted transaction is rolled back.
PortalStops ==
  /\ service = "up"
  /\ service' = "down"
  /\ patchers' = [h \in Patchers |-> IdlePatcher]
  /\ planner' = Nothing
  /\ UNCHANGED <<settings, table, collided>>

-------------------------------------------------------------------------------
(***************************************************************************)
(* PATCH /api/settings/transfer                                            *)
(***************************************************************************)
Patcher(h, step) == patchers' = [patchers EXCEPT ![h] = step]
OfPolicy(patch) == {f \in DOMAIN patch : f \in Limits}

\* The limits that differ from what was read.
Changed(h) == {f \in OfPolicy(patchers[h].patch) : patchers[h].patch[f] # patchers[h].seen[f]}
ChangedMapping(h) ==
  {f \in DOMAIN patchers[h].patch \cap Mappings :
     patchers[h].patch[f] # patchers[h].mapping[f]}

\* The rows as the transaction of the handler sees them.
Written(h, fields) ==
  [f \in DOMAIN table |-> IF f \in fields THEN patchers[h].patch[f] ELSE table[f]]

\* Between its first write and its commit a handler excludes every other writer.
Holds(h) == patchers[h].at = "mapping" /\ Changed(h) # {}
WriterFree(h) == \A g \in Patchers \ {h} : ~Holds(g)

PatchBegins(h, patch) ==
  /\ service = "up" /\ patchers[h].at = "idle"
  /\ Patcher(h, [IdlePatcher EXCEPT !.at = "reading", !.patch = patch])
  /\ UNCHANGED <<service, settings, table, planner, collided>>

ReadsLimit(h) ==
  /\ patchers[h].at = "reading" /\ ~ReadAll(LimitFields, patchers[h].seen)
  /\ LET f == NextOf(LimitFields, patchers[h].seen)
     IN  patchers' = [patchers EXCEPT ![h].seen = Seeing(@, f, Configured(table)[f])]
  /\ UNCHANGED <<service, settings, table, planner, collided>>

\* Wrong: the limits read before the lock are all that is validated.
ValidatedBefore(h) == TRUE

\* update ends with resolve: it reads every limit again, now behind its own writes.
ValidatedAgain(h) == Changed(h) # {} => Valid(Configured(Written(h, Changed(h))))

\* update: what was read is valid, and so is it with the changes.
WritesLimits(h) ==
  /\ patchers[h].at = "reading" /\ ReadAll(LimitFields, patchers[h].seen)
  /\ Valid(patchers[h].seen)
  /\ Valid([f \in Limits |-> IF f \in Changed(h) THEN patchers[h].patch[f]
                             ELSE patchers[h].seen[f]])
  /\ Changed(h) # {} => WriterFree(h)
  /\ ValidatedAgain(h)
  /\ patchers' = [patchers EXCEPT ![h].at = "mapping"]
  /\ UNCHANGED <<service, settings, table, planner, collided>>

\* The mapping defaults are read for every patch; one that leaves them alone makes no
\* use of what it reads.
MappingRead(h) ==
  DOMAIN patchers[h].patch \cap Mappings # {} => ReadAll(MappingKeys, patchers[h].mapping)

ReadsMapping(h) ==
  /\ patchers[h].at = "mapping" /\ ~MappingRead(h)
  /\ LET key == NextOf(MappingKeys, patchers[h].mapping)
     IN  patchers' = [patchers EXCEPT ![h].mapping = Seeing(@, key, table[key])]
  /\ UNCHANGED <<service, settings, table, planner, collided>>

\* The update of the mapping, which writes the revision it has read plus one, and the
\* commit of both.
Commits(h) ==
  /\ patchers[h].at = "mapping" /\ MappingRead(h)
  /\ Changed(h) \cup ChangedMapping(h) # {} => WriterFree(h)
  /\ LET both == Written(h, Changed(h) \cup ChangedMapping(h))
         revision == patchers[h].mapping["revision"] + 1
     IN  IF ChangedMapping(h) = {}
         THEN table' = both /\ UNCHANGED collided
         ELSE /\ revision <= MaxRevision
              /\ table' = [both EXCEPT !["revision"] = revision]
              /\ collided' = (collided \/ table["revision"] >= revision)
  /\ patchers' = [patchers EXCEPT ![h].at = "committed"]
  /\ UNCHANGED <<service, settings, planner>>

\* apply_runtime, after the commit and outside of any lock.
Applies(h) ==
  /\ patchers[h].at = "committed"
  /\ settings' = [f \in Limits |->
                  IF f \in Changed(h) THEN patchers[h].patch[f] ELSE settings[f]]
  /\ Patcher(h, IdlePatcher)
  /\ UNCHANGED <<service, table, planner, collided>>

\* A refusal, a key that another handler has inserted first, a busy database.
PatchFails(h) ==
  /\ patchers[h].at \in {"reading", "mapping"}
  /\ Patcher(h, IdlePatcher)
  /\ UNCHANGED <<service, settings, table, planner, collided>>

-------------------------------------------------------------------------------
(***************************************************************************)
(* resolve_request, for a new destination plan                             *)
(***************************************************************************)
PlannerReads ==
  /\ service = "up" /\ ~ReadAll(MappingKeys, planner)
  /\ LET key == NextOf(MappingKeys, planner)
     IN  planner' = Seeing(planner, key, table[key])
  /\ UNCHANGED <<service, settings, table, patchers, collided>>

\* The plan is built anew.
PlansAgain ==
  /\ ReadAll(MappingKeys, planner)
  /\ planner' = Nothing
  /\ UNCHANGED <<service, settings, table, patchers, collided>>

PolicyNext ==
  \/ \E environment \in Environments : PortalStarts(environment)
  \/ PortalStops
  \/ \E h \in Patchers :
       \/ \E patch \in Patches : PatchBegins(h, patch)
       \/ ReadsLimit(h) \/ WritesLimits(h) \/ ReadsMapping(h)
       \/ Commits(h) \/ Applies(h) \/ PatchFails(h)
  \/ PlannerReads \/ PlansAgain

PolicySpec == PolicyInit /\ [][PolicyNext]_policyVars

-------------------------------------------------------------------------------
(***************************************************************************)
(* Properties                                                              *)
(***************************************************************************)
PolicyTypeOK ==
  /\ service \in {"up", "down"}
  /\ settings \in [Limits -> Nat \ {Unset}]
  /\ table \in [Limits \cup Mappings \cup {"revision"} -> Nat]
  /\ \A h \in Patchers :
       /\ patchers[h].at \in {"idle", "reading", "mapping", "committed"}
       /\ DOMAIN patchers[h].seen \subseteq Limits
  /\ collided \in BOOLEAN

\* Whatever two administrators set at once, the limits a running portal has stored
\* keep the order upload <= archive <= extracted, without which no later request is
\* served and no restart succeeds: each has validated fields the other was changing.
PolicyIsConsistent == service = "up" => Valid(Configured(table))

\* A plan that carries the present revision of the mapping defaults carries the
\* present defaults, though it reads them one by one while they change; unless two
\* changes were given one revision.
PlanNamesItsPolicy ==
  collided \/ ~ReadAll(MappingKeys, planner) \/
    (planner["revision"] = table["revision"] =>
       \A f \in Mappings : planner[f] = table[f])
===============================================================================
