--------------------------- MODULE HarborProfiles ---------------------------
(***************************************************************************)
(* The registries an installation can talk to (services/harbor_profiles,   *)
(* services/harbor_settings, api/settings): the default profile, the list  *)
(* of additional profiles, kept as ONE JSON value that every writer        *)
(* replaces as a whole, the active profile, the credential file of each    *)
(* profile, and the operations bound to a profile by its id, name and URL. *)
(*                                                                         *)
(* The handlers hold one process-wide lock (harbor_profile_boundary) from  *)
(* their first read to their commit, and so does the creation of an        *)
(* operation; the handler that creates a profile, the retry of an import   *)
(* up to its plan, and the workers do not.                                 *)
(***************************************************************************)
EXTENDS Naturals, FiniteSets, Functions

CONSTANTS
    ProfileIds,     \* ids of additional profiles (uuid4: never used twice)
    Default,        \* the id of the default profile
    Addresses,      \* what a profile points at: its name and URL together
    Bindables,      \* the operations of the model
    LegacyBound,    \* those among them older than profile snapshots
    Nowhere         \* no address, no profile, no client

ASSUME ProfileAssumption ==
    /\ Default \notin ProfileIds
    /\ Nowhere \notin Addresses \cup ProfileIds \cup {Default}
    /\ LegacyBound \subseteq Bindables

Profile == [address : Addresses, enabled : BOOLEAN]
ProfileLists == UNION {[D -> Profile] : D \in SUBSET ProfileIds}

VARIABLES
    listed,      \* the committed list of additional profiles
    known,       \* ids handed out so far
    fallback,    \* address of the default profile, Nowhere when not set
    activeId,    \* the active profile
    secrets,     \* the profiles with a credential file
    boundary,    \* the handler inside the lock, between its read and its commit
    creating,    \* the unlocked creation of a profile, likewise
    jobs,        \* the operations: state, profile and address bound to
    retryOf,     \* the binding a retry has copied and not yet written
    clients,     \* the address of the client a worker uses
    clobbered    \* history: a list was committed over one it was not read from

profileVars == <<listed, known, fallback, activeId, secrets, boundary, creating,
                 jobs, retryOf, clients, clobbered>>

NoWriter == [busy |-> FALSE]
NoBinding == [profile |-> Nowhere, address |-> Nowhere]
Row(state, binding) ==
    [state |-> state, profile |-> binding.profile, address |-> binding.address]
Binding(o) == [profile |-> jobs[o].profile, address |-> jobs[o].address]

ProfilesInit ==
    /\ listed = << >>
    /\ known = {}
    /\ fallback = Nowhere
    /\ activeId = Default
    /\ secrets = {}
    /\ boundary = NoWriter
    /\ creating = NoWriter
    /\ jobs = [o \in Bindables |->
                 Row(IF o \in LegacyBound THEN "open" ELSE "none", NoBinding)]
    /\ retryOf = [o \in Bindables |-> NoBinding]
    /\ clients = [o \in Bindables |-> Nowhere]
    /\ clobbered = FALSE

-----------------------------------------------------------------------------
(* What a reader sees. *)

Address(p) == IF p = Default THEN fallback
              ELSE IF p \in DOMAIN listed THEN listed[p].address ELSE Nowhere

\* operation_snapshot: the profile exists, has a URL and is enabled.
Selectable(p) == /\ Address(p) # Nowhere
                 /\ p # Default => listed[p].enabled

Pending(o) == jobs[o].state \in {"unplanned", "open", "busy"}
Unbound(o) == Pending(o) /\ jobs[o].profile = Nowhere

\* require_mutation_safe: no unfinished operation is bound to the profile; one
\* without a binding follows the active profile.
MutationSafe(p) ==
    \A o \in Bindables :
        Pending(o) => /\ jobs[o].profile # p
                      /\ Unbound(o) => p # activeId

\* Wrong: the profile is asked for, not what it points at.
BindingResolves(o) ==
    Selectable(IF jobs[o].profile = Nowhere THEN activeId ELSE jobs[o].profile)

\* assert_operation_binding: the bound profile can be used and still points
\* where it did; a row without a binding follows the active profile.
BindingHolds(o) ==
    IF jobs[o].profile = Nowhere
    THEN Selectable(activeId)
    ELSE /\ Selectable(jobs[o].profile)
         /\ Address(jobs[o].profile) = jobs[o].address

BoundaryFree == ~boundary.busy

-----------------------------------------------------------------------------
(* The list of additional profiles. *)

\* A list with a profile more.
With(list, p, new) ==
    [q \in DOMAIN list \cup {p} |-> IF q \in DOMAIN list THEN list[q] ELSE new]

\* create_harbor_profile reads the list outside the lock ...
CreateReads(p) ==
    /\ ~creating.busy
    /\ p \in ProfileIds \ known
    /\ known' = known \cup {p}
    /\ \E new \in Profile :
           creating' = [busy |-> TRUE, read |-> listed, list |-> With(listed, p, new)]
    /\ UNCHANGED <<listed, fallback, activeId, secrets, boundary, jobs, retryOf,
                   clients, clobbered>>

\* ... and commits it with its own profile, whatever was committed since.
CreateCommits ==
    /\ creating.busy
    /\ listed' = creating.list
    /\ clobbered' = (clobbered \/ listed # creating.read)
    /\ creating' = NoWriter
    /\ UNCHANGED <<known, fallback, activeId, secrets, boundary, jobs, retryOf, clients>>

\* update: not while an operation needs the profile, and the active profile
\* stays enabled.
UpdateReads(p, new) ==
    /\ BoundaryFree
    /\ p \in DOMAIN listed
    /\ MutationSafe(p)
    /\ p = activeId => new.enabled
    /\ boundary' = [busy |-> TRUE, read |-> listed, drop |-> {},
                    list |-> [listed EXCEPT ![p] = new]]
    /\ UNCHANGED <<listed, known, fallback, activeId, secrets, creating, jobs,
                   retryOf, clients, clobbered>>

\* Wrong: a profile nobody waits for may go.
DeletableIfIdle(p) == \A o \in Bindables : jobs[o].profile # p

\* delete: not the active profile, and none a stored operation names.
Deletable(p) ==
    /\ p # activeId
    /\ \A o \in Bindables : jobs[o].profile # p

DeleteReads(p) ==
    /\ BoundaryFree
    /\ p \in DOMAIN listed
    /\ Deletable(p)
    /\ boundary' = [busy |-> TRUE, read |-> listed, drop |-> {p},
                    list |-> Restrict(listed, DOMAIN listed \ {p})]
    /\ UNCHANGED <<listed, known, fallback, activeId, secrets, creating, jobs,
                   retryOf, clients, clobbered>>

\* The files of a deleted profile go before its commit.
Unlinked(p) == secrets \ {p}

DeleteUnlinks ==
    /\ boundary.busy
    /\ \E p \in boundary.drop : secrets' = Unlinked(p)
    /\ boundary' = [boundary EXCEPT !.drop = {}]
    /\ UNCHANGED <<listed, known, fallback, activeId, creating, jobs, retryOf,
                   clients, clobbered>>

BoundaryCommits ==
    /\ boundary.busy
    /\ boundary.drop = {}
    /\ listed' = boundary.list
    /\ clobbered' = (clobbered \/ listed # boundary.read)
    /\ boundary' = NoWriter
    /\ UNCHANGED <<known, fallback, activeId, secrets, creating, jobs, retryOf, clients>>

-----------------------------------------------------------------------------
(* Handlers that read and write one row, or one file, under the lock. *)

\* activate: pinned operations do not care, rows without a binding do.
ActivateProfile(p) ==
    /\ BoundaryFree
    /\ IF p = Default THEN fallback # Nowhere
                      ELSE p \in DOMAIN listed /\ listed[p].enabled
    /\ p # activeId
    /\ \A o \in Bindables : ~Unbound(o)
    /\ activeId' = p
    /\ UNCHANGED <<listed, known, fallback, secrets, boundary, creating, jobs,
                   retryOf, clients, clobbered>>

UpdateDefault(a) ==
    /\ BoundaryFree
    /\ MutationSafe(Default)
    /\ fallback' = a
    /\ UNCHANGED <<listed, known, activeId, secrets, boundary, creating, jobs,
                   retryOf, clients, clobbered>>

RotateCredential(p) ==
    /\ BoundaryFree
    /\ p \in DOMAIN listed
    /\ MutationSafe(p)
    /\ secrets' = secrets \cup {p}
    /\ UNCHANGED <<listed, known, fallback, activeId, boundary, creating, jobs,
                   retryOf, clients, clobbered>>

-----------------------------------------------------------------------------
(* Operations. *)

\* A new export or import takes the profile as it is, under the lock.
OperationBinds(o, p) ==
    /\ BoundaryFree
    /\ jobs[o].state = "none"
    /\ retryOf[o] = NoBinding
    /\ Selectable(p)
    /\ jobs' = [jobs EXCEPT ![o] = Row("open", [profile |-> p, address |-> Address(p)])]
    /\ UNCHANGED <<listed, known, fallback, activeId, secrets, boundary, creating,
                   retryOf, clients, clobbered>>

\* bind_operation_profile of a legacy import, with its first destination plan.
LegacyBinds(o, p) ==
    /\ BoundaryFree
    /\ jobs[o].state = "open" /\ Unbound(o)
    /\ Selectable(p)
    /\ jobs' = [jobs EXCEPT ![o] = Row("open", [profile |-> p, address |-> Address(p)])]
    /\ UNCHANGED <<listed, known, fallback, activeId, secrets, boundary, creating,
                   retryOf, clients, clobbered>>

\* import_retry copies the binding of the original after checking it ...
RetryCopies(r, o) ==
    /\ jobs[r].state = "none" /\ retryOf[r] = NoBinding
    /\ jobs[o].state = "ended" /\ jobs[o].profile # Nowhere
    /\ BindingHolds(o)
    /\ retryOf' = [retryOf EXCEPT ![r] = Binding(o)]
    /\ UNCHANGED <<listed, known, fallback, activeId, secrets, boundary, creating,
                   jobs, clients, clobbered>>

\* ... and writes its row with the copy, outside the lock.
RetryBinds(r) ==
    /\ retryOf[r] # NoBinding
    /\ jobs' = [jobs EXCEPT ![r] = Row("unplanned", retryOf[r])]
    /\ retryOf' = [retryOf EXCEPT ![r] = NoBinding]
    /\ UNCHANGED <<listed, known, fallback, activeId, secrets, boundary, creating,
                   clients, clobbered>>

\* The plan of the retry checks the binding under the lock; without a plan nobody
\* can start it.
RetryPlans(r) ==
    /\ BoundaryFree
    /\ jobs[r].state = "unplanned"
    /\ jobs' = [jobs EXCEPT ![r].state = IF BindingHolds(r) THEN "open" ELSE "ended"]
    /\ UNCHANGED <<listed, known, fallback, activeId, secrets, boundary, creating,
                   retryOf, clients, clobbered>>

\* _assert_operation_profile when the work begins; a binding that does not hold
\* ends the operation.
WorkerChecks(o) ==
    /\ jobs[o].state = "open"
    /\ jobs' = [jobs EXCEPT ![o].state = IF BindingHolds(o) THEN "busy" ELSE "ended"]
    /\ UNCHANGED <<listed, known, fallback, activeId, secrets, boundary, creating,
                   retryOf, clients, clobbered>>

\* Every artifact gets a client of its own, from the profile as it is then.
WorkerBuildsClient(o) ==
    LET p == IF jobs[o].profile = Nowhere THEN activeId ELSE jobs[o].profile
    IN  /\ jobs[o].state = "busy"
        /\ Selectable(p)
        /\ clients' = [clients EXCEPT ![o] = Address(p)]
        /\ UNCHANGED <<listed, known, fallback, activeId, secrets, boundary, creating,
                       jobs, retryOf, clobbered>>

OperationEnds(o) ==
    /\ Pending(o)
    /\ jobs' = [jobs EXCEPT ![o].state = "ended"]
    /\ clients' = [clients EXCEPT ![o] = Nowhere]
    /\ UNCHANGED <<listed, known, fallback, activeId, secrets, boundary, creating,
                   retryOf, clobbered>>

\* The process dies: handlers and workers with it; what was committed stays.
ProfilesRestart ==
    /\ boundary' = NoWriter
    /\ creating' = NoWriter
    /\ retryOf' = [o \in Bindables |-> NoBinding]
    /\ clients' = [o \in Bindables |-> Nowhere]
    /\ jobs' = [o \in Bindables |->
                  IF jobs[o].state = "busy" THEN [jobs[o] EXCEPT !.state = "ended"]
                                            ELSE jobs[o]]
    /\ UNCHANGED <<listed, known, fallback, activeId, secrets, clobbered>>

ProfilesNext ==
    \/ \E p \in ProfileIds :
           \/ CreateReads(p) \/ DeleteReads(p) \/ RotateCredential(p)
           \/ \E new \in Profile : UpdateReads(p, new)
    \/ CreateCommits \/ DeleteUnlinks \/ BoundaryCommits
    \/ \E a \in Addresses \cup {Nowhere} : UpdateDefault(a)
    \/ \E p \in ProfileIds \cup {Default} :
           \/ ActivateProfile(p)
           \/ \E o \in Bindables : OperationBinds(o, p) \/ LegacyBinds(o, p)
    \/ \E o \in Bindables :
           \/ RetryBinds(o) \/ RetryPlans(o) \/ OperationEnds(o)
           \/ WorkerChecks(o) \/ WorkerBuildsClient(o)
           \/ \E r \in Bindables : RetryCopies(r, o)
    \/ ProfilesRestart

ProfilesSpec == ProfilesInit /\ [][ProfilesNext]_profileVars

-----------------------------------------------------------------------------
(***************************************************************************)
(* Properties                                                              *)
(***************************************************************************)

\* Every variable has its type, and a binding is whole or not there at all.
ProfilesTypeOK ==
    /\ listed \in ProfileLists
    /\ known \in SUBSET ProfileIds
    /\ fallback \in Addresses \cup {Nowhere}
    /\ activeId \in ProfileIds \cup {Default}
    /\ secrets \in SUBSET ProfileIds
    /\ \A o \in Bindables :
           /\ jobs[o].state \in {"none", "unplanned", "open", "busy", "ended"}
           /\ jobs[o].profile \in ProfileIds \cup {Default, Nowhere}
           /\ jobs[o].address \in Addresses \cup {Nowhere}
           /\ clients[o] \in Addresses \cup {Nowhere}

\* A profile an operation is bound to has an address, and its worker talks to the
\* registry it was bound to, or, for a row without a binding, to the one the active
\* profile names, however profiles are updated, switched and deleted next to it and
\* however stale the binding a retry was given.  (A list committed over one it was not
\* read from, which only the unlocked creation of a profile can bring about, voids
\* this.)
ClientIsBound ==
    clobbered \/ \A o \in Bindables :
        /\ jobs[o].profile = Nowhere <=> jobs[o].address = Nowhere
        /\ clients[o] # Nowhere =>
               clients[o] = IF jobs[o].profile = Nowhere THEN Address(activeId)
                                                         ELSE jobs[o].address

\* The three stores agree: the active profile is in the list and enabled, so that
\* a request that names no profile is never refused for one that was removed or
\* disabled, and no credential file outlives its profile; a crash between the
\* removal of the files of a profile and the commit of its removal included.
ProfilesAgree ==
    \/ clobbered
    \/ /\ activeId # Default => /\ activeId \in DOMAIN listed
                                /\ listed[activeId].enabled
       /\ secrets \subseteq DOMAIN listed
=============================================================================
