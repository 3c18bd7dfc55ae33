-------------------------- MODULE AdministrationProofs --------------------------
(***************************************************************************)
(* What an administrator changes while the portal works: the registries an *)
(* operation is bound to, the stored limits and mapping defaults, and the  *)
(* locks of accounts; for every number of handlers, profiles, operations   *)
(* and accounts, and whatever is set.                                      *)
(***************************************************************************)
EXTENDS HarborProfiles, TransferPolicy, Accounts, FiniteSetTheorems, TLAPS

-------------------------------------------------------------------------------
(***************************************************************************)
(* Profiles                                                                *)
(***************************************************************************)

\* The address of a profile in some list.
AddressIn(list, p) ==
  IF p = Default THEN fallback ELSE IF p \in DOMAIN list THEN list[p].address ELSE Nowhere

\* The profile an operation works with.
Target(o) == IF jobs[o].profile = Nowhere THEN activeId ELSE jobs[o].profile

\* Rows are whole, and a handler that writes the list has it.
ProfilesShaped ==
  /\ boundary.busy => DOMAIN boundary = {"busy", "read", "drop", "list"}
  /\ creating.busy =>
       \A p \in DOMAIN creating.read :
         p \in DOMAIN creating.list /\ creating.list[p] = creating.read[p]
  /\ DOMAIN jobs = Bindables /\ DOMAIN retryOf = Bindables /\ DOMAIN clients = Bindables
  /\ \A o \in Bindables :
       /\ DOMAIN jobs[o] = {"state", "profile", "address"}
       /\ jobs[o].profile = Nowhere <=> jobs[o].address = Nowhere
       /\ retryOf[o] # NoBinding =>
            /\ jobs[o].state = "none"
            /\ retryOf[o].profile # Nowhere /\ retryOf[o].address # Nowhere

\* No list on its way to a commit moves the registry from under an operation somebody
\* may start, and a worker has the one its row names.
WorkersPinned ==
  \A o \in Bindables :
    /\ jobs[o].state \in {"open", "busy"} /\ boundary.busy =>
         AddressIn(boundary.list, Target(o)) = AddressIn(boundary.read, Target(o))
    /\ jobs[o].state = "busy" /\ jobs[o].profile # Nowhere =>
         Address(jobs[o].profile) = jobs[o].address
    /\ clients[o] # Nowhere => jobs[o].state = "busy" /\ clients[o] = Address(Target(o))

\* The active profile is in the list and enabled.
ActiveIn(list) == activeId # Default => activeId \in DOMAIN list /\ list[activeId].enabled

\* The stores agree now, and will when the handler at work has committed.
StoresAgree ==
  /\ ActiveIn(listed) /\ secrets \subseteq DOMAIN listed
  /\ boundary.busy =>
       /\ ActiveIn(boundary.list)
       /\ secrets \subseteq DOMAIN boundary.list \cup boundary.drop
       /\ \A p, q \in boundary.drop : p = q

\* The inductive invariant.
ProfilesHeld == ProfilesShaped /\ (clobbered \/ (WorkersPinned /\ StoresAgree))

\* The list is empty and nobody is at work.
LEMMA ProfilesInitHeld == ProfilesInit => ProfilesHeld
BY DEF ProfilesInit, ProfilesHeld, ProfilesShaped, WorkersPinned, StoresAgree, ActiveIn,
       NoWriter, NoBinding, Row

\* A list is read for a commit: it moves no profile that an operation waits for.
LEMMA ListReadKeeps ==
  ASSUME ProfilesHeld, NEW p \in ProfileIds, ProfileAssumption,
         DeleteReads(p) \/ \E new \in Profile : UpdateReads(p, new)
  PROVE  ProfilesHeld'
<1>1. /\ UNCHANGED <<listed, fallback, activeId, secrets, creating, jobs, retryOf, clients,
                     clobbered>>
      /\ BoundaryFree
  BY DEF DeleteReads, UpdateReads
<1>2. PICK list, drop :
        /\ boundary' = [busy |-> TRUE, read |-> listed, drop |-> drop, list |-> list]
        /\ \A q \in DOMAIN listed : q # p => q \in DOMAIN list /\ list[q] = listed[q]
        /\ DOMAIN list \subseteq DOMAIN listed
        /\ DOMAIN listed \subseteq DOMAIN list \cup drop
        /\ \A q, r \in drop : q = r
        /\ \A o \in Bindables : jobs[o].state \in {"open", "busy"} => Target(o) # p
        /\ p = activeId => ActiveIn(list)
  <2>1. CASE DeleteReads(p)
    <3> DEFINE list == [q \in DOMAIN listed \ {p} |-> listed[q]]
    <3>1. boundary' = [busy |-> TRUE, read |-> listed, drop |-> {p}, list |-> list]
      BY <2>1 DEF DeleteReads, Restrict
    <3>2. /\ p # activeId
          /\ \A o \in Bindables : Target(o) # p
      BY <2>1 DEF DeleteReads, Deletable, Target
    <3>3. DOMAIN list = DOMAIN listed \ {p} /\ \A q \in DOMAIN list : list[q] = listed[q]
      OBVIOUS
    <3> QED BY <3>1, <3>2, <3>3
  <2>2. ASSUME NEW new \in Profile, UpdateReads(p, new)
        PROVE  \E list, drop :
                 /\ boundary' = [busy |-> TRUE, read |-> listed, drop |-> drop, list |-> list]
                 /\ \A q \in DOMAIN listed : q # p => q \in DOMAIN list /\ list[q] = listed[q]
                 /\ DOMAIN list \subseteq DOMAIN listed
                 /\ DOMAIN listed \subseteq DOMAIN list \cup drop
                 /\ \A q, r \in drop : q = r
                 /\ \A o \in Bindables : jobs[o].state \in {"open", "busy"} => Target(o) # p
                 /\ p = activeId => ActiveIn(list)
    <3> DEFINE list == [listed EXCEPT ![p] = new]
    <3>1. boundary' = [busy |-> TRUE, read |-> listed, drop |-> {}, list |-> list]
      BY <2>2 DEF UpdateReads
    <3>2. /\ DOMAIN list = DOMAIN listed /\ list[p] = new
          /\ \A q \in DOMAIN listed : q # p => list[q] = listed[q]
          /\ p \in DOMAIN listed
      BY <2>2 DEF UpdateReads
    <3>3. p = activeId => ActiveIn(list)
      BY <2>2, <3>2 DEF UpdateReads, ActiveIn
    <3>4. ASSUME NEW o \in Bindables, jobs[o].state \in {"open", "busy"} PROVE Target(o) # p
      <4>1. p # Nowhere
        BY DEF ProfileAssumption
      <4> QED
        BY <2>2, <3>4, <4>1 DEF UpdateReads, MutationSafe, Pending, Unbound, Target
    <3> HIDE DEF list
    <3> QED BY <3>1, <3>2, <3>3, <3>4
  <2> QED BY <2>1, <2>2
<1>3. ProfilesShaped'
  BY <1>1, <1>2 DEF ProfilesHeld, ProfilesShaped
<1>4. ASSUME ~clobbered PROVE WorkersPinned'
  <2>1. ASSUME NEW o \in Bindables, jobs[o].state \in {"open", "busy"}
        PROVE  AddressIn(list, Target(o)) = AddressIn(listed, Target(o))
    BY <1>2, <2>1 DEF AddressIn
  <2>2. boundary'.list = list /\ boundary'.read = listed
    BY <1>2
  <2>3. \A o \in Bindables : Target(o)' = Target(o)
    BY <1>1 DEF Target
  <2>4. \A q : Address(q)' = Address(q) /\ \A l : AddressIn(l, q)' = AddressIn(l, q)
    BY <1>1 DEF Address, AddressIn
  <2> QED BY <1>1, <1>4, <2>1, <2>2, <2>3, <2>4 DEF ProfilesHeld, WorkersPinned
<1>5. ASSUME ~clobbered PROVE StoresAgree'
  <2>1. ActiveIn(listed) /\ secrets \subseteq DOMAIN listed
    BY <1>5 DEF ProfilesHeld, StoresAgree
  <2>2. ActiveIn(list)
    BY <1>2, <2>1 DEF ActiveIn
  <2>3. boundary'.list = list /\ boundary'.drop = drop
    BY <1>2
  <2>4. \A l : ActiveIn(l)' = ActiveIn(l)
    BY <1>1 DEF ActiveIn
  <2> QED BY <1>1, <1>2, <2>1, <2>2, <2>3, <2>4 DEF StoresAgree
<1> QED BY <1>1, <1>3, <1>4, <1>5 DEF ProfilesHeld

\* A profile that is created does not touch the others.
LEMMA CreationKeeps ==
  ASSUME ProfilesHeld, CreateCommits \/ \E p \in ProfileIds : CreateReads(p)
  PROVE  ProfilesHeld'
<1>1. UNCHANGED <<fallback, activeId, secrets, boundary, jobs, retryOf, clients>>
  BY DEF CreateCommits, CreateReads
<1>2. CASE CreateCommits
  <2>1. /\ listed' = creating.list /\ ~creating'.busy
        /\ ~clobbered' => ~clobbered /\ listed = creating.read
        /\ \A p \in DOMAIN creating.read :
             p \in DOMAIN creating.list /\ creating.list[p] = creating.read[p]
    BY <1>2 DEF CreateCommits, ProfilesHeld, ProfilesShaped, NoWriter
  <2>2. ProfilesShaped'
    BY <1>1, <2>1 DEF ProfilesHeld, ProfilesShaped
  <2>3. ASSUME ~clobbered' PROVE WorkersPinned' /\ StoresAgree'
    <3>1. /\ ~clobbered /\ WorkersPinned /\ StoresAgree
          /\ \A p \in DOMAIN listed : p \in DOMAIN listed' /\ listed'[p] = listed[p]
      BY <2>1, <2>3 DEF ProfilesHeld
    <3>2. \A p : Address(p) # Nowhere => Address(p)' = Address(p)
      BY <1>1, <3>1 DEF Address
    <3>3. \A o \in Bindables : jobs[o].profile # Nowhere => jobs[o].address # Nowhere
      BY DEF ProfilesHeld, ProfilesShaped
    <3>4. /\ \A o \in Bindables : Target(o)' = Target(o)
          /\ \A l, p : AddressIn(l, p)' = AddressIn(l, p)
          /\ \A l : ActiveIn(l)' = ActiveIn(l)
      BY <1>1 DEF Target, AddressIn, ActiveIn
    <3>5. WorkersPinned'
      BY <1>1, <3>1, <3>2, <3>3, <3>4 DEF WorkersPinned
    <3>6. ActiveIn(listed)' /\ secrets' \subseteq DOMAIN listed'
      BY <1>1, <3>1 DEF StoresAgree, ActiveIn
    <3> QED BY <1>1, <3>1, <3>4, <3>5, <3>6 DEF StoresAgree
  <2> QED BY <2>2, <2>3 DEF ProfilesHeld
<1>3. ASSUME NEW p \in ProfileIds, CreateReads(p) PROVE ProfilesHeld'
  <2>1. PICK new \in Profile :
          creating' = [busy |-> TRUE, read |-> listed, list |-> With(listed, p, new)]
    BY <1>3 DEF CreateReads
  <2>2. \A q \in DOMAIN listed :
          q \in DOMAIN With(listed, p, new) /\ With(listed, p, new)[q] = listed[q]
    BY DEF With
  <2>3. ProfilesShaped'
    BY <1>1, <2>1, <2>2 DEF ProfilesHeld, ProfilesShaped
  <2>4. UNCHANGED <<listed, clobbered>>
    BY <1>3 DEF CreateReads
  <2> QED BY <1>1, <2>3, <2>4 DEF ProfilesHeld, WorkersPinned, StoresAgree, ActiveIn, Target,
     Address, AddressIn
<1> QED BY <1>2, <1>3

\* A list is committed that was read from the one in force: it says of everybody's profile
\* what that said.
LEMMA ListCommitKeeps ==
  ASSUME ProfilesHeld, BoundaryCommits \/ DeleteUnlinks
  PROVE  ProfilesHeld'
<1>1. UNCHANGED <<fallback, activeId, creating, jobs, retryOf, clients>>
  BY DEF BoundaryCommits, DeleteUnlinks
<1>2. /\ \A o \in Bindables : Target(o)' = Target(o)
      /\ \A l, p : AddressIn(l, p)' = AddressIn(l, p)
      /\ \A l : ActiveIn(l)' = ActiveIn(l)
      /\ \A p : Address(p) = AddressIn(listed, p)
      /\ \A p : Address(p)' = AddressIn(listed', p)
  BY <1>1 DEF Target, AddressIn, ActiveIn, Address
<1>3. CASE BoundaryCommits
  <2>1. /\ boundary.busy /\ boundary.drop = {} /\ ~boundary'.busy
        /\ listed' = boundary.list
        /\ ~clobbered' => ~clobbered /\ listed = boundary.read
        /\ UNCHANGED secrets
    BY <1>3 DEF BoundaryCommits, NoWriter
  <2>2. ProfilesShaped'
    BY <1>1, <2>1 DEF ProfilesHeld, ProfilesShaped
  <2>3. ASSUME ~clobbered' PROVE WorkersPinned' /\ StoresAgree'
    <3>1. WorkersPinned /\ StoresAgree /\ listed = boundary.read
      BY <2>1, <2>3 DEF ProfilesHeld
    <3>2. \A o \in Bindables : jobs[o].state \in {"open", "busy"} =>
            Address(Target(o))' = Address(Target(o))
      BY <1>2, <2>1, <3>1 DEF WorkersPinned
    <3>3. WorkersPinned'
      BY <1>1, <1>2, <2>1, <3>1, <3>2 DEF WorkersPinned, Target
    <3>4. StoresAgree'
      BY <1>1, <1>2, <2>1, <3>1 DEF StoresAgree
    <3> QED BY <3>3, <3>4
  <2> QED BY <2>2, <2>3 DEF ProfilesHeld
<1>4. CASE DeleteUnlinks
  <2>1. PICK p \in boundary.drop : secrets' = secrets \ {p}
    BY <1>4 DEF DeleteUnlinks, Unlinked
  <2>2. /\ boundary.busy /\ DOMAIN boundary = {"busy", "read", "drop", "list"}
        /\ boundary' = [boundary EXCEPT !.drop = {}]
        /\ UNCHANGED <<listed, clobbered>>
    BY <1>4 DEF DeleteUnlinks, ProfilesHeld, ProfilesShaped
  <2>3. /\ boundary'.busy = boundary.busy /\ boundary'.read = boundary.read
        /\ boundary'.list = boundary.list /\ boundary'.drop = {}
        /\ DOMAIN boundary' = DOMAIN boundary
    BY <2>2
  <2>4. ProfilesShaped'
    BY <1>1, <2>2, <2>3 DEF ProfilesHeld, ProfilesShaped
  <2>5. WorkersPinned => WorkersPinned'
    BY <1>1, <1>2, <2>2, <2>3 DEF WorkersPinned
  <2>6. StoresAgree => StoresAgree'
    BY <1>1, <1>2, <2>1, <2>2, <2>3 DEF StoresAgree
  <2> QED BY <2>2, <2>4, <2>5, <2>6 DEF ProfilesHeld
<1> QED BY <1>3, <1>4

\* Under the lock no list is on its way; the default profile and the choice of the active
\* one change only when nobody who is at work follows them.
LEMMA SettingKeeps ==
  ASSUME ProfilesHeld, ProfileAssumption,
         \/ \E a \in Addresses \cup {Nowhere} : UpdateDefault(a)
         \/ \E p \in ProfileIds \cup {Default} : ActivateProfile(p)
         \/ \E p \in ProfileIds : RotateCredential(p)
  PROVE  ProfilesHeld'
<1>1. UNCHANGED <<listed, boundary, creating, jobs, retryOf, clients, clobbered>> /\ ~boundary.busy
  BY DEF UpdateDefault, ActivateProfile, RotateCredential, BoundaryFree
<1>2. ProfilesShaped'
  BY <1>1 DEF ProfilesHeld, ProfilesShaped
<1>3. ASSUME ~clobbered PROVE WorkersPinned'
  <2>1. WorkersPinned
    BY <1>3 DEF ProfilesHeld
  <2>2. ASSUME NEW o \in Bindables, jobs[o].state = "busy"
        PROVE  Target(o)' = Target(o) /\ Address(Target(o))' = Address(Target(o))
    <3>1. CASE \E a \in Addresses \cup {Nowhere} : UpdateDefault(a)
      <4>1. MutationSafe(Default) /\ UNCHANGED activeId
        BY <3>1 DEF UpdateDefault
      <4>2. Target(o) # Default
        BY <2>2, <4>1 DEF MutationSafe, Pending, Unbound, Target, ProfileAssumption
      <4> QED BY <1>1, <4>1, <4>2 DEF Target, Address
    <3>2. CASE \E p \in ProfileIds \cup {Default} : ActivateProfile(p)
      <4>1. ~Unbound(o) /\ UNCHANGED fallback
        BY <3>2 DEF ActivateProfile
      <4>2. jobs[o].profile # Nowhere
        BY <2>2, <4>1 DEF Unbound, Pending
      <4> QED BY <1>1, <4>1, <4>2 DEF Target, Address
    <3>3. CASE \E p \in ProfileIds : RotateCredential(p)
      BY <1>1, <3>3 DEF RotateCredential, Target, Address
    <3> QED BY <3>1, <3>2, <3>3
  <2> QED BY <1>1, <2>1, <2>2 DEF WorkersPinned, Target
<1>4. ASSUME ~clobbered PROVE StoresAgree'
  BY <1>1, <1>4 DEF ProfilesHeld, StoresAgree, ActiveIn, UpdateDefault, ActivateProfile,
     RotateCredential
<1> QED BY <1>1, <1>2, <1>3, <1>4 DEF ProfilesHeld

\* One row changes, or the copy a retry holds, or the client of a worker.
LEMMA RowKeeps ==
  ASSUME ProfilesHeld, NEW o \in Bindables,
         UNCHANGED <<listed, fallback, activeId, secrets, boundary, creating, clobbered>>,
         DOMAIN jobs' = Bindables, DOMAIN retryOf' = Bindables, DOMAIN clients' = Bindables,
         \A q \in Bindables : q # o =>
           jobs'[q] = jobs[q] /\ retryOf'[q] = retryOf[q] /\ clients'[q] = clients[q],
         DOMAIN jobs'[o] = {"state", "profile", "address"},
         jobs'[o].profile = Nowhere <=> jobs'[o].address = Nowhere,
         retryOf'[o] # NoBinding =>
           /\ jobs'[o].state = "none"
           /\ retryOf'[o].profile # Nowhere /\ retryOf'[o].address # Nowhere,
         WorkersPinned =>
           /\ jobs'[o].state \in {"open", "busy"} /\ boundary.busy =>
                AddressIn(boundary.list, Target(o)') = AddressIn(boundary.read, Target(o)')
           /\ jobs'[o].state = "busy" /\ jobs'[o].profile # Nowhere =>
                Address(jobs'[o].profile) = jobs'[o].address
           /\ clients'[o] # Nowhere =>
                jobs'[o].state = "busy" /\ clients'[o] = Address(Target(o)')
  PROVE  ProfilesHeld'
<1>1. ProfilesShaped'
  BY DEF ProfilesHeld, ProfilesShaped
<1>2. /\ \A l, p : AddressIn(l, p)' = AddressIn(l, p)
      /\ \A p : Address(p)' = Address(p)
      /\ \A l : ActiveIn(l)' = ActiveIn(l)
      /\ \A q \in Bindables : q # o => Target(q)' = Target(q)
  BY DEF AddressIn, Address, ActiveIn, Target
<1>3. WorkersPinned => WorkersPinned'
  BY <1>2 DEF WorkersPinned
<1>4. StoresAgree => StoresAgree'
  BY <1>2 DEF StoresAgree
<1> QED BY <1>1, <1>3, <1>4 DEF ProfilesHeld

\* An operation is bound, planned, checked, given a client and ended.
LEMMA OperationKeeps ==
  ASSUME ProfilesHeld, ProfileAssumption, NEW o \in Bindables,
         \/ \E p \in ProfileIds \cup {Default} : OperationBinds(o, p) \/ LegacyBinds(o, p)
         \/ \E q \in Bindables : RetryCopies(o, q)
         \/ RetryBinds(o) \/ RetryPlans(o) \/ OperationEnds(o)
         \/ WorkerChecks(o) \/ WorkerBuildsClient(o)
  PROVE  ProfilesHeld'
<1>0. /\ DOMAIN jobs = Bindables /\ DOMAIN retryOf = Bindables /\ DOMAIN clients = Bindables
      /\ DOMAIN jobs[o] = {"state", "profile", "address"}
      /\ jobs[o].profile = Nowhere <=> jobs[o].address = Nowhere
      /\ retryOf[o] # NoBinding =>
           /\ jobs[o].state = "none"
           /\ retryOf[o].profile # Nowhere /\ retryOf[o].address # Nowhere
  BY DEF ProfilesHeld, ProfilesShaped
<1>1. UNCHANGED <<listed, fallback, activeId, secrets, boundary, creating, clobbered>>
  BY DEF OperationBinds, LegacyBinds, RetryCopies, RetryBinds, RetryPlans, OperationEnds,
     WorkerChecks, WorkerBuildsClient
<1>2. ASSUME NEW p \in ProfileIds \cup {Default}, OperationBinds(o, p) \/ LegacyBinds(o, p)
      PROVE  ProfilesHeld'
  <2>1. /\ BoundaryFree /\ Address(p) # Nowhere /\ p # Nowhere
        /\ jobs' = [jobs EXCEPT ![o] = [state |-> "open", profile |-> p, address |-> Address(p)]]
        /\ UNCHANGED <<retryOf, clients>> /\ retryOf[o] = NoBinding
        /\ jobs[o].state # "busy"
    BY <1>0, <1>2 DEF OperationBinds, LegacyBinds, Row, Selectable, ProfileAssumption, NoBinding
  <2>2. jobs'[o] = [state |-> "open", profile |-> p, address |-> Address(p)]
    BY <1>0, <2>1
  <2>3. WorkersPinned => clients[o] = Nowhere
    BY <2>1 DEF WorkersPinned
  <2> QED BY <1>0, <1>1, <2>1, <2>2, <2>3, RowKeeps DEF BoundaryFree
<1>3. ASSUME NEW q \in Bindables, RetryCopies(o, q) PROVE ProfilesHeld'
  <2>1. /\ retryOf' = [retryOf EXCEPT ![o] = [profile |-> jobs[q].profile,
                                             address |-> jobs[q].address]]
        /\ UNCHANGED <<jobs, clients>>
        /\ jobs[o].state = "none" /\ jobs[q].profile # Nowhere
    BY <1>3 DEF RetryCopies, Binding
  <2>2. jobs[q].address # Nowhere
    BY <2>1 DEF ProfilesHeld, ProfilesShaped
  <2>3. retryOf'[o].profile # Nowhere /\ retryOf'[o].address # Nowhere
    BY <1>0, <2>1, <2>2
  <2>4. WorkersPinned => clients[o] = Nowhere
    BY <2>1 DEF WorkersPinned
  <2> QED BY <1>0, <1>1, <2>1, <2>3, <2>4, RowKeeps
<1>4. CASE RetryBinds(o)
  <2>1. /\ jobs'[o] = [state |-> "unplanned", profile |-> retryOf[o].profile,
                       address |-> retryOf[o].address]
        /\ \A q \in Bindables : q # o => jobs'[q] = jobs[q] /\ retryOf'[q] = retryOf[q]
        /\ DOMAIN jobs' = Bindables /\ DOMAIN retryOf' = Bindables
        /\ retryOf'[o] = NoBinding /\ UNCHANGED clients
        /\ retryOf[o] # NoBinding
    BY <1>0, <1>4 DEF RetryBinds, Row
  <2>2. WorkersPinned => clients[o] = Nowhere
    BY <1>0, <2>1 DEF WorkersPinned
  <2> QED BY <1>0, <1>1, <2>1, <2>2, RowKeeps
<1>5. CASE RetryPlans(o) \/ WorkerChecks(o)
  <2>1. PICK s \in {"open", "busy", "ended"} : jobs' = [jobs EXCEPT ![o].state = s]
    BY <1>5 DEF RetryPlans, WorkerChecks
  <2>2. /\ jobs'[o].state = s /\ jobs'[o].profile = jobs[o].profile
        /\ jobs'[o].address = jobs[o].address /\ DOMAIN jobs'[o] = DOMAIN jobs[o]
        /\ \A q \in Bindables : q # o => jobs'[q] = jobs[q]
        /\ DOMAIN jobs' = Bindables
    BY <1>0, <2>1
  <2>3. /\ UNCHANGED <<retryOf, clients>> /\ jobs[o].state # "none" /\ jobs[o].state # "busy"
        /\ s = "open" => ~boundary.busy
        /\ s = "busy" => BindingHolds(o) /\ jobs[o].state = "open"
    <3>1. CASE RetryPlans(o)
      <4>1. jobs'[o].state \in {"open", "ended"}
        BY <1>0, <3>1 DEF RetryPlans
      <4> QED BY <2>2, <3>1, <4>1 DEF RetryPlans, BoundaryFree
    <3>2. CASE WorkerChecks(o)
      <4>1. jobs'[o].state = IF BindingHolds(o) THEN "busy" ELSE "ended"
        BY <1>0, <3>2 DEF WorkerChecks
      <4> QED BY <2>2, <3>2, <4>1 DEF WorkerChecks
    <3> QED BY <1>5, <3>1, <3>2
  <2>4. WorkersPinned => clients[o] = Nowhere
    BY <2>3 DEF WorkersPinned
  <2>5. Target(o)' = Target(o)
    BY <1>1, <2>2 DEF Target
  <2>6. s = "busy" /\ jobs[o].profile # Nowhere => Address(jobs[o].profile) = jobs[o].address
    BY <2>3 DEF BindingHolds
  <2>7. WorkersPinned /\ s = "busy" /\ boundary.busy =>
          AddressIn(boundary.list, Target(o)) = AddressIn(boundary.read, Target(o))
    BY <2>3 DEF WorkersPinned
  <2> QED BY <1>0, <1>1, <2>2, <2>3, <2>4, <2>5, <2>6, <2>7, RowKeeps
<1>6. CASE OperationEnds(o)
  <2>1. /\ jobs'[o].state = "ended" /\ jobs'[o].profile = jobs[o].profile
        /\ jobs'[o].address = jobs[o].address /\ DOMAIN jobs'[o] = DOMAIN jobs[o]
        /\ \A q \in Bindables : q # o => jobs'[q] = jobs[q] /\ clients'[q] = clients[q]
        /\ DOMAIN jobs' = Bindables /\ DOMAIN clients' = Bindables
        /\ clients'[o] = Nowhere /\ UNCHANGED retryOf
        /\ jobs[o].state # "none"
    BY <1>0, <1>6 DEF OperationEnds, Pending
  <2> QED BY <1>0, <1>1, <2>1, RowKeeps
<1>7. CASE WorkerBuildsClient(o)
  <2>1. /\ jobs[o].state = "busy" /\ UNCHANGED <<jobs, retryOf>>
        /\ clients' = [clients EXCEPT ![o] = Address(Target(o))]
    BY <1>7 DEF WorkerBuildsClient, Target
  <2>2. Target(o)' = Target(o)
    BY <1>1, <2>1 DEF Target
  <2>3. /\ clients'[o] = Address(Target(o)) /\ DOMAIN clients' = Bindables
        /\ \A q \in Bindables : q # o => clients'[q] = clients[q]
    BY <1>0, <2>1
  <2>4. WorkersPinned =>
          /\ boundary.busy =>
               AddressIn(boundary.list, Target(o)) = AddressIn(boundary.read, Target(o))
          /\ jobs[o].profile # Nowhere => Address(jobs[o].profile) = jobs[o].address
    BY <2>1 DEF WorkersPinned
  <2> QED BY <1>0, <1>1, <2>1, <2>2, <2>3, <2>4, RowKeeps
<1> QED BY <1>2, <1>3, <1>4, <1>5, <1>6, <1>7

\* A restart forgets handlers, copies and clients; rows keep what they are bound to.
LEMMA RestartKeepsProfiles ==
  ASSUME ProfilesHeld, ProfilesRestart \/ UNCHANGED profileVars
  PROVE  ProfilesHeld'
<1>1. CASE ProfilesRestart
  <2>1. /\ ~boundary'.busy /\ ~creating'.busy
        /\ DOMAIN jobs' = Bindables /\ DOMAIN retryOf' = Bindables /\ DOMAIN clients' = Bindables
        /\ UNCHANGED <<listed, fallback, activeId, secrets, clobbered>>
    BY <1>1 DEF ProfilesRestart, NoWriter
  <2>2. \A o \in Bindables :
          /\ DOMAIN jobs'[o] = DOMAIN jobs[o] /\ jobs'[o].state # "busy"
          /\ jobs'[o].profile = jobs[o].profile /\ jobs'[o].address = jobs[o].address
          /\ retryOf'[o] = NoBinding /\ clients'[o] = Nowhere
    BY <1>1 DEF ProfilesRestart, ProfilesHeld, ProfilesShaped
  <2>3. ProfilesShaped'
    BY <2>1, <2>2 DEF ProfilesHeld, ProfilesShaped
  <2>4. WorkersPinned'
    BY <2>1, <2>2 DEF WorkersPinned
  <2>5. StoresAgree => StoresAgree'
    BY <2>1 DEF StoresAgree, ActiveIn
  <2> QED BY <2>1, <2>3, <2>4, <2>5 DEF ProfilesHeld
<1>2. CASE UNCHANGED profileVars
  BY <1>2 DEF profileVars, ProfilesHeld, ProfilesShaped, WorkersPinned, StoresAgree, ActiveIn,
     Target, Address, AddressIn
<1> QED BY <1>1, <1>2

\* In every state the registry of an operation is pinned and the stores of the profiles
\* agree, unless a list was committed over one it was not read from (harbor_profiles.py).
THEOREM AlwaysPinned == ProfilesSpec => []ProfilesHeld
<1>1. ProfilesHeld /\ [ProfilesNext]_profileVars => ProfilesHeld'
  BY ProfileAssumption, ListReadKeeps, CreationKeeps, ListCommitKeeps, SettingKeeps,
     OperationKeeps, RestartKeepsProfiles DEF ProfilesNext
<1> QED BY <1>1, ProfilesInitHeld, PTL DEF ProfilesSpec

\* A worker talks to the registry its operation was bound to (assert_operation_binding).
THEOREM ClientHolds == ProfilesSpec => []ClientIsBound
<1>1. ProfilesHeld => ClientIsBound
  BY DEF ProfilesHeld, ProfilesShaped, WorkersPinned, ClientIsBound, Target
<1> QED BY <1>1, AlwaysPinned, PTL

\* The active profile is in the list, and no credential outlives its profile
\* (harbor_profiles.py, harbor_settings.py).
THEOREM AgreementHolds == ProfilesSpec => []ProfilesAgree
<1>1. ProfilesHeld => ProfilesAgree
  BY DEF ProfilesHeld, StoresAgree, ActiveIn, ProfilesAgree
<1> QED BY <1>1, AlwaysPinned, PTL

-------------------------------------------------------------------------------
(***************************************************************************)
(* The order of the limits                                                 *)
(***************************************************************************)

\* Table and handlers have their fields, and a patched field has a value.
PatchersTyped ==
  /\ DOMAIN table = Limits \cup Mappings \cup {"revision"}
  /\ DOMAIN patchers = Patchers
  /\ \A h \in Patchers :
       /\ DOMAIN patchers[h] = {"at", "patch", "seen", "mapping"}
       /\ \A f \in OfPolicy(patchers[h].patch) : patchers[h].patch[f] # Unset

\* The handler that excludes the others has validated what it is going to commit.
HolderIsValid == \A h \in Patchers : Holds(h) => Valid(Configured(Written(h, Changed(h))))

\* What is still to be applied to the shared Settings has a row.
CommittedHasRow ==
  \A h \in Patchers : patchers[h].at = "committed" => \A f \in Changed(h) : table[f] # Unset

\* The inductive invariant.
PolicyHeld ==
  /\ PatchersTyped
  /\ service = "down" => \A h \in Patchers : patchers[h].at = "idle"
  /\ HolderIsValid
  /\ CommittedHasRow
  /\ PolicyIsConsistent

-------------------------------------------------------------------------------
\* Changed limits are fields of the patch that have a value.
LEMMA ChangedFacts ==
  ASSUME PatchersTyped, NEW h \in Patchers
  PROVE  \A f \in Changed(h) : f \in Limits /\ patchers[h].patch[f] # Unset
BY DEF PatchersTyped, Changed, OfPolicy

\* Before the portal has started there is nothing to keep.
LEMMA PolicyInitHeld == PolicyInit => PolicyHeld
BY DEF PolicyInit, PolicyHeld, PatchersTyped, HolderIsValid, CommittedHasRow,
       PolicyIsConsistent, IdlePatcher, Nothing, OfPolicy, Holds, Limits, Mappings

\* A start takes only limits in order; nobody is at work yet.
LEMMA StartKeeps ==
  ASSUME PolicyHeld, NEW environment \in Environments, PortalStarts(environment)
  PROVE  PolicyHeld'
<1>1. /\ UNCHANGED <<table, patchers>> /\ service' = "up"
      /\ \A h \in Patchers : patchers[h].at = "idle"
      /\ Valid(settings')
      /\ settings' = [f \in Limits |-> IF table[f] = Unset THEN environment[f] ELSE table[f]]
  BY DEF PortalStarts, PolicyHeld
<1>2. Configured(table)' = settings'
  BY <1>1 DEF Configured
<1>3. PolicyIsConsistent'
  BY <1>1, <1>2 DEF PolicyIsConsistent, Valid
<1>4. HolderIsValid' /\ CommittedHasRow' /\ PatchersTyped'
  BY <1>1 DEF HolderIsValid, Holds, CommittedHasRow, PolicyHeld, PatchersTyped, OfPolicy
<1> QED
  BY <1>1, <1>3, <1>4 DEF PolicyHeld

\* The reads, and the steps by which one handler begins or gives up.
LEMMA ReadingKeeps ==
  ASSUME PolicyAssumption, PolicyHeld, NEW h \in Patchers,
         \/ \E patch \in Patches : PatchBegins(h, patch)
         \/ ReadsLimit(h) \/ ReadsMapping(h) \/ PatchFails(h)
  PROVE  PolicyHeld'
<1>0. PatchersTyped
  BY DEF PolicyHeld
<1>1. /\ UNCHANGED <<service, settings, table>>
      /\ \A g \in Patchers \ {h} : patchers'[g] = patchers[g]
      /\ DOMAIN patchers' = Patchers
  BY <1>0 DEF PatchersTyped, PatchBegins, ReadsLimit, ReadsMapping, PatchFails, Patcher
<1>2. /\ service = "down" => patchers'[h].at = "idle"
      /\ DOMAIN patchers'[h] = {"at", "patch", "seen", "mapping"}
      /\ \A f \in OfPolicy(patchers'[h].patch) : patchers'[h].patch[f] # Unset
      /\ \/ patchers'[h].at \in {"idle", "reading"}
         \/ /\ patchers'[h].at = patchers[h].at
            /\ patchers'[h].patch = patchers[h].patch
            /\ patchers'[h].seen = patchers[h].seen
  <2>1. CASE \E patch \in Patches : PatchBegins(h, patch)
    <3>1. PICK patch \in Patches : PatchBegins(h, patch)
      BY <2>1
    <3>2. /\ service = "up"
          /\ patchers'[h] = [at |-> "reading", patch |-> patch, seen |-> Nothing,
                             mapping |-> Nothing]
      BY <1>0, <3>1 DEF PatchBegins, Patcher, IdlePatcher, PatchersTyped
    <3>3. \A f \in OfPolicy(patch) : patch[f] # Unset
      BY DEF PolicyAssumption, OfPolicy
    <3> QED
      BY <3>2, <3>3
  <2>2. CASE ReadsLimit(h)
    BY <1>0, <2>2 DEF ReadsLimit, PatchersTyped, PolicyHeld
  <2>3. CASE ReadsMapping(h)
    BY <1>0, <2>3 DEF ReadsMapping, PatchersTyped, PolicyHeld
  <2>4. CASE PatchFails(h)
    BY <1>0, <2>4 DEF PatchFails, Patcher, IdlePatcher, PatchersTyped, OfPolicy, Nothing
  <2> QED
    BY <2>1, <2>2, <2>3, <2>4
<1>3. ASSUME NEW g \in Patchers, patchers'[g].at \notin {"idle", "reading"}
      PROVE  /\ patchers[g].at = patchers'[g].at /\ Changed(g)' = Changed(g)
             /\ Configured(Written(g, Changed(g)))' = Configured(Written(g, Changed(g)))
  <2>1. /\ patchers'[g].at = patchers[g].at
        /\ patchers'[g].patch = patchers[g].patch
        /\ patchers'[g].seen = patchers[g].seen
    BY <1>1, <1>2, <1>3
  <2>2. Changed(g)' = Changed(g)
    BY <2>1 DEF Changed
  <2>3. Written(g, Changed(g))' = Written(g, Changed(g))
    BY <1>1, <2>1, <2>2 DEF Written
  <2> QED
    BY <1>1, <2>1, <2>2, <2>3 DEF Configured
<1>4. PatchersTyped'
  BY <1>0, <1>1, <1>2 DEF PatchersTyped
<1>5. HolderIsValid'
  BY <1>3 DEF PolicyHeld, HolderIsValid, Holds, Valid
<1>6. CommittedHasRow'
  BY <1>1, <1>3 DEF PolicyHeld, CommittedHasRow
<1>7. PolicyIsConsistent'
  BY <1>1 DEF PolicyHeld, PolicyIsConsistent, Configured, Valid
<1> QED
  BY <1>1, <1>2, <1>4, <1>5, <1>6, <1>7 DEF PolicyHeld

\* The write of the limits: nobody else is between his and his commit, and what the
\* rows hold with them is valid.
LEMMA WritingKeeps ==
  ASSUME PolicyHeld, NEW h \in Patchers, WritesLimits(h)
  PROVE  PolicyHeld'
<1>0. PatchersTyped
  BY DEF PolicyHeld
<1>1. /\ UNCHANGED <<service, settings, table>>
      /\ \A g \in Patchers \ {h} : patchers'[g] = patchers[g]
      /\ DOMAIN patchers' = Patchers
      /\ DOMAIN patchers'[h] = {"at", "patch", "seen", "mapping"}
      /\ patchers'[h].at = "mapping"
      /\ patchers'[h].patch = patchers[h].patch /\ patchers'[h].seen = patchers[h].seen
      /\ patchers[h].at = "reading"
      /\ Changed(h) # {} => Valid(Configured(Written(h, Changed(h))))
  BY <1>0 DEF PatchersTyped, WritesLimits, ValidatedAgain
<1>2. ASSUME NEW g \in Patchers
      PROVE  /\ Changed(g)' = Changed(g)
             /\ Configured(Written(g, Changed(g)))' = Configured(Written(g, Changed(g)))
  <2>1. patchers'[g].patch = patchers[g].patch /\ patchers'[g].seen = patchers[g].seen
    BY <1>1
  <2>2. Changed(g)' = Changed(g)
    BY <2>1 DEF Changed
  <2>3. Written(g, Changed(g))' = Written(g, Changed(g))
    BY <1>1, <2>1, <2>2 DEF Written
  <2> QED
    BY <1>1, <2>2, <2>3 DEF Configured
<1>3. PatchersTyped'
  BY <1>0, <1>1 DEF PatchersTyped
<1>4. HolderIsValid'
  BY <1>1, <1>2 DEF PolicyHeld, HolderIsValid, Holds, Valid
<1>5. CommittedHasRow'
  BY <1>1, <1>2 DEF PolicyHeld, CommittedHasRow
<1>6. PolicyIsConsistent'
  BY <1>1 DEF PolicyHeld, PolicyIsConsistent, Configured, Valid
<1> QED
  BY <1>1, <1>3, <1>4, <1>5, <1>6, <1>0 DEF PolicyHeld

\* The commit: what was validated is what the rows hold now, and nobody else has
\* anything written.
LEMMA CommitKeeps ==
  ASSUME PolicyHeld, NEW h \in Patchers, Commits(h)
  PROVE  PolicyHeld'
<1>0. PatchersTyped
  BY DEF PolicyHeld
<1>1. /\ UNCHANGED <<service, settings>> /\ service # "down"
      /\ \A g \in Patchers \ {h} : patchers'[g] = patchers[g]
      /\ DOMAIN patchers' = Patchers
      /\ DOMAIN patchers'[h] = {"at", "patch", "seen", "mapping"}
      /\ patchers[h].at = "mapping" /\ patchers'[h].at = "committed"
      /\ patchers'[h].patch = patchers[h].patch /\ patchers'[h].seen = patchers[h].seen
      /\ Changed(h) # {} => WriterFree(h)
  BY <1>0 DEF PolicyHeld, PatchersTyped, Commits
<1>2. \A g \in Patchers : Changed(g)' = Changed(g)
  <2>1. \A g \in Patchers :
          patchers'[g].patch = patchers[g].patch /\ patchers'[g].seen = patchers[g].seen
    BY <1>1
  <2> QED
    BY <2>1 DEF Changed
<1>3. Limits \cap (Mappings \cup {"revision"}) = {}
  BY DEF Limits, LimitFields, Range, Mappings
<1>4. /\ DOMAIN table' = DOMAIN table
      /\ \A f \in Limits :
           table'[f] = IF f \in Changed(h) THEN patchers[h].patch[f] ELSE table[f]
  <2>1. \A f \in Limits : f \in ChangedMapping(h) => FALSE
    BY <1>3 DEF ChangedMapping
  <2> DEFINE both == Written(h, Changed(h) \cup ChangedMapping(h))
  <2>2. /\ DOMAIN both = DOMAIN table
        /\ \A f \in Limits :
             both[f] = IF f \in Changed(h) THEN patchers[h].patch[f] ELSE table[f]
    BY <1>0, <2>1 DEF Written, PatchersTyped
  <2> HIDE DEF both
  <2>3. \/ table' = both
        \/ table' = [both EXCEPT !["revision"] = patchers[h].mapping["revision"] + 1]
    BY DEF Commits, both
  <2> QED
    BY <1>0, <1>3, <2>2, <2>3 DEF PatchersTyped
<1>5. \A f \in Changed(h) : f \in Limits /\ patchers[h].patch[f] # Unset
  BY <1>0, ChangedFacts
<1>6. PatchersTyped'
  BY <1>0, <1>1, <1>4 DEF PatchersTyped
<1>7. ASSUME NEW g \in Patchers, Holds(g)'
      PROVE  Valid(Configured(Written(g, Changed(g))))'
  <2>1. g # h /\ Holds(g)
    BY <1>1, <1>2, <1>7 DEF Holds
  <2>2. Changed(h) = {}
    BY <1>1, <2>1 DEF WriterFree
  <2>3. patchers'[g] = patchers[g] /\ Changed(g)' = Changed(g)
    BY <1>1, <1>2, <2>1
  <2>4. \A f \in Limits : f \in DOMAIN table
    BY <1>0 DEF PatchersTyped
  <2>5. \A f \in Limits : Written(g, Changed(g))'[f] = Written(g, Changed(g))[f]
    BY <1>4, <2>2, <2>3, <2>4 DEF Written
  <2>6. Configured(Written(g, Changed(g)))' = Configured(Written(g, Changed(g)))
    BY <1>1, <2>5 DEF Configured
  <2> QED
    BY <2>1, <2>6 DEF PolicyHeld, HolderIsValid, Valid
<1>8. CommittedHasRow'
  BY <1>1, <1>2, <1>4, <1>5, ChangedFacts, <1>0 DEF PolicyHeld, CommittedHasRow
<1>9. PolicyIsConsistent'
  <2>1. CASE Changed(h) = {}
    BY <1>1, <1>4, <2>1 DEF PolicyHeld, PolicyIsConsistent, Configured, Valid
  <2>2. CASE Changed(h) # {}
    <3>1. Valid(Configured(Written(h, Changed(h))))
      BY <1>1, <2>2 DEF PolicyHeld, HolderIsValid, Holds
    <3>2. \A f \in Limits : Written(h, Changed(h))[f] = table'[f]
      BY <1>0, <1>4 DEF Written, PatchersTyped
    <3>3. Configured(table)' = Configured(Written(h, Changed(h)))
      BY <1>1, <3>2 DEF Configured
    <3> QED
      BY <3>1, <3>3 DEF PolicyIsConsistent, Valid
  <2> QED
    BY <2>1, <2>2
<1> QED
  BY <1>1, <1>6, <1>7, <1>8, <1>9 DEF PolicyHeld, HolderIsValid

\* The shared Settings change only where a row hides them.
LEMMA ApplyingKeeps ==
  ASSUME PolicyHeld, NEW h \in Patchers, Applies(h)
  PROVE  PolicyHeld'
<1>0. PatchersTyped
  BY DEF PolicyHeld
<1>1. /\ UNCHANGED <<service, table>> /\ service # "down"
      /\ \A g \in Patchers \ {h} : patchers'[g] = patchers[g]
      /\ DOMAIN patchers' = Patchers
      /\ patchers'[h] = IdlePatcher
      /\ \A f \in Limits : table[f] = Unset => settings'[f] = settings[f]
  BY <1>0 DEF PolicyHeld, PatchersTyped, Applies, Patcher, CommittedHasRow
<1>2. ASSUME NEW rowsOf, \A f \in Limits : table[f] # Unset => rowsOf[f] # Unset
      PROVE  [f \in Limits |-> IF rowsOf[f] = Unset THEN settings'[f] ELSE rowsOf[f]]
               = Configured(rowsOf)
  BY <1>1, <1>2 DEF Configured
<1>3. PatchersTyped'
  BY <1>0, <1>1 DEF PatchersTyped, IdlePatcher, Nothing, OfPolicy
<1>4. ASSUME NEW g \in Patchers, Holds(g)'
      PROVE  Valid(Configured(Written(g, Changed(g))))'
  <2>1. g # h /\ patchers'[g] = patchers[g]
    BY <1>1, <1>4 DEF Holds, IdlePatcher
  <2>2. Changed(g)' = Changed(g) /\ Holds(g)
    BY <1>4, <2>1 DEF Changed, Holds
  <2> DEFINE rowsOf == Written(g, Changed(g))
  <2>3. Written(g, Changed(g))' = rowsOf
    BY <1>1, <2>1, <2>2 DEF Written
  <2>4. \A f \in Limits : table[f] # Unset => rowsOf[f] # Unset
    BY <1>0, ChangedFacts DEF Written, PatchersTyped
  <2>5. Configured(Written(g, Changed(g)))' = Configured(rowsOf)
    <3> HIDE DEF rowsOf
    <3>1. Configured(Written(g, Changed(g)))'
            = [f \in Limits |-> IF rowsOf[f] = Unset THEN settings'[f] ELSE rowsOf[f]]
      BY <2>3 DEF Configured
    <3> QED
      BY <1>2, <2>4, <3>1
  <2> QED
    BY <2>2, <2>5 DEF PolicyHeld, HolderIsValid, Valid
<1>5. CommittedHasRow'
  BY <1>1 DEF PolicyHeld, CommittedHasRow, Changed, IdlePatcher
<1>6. PolicyIsConsistent'
  <2>1. Configured(table)' = Configured(table)
    BY <1>1 DEF Configured
  <2> QED
    BY <1>1, <2>1 DEF PolicyHeld, PolicyIsConsistent, Valid
<1> QED
  BY <1>1, <1>3, <1>4, <1>5, <1>6 DEF PolicyHeld, HolderIsValid

\* A stop forgets the handlers; the planner only reads.
LEMMA ElsewhereKeeps ==
  ASSUME PolicyHeld, PortalStops \/ PlannerReads \/ PlansAgain \/ UNCHANGED policyVars
  PROVE  PolicyHeld'
<1>1. CASE PortalStops
  BY <1>1 DEF PortalStops, PolicyHeld, PatchersTyped, IdlePatcher, Nothing, OfPolicy,
     HolderIsValid, Holds, CommittedHasRow, PolicyIsConsistent
<1>2. CASE PlannerReads \/ PlansAgain \/ UNCHANGED policyVars
  <2>1. UNCHANGED <<service, settings, table, patchers>>
    BY <1>2 DEF PlannerReads, PlansAgain, policyVars
  <2> QED
    BY <2>1 DEF PolicyHeld, PatchersTyped, HolderIsValid, Holds, CommittedHasRow,
       PolicyIsConsistent, Valid, Configured, Written, Changed
<1> QED
  BY <1>1, <1>2

\* In every state the stored limits are in order, and so is what is on its way to them.
THEOREM AlwaysOrdered == PolicySpec => []PolicyHeld
<1>1. PolicyHeld /\ [PolicyNext]_policyVars => PolicyHeld'
  BY PolicyAssumption, StartKeeps, ReadingKeeps, WritingKeeps, CommitKeeps, ApplyingKeeps,
     ElsewhereKeeps DEF PolicyNext
<1> QED
  BY <1>1, PolicyInitHeld, PTL DEF PolicySpec

\* The limits a running portal has stored keep their order, whatever administrators do at
\* once (transfer_policy.py, transfer_settings.py).
THEOREM PolicyHolds == PolicySpec => []PolicyIsConsistent
<1>1. PolicyHeld => PolicyIsConsistent
  BY DEF PolicyHeld
<1> QED
  BY <1>1, AlwaysOrdered, PTL

-------------------------------------------------------------------------------
(***************************************************************************)
(* The mapping defaults and their revision                                 *)
(***************************************************************************)

\* What somebody may have read who reads the revision and then the defaults.
Reads(seen) ==
  /\ DOMAIN seen \in {{}, {"revision"}, {"revision", "container"},
                     {"revision", "container", "projects"}}
  /\ "revision" \in DOMAIN seen => seen["revision"] \in Nat

\* A planner has no later revision than the stored one, and with it no other defaults.
PlannerFollows ==
  "revision" \in DOMAIN planner =>
    /\ planner["revision"] <= table["revision"]
    /\ planner["revision"] = table["revision"] =>
         \A f \in Mappings \cap DOMAIN planner : planner[f] = table[f]

\* The inductive invariant of the revision.
MappingHeld ==
  /\ table["revision"] \in Nat
  /\ \A h \in Patchers : Reads(patchers[h].mapping)
  /\ Reads(planner)
  /\ collided \/ PlannerFollows

\* The keys are read in their order.
LEMMA KeysInOrder ==
  ASSUME NEW seen, Reads(seen)
  PROVE  /\ ReadAll(MappingKeys, seen) => DOMAIN seen = {"revision", "container", "projects"}
         /\ ~ReadAll(MappingKeys, seen) =>
              /\ NextOf(MappingKeys, seen) \in {"revision", "container", "projects"}
              /\ NextOf(MappingKeys, seen) = "revision" <=> DOMAIN seen = {}
              /\ \A v \in Nat : Reads(Seeing(seen, NextOf(MappingKeys, seen), v))
<1>1. Cardinality({}) = 0 /\ IsFiniteSet({})
  BY FS_EmptySet
<1>2. Cardinality({"revision"}) = 1 /\ IsFiniteSet({"revision"})
  BY FS_Singleton
<1>3. {"revision", "container"} = {"revision"} \cup {"container"}
  OBVIOUS
<1>4. /\ Cardinality({"revision", "container"}) = 2
      /\ IsFiniteSet({"revision", "container"})
  BY <1>2, <1>3, FS_AddElement
<1>5. {"revision", "container", "projects"} = {"revision", "container"} \cup {"projects"}
  OBVIOUS
<1>6. Cardinality({"revision", "container", "projects"}) = 3
  BY <1>4, <1>5, FS_AddElement
<1>7. /\ Len(MappingKeys) = 3 /\ MappingKeys[1] = "revision"
      /\ MappingKeys[2] = "container" /\ MappingKeys[3] = "projects"
  BY DEF MappingKeys
<1>8. ASSUME ~ReadAll(MappingKeys, seen), NEW v \in Nat
      PROVE  /\ NextOf(MappingKeys, seen) \in {"revision", "container", "projects"}
             /\ NextOf(MappingKeys, seen) = "revision" <=> DOMAIN seen = {}
             /\ Reads(Seeing(seen, NextOf(MappingKeys, seen), v))
  <2>1. CASE DOMAIN seen = {}
    <3>1. NextOf(MappingKeys, seen) = "revision"
      BY <1>1, <1>7, <2>1 DEF NextOf
    <3> QED BY <2>1, <1>8, <3>1 DEF Reads, Seeing
  <2>2. CASE DOMAIN seen = {"revision"}
    <3>1. NextOf(MappingKeys, seen) = "container"
      BY <1>2, <1>7, <2>2 DEF NextOf
    <3> QED BY <2>2, <3>1 DEF Reads, Seeing
  <2>3. CASE DOMAIN seen = {"revision", "container"}
    <3>1. NextOf(MappingKeys, seen) = "projects"
      BY <1>4, <1>7, <2>3 DEF NextOf
    <3> QED BY <2>3, <3>1 DEF Reads, Seeing
  <2>4. CASE DOMAIN seen = {"revision", "container", "projects"}
    BY <1>6, <1>7, <1>8, <2>4 DEF ReadAll
  <2> QED BY <2>1, <2>2, <2>3, <2>4 DEF Reads
<1>9. ReadAll(MappingKeys, seen) => DOMAIN seen = {"revision", "container", "projects"}
  BY <1>1, <1>2, <1>4, <1>7 DEF ReadAll, Reads
<1>10. \E v : v \in Nat
  BY 0 \in Nat
<1> QED BY <1>8, <1>9, <1>10

\* Nobody has read anything.
LEMMA MappingInitHeld == PolicyInit => MappingHeld
BY DEF PolicyInit, MappingHeld, Reads, PlannerFollows, IdlePatcher, Nothing, Unset, Limits,
       Mappings

\* A handler reads, or begins, writes its limits, applies them, gives up: the stored
\* defaults and what the planner has seen of them stay.
LEMMA HandlerKeepsMapping ==
  ASSUME PatchersTyped, MappingHeld, NEW h \in Patchers,
         \/ \E patch \in Patches : PatchBegins(h, patch)
         \/ ReadsLimit(h) \/ WritesLimits(h) \/ ReadsMapping(h) \/ Applies(h) \/ PatchFails(h)
  PROVE  MappingHeld'
<1>1. UNCHANGED <<table, planner, collided>>
  BY DEF PatchBegins, ReadsLimit, WritesLimits, ReadsMapping, Applies, PatchFails
<1>2. \A g \in Patchers : Reads(patchers'[g].mapping)
  <2>1. Reads(Nothing)
    BY DEF Reads, Nothing
  <2>2. CASE ReadsMapping(h)
    <3> DEFINE key == NextOf(MappingKeys, patchers[h].mapping)
    <3>1. CASE ~ReadAll(MappingKeys, patchers[h].mapping)
      <4>1. Reads(patchers[h].mapping)
        BY DEF MappingHeld
      <4>2. patchers'[h].mapping = Seeing(patchers[h].mapping, key, table[key])
        BY <2>2 DEF ReadsMapping, PatchersTyped
      <4>3. \A g \in Patchers \ {h} : patchers'[g] = patchers[g]
        BY <2>2 DEF ReadsMapping, PatchersTyped
      <4>4. /\ key = "revision" => table[key] \in Nat
            /\ key = "revision" <=> DOMAIN patchers[h].mapping = {}
            /\ \A v \in Nat : Reads(Seeing(patchers[h].mapping, key, v))
        BY <3>1, <4>1, KeysInOrder DEF MappingHeld
      <4> HIDE DEF key
      <4>5. Reads(Seeing(patchers[h].mapping, key, table[key]))
        <5>1. CASE key = "revision"
          BY <4>4, <5>1
        <5>2. CASE key # "revision"
          <6>1. Reads(Seeing(patchers[h].mapping, key, 0))
            BY <4>4
          <6>2. /\ DOMAIN Seeing(patchers[h].mapping, key, table[key])
                     = DOMAIN Seeing(patchers[h].mapping, key, 0)
                /\ "revision" \in DOMAIN Seeing(patchers[h].mapping, key, table[key]) =>
                     Seeing(patchers[h].mapping, key, table[key])["revision"]
                       = Seeing(patchers[h].mapping, key, 0)["revision"]
            BY <5>2 DEF Seeing
          <6> QED BY <6>1, <6>2 DEF Reads
        <5> QED BY <5>1, <5>2
      <4> QED BY <4>2, <4>3, <4>5 DEF MappingHeld
    <3>2. CASE ReadAll(MappingKeys, patchers[h].mapping)
      BY <2>2, <3>2 DEF ReadsMapping, MappingRead
    <3> QED BY <3>1, <3>2
  <2>3. CASE ReadsLimit(h) \/ WritesLimits(h)
    <3>1. \A g \in Patchers : patchers'[g].mapping = patchers[g].mapping
      BY <2>3 DEF ReadsLimit, WritesLimits, PatchersTyped
    <3> QED BY <3>1 DEF MappingHeld
  <2>4. CASE (\E patch \in Patches : PatchBegins(h, patch)) \/ Applies(h) \/ PatchFails(h)
    <3>1. /\ patchers'[h].mapping = Nothing
          /\ \A g \in Patchers \ {h} : patchers'[g] = patchers[g]
      <4>1. IdlePatcher.mapping = Nothing
        BY DEF IdlePatcher
      <4>2. CASE Applies(h) \/ PatchFails(h)
        BY <4>1, <4>2 DEF Applies, PatchFails, Patcher, PatchersTyped
      <4>3. CASE \E patch \in Patches : PatchBegins(h, patch)
        <5>1. PICK patch \in Patches : PatchBegins(h, patch)
          BY <4>3
        <5>2. patchers' = [patchers EXCEPT ![h] = [IdlePatcher EXCEPT !.at = "reading",
                                                                     !.patch = patch]]
          BY <5>1 DEF PatchBegins, Patcher
        <5>3. [IdlePatcher EXCEPT !.at = "reading", !.patch = patch].mapping = Nothing
          BY DEF IdlePatcher
        <5> QED BY <5>2, <5>3 DEF PatchersTyped
      <4> QED BY <2>4, <4>2, <4>3
    <3> QED BY <2>1, <3>1 DEF MappingHeld
  <2> QED BY <2>2, <2>3, <2>4
<1> QED BY <1>1, <1>2 DEF MappingHeld, PlannerFollows

\* A commit leaves revision and defaults alone, or gives them a revision nobody has seen.
LEMMA CommitKeepsMapping ==
  ASSUME PatchersTyped, MappingHeld, NEW h \in Patchers, Commits(h)
  PROVE  MappingHeld'
<1>1. Limits \cap (Mappings \cup {"revision"}) = {} /\ "revision" \notin Mappings
  BY DEF Limits, LimitFields, Range, Mappings
<1>2. /\ Changed(h) \subseteq Limits /\ ChangedMapping(h) \subseteq Mappings
      /\ ChangedMapping(h) \subseteq DOMAIN patchers[h].patch
  BY DEF Changed, OfPolicy, ChangedMapping
<1> DEFINE both == Written(h, Changed(h) \cup ChangedMapping(h))
<1>3. /\ DOMAIN both = DOMAIN table
      /\ both["revision"] = table["revision"]
      /\ ChangedMapping(h) = {} => \A f \in Mappings : both[f] = table[f]
  BY <1>1, <1>2 DEF Written, PatchersTyped
<1>4. /\ UNCHANGED planner
      /\ \A g \in Patchers : patchers'[g].mapping = patchers[g].mapping
      /\ MappingRead(h)
      /\ ChangedMapping(h) = {} => table' = both /\ UNCHANGED collided
  BY DEF Commits, PatchersTyped
<1>5. CASE ChangedMapping(h) = {}
  <2>1. table'["revision"] = table["revision"] /\ \A f \in Mappings : table'[f] = table[f]
    BY <1>3, <1>4, <1>5
  <2>2. PlannerFollows => PlannerFollows'
    BY <1>4, <2>1 DEF PlannerFollows
  <2> QED BY <1>4, <1>5, <2>1, <2>2 DEF MappingHeld
<1>6. CASE ChangedMapping(h) # {}
  <2>1. DOMAIN patchers[h].mapping = {"revision", "container", "projects"}
    BY <1>2, <1>4, <1>6, KeysInOrder DEF MappingRead, MappingHeld
  <2>2. patchers[h].mapping["revision"] \in Nat
    BY <2>1 DEF MappingHeld, Reads
  <2>3. /\ table' = [both EXCEPT !["revision"] = patchers[h].mapping["revision"] + 1]
        /\ collided' = (collided \/ table["revision"] >= patchers[h].mapping["revision"] + 1)
    BY <1>6 DEF Commits
  <2>4. table'["revision"] = patchers[h].mapping["revision"] + 1
    BY <1>3, <2>3 DEF PatchersTyped
  <2>5. ASSUME ~collided' PROVE PlannerFollows'
    <3>1. ~collided /\ table["revision"] < table'["revision"]
      <4>1. ~collided /\ ~(table["revision"] >= patchers[h].mapping["revision"] + 1)
        BY <2>3, <2>5, Zenon
      <4> QED BY <2>2, <2>4, <4>1 DEF MappingHeld
    <3>2. "revision" \in DOMAIN planner =>
            planner["revision"] \in Nat /\ planner["revision"] < table'["revision"]
      BY <2>2, <2>4, <3>1 DEF MappingHeld, PlannerFollows, Reads
    <3> QED BY <1>4, <2>2, <2>4, <3>2 DEF PlannerFollows
  <2> QED BY <1>4, <2>2, <2>4, <2>5 DEF MappingHeld
<1> QED BY <1>5, <1>6

\* The planner reads the next key: what it had of the present revision is of the present
\* defaults still.
LEMMA PlannerKeepsMapping ==
  ASSUME MappingHeld,
         \/ PlannerReads \/ PlansAgain \/ UNCHANGED policyVars
  PROVE  MappingHeld'
<1>1. UNCHANGED <<table, patchers, collided>>
  BY DEF PlannerReads, PlansAgain, policyVars
<1>2. CASE PlannerReads
  <2> DEFINE key == NextOf(MappingKeys, planner)
  <2>1. ~ReadAll(MappingKeys, planner) /\ planner' = Seeing(planner, key, table[key])
    BY <1>2 DEF PlannerReads
  <2>2. /\ key \in {"revision", "container", "projects"}
        /\ key = "revision" <=> DOMAIN planner = {}
        /\ \A v \in Nat : Reads(Seeing(planner, key, v))
    BY <2>1, KeysInOrder DEF MappingHeld
  <2> HIDE DEF key
  <2>3. /\ DOMAIN planner' = DOMAIN planner \cup {key} /\ planner'[key] = table[key]
        /\ \A k \in DOMAIN planner : k # key => planner'[k] = planner[k]
    BY <2>1 DEF Seeing
  <2>4. DOMAIN Seeing(planner, key, 0) = DOMAIN planner'
    BY <2>3 DEF Seeing
  <2>5. Reads(planner')
    BY <2>2, <2>3, <2>4 DEF Reads, MappingHeld
  <2>6. ASSUME PlannerFollows PROVE PlannerFollows'
    <3>1. CASE key = "revision"
      BY <1>1, <2>2, <2>3, <3>1 DEF PlannerFollows, MappingHeld, Mappings
    <3>2. CASE key # "revision"
      BY <1>1, <2>3, <2>6, <3>2 DEF PlannerFollows
    <3> QED BY <3>1, <3>2
  <2> QED BY <1>1, <2>5, <2>6 DEF MappingHeld
<1>3. CASE PlansAgain \/ UNCHANGED policyVars
  <2>1. planner' = planner \/ planner' = Nothing
    BY <1>3 DEF PlansAgain, policyVars
  <2> QED BY <1>1, <2>1 DEF MappingHeld, PlannerFollows, Reads, Nothing
<1> QED BY <1>2, <1>3

\* A start and a stop leave what is stored.
LEMMA ServiceKeepsMapping ==
  ASSUME PatchersTyped, MappingHeld,
         PortalStops \/ \E environment \in Environments : PortalStarts(environment)
  PROVE  MappingHeld'
<1>1. /\ UNCHANGED <<table, collided>>
      /\ planner' \in {planner, Nothing}
      /\ \A h \in Patchers : patchers'[h].mapping \in {patchers[h].mapping, Nothing}
  <2>1. CASE PortalStops
    BY <2>1 DEF PortalStops, IdlePatcher
  <2>2. CASE \E environment \in Environments : PortalStarts(environment)
    BY <2>2 DEF PortalStarts
  <2> QED BY <2>1, <2>2
<1>2. Reads(Nothing)
  BY DEF Reads, Nothing
<1> QED BY <1>1, <1>2 DEF MappingHeld, PlannerFollows, Nothing

\* In every state a planner follows the revision, unless two changes were given one.
THEOREM AlwaysFollows == PolicySpec => []MappingHeld
<1>1. PolicyHeld /\ MappingHeld /\ [PolicyNext]_policyVars => MappingHeld'
  BY HandlerKeepsMapping, CommitKeepsMapping, PlannerKeepsMapping, ServiceKeepsMapping
     DEF PolicyNext, PolicyHeld
<1> QED BY <1>1, MappingInitHeld, AlwaysOrdered, PTL DEF PolicySpec

\* A plan with the present revision has the present mapping defaults
\* (DestinationMappingPolicyService.resolve).
THEOREM PlanHolds == PolicySpec => []PlanNamesItsPolicy
<1>1. MappingHeld => PlanNamesItsPolicy
  <2>1. ASSUME MappingHeld, ~collided, ReadAll(MappingKeys, planner),
               planner["revision"] = table["revision"], NEW f \in Mappings
        PROVE  planner[f] = table[f]
    <3>1. DOMAIN planner = {"revision", "container", "projects"}
      BY <2>1, KeysInOrder DEF MappingHeld
    <3> QED BY <2>1, <3>1 DEF MappingHeld, PlannerFollows, Mappings
  <2> QED BY <2>1 DEF PlanNamesItsPolicy
<1> QED BY <1>1, AlwaysFollows, PTL

-------------------------------------------------------------------------------
(***************************************************************************)
(* Locks of accounts                                                       *)
(***************************************************************************)

\* The rows of the throttle.
ThrottleRows == [count : Nat, since : Nat, until : Nat, exists : BOOLEAN]

\* A handler works for an account; one that records a failure has taken the time and read
\* a row, of the account or of the address.
HandlerTyped(step) ==
  /\ step.at \in {"verifying", "failing"} => step.user \in People
  /\ step.at \in {"failing", "addressing"} =>
       /\ step.base \in ThrottleRows
       /\ step.now \in Nat /\ step.now <= clock
       /\ step.subject = IF step.at = "failing" THEN step.user ELSE ClientAddress

\* The type invariant of the throttle.
ThrottleTyped ==
  /\ clock \in Nat
  /\ throttle \in [Subjects -> ThrottleRows]
  /\ DOMAIN handlers = HandlerIds
  /\ \A h \in HandlerIds : HandlerTyped(handlers[h])

\* A failure counts, locks, or finds a lock: the row stays a row, and a lock that lasts
\* now was there when the time was taken.
LEMMA FailureGivesRow ==
  ASSUME AccountAssumption, ThrottleTyped, NEW s \in Subjects, NEW row \in ThrottleRows,
         NEW now \in Nat, now <= clock
  PROVE  Failed(s, row, now) \in ThrottleRows /\ (Locked(row) => Failed(s, row, now) = row)
<1>1. Lockout \in Nat /\ now + Lockout \in Nat
  BY DEF AccountAssumption
<1>2. Locked(row) => LockedAt(row, now)
  BY DEF Locked, LockedAt, ThrottleRows, ThrottleTyped
<1> QED BY <1>1, <1>2 DEF Failed, ThrottleRows

\* What an UPDATE leaves is a row; one that changes nothing leaves the row as it was.
LEMMA MergeGivesRow ==
  ASSUME NEW current \in ThrottleRows, NEW base \in ThrottleRows, NEW new \in ThrottleRows
  PROVE  /\ Merged(current, base, new) \in ThrottleRows
         /\ new = base => Merged(current, base, new) = current
<1> DEFINE Column(f) == IF new[f] # base[f] THEN new[f] ELSE current[f]
<1>1. Merged(current, base, new)
        = [count |-> Column("count"), since |-> Column("since"), until |-> Column("until"),
           exists |-> Column("exists")]
  <2>1. DOMAIN current = {"count", "since", "until", "exists"}
    BY DEF ThrottleRows
  <2> QED BY <2>1 DEF Merged
<1>2. /\ Column("count") \in Nat /\ Column("since") \in Nat
      /\ Column("until") \in Nat /\ Column("exists") \in BOOLEAN
  BY DEF ThrottleRows
<1>3. new = base => Merged(current, base, new) = current
  BY DEF Merged, ThrottleRows
<1> HIDE DEF Column
<1> QED BY <1>1, <1>2, <1>3 DEF ThrottleRows

\* Everybody starts without a row.
LEMMA ThrottleInit == AccountsInit => ThrottleTyped
BY DEF AccountsInit, ThrottleTyped, HandlerTyped, ThrottleRows, NoRow, Free

\* A handler that takes a typed step next leaves the rest typed.
LEMMA StepStaysTyped ==
  ASSUME ThrottleTyped, NEW h \in HandlerIds, NEW step, HandlerTyped(step),
         handlers' = [handlers EXCEPT ![h] = step],
         throttle' \in [Subjects -> ThrottleRows], UNCHANGED clock
  PROVE  ThrottleTyped'
<1>1. /\ DOMAIN handlers' = HandlerIds
      /\ \A g \in HandlerIds : HandlerTyped(handlers'[g])
  BY DEF ThrottleTyped
<1>2. \A g \in HandlerIds : HandlerTyped(handlers[g])'
  BY <1>1 DEF HandlerTyped
<1> QED BY <1>1, <1>2 DEF ThrottleTyped

\* Nobody but a failure or a login writes rows.
LEMMA OthersLeaveRows ==
  ASSUME ThrottleTyped, NEW h \in HandlerIds,
         \/ \E p \in People, right \in BOOLEAN : LoginChecks(h, p, right)
         \/ FailureReads(h) \/ AddressReads(h) \/ HandlerFails(h) \/ EditCommits(h)
         \/ \E admin, target \in People, new \in [role : Roles, active : BOOLEAN] :
              EditChecks(h, admin, target, new)
  PROVE  ThrottleTyped' /\ UNCHANGED throttle
<1>1. UNCHANGED <<clock, throttle>>
  BY DEF LoginChecks, FailureReads, AddressReads, HandlerFails, EditChecks, EditCommits,
         OnlyHandler
<1>2. \A s \in Subjects : throttle[s] \in ThrottleRows
  BY DEF ThrottleTyped
<1> DEFINE Takes(step) ==
             handlers' = [handlers EXCEPT ![h] = step] /\ HandlerTyped(step)
<1>3. PICK step : Takes(step)
  <2>1. ASSUME NEW p \in People, NEW right \in BOOLEAN, LoginChecks(h, p, right)
        PROVE  \E step : Takes(step)
    <3>1. Takes([at |-> "verifying", user |-> p, right |-> right /\ users[p].active])
      BY <2>1 DEF LoginChecks, OnlyHandler, Handler, HandlerTyped
    <3> QED BY <3>1
  <2>2. ASSUME FailureReads(h) PROVE \E step : Takes(step)
    <3>1. handlers[h].user \in People /\ throttle[handlers[h].user] \in ThrottleRows
      BY <1>2, <2>2 DEF FailureReads, ThrottleTyped, HandlerTyped, Subjects
    <3>2. Takes([at |-> "failing", user |-> handlers[h].user, subject |-> handlers[h].user,
                 base |-> throttle[handlers[h].user], now |-> clock])
      BY <2>2, <3>1 DEF FailureReads, OnlyHandler, Handler, HandlerTyped, ThrottleTyped
    <3> QED BY <3>2
  <2>3. ASSUME AddressReads(h) PROVE \E step : Takes(step)
    <3> DEFINE step == [handlers[h] EXCEPT !.at = "addressing", !.subject = ClientAddress,
                                           !.base = throttle[ClientAddress]]
    <3>1. /\ handlers' = [handlers EXCEPT ![h] = step]
          /\ handlers[h].at = "failing" /\ HandlerTyped(handlers[h])
      BY <2>3 DEF AddressReads, OnlyHandler, Handler, ThrottleTyped
    <3>2. throttle[ClientAddress] \in ThrottleRows
      BY <1>2 DEF Subjects
    <3>3. HandlerTyped(step)
      BY <3>1, <3>2 DEF HandlerTyped
    <3> HIDE DEF step
    <3> QED BY <3>1, <3>3
  <2>4. ASSUME HandlerFails(h) \/ EditCommits(h) PROVE \E step : Takes(step)
    <3>1. Takes(Free)
      BY <2>4 DEF HandlerFails, EditCommits, OnlyHandler, Handler, Free, HandlerTyped
    <3> QED BY <3>1
  <2>5. ASSUME NEW admin \in People, NEW target \in People,
               NEW new \in [role : Roles, active : BOOLEAN], EditChecks(h, admin, target, new)
        PROVE  \E step : Takes(step)
    <3>1. Takes([at |-> "editing", user |-> target, new |-> new, old |-> users[target]])
      BY <2>5 DEF EditChecks, OnlyHandler, Handler, HandlerTyped
    <3> QED BY <3>1
  <2> HIDE DEF Takes
  <2> QED BY <2>1, <2>2, <2>3, <2>4, <2>5
<1>4. throttle' \in [Subjects -> ThrottleRows]
  BY <1>1 DEF ThrottleTyped
<1> QED BY <1>1, <1>3, <1>4, StepStaysTyped

\* The row of its subject as a failure leaves it: a lock it finds stays, unless the row
\* has changed since it was read.
LEMMA MergeKeepsLock ==
  ASSUME AccountAssumption, ThrottleTyped, NEW h \in HandlerIds,
         handlers[h].at \in {"failing", "addressing"}
  PROVE  LET s == handlers[h].subject
             merged == Merged(throttle[s], handlers[h].base, FailedRow(h))
         IN  /\ s \in Subjects
             /\ handlers[h].at = "failing" => s # ClientAddress
             /\ merged \in ThrottleRows
             /\ Locked(throttle[s]) => merged = throttle[s] \/ WritesUnseen(h, s)
<1> DEFINE s == handlers[h].subject
           base == handlers[h].base
           merged == Merged(throttle[s], base, FailedRow(h))
<1>1. /\ s \in Subjects /\ base \in ThrottleRows /\ throttle[s] \in ThrottleRows
      /\ handlers[h].now \in Nat /\ handlers[h].now <= clock
      /\ handlers[h].at = "failing" => s # ClientAddress
  BY DEF ThrottleTyped, HandlerTyped, Subjects, AccountAssumption
<1>2. FailedRow(h) \in ThrottleRows /\ (Locked(base) => FailedRow(h) = base)
  BY <1>1, FailureGivesRow DEF FailedRow
<1>3. merged \in ThrottleRows /\ (FailedRow(h) = base => merged = throttle[s])
  BY <1>1, <1>2, MergeGivesRow
<1>4. base = throttle[s] \/ WritesUnseen(h, s)
  BY DEF WritesUnseen
<1> QED BY <1>1, <1>2, <1>3, <1>4

\* The end of a failure: every lock it finds stays, unless the row it writes has changed
\* since it was read.
LEMMA FailureKeepsLock ==
  ASSUME AccountAssumption, ThrottleTyped, NEW h \in HandlerIds,
         FailureCommits(h) \/ AddressCommits(h)
  PROVE  /\ ThrottleTyped' /\ handlers'[h] = Free
         /\ \A s \in Subjects : Locked(throttle[s]) =>
              throttle'[s] = throttle[s] \/ WritesUnseen(h, s)
<1> DEFINE s == handlers[h].subject
           merged == Merged(throttle[s], handlers[h].base, FailedRow(h))
           address == Failed(ClientAddress, throttle[ClientAddress], handlers[h].now)
<1>1. /\ handlers[h].at \in {"failing", "addressing"}
      /\ handlers' = [handlers EXCEPT ![h] = Free] /\ UNCHANGED clock
  BY DEF FailureCommits, AddressCommits, Handler
<1>2. /\ s \in Subjects /\ merged \in ThrottleRows
      /\ handlers[h].at = "failing" => s # ClientAddress
      /\ Locked(throttle[s]) => merged = throttle[s] \/ WritesUnseen(h, s)
  BY <1>1, MergeKeepsLock
<1>3. /\ ClientAddress \in Subjects /\ throttle[ClientAddress] \in ThrottleRows
      /\ handlers[h].now \in Nat /\ handlers[h].now <= clock
  BY <1>1 DEF ThrottleTyped, HandlerTyped, Subjects
<1>4. /\ address \in ThrottleRows
      /\ Locked(throttle[ClientAddress]) => address = throttle[ClientAddress]
  BY <1>3, FailureGivesRow
<1>5. \/ throttle' = [throttle EXCEPT ![s] = merged]
      \/ /\ handlers[h].at = "failing"
         /\ throttle' = [throttle EXCEPT ![s] = merged, ![ClientAddress] = address]
  BY DEF FailureCommits, AddressCommits
<1> HIDE DEF s, merged, address
<1>6. /\ throttle' \in [Subjects -> ThrottleRows]
      /\ throttle'[s] = merged
      /\ \A t \in Subjects : t # s =>
           throttle'[t] = throttle[t] \/ (t = ClientAddress /\ throttle'[t] = address)
  BY <1>2, <1>3, <1>4, <1>5 DEF ThrottleTyped
<1>7. HandlerTyped(Free)
  BY DEF HandlerTyped, Free
<1>8. ThrottleTyped' /\ handlers'[h] = Free
  BY <1>1, <1>6, <1>7, StepStaysTyped DEF ThrottleTyped
<1>9. ASSUME NEW t \in Subjects, Locked(throttle[t])
      PROVE  throttle'[t] = throttle[t] \/ WritesUnseen(h, t)
  BY <1>2, <1>4, <1>6, <1>9
<1> QED BY <1>8, <1>9

\* A login gives up the row of its account, and of no other.
LEMMA LoginKeepsOthers ==
  ASSUME ThrottleTyped, NEW h \in HandlerIds, LoginSucceeds(h)
  PROVE  /\ ThrottleTyped'
         /\ handlers[h].at = "verifying" /\ handlers'[h] = Free
         /\ \A s \in Subjects : s # handlers[h].user => throttle'[s] = throttle[s]
<1>1. /\ throttle' = [throttle EXCEPT ![handlers[h].user] = NoRow]
      /\ handlers[h].at = "verifying" /\ handlers' = [handlers EXCEPT ![h] = Free]
      /\ UNCHANGED clock
  BY DEF LoginSucceeds, Handler
<1>2. NoRow \in ThrottleRows /\ HandlerTyped(Free)
  BY DEF NoRow, ThrottleRows, HandlerTyped, Free
<1>3. throttle' \in [Subjects -> ThrottleRows]
  BY <1>1, <1>2 DEF ThrottleTyped
<1> QED BY <1>1, <1>2, <1>3, StepStaysTyped DEF ThrottleTyped

\* The type invariant of the throttle.
THEOREM ThrottleHolds == AccountsSpec => []ThrottleTyped
<1>1. ThrottleTyped /\ [AccountsNext]_accountVars => ThrottleTyped'
  <2> SUFFICES ASSUME ThrottleTyped, [AccountsNext]_accountVars PROVE ThrottleTyped'
    OBVIOUS
  <2>1. CASE Ticks \/ UNCHANGED accountVars
    <3>1. UNCHANGED <<throttle, handlers>> /\ clock' \in Nat /\ clock' >= clock
      BY <2>1 DEF Ticks, accountVars, ThrottleTyped
    <3>2. ASSUME NEW h \in HandlerIds PROVE HandlerTyped(handlers[h])'
      <4>1. HandlerTyped(handlers[h]) /\ handlers'[h] = handlers[h]
        BY <3>1 DEF ThrottleTyped
      <4> QED BY <3>1, <4>1 DEF HandlerTyped, ThrottleTyped
    <3> QED BY <3>1, <3>2 DEF ThrottleTyped
  <2>2. ASSUME NEW h \in HandlerIds,
               FailureCommits(h) \/ AddressCommits(h) \/ LoginSucceeds(h)
        PROVE  ThrottleTyped'
    BY <2>2, AccountAssumption, FailureKeepsLock, LoginKeepsOthers
  <2> QED BY <2>1, <2>2, OthersLeaveRows DEF AccountsNext
<1> QED BY <1>1, ThrottleInit, PTL DEF AccountsSpec

\* A lock, of an account or of the address, lasts until its end (auth/rate_limit.py).
THEOREM LockHolds == AccountsSpec => LockOutlasts
<1> DEFINE Outlasts(s) ==
             Locked(throttle[s]) =>
               \/ throttle'[s].until >= throttle[s].until
               \/ \E h \in HandlerIds :
                    handlers'[h] = Free /\ (ClearsLock(h, s) \/ WritesUnseen(h, s))
<1>1. ThrottleTyped /\ [AccountsNext]_accountVars =>
        [\A s \in Subjects : Outlasts(s)]_accountVars
  <2> SUFFICES ASSUME ThrottleTyped, AccountsNext, NEW s \in Subjects PROVE Outlasts(s)
    OBVIOUS
  <2>1. throttle[s].until >= throttle[s].until
    BY DEF ThrottleTyped, ThrottleRows
  <2>2. CASE UNCHANGED throttle
    BY <2>1, <2>2
  <2>3. ASSUME NEW h \in HandlerIds, FailureCommits(h) \/ AddressCommits(h)
        PROVE  Outlasts(s)
    BY <2>1, <2>3, AccountAssumption, FailureKeepsLock
  <2>4. ASSUME NEW h \in HandlerIds, LoginSucceeds(h) PROVE Outlasts(s)
    BY <2>1, <2>4, LoginKeepsOthers DEF ClearsLock
  <2>5. Ticks => UNCHANGED throttle
    BY DEF Ticks
  <2> QED BY <2>2, <2>3, <2>4, <2>5, OthersLeaveRows DEF AccountsNext
<1> QED BY <1>1, ThrottleHolds, PTL DEF AccountsSpec, LockOutlasts

===============================================================================
