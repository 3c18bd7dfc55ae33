---------------------------- MODULE DeliveryProofs ----------------------------
(***************************************************************************)
(* What becomes of a delivery on its way into TARGET: the theorems about   *)
(* its intake, for every set of requests and deliveries, and about what    *)
(* verification accepts and extraction publishes, for every medium.        *)
(***************************************************************************)
EXTENDS ImportIntake, BundleFormat, WellFoundedInduction, TLAPS

-------------------------------------------------------------------------------
\* Intake.

\* Where the files of a delivery are, its operation and its preview worker belong together.
Attached(d) ==
  /\ where[d] \in {"outside", "incoming"} => op[d] = "none"
  /\ op[d] = "none" => previewer[d] = "none" /\ d \notin bound
  /\ previewer[d] \in LiveWorker =>
       op[d] \in {"UPLOADED", "DISCOVERED", "VERIFYING"} /\ d \in bound /\ where[d] = "staged"
  /\ op[d] = "READY" => preview[d] # Nothing /\ d \in bound /\ where[d] = "staged"

\* The inductive invariant of the intake.
Orderly ==
  /\ IntakeTypeOK
  /\ \A q \in Requests : held[q] # Nothing <=> Taking(q)
  /\ OneImportPerDelivery
  /\ \A d \in Deliveries : Attached(d)

\* Nothing is no delivery, and the next one of a listing is on the list.
LEMMA NothingIsNoDelivery == Nothing \notin Deliveries
BY DeliveriesAssumption DEF Nothing

\* A listing that is not empty has a first delivery, by the order of the naturals.
LEMMA FirstIsListed ==
  ASSUME NEW q \in Requests, IntakeTypeOK, todo[q] # {}
  PROVE  FirstOf(q) \in todo[q] /\ FirstOf(q) \in Deliveries
<1>1. todo[q] \subseteq Nat /\ todo[q] \subseteq Deliveries
  BY DeliveriesAssumption DEF IntakeTypeOK
<1>2. PICK x \in todo[q] : \A y \in todo[q] : <<y, x>> \notin OpToRel(<, Nat)
  BY <1>1, NatLessThanWellFounded, WFMin
<1>3. \A y \in todo[q] : x =< y
  <2> SUFFICES ASSUME NEW y \in todo[q] PROVE x =< y
    OBVIOUS
  <2>1. x \in Nat /\ y \in Nat /\ <<y, x>> \in Nat \X Nat
    BY <1>1
  <2>2. ~(y < x)
    BY <1>2, <2>1 DEF OpToRel
  <2> QED BY <2>1, <2>2
<1> QED BY <1>1, <1>3 DEF FirstOf, Min

\* A delivery of which a step changes neither files nor operation nor worker.
SameAttached(d) ==
  /\ where'[d] = where[d] /\ op'[d] = op[d] /\ previewer'[d] = previewer[d]
  /\ (d \in bound' <=> d \in bound) /\ preview'[d] = preview[d]

\* A delivery that a step leaves alone keeps what belongs to it.
LEMMA SameStaysAttached ==
  ASSUME NEW d \in Deliveries, Attached(d), SameAttached(d)
  PROVE  Attached(d)'
BY DEF Attached, SameAttached

\* A delivery somebody holds has no operation and no worker.
LEMMA HeldFacts ==
  ASSUME Orderly, NEW q \in Requests, Taking(q)
  PROVE  /\ held[q] \in Deliveries
         /\ op[held[q]] = "none" /\ where[held[q]] = "staged"
         /\ previewer[held[q]] = "none" /\ held[q] \notin bound
         /\ \A r \in Requests : held[r] = held[q] => r = q
<1>1. held[q] # Nothing /\ held[q] \in Deliveries
  BY DEF Orderly, IntakeTypeOK
<1> QED BY <1>1 DEF Orderly, OneImportPerDelivery, Attached

\* Steps that leave files, operations and workers alone.
LEMMA LookingKeeps ==
  ASSUME Orderly, NEW q \in Requests, DiscoverBegins(q) \/ ScanSkips(q) \/ ScanEnds(q)
  PROVE  Orderly'
<1>1. IntakeTypeOK
  BY DEF Orderly
<1>2. /\ UNCHANGED <<held, captured, where, op, bound, workerVars, preview, accepting>>
      /\ \A r \in Requests : Taking(r)' <=> Taking(r)
      /\ at' \in [Requests -> IntakeSteps]
      /\ todo' \in [Requests -> SUBSET Deliveries]
  <2>1. CASE DiscoverBegins(q)
    BY <1>1, <2>1 DEF DiscoverBegins, Goes, Taking, IntakeTypeOK, IntakeSteps
  <2>2. CASE ScanSkips(q)
    BY <1>1, <2>2 DEF ScanSkips, Taking, IntakeTypeOK
  <2>3. CASE ScanEnds(q)
    BY <1>1, <2>3 DEF ScanEnds, Goes, Taking, IntakeTypeOK, IntakeSteps
  <2> QED BY <2>1, <2>2, <2>3
<1>3. IntakeTypeOK'
  BY <1>1, <1>2 DEF IntakeTypeOK, workerVars
<1>4. \A d \in Deliveries : Attached(d)'
  BY <1>2, SameStaysAttached DEF Orderly, SameAttached, workerVars
<1> QED BY <1>2, <1>3, <1>4 DEF Orderly, OneImportPerDelivery

\* A request takes a delivery that lies in the directory, or receives a new one.
LEMMA TakingKeeps ==
  ASSUME Orderly, NEW q \in Requests,
         ScanTakes(q) \/ \E d \in Deliveries : UploadBegins(q, d)
  PROVE  Orderly'
<1>1. IntakeTypeOK
  BY DEF Orderly
<1>2. PICK d \in Deliveries :
        /\ where[d] \in {"outside", "incoming"} /\ ~Taking(q)
        /\ held' = [held EXCEPT ![q] = d] /\ where' = [where EXCEPT ![d] = "staged"]
        /\ \E step \in {"hashing", "receiving"} : at' = [at EXCEPT ![q] = step]
        /\ todo' \in [Requests -> SUBSET Deliveries]
        /\ UNCHANGED <<captured, op, bound, workerVars, preview, accepting>>
  <2>1. CASE ScanTakes(q)
    <3>1. FirstOf(q) \in Deliveries
      BY <1>1, <2>1, FirstIsListed DEF ScanTakes
    <3>2. todo' \in [Requests -> SUBSET Deliveries]
      BY <1>1, <2>1 DEF ScanTakes, IntakeTypeOK
    <3> QED BY <2>1, <3>1, <3>2 DEF ScanTakes, StillThere, Moves, Goes, Taking
  <2>2. CASE \E d \in Deliveries : UploadBegins(q, d)
    <3>1. PICK d \in Deliveries : UploadBegins(q, d)
      BY <2>2
    <3>2. where[d] = "outside" /\ ~Taking(q) /\ todo' \in [Requests -> SUBSET Deliveries]
      BY <1>1, <3>1 DEF UploadBegins, Taking, IntakeTypeOK
    <3>3. /\ held' = [held EXCEPT ![q] = d] /\ where' = [where EXCEPT ![d] = "staged"]
          /\ at' = [at EXCEPT ![q] = "receiving"]
          /\ UNCHANGED <<captured, op, bound, workerVars, preview, accepting>>
      BY <3>1 DEF UploadBegins, Moves, Goes
    <3> QED BY <3>2, <3>3
  <2> QED BY <2>1, <2>2
<1>3. IntakeTypeOK'
  BY <1>1, <1>2 DEF IntakeTypeOK, workerVars, IntakeSteps, Places
<1>4. op[d] = "none" /\ \A r \in Requests : held[r] # d
  BY <1>2, NothingIsNoDelivery DEF Orderly, Attached, OneImportPerDelivery
<1>5. \A r \in Requests : held'[r] # Nothing <=> Taking(r)'
  BY <1>1, <1>2, NothingIsNoDelivery DEF Orderly, Taking, IntakeTypeOK
<1>6. OneImportPerDelivery'
  <2> SUFFICES ASSUME NEW r \in Requests, held'[r] # Nothing
               PROVE  /\ op'[held'[r]] = "none" /\ where'[held'[r]] = "staged"
                      /\ \A s \in Requests : held'[s] = held'[r] => s = r
    BY DEF OneImportPerDelivery
  <2>1. \A s \in Requests : held'[s] = IF s = q THEN d ELSE held[s]
    BY <1>1, <1>2 DEF IntakeTypeOK
  <2>2. CASE r = q
    BY <1>1, <1>2, <1>4, <2>1, <2>2 DEF IntakeTypeOK
  <2>3. CASE r # q
    <3>1. held[r] # Nothing /\ held[r] \in Deliveries /\ held[r] # d
      BY <1>1, <1>4, <2>1, <2>3 DEF IntakeTypeOK
    <3> QED BY <1>1, <1>2, <2>1, <2>3, <3>1 DEF Orderly, OneImportPerDelivery, IntakeTypeOK
  <2> QED BY <2>2, <2>3
<1>7. ASSUME NEW e \in Deliveries PROVE Attached(e)'
  <2>1. CASE e = d
    BY <1>1, <1>2, <1>4, <2>1 DEF Orderly, Attached, IntakeTypeOK, workerVars, LiveWorker, Verifying
  <2>2. CASE e # d
    BY <1>1, <1>2, <2>2, SameStaysAttached DEF Orderly, SameAttached, IntakeTypeOK, workerVars
  <2> QED BY <2>1, <2>2
<1> QED BY <1>3, <1>5, <1>6, <1>7 DEF Orderly

\* A request lets go of its delivery, with a row and a worker, with a row alone or with
\* neither.
LEMMA LettingGoKeeps ==
  ASSUME Orderly, NEW q \in Requests, Creates(q) \/ TakingFails(q) \/ RowStaysUnbound(q)
  PROVE  Orderly'
<1>1. IntakeTypeOK
  BY DEF Orderly
<1>0. Taking(q)
  BY DEF Creates, TakingFails, RowStaysUnbound
<1>d. PICK d \in Deliveries : d = held[q]
  BY <1>0, HeldFacts
<1>2. /\ Taking(q) /\ held' = [held EXCEPT ![q] = Nothing]
      /\ \E step \in {"scanning", "done"} : at' = [at EXCEPT ![q] = step]
      /\ UNCHANGED <<todo, captured, verifier, preview, accepting>>
      /\ where' = where \/ where' = [where EXCEPT ![d] = "gone"]
      /\ op' = op \/ \E s \in {"UPLOADED", "DISCOVERED"} : op' = [op EXCEPT ![d] = s]
      /\ previewer' = previewer \/ previewer' = [previewer EXCEPT ![d] = "waiting"]
      /\ instance' = instance \/ instance' = [instance EXCEPT ![d] = q]
      /\ bound' = bound \/ bound' = bound \cup {d}
  BY <1>d DEF Creates, TakingFails, RowStaysUnbound, LetsGo, Goes, Moves, IntakeBecomes,
     InitialStatus, workerVars
<1>3. /\ d \in Deliveries /\ op[d] = "none" /\ where[d] = "staged" /\ previewer[d] = "none"
      /\ d \notin bound /\ \A r \in Requests : held[r] = d => r = q
  BY <1>0, <1>d, HeldFacts
<1>4. Attached(d)'
  <2>1. CASE Creates(q)
    BY <1>1, <1>d, <1>3, <2>1 DEF Creates, IntakeBecomes, InitialStatus, Attached, IntakeTypeOK,
       LiveWorker, Verifying
  <2>2. CASE TakingFails(q) \/ RowStaysUnbound(q)
    BY <1>1, <1>d, <1>3, <2>2 DEF TakingFails, RowStaysUnbound, IntakeBecomes, InitialStatus, Moves,
       Attached, IntakeTypeOK, workerVars, LiveWorker, Verifying
  <2> QED BY <2>1, <2>2
<1>5. IntakeTypeOK'
  <2>1. at' \in [Requests -> IntakeSteps] /\ held' \in [Requests -> Deliveries \cup {Nothing}]
    BY <1>1, <1>2 DEF IntakeTypeOK, IntakeSteps
  <2>2. /\ where' \in [Deliveries -> Places]
        /\ op' \in [Deliveries -> {"none"} \cup OpenIntake \cup IntakeTerminal]
        /\ previewer' \in [Deliveries -> {"none", "done"} \cup LiveWorker]
    BY <1>1, <1>2 DEF IntakeTypeOK, Places, OpenIntake, LiveWorker
  <2>3. instance' \in [Deliveries -> Requests]
    <3>1. instance \in [Deliveries -> Requests]
      BY <1>1 DEF IntakeTypeOK
    <3> QED BY <1>2, <3>1
  <2>4. bound' \subseteq Deliveries
    BY <1>1, <1>2, <1>3 DEF IntakeTypeOK
  <2> QED BY <1>1, <1>2, <2>1, <2>2, <2>3, <2>4 DEF IntakeTypeOK
<1>6. \A r \in Requests : held'[r] # Nothing <=> Taking(r)'
  BY <1>1, <1>2 DEF Orderly, Taking, IntakeTypeOK
<1>7. \A e \in Deliveries : e # d => SameAttached(e)
  BY <1>1, <1>2 DEF SameAttached, IntakeTypeOK
<1>8. OneImportPerDelivery'
  <2> SUFFICES ASSUME NEW r \in Requests, held'[r] # Nothing
               PROVE  /\ op'[held'[r]] = "none" /\ where'[held'[r]] = "staged"
                      /\ \A s \in Requests : held'[s] = held'[r] => s = r
    BY DEF OneImportPerDelivery
  <2>1. \A s \in Requests : held'[s] = IF s = q THEN Nothing ELSE held[s]
    BY <1>1, <1>2 DEF IntakeTypeOK
  <2>2. r # q /\ held[r] # Nothing /\ held[r] \in Deliveries /\ held[r] # d
    BY <1>1, <1>3, <2>1 DEF IntakeTypeOK
  <2> QED BY <1>7, <2>1, <2>2 DEF Orderly, OneImportPerDelivery, SameAttached
<1>9. \A e \in Deliveries : Attached(e)'
  BY <1>4, <1>7, SameStaysAttached DEF Orderly
<1> QED BY <1>5, <1>6, <1>8, <1>9 DEF Orderly

\* A step of one delivery that nobody holds.
LEMMA OneDeliveryKeeps ==
  ASSUME Orderly, NEW d \in Deliveries, UNCHANGED requestVars, IntakeTypeOK', Attached(d)',
         \A q \in Requests : held[q] # d,
         \A e \in Deliveries : e # d => SameAttached(e)
  PROVE  Orderly'
<1>1. \A e \in Deliveries : Attached(e)'
  BY SameStaysAttached DEF Orderly
<1>2. OneImportPerDelivery'
  BY DEF Orderly, OneImportPerDelivery, SameAttached, requestVars, IntakeTypeOK
<1>3. \A q \in Requests : held'[q] # Nothing <=> Taking(q)'
  BY DEF Orderly, requestVars, Taking
<1> QED BY <1>1, <1>2, <1>3 DEF Orderly

\* Whoever delivers, cancels or expires touches nothing a request holds.
LEMMA OutsideKeeps ==
  ASSUME Orderly, NEW d \in Deliveries, Delivered(d) \/ Cancelled(d) \/ IntakeRetention(d)
  PROVE  Orderly'
<1>1. IntakeTypeOK /\ Attached(d) /\ UNCHANGED requestVars
  BY DEF Orderly, Delivered, Cancelled, IntakeRetention
<1>2. \A q \in Requests : held[q] # d
  BY NothingIsNoDelivery DEF Orderly, OneImportPerDelivery, Delivered, Cancelled,
     IntakeRetention, IntakeExpired, OpenIntake, IntakeTerminal
<1>3. CASE Delivered(d)
  <2>1. IntakeTypeOK'
    BY <1>1, <1>3 DEF Delivered, Moves, IntakeTypeOK, requestVars, workerVars, Places
  <2>2. Attached(d)' /\ \A e \in Deliveries : e # d => SameAttached(e)
    BY <1>1, <1>3 DEF Delivered, Moves, Attached, SameAttached, IntakeTypeOK, workerVars,
       LiveWorker, Verifying
  <2> QED BY <1>1, <1>2, <2>1, <2>2, OneDeliveryKeeps
<1>4. CASE Cancelled(d)
  <2>1. IntakeTypeOK'
    BY <1>1, <1>4 DEF Cancelled, IntakeBecomes, IntakeTypeOK, requestVars, IntakeTerminal
  <2>2. Attached(d)' /\ \A e \in Deliveries : e # d => SameAttached(e)
    BY <1>1, <1>4 DEF Cancelled, IntakeBecomes, Attached, SameAttached, IntakeTypeOK, OpenIntake,
       LiveWorker, Verifying
  <2> QED BY <1>1, <1>2, <2>1, <2>2, OneDeliveryKeeps
<1>5. CASE IntakeRetention(d)
  <2>1. IntakeTypeOK'
    BY <1>1, <1>5 DEF IntakeRetention, Moves, IntakeTypeOK, requestVars, workerVars, Places
  <2>2. Attached(d)' /\ \A e \in Deliveries : e # d => SameAttached(e)
    BY <1>1, <1>5 DEF IntakeRetention, IntakeExpired, IntakeTerminal, Moves, Attached,
       SameAttached, IntakeTypeOK, workerVars, LiveWorker, Verifying
  <2> QED BY <1>1, <1>2, <2>1, <2>2, OneDeliveryKeeps
<1> QED BY <1>3, <1>4, <1>5

\* A preview worker keeps its files until it ends, and ends READY only with a preview.
LEMMA PreviewKeeps ==
  ASSUME Orderly, NEW d \in Deliveries,
         \/ WorkerStarts(d) \/ WorkerClassifies(d) \/ WorkerRejects(d) \/ PreviewPersists(d)
         \/ WorkerFails(d) \/ WorkerFindsChanged(d)
  PROVE  Orderly'
<1>0. IntakeTypeOK
  BY DEF Orderly
<1>1. /\ UNCHANGED <<requestVars, bound, instance, accepting>>
      /\ previewer[d] \in LiveWorker
  BY DEF WorkerStarts, WorkerClassifies, WorkerRejects, PreviewPersists, WorkerFails,
     WorkerFindsChanged, workerVars, LiveWorker, Verifying
<1>2. /\ op[d] \in {"UPLOADED", "DISCOVERED", "VERIFYING"} /\ d \in bound
      /\ where[d] = "staged"
  BY <1>1 DEF Orderly, Attached
<1>3. \A q \in Requests : held[q] # d
  BY <1>2, NothingIsNoDelivery DEF Orderly, OneImportPerDelivery
<1>4. /\ \E s \in LiveWorker \cup {"done"} : previewer' = [previewer EXCEPT ![d] = s]
      /\ verifier' = verifier \/ verifier' = [verifier EXCEPT ![d] = "running"]
      /\ op' = op \/ \E s \in OpenIntake \cup IntakeTerminal : op' = [op EXCEPT ![d] = s]
      /\ where' = where \/ where' = [where EXCEPT ![d] = "gone"]
  BY DEF WorkerStarts, WorkerClassifies, WorkerRejects, PreviewPersists, WorkerFails,
     WorkerFindsChanged, IntakeBecomes, Moves, LiveWorker, Verifying, OpenIntake, IntakeTerminal,
     workerVars
<1>5. /\ captured' \in [Requests -> Deliveries \cup {Nothing}]
      /\ preview' \in [Deliveries -> Deliveries \cup {Nothing}]
      /\ \A e \in Deliveries : e # d => preview'[e] = preview[e]
  BY <1>0 DEF WorkerStarts, WorkerClassifies, WorkerRejects, PreviewPersists, WorkerFails,
     WorkerFindsChanged, IntakeTypeOK, workerVars
<1>6. IntakeTypeOK'
  <2>1. /\ previewer' \in [Deliveries -> {"none", "done"} \cup LiveWorker]
        /\ verifier' \in [Deliveries -> {"none", "running", "valid", "invalid"}]
        /\ op' \in [Deliveries -> {"none"} \cup OpenIntake \cup IntakeTerminal]
        /\ where' \in [Deliveries -> Places]
    BY <1>0, <1>4 DEF IntakeTypeOK, Places
  <2> QED BY <1>0, <1>1, <1>5, <2>1 DEF IntakeTypeOK, requestVars
<1>7. \A e \in Deliveries : e # d => SameAttached(e)
  BY <1>0, <1>1, <1>4, <1>5 DEF SameAttached, IntakeTypeOK
<1>8. Attached(d)'
  <2>1. CASE WorkerStarts(d) \/ WorkerClassifies(d)
    BY <1>0, <1>1, <1>2, <2>1 DEF WorkerStarts, WorkerClassifies, IntakeBecomes, Attached,
       IntakeTypeOK
  <2>2. CASE PreviewPersists(d)
    BY <1>0, <1>1, <1>2, <2>2 DEF PreviewPersists, IntakeBecomes, Attached, IntakeTypeOK,
       LiveWorker, Verifying
  <2>3. CASE WorkerRejects(d) \/ WorkerFails(d) \/ WorkerFindsChanged(d)
    BY <1>0, <1>1, <1>2, <2>3 DEF WorkerRejects, WorkerFails, WorkerFindsChanged, IntakeBecomes,
       Moves, Attached, IntakeTypeOK, LiveWorker, Verifying
  <2> QED BY <2>1, <2>2, <2>3
<1> QED BY <1>1, <1>3, <1>6, <1>7, <1>8, OneDeliveryKeeps

\* The verifying thread and the mode barrier change nothing a delivery is judged by.
LEMMA AsideKeeps ==
  ASSUME Orderly, SwitchMoves \/ (\E d \in Deliveries : VerifyEnds(d)) \/ UNCHANGED intakeVars
  PROVE  Orderly'
<1>1. UNCHANGED <<at, todo, held, where, op, bound, previewer, instance, preview>>
  BY DEF SwitchMoves, VerifyEnds, intakeVars, requestVars, workerVars
<1>2. /\ captured' \in [Requests -> Deliveries \cup {Nothing}]
      /\ verifier' \in [Deliveries -> {"none", "running", "valid", "invalid"}]
      /\ accepting' \in BOOLEAN
  <2>1. CASE SwitchMoves \/ UNCHANGED intakeVars
    BY <2>1 DEF Orderly, IntakeTypeOK, SwitchMoves, intakeVars, workerVars
  <2>2. ASSUME NEW d \in Deliveries, VerifyEnds(d) PROVE <1>2!:
    BY <2>2 DEF Orderly, IntakeTypeOK, VerifyEnds
  <2> QED BY <2>1, <2>2
<1>3. IntakeTypeOK'
  BY <1>1, <1>2 DEF Orderly, IntakeTypeOK
<1>4. \A d \in Deliveries : Attached(d)'
  BY <1>1 DEF Orderly, Attached
<1> QED BY <1>1, <1>3, <1>4 DEF Orderly, OneImportPerDelivery, Taking

\* The process dies, between two steps or inside one, and starts again: nobody holds
\* anything, what was being verified has failed, what is READY stays.
LEMMA DeathKeeps ==
  ASSUME Orderly,
         \/ IntakeRestart \/ \E q \in Requests : DiesCreating(q)
         \/ \E d \in Deliveries : DiesPersisting(d) \/ DiesRejecting(d)
  PROVE  Orderly'
<1>0. IntakeTypeOK
  BY DEF Orderly
<1>1. Forgets /\ where' = where
  BY DEF IntakeRestart, DiesCreating, DiesPersisting, DiesRejecting
<1>2. /\ \A q \in Requests : held'[q] = Nothing /\ ~Taking(q)'
      /\ at' \in [Requests -> IntakeSteps]
      /\ previewer' \in [Deliveries -> {"none", "done"}]
      /\ \A d \in Deliveries : previewer[d] = "none" <=> previewer'[d] = "none"
      /\ UNCHANGED <<instance, accepting>>
  BY <1>0, <1>1 DEF Forgets, Taking, IntakeTypeOK, IntakeSteps, LiveWorker, Verifying
<1>3. \A d \in Deliveries :
        /\ ReconciledOp(d) \in {"none"} \cup OpenIntake \cup IntakeTerminal
        /\ ReconciledOp(d) = "none" => op[d] = "none"
        /\ ReconciledOp(d) = "READY" => op[d] = "READY"
        /\ where[d] \in {"outside", "incoming"} => ReconciledOp(d) = "none"
  BY <1>0 DEF Orderly, Attached, ReconciledOp, IntakeTypeOK, IntakeTerminal, LiveWorker, Verifying
<1>4. /\ op' \in [Deliveries -> {"none"} \cup OpenIntake \cup IntakeTerminal]
      /\ bound \subseteq bound' /\ bound' \subseteq Deliveries
      /\ preview' \in [Deliveries -> Deliveries \cup {Nothing}]
      /\ \A d \in Deliveries :
           /\ preview[d] # Nothing => preview'[d] # Nothing
           /\ \/ op'[d] = ReconciledOp(d) /\ (d \in bound' => d \in bound)
              \/ op'[d] \in {"UPLOADED", "DISCOVERED", "REJECTED"} /\ where[d] = "staged"
  <2>1. CASE IntakeRestart
    BY <1>0, <1>3, <2>1 DEF IntakeRestart, IntakeTypeOK
  <2>2. ASSUME NEW q \in Requests, DiesCreating(q) PROVE <1>4!:
    <3>1. held[q] \in Deliveries /\ where[held[q]] = "staged"
      BY <2>2, HeldFacts DEF DiesCreating
    <3>2. InitialStatus(q) \in {"UPLOADED", "DISCOVERED"}
      BY DEF InitialStatus
    <3> QED BY <1>0, <1>3, <2>2, <3>1, <3>2 DEF DiesCreating, IntakeTypeOK, OpenIntake
  <2>3. ASSUME NEW e \in Deliveries, DiesPersisting(e) PROVE <1>4!:
    BY <1>0, <1>3, <2>3 DEF DiesPersisting, IntakeTypeOK
  <2>4. ASSUME NEW e \in Deliveries, DiesRejecting(e) PROVE <1>4!:
    <3>1. where[e] = "staged"
      BY <2>4 DEF DiesRejecting, Orderly, Attached, LiveWorker, Verifying
    <3> QED BY <1>0, <1>3, <2>4, <3>1 DEF DiesRejecting, IntakeTypeOK, IntakeTerminal
  <2> QED BY <2>1, <2>2, <2>3, <2>4
<1>5. IntakeTypeOK'
  <2>1. /\ todo' \in [Requests -> SUBSET Deliveries]
        /\ held' \in [Requests -> Deliveries \cup {Nothing}]
        /\ captured' \in [Requests -> Deliveries \cup {Nothing}]
        /\ verifier' \in [Deliveries -> {"none", "running", "valid", "invalid"}]
    BY <1>1 DEF Forgets
  <2> QED BY <1>0, <1>1, <1>2, <1>4, <2>1 DEF IntakeTypeOK
<1>6. ASSUME NEW d \in Deliveries PROVE Attached(d)'
  BY <1>1, <1>2, <1>3, <1>4 DEF Orderly, Attached, LiveWorker, Verifying
<1> QED BY <1>2, <1>5, <1>6 DEF Orderly, OneImportPerDelivery

\* Every state of the intake is orderly (import_orchestrator.py).
THEOREM AlwaysOrderly == IntakeSpec => []Orderly
<1>1. IntakeInit => Orderly
  <2> SUFFICES ASSUME IntakeInit PROVE Orderly
    OBVIOUS
  <2>1. (CHOOSE q \in Requests : TRUE) \in Requests
    BY DeliveriesAssumption
  <2>2. IntakeTypeOK
    BY <2>1 DEF IntakeInit, IntakeTypeOK, IntakeSteps, Places
  <2> QED BY <2>2 DEF IntakeInit, Orderly, OneImportPerDelivery, Attached, Taking, LiveWorker,
             Verifying
<1>2. Orderly /\ [IntakeNext]_intakeVars => Orderly'
  BY LookingKeeps, TakingKeeps, LettingGoKeeps, OutsideKeeps, PreviewKeeps, AsideKeeps,
     DeathKeeps DEF IntakeNext
<1> QED BY <1>1, <1>2, PTL DEF IntakeSpec

\* One delivery is one import, however many requests list it (discover_ready,
\* accept_upload, _create_intake_operation).
THEOREM OneImportHolds == IntakeSpec => []OneImportPerDelivery
<1>1. Orderly => OneImportPerDelivery
  BY DEF Orderly
<1> QED BY <1>1, AlwaysOrderly, PTL

\* The files of a preview worker are not taken from under it (import_orchestrator.py,
\* storage_retention.py).
THEOREM BundleStaysWithWorker == IntakeSpec => []WorkerHasBundle
<1>1. Orderly => WorkerHasBundle
  BY DEF Orderly, Attached, WorkerHasBundle
<1> QED BY <1>1, AlwaysOrderly, PTL

\* What is READY has its preview and its files (_run_preview, _persist_preview).
THEOREM PreparedHolds == IntakeSpec => []ReadyIsPrepared
<1>1. Orderly => ReadyIsPrepared
  BY DEF Orderly, Attached, ReadyIsPrepared
<1> QED BY <1>1, AlwaysOrderly, PTL
-------------------------------------------------------------------------------
\* What TARGET accepts.

\* f is a function, whatever its values are.
IsFunction(f) == f = [x \in DOMAIN f |-> f[x]]

\* The delivery d as build_bundle publishes it.
PublishedAs(d, key, payload) ==
  [archive |-> Archive(d, key, payload), sidecar |-> Sidecar(d, Archive(d, key, payload)),
   handoff |-> Handoff(d, key, Archive(d, key, payload))]

\* A record of the history is what build_bundle publishes for some payload.
Genuine(d) ==
  built[d] # NoRecord =>
    \E key \in SigningKeys, payload \in Payloads :
      Stageable(payload) /\ built[d] = PublishedAs(d, key, payload)

\* The signature g was made by build_bundle, whatever it lies beside now.
MadeBySource(g) == \E d \in Parcels : built[d] # NoRecord /\ g = built[d].archive.signature

\* An archive of its four parts.
ArchiveOf(m, g, c, f) == [manifest |-> m, signature |-> g, checksums |-> c, files |-> f]

\* An archive with a signature of SOURCE, checksums and files; they need not fit.
Loose(a) ==
  \E m, g, c, f :
    /\ a = ArchiveOf(m, g, c, f) /\ MadeBySource(g)
    /\ IsFunction(c) /\ DOMAIN c \subseteq Paths /\ IsFunction(f)

\* Such an archive with some sidecar and some handoff.
Delivery(s) ==
  \E a, sidecar, handoff :
    s = [archive |-> a, sidecar |-> sidecar, handoff |-> handoff] /\ Loose(a)

\* Manifest, key and files are those of one bundle that SOURCE has built.
Matches(manifest, key, files) ==
  \E d \in Parcels :
    /\ built[d] # NoRecord
    /\ manifest = built[d].archive.manifest
    /\ key = built[d].archive.signature.key
    /\ files = built[d].archive.files

\* The inductive invariant of the bundle's way.
Vouched ==
  /\ IsFunction(built) /\ DOMAIN built = Parcels
  /\ IsFunction(medium) /\ DOMAIN medium = Parcels
  /\ \A d \in Parcels : Genuine(d)
  /\ \A d \in Parcels : medium[d] # NoRecord => Delivery(medium[d])
  /\ staged # NoRecord => Loose(staged.archive)
  /\ accepted # NoRecord =>
       staged # NoRecord /\ Matches(accepted.manifest, accepted.key, staged.archive.files)
  /\ unpacking # NoRecord => accepted # NoRecord
  /\ unpacked # NoRecord => accepted # NoRecord /\ unpacked = staged.archive.files

-------------------------------------------------------------------------------
\* Verification.

\* The parts of what build_bundle publishes.
LEMMA PublishedParts ==
  ASSUME NEW d, NEW key, NEW payload
  PROVE  /\ PublishedAs(d, key, payload).archive =
              ArchiveOf(Manifest(d, payload), Signature(key, Manifest(d, payload)),
                        payload, payload)
         /\ PublishedAs(d, key, payload).archive.signature = Signature(key, Manifest(d, payload))
         /\ PublishedAs(d, key, payload).archive.manifest = Manifest(d, payload)
         /\ PublishedAs(d, key, payload).archive.files = payload
BY DEF PublishedAs, Archive, ArchiveOf

\* A payload is a function from paths that lie under roots.
LEMMA PayloadFacts ==
  ASSUME NEW payload \in Payloads, Stageable(payload)
  PROVE  /\ IsFunction(payload) /\ DOMAIN payload \subseteq Paths
         /\ \A p \in DOMAIN payload : p \in PathsOf(RootOf[p]) /\ RootOf[p] \in Roots
<1>1. PICK paths \in SUBSET Paths : payload \in [paths -> Bytes]
  BY BundleAssumption
<1> QED BY <1>1, BundleAssumption DEF IsFunction, Stageable, PathsOf

\* If the descriptors of a payload are those of a list of checksums, and both lists lie
\* under the roots of the descriptors, they are the same list.
LEMMA DescriptorsDetermine ==
  ASSUME NEW payload \in Payloads, Stageable(payload), NEW sums, IsFunction(sums),
         \A root \in DOMAIN Descriptors(payload) : Descriptors(payload)[root] = Stats(root, sums),
         \A p \in DOMAIN sums : p \in Paths /\ RootOf[p] \in DOMAIN Descriptors(payload)
  PROVE  sums = payload
<1> DEFINE roots == {RootOf[p] : p \in DOMAIN payload}
<1>1. /\ DOMAIN Descriptors(payload) = roots
      /\ \A root \in roots : Descriptors(payload)[root] = Stats(root, payload)
  BY DEF Descriptors
<1>2. \A root \in roots : Stats(root, payload) = Stats(root, sums)
  BY <1>1
<1>3. ASSUME NEW root \in roots
      PROVE  /\ PathsOf(root) \cap DOMAIN payload = PathsOf(root) \cap DOMAIN sums
             /\ \A p \in PathsOf(root) \cap DOMAIN payload : payload[p] = sums[p]
  <2>1. /\ DOMAIN Stats(root, payload) = PathsOf(root) \cap DOMAIN payload
        /\ DOMAIN Stats(root, sums) = PathsOf(root) \cap DOMAIN sums
        /\ \A p \in PathsOf(root) \cap DOMAIN payload : Stats(root, payload)[p] = payload[p]
        /\ \A p \in PathsOf(root) \cap DOMAIN sums : Stats(root, sums)[p] = sums[p]
    BY DEF Stats
  <2> QED BY <1>2, <2>1
<1>4. \A p \in DOMAIN payload : RootOf[p] \in roots /\ p \in PathsOf(RootOf[p])
  BY PayloadFacts
<1>5. \A p \in DOMAIN sums : RootOf[p] \in roots /\ p \in PathsOf(RootOf[p])
  BY <1>1 DEF PathsOf
<1> HIDE DEF roots
<1>6. DOMAIN sums = DOMAIN payload /\ \A p \in DOMAIN payload : sums[p] = payload[p]
  BY <1>3, <1>4, <1>5
<1> QED BY <1>6, PayloadFacts DEF IsFunction

\* What a verification lets pass, whatever keys are trusted, is one delivery of SOURCE:
\* the signature binds the manifest, the manifest the checksums, the checksums the files.
LEMMA VerifiedIsBuilt ==
  ASSUME Vouched, NEW a, Loose(a), NEW keys, BundleVerified(a, keys)
  PROVE  Matches(a.manifest, a.signature.key, a.files)
<1>1. PICK m, g, c, f :
        /\ a = ArchiveOf(m, g, c, f) /\ MadeBySource(g)
        /\ IsFunction(c) /\ DOMAIN c \subseteq Paths /\ IsFunction(f)
  BY DEF Loose
<1>2. a.manifest = m /\ a.signature = g /\ a.checksums = c /\ a.files = f
  BY <1>1 DEF ArchiveOf
<1>3. PICK d \in Parcels : built[d] # NoRecord /\ g = built[d].archive.signature
  BY <1>1 DEF MadeBySource
<1>4. PICK key \in SigningKeys, payload \in Payloads :
        Stageable(payload) /\ built[d] = PublishedAs(d, key, payload)
  BY <1>3 DEF Vouched, Genuine
<1>5. m = Manifest(d, payload) /\ g = Signature(key, m)
  <2>1. g = Signature(key, Manifest(d, payload))
    BY <1>3, <1>4, PublishedParts
  <2>2. g.text = m
    BY <1>2 DEF BundleVerified, SignatureTrusted
  <2> QED BY <2>1, <2>2 DEF Signature
<1>6. m.artifacts = Descriptors(payload)
  BY <1>5 DEF Manifest
<1>7. c = payload
  <2>1. \A root \in DOMAIN Descriptors(payload) : Descriptors(payload)[root] = Stats(root, c)
    BY <1>2, <1>6 DEF BundleVerified, DescriptorsMatch
  <2>2. \A p \in DOMAIN c : p \in Paths /\ RootOf[p] \in DOMAIN Descriptors(payload)
    BY <1>1, <1>2, <1>6 DEF BundleVerified, LayoutDeclared
  <2> QED BY <1>1, <1>4, <2>1, <2>2, DescriptorsDetermine
<1>8. f = c
  BY <1>1, <1>2 DEF BundleVerified, LayoutDeclared, HashesMatch, IsFunction
<1>9. /\ built[d].archive.manifest = m /\ built[d].archive.signature = g
      /\ built[d].archive.files = f
  BY <1>4, <1>5, <1>7, <1>8, PublishedParts
<1> QED BY <1>2, <1>3, <1>9 DEF Matches
-------------------------------------------------------------------------------
\* Steps.

\* One entry of a table is replaced.
LEMMA EntryReplaced ==
  ASSUME NEW f, IsFunction(f), NEW d \in DOMAIN f, NEW x
  PROVE  /\ IsFunction([f EXCEPT ![d] = x]) /\ DOMAIN [f EXCEPT ![d] = x] = DOMAIN f
         /\ [f EXCEPT ![d] = x][d] = x
         /\ \A e \in DOMAIN f : e # d => [f EXCEPT ![d] = x][e] = f[e]
BY DEF IsFunction

\* SOURCE publishes: nothing published before changes.
LEMMA BuildingKeeps ==
  ASSUME Vouched, NEW d \in Parcels, NEW key \in SigningKeys, NEW payload \in Payloads,
         Builds(d, key, payload)
  PROVE  Vouched'
<1> DEFINE new == PublishedAs(d, key, payload)
<1>1. /\ built[d] = NoRecord /\ staged = NoRecord /\ Stageable(payload)
      /\ built' = [built EXCEPT ![d] = new] /\ medium' = [medium EXCEPT ![d] = new]
      /\ UNCHANGED <<damages, trusted, staged, accepted, unpacking, unpacked>>
  BY DEF Builds, PublishedAs
<1>2. new.archive = ArchiveOf(Manifest(d, payload), Signature(key, Manifest(d, payload)),
                             payload, payload)
      /\ new.archive.signature = Signature(key, Manifest(d, payload))
  BY PublishedParts
<1>3. new = [archive |-> new.archive, sidecar |-> new.sidecar, handoff |-> new.handoff]
  BY DEF PublishedAs
<1> HIDE DEF new
<1>4. /\ IsFunction(built') /\ DOMAIN built' = Parcels
      /\ IsFunction(medium') /\ DOMAIN medium' = Parcels
      /\ built'[d] = new /\ medium'[d] = new
      /\ \A e \in Parcels : e # d => built'[e] = built[e] /\ medium'[e] = medium[e]
  BY <1>1, EntryReplaced DEF Vouched
<1>5. \A e \in Parcels : Genuine(e)'
  BY <1>1, <1>4 DEF Vouched, Genuine, new
<1>6. \A g : MadeBySource(g) => MadeBySource(g)'
  BY <1>1, <1>4 DEF MadeBySource
<1>7. \A e \in Parcels : medium'[e] # NoRecord => Delivery(medium[e])' \/ e = d
  <2> SUFFICES ASSUME NEW e \in Parcels, medium'[e] # NoRecord, e # d
               PROVE  Delivery(medium[e])'
    OBVIOUS
  <2>1. Delivery(medium[e]) /\ medium'[e] = medium[e]
    BY <1>4 DEF Vouched
  <2> QED BY <1>6, <2>1 DEF Delivery, Loose
<1>8. new # NoRecord => Delivery(medium[d])'
  <2> SUFFICES ASSUME new # NoRecord PROVE Delivery(medium[d])'
    OBVIOUS
  <2>1. MadeBySource(Signature(key, Manifest(d, payload)))'
    BY <1>2, <1>4 DEF MadeBySource
  <2>2. IsFunction(payload) /\ DOMAIN payload \subseteq Paths
    BY <1>1, PayloadFacts
  <2>3. Loose(new.archive)'
    BY <1>2, <2>1, <2>2 DEF Loose
  <2> QED BY <1>3, <1>4, <2>3 DEF Delivery
<1> QED BY <1>1, <1>4, <1>5, <1>7, <1>8 DEF Vouched

\* An accident on the medium leaves a delivery with a signature of SOURCE.
LEMMA HarmKeeps ==
  ASSUME Vouched, NEW d \in Parcels, NEW s, Harmed(d, s), Delivery(s)
  PROVE  Vouched'
<1>1. /\ medium' = [medium EXCEPT ![d] = s] /\ staged = NoRecord
      /\ UNCHANGED <<built, trusted, staged, accepted, unpacking, unpacked>>
  BY DEF Harmed
<1>2. /\ IsFunction(medium') /\ DOMAIN medium' = Parcels /\ medium'[d] = s
      /\ \A e \in Parcels : e # d => medium'[e] = medium[e]
  BY <1>1, EntryReplaced DEF Vouched
<1>3. \A a : Loose(a) => Loose(a)'
  BY <1>1 DEF Loose, MadeBySource
<1>4. ASSUME NEW e \in Parcels, medium'[e] # NoRecord PROVE Delivery(medium[e])'
  <2>1. Delivery(medium'[e])
    BY <1>2, <1>4 DEF Vouched
  <2> QED BY <1>3, <2>1 DEF Delivery
<1>5. \A e \in Parcels : Genuine(e)'
  BY <1>1 DEF Vouched, Genuine
<1> QED BY <1>1, <1>2, <1>4, <1>5 DEF Vouched

\* Every accident is of that kind: a file changes or disappears, a part is taken from
\* another delivery, the handoff is lost.
LEMMA AccidentsAreLoose ==
  ASSUME Vouched, NEW d \in Parcels, FileDamaged(d) \/ FileLost(d) \/ HandoffLost(d)
                                       \/ \E e \in Parcels : PartsMixed(d, e)
  PROVE  \E s : Harmed(d, s) /\ Delivery(s)
<1>0. medium[d] # NoRecord
  BY DEF FileDamaged, FileLost, HandoffLost, PartsMixed, Harmed
<1>1. PICK m, g, c, f, sidecar, handoff :
        /\ medium[d] = [archive |-> ArchiveOf(m, g, c, f), sidecar |-> sidecar,
                        handoff |-> handoff]
        /\ MadeBySource(g) /\ IsFunction(c) /\ DOMAIN c \subseteq Paths /\ IsFunction(f)
  BY <1>0 DEF Vouched, Delivery, Loose
<1>2. ASSUME NEW new, IsFunction(new), Harmed(d, WithFiles(medium[d], new))
      PROVE  \E s : Harmed(d, s) /\ Delivery(s)
  <2>1. WithFiles(medium[d], new) = [archive |-> ArchiveOf(m, g, c, new), sidecar |-> sidecar,
                                    handoff |-> handoff]
    BY <1>1 DEF WithFiles, ArchiveOf
  <2> QED BY <1>1, <1>2, <2>1 DEF Delivery, Loose
<1>3. CASE FileDamaged(d)
  <2>1. PICK p \in Paths, b \in Bytes :
          Harmed(d, WithFiles(medium[d], [q \in DOMAIN medium[d].archive.files \cup {p} |->
                                 IF q = p THEN b ELSE medium[d].archive.files[q]]))
    BY <1>3 DEF FileDamaged
  <2> DEFINE new == [q \in DOMAIN medium[d].archive.files \cup {p} |->
                       IF q = p THEN b ELSE medium[d].archive.files[q]]
  <2>2. IsFunction(new)
    BY DEF IsFunction
  <2> HIDE DEF new
  <2> QED BY <1>2, <2>1, <2>2 DEF new
<1>4. CASE FileLost(d)
  <2>1. PICK p \in Paths :
          Harmed(d, WithFiles(medium[d], [q \in DOMAIN medium[d].archive.files \ {p} |->
                                 medium[d].archive.files[q]]))
    BY <1>4 DEF FileLost
  <2> DEFINE new == [q \in DOMAIN medium[d].archive.files \ {p} |-> medium[d].archive.files[q]]
  <2>2. IsFunction(new)
    BY DEF IsFunction
  <2> HIDE DEF new
  <2> QED BY <1>2, <2>1, <2>2 DEF new
<1>5. CASE HandoffLost(d)
  <2>1. [medium[d] EXCEPT !.handoff = NoRecord]
          = [archive |-> ArchiveOf(m, g, c, f), sidecar |-> sidecar, handoff |-> NoRecord]
    BY <1>1
  <2> QED BY <1>1, <1>5, <2>1 DEF HandoffLost, Delivery, Loose
<1>6. ASSUME NEW e \in Parcels, PartsMixed(d, e) PROVE \E s : Harmed(d, s) /\ Delivery(s)
  <2>1. medium[e] # NoRecord
    BY <1>6 DEF PartsMixed
  <2>2. PICK m2, g2, c2, f2, sidecar2, handoff2 :
          /\ medium[e] = [archive |-> ArchiveOf(m2, g2, c2, f2), sidecar |-> sidecar2,
                          handoff |-> handoff2]
          /\ MadeBySource(g2) /\ IsFunction(c2) /\ DOMAIN c2 \subseteq Paths /\ IsFunction(f2)
    BY <2>1 DEF Vouched, Delivery, Loose
  <2>3. ASSUME NEW part \in {"manifest", "signature", "checksums", "files"},
               Harmed(d, [medium[d] EXCEPT !.archive[part] = medium[e].archive[part]])
        PROVE  \E s : Harmed(d, s) /\ Delivery(s)
    <3>1. \/ /\ part = "manifest"
             /\ [medium[d] EXCEPT !.archive[part] = medium[e].archive[part]]
                  = [archive |-> ArchiveOf(m2, g, c, f), sidecar |-> sidecar, handoff |-> handoff]
          \/ /\ part = "signature"
             /\ [medium[d] EXCEPT !.archive[part] = medium[e].archive[part]]
                  = [archive |-> ArchiveOf(m, g2, c, f), sidecar |-> sidecar, handoff |-> handoff]
          \/ /\ part = "checksums"
             /\ [medium[d] EXCEPT !.archive[part] = medium[e].archive[part]]
                  = [archive |-> ArchiveOf(m, g, c2, f), sidecar |-> sidecar, handoff |-> handoff]
          \/ /\ part = "files"
             /\ [medium[d] EXCEPT !.archive[part] = medium[e].archive[part]]
                  = [archive |-> ArchiveOf(m, g, c, f2), sidecar |-> sidecar, handoff |-> handoff]
      BY <1>1, <2>2 DEF ArchiveOf
    <3> QED BY <1>1, <2>2, <2>3, <3>1 DEF Delivery, Loose
  <2>4. ASSUME NEW part \in {"archive", "sidecar", "handoff"},
               Harmed(d, [medium[d] EXCEPT ![part] = medium[e][part]])
        PROVE  \E s : Harmed(d, s) /\ Delivery(s)
    <3>1. \/ /\ part = "archive"
             /\ [medium[d] EXCEPT ![part] = medium[e][part]]
                  = [archive |-> ArchiveOf(m2, g2, c2, f2), sidecar |-> sidecar,
                     handoff |-> handoff]
          \/ /\ part = "sidecar"
             /\ [medium[d] EXCEPT ![part] = medium[e][part]]
                  = [archive |-> ArchiveOf(m, g, c, f), sidecar |-> sidecar2,
                     handoff |-> handoff]
          \/ /\ part = "handoff"
             /\ [medium[d] EXCEPT ![part] = medium[e][part]]
                  = [archive |-> ArchiveOf(m, g, c, f), sidecar |-> sidecar,
                     handoff |-> handoff2]
      BY <1>1, <2>2
    <3> QED BY <1>1, <2>2, <2>4, <3>1 DEF Delivery, Loose
  <2> QED BY <1>6, <2>3, <2>4 DEF PartsMixed
<1> QED BY <1>3, <1>4, <1>5, <1>6

\* TARGET stages, verifies and extracts.
LEMMA ReceivingKeeps ==
  ASSUME Vouched,
         \/ \E d \in Parcels : StagesWithHandoff(d) \/ StagesAlone(d)
         \/ VerifiesStaged \/ RefusesStaged
         \/ ExtractionBegins \/ ExtractsMember \/ ExtractionPublished \/ ExtractionDies
         \/ \E key \in SigningKeys : TrustChanges(key)
         \/ UNCHANGED bundleVars
  PROVE  Vouched'
<1>1. UNCHANGED <<built, medium>>
  BY DEF StagesWithHandoff, StagesAlone, Stages, VerifiesStaged, RefusesStaged, ExtractionBegins,
     ExtractsMember, ExtractionPublished, ExtractionDies, TrustChanges, bundleVars
<1>2. /\ IsFunction(built') /\ DOMAIN built' = Parcels
      /\ IsFunction(medium') /\ DOMAIN medium' = Parcels
      /\ \A d \in Parcels : Genuine(d)'
      /\ \A d \in Parcels : medium'[d] # NoRecord => Delivery(medium[d])'
  BY <1>1 DEF Vouched, Genuine, Delivery, Loose, MadeBySource
<1>3. \A a : Loose(a) => Loose(a)'
  BY <1>1 DEF Loose, MadeBySource
<1>4. \A m, k, f : Matches(m, k, f) => Matches(m, k, f)'
  BY <1>1 DEF Matches
<1>5. ASSUME NEW d \in Parcels, StagesWithHandoff(d) \/ StagesAlone(d) PROVE Vouched'
  <2>1. /\ medium[d] # NoRecord /\ staged = NoRecord
        /\ UNCHANGED <<accepted, unpacking, unpacked>>
        /\ \E s : s.archive = medium[d].archive /\ staged'.archive = s.archive
    <3>1. CASE StagesWithHandoff(d)
      BY <3>1 DEF StagesWithHandoff, Stages
    <3>2. CASE StagesAlone(d)
      <4>1. medium[d] # NoRecord /\ Delivery(medium[d])
        BY <3>2 DEF StagesAlone, Vouched
      <4>2. [medium[d] EXCEPT !.sidecar = NoRecord].archive = medium[d].archive
        BY <4>1 DEF Delivery
      <4> QED BY <3>2, <4>1, <4>2 DEF StagesAlone, Stages
    <3> QED BY <1>5, <3>1, <3>2
  <2>2. Loose(staged'.archive)
    BY <2>1 DEF Vouched, Delivery
  <2> QED BY <1>2, <1>3, <2>1, <2>2 DEF Vouched
<1>6. CASE VerifiesStaged
  <2>1. /\ staged # NoRecord /\ accepted = NoRecord
        /\ accepted'.manifest = staged.archive.manifest
        /\ accepted'.key = staged.archive.signature.key
        /\ UNCHANGED <<staged, unpacking, unpacked>>
        /\ BundleVerified(staged.archive, trusted)
    BY <1>6 DEF VerifiesStaged
  <2>2. Matches(accepted'.manifest, accepted'.key, staged'.archive.files)
    BY <2>1, VerifiedIsBuilt DEF Vouched
  <2> QED BY <1>2, <1>3, <1>4, <2>1, <2>2 DEF Vouched
<1>7. CASE ExtractionPublished
  <2>1. /\ accepted # NoRecord /\ staged # NoRecord
        /\ unpacked' = [p \in DOMAIN staged.archive.files |-> staged.archive.files[p]]
        /\ unpacking' = NoRecord /\ UNCHANGED <<staged, accepted>>
    BY <1>7 DEF ExtractionPublished, AllExtracted, Vouched
  <2>2. unpacked' = staged.archive.files
    <3>1. PICK m, g, c, f : staged.archive = ArchiveOf(m, g, c, f) /\ IsFunction(f)
      BY <2>1 DEF Vouched, Loose
    <3>2. staged.archive.files = f
      BY <3>1 DEF ArchiveOf
    <3> QED BY <2>1, <3>1, <3>2 DEF IsFunction
  <2> QED BY <1>2, <1>3, <1>4, <2>1, <2>2 DEF Vouched
<1>8. CASE RefusesStaged \/ ExtractionBegins \/ ExtractsMember \/ ExtractionDies
  BY <1>2, <1>3, <1>4, <1>8 DEF Vouched, RefusesStaged, ExtractionBegins, ExtractsMember,
     ExtractionDies
<1>9. CASE (\E key \in SigningKeys : TrustChanges(key)) \/ UNCHANGED bundleVars
  <2>1. UNCHANGED <<staged, accepted, unpacking, unpacked>>
    BY <1>9 DEF TrustChanges, bundleVars
  <2> QED BY <1>2, <1>3, <1>4, <2>1 DEF Vouched
<1> QED BY <1>5, <1>6, <1>7, <1>8, <1>9

\* In every state, what TARGET has accepted is vouched for (bundle_package_service.py).
THEOREM AlwaysVouched == BundleSpec => []Vouched
<1>1. BundleInit => Vouched
  BY DEF BundleInit, Vouched, IsFunction, Genuine
<1>2. Vouched /\ [BundleNext]_bundleVars => Vouched'
  BY BuildingKeeps, HarmKeeps, AccidentsAreLoose, ReceivingKeeps DEF BundleNext
<1> QED BY <1>1, <1>2, PTL DEF BundleSpec

\* What TARGET accepts is, manifest and payload, one delivery as SOURCE has published it
\* (_verify_bundle).
THEOREM AcceptanceHolds == BundleSpec => []AcceptedIsBuilt
<1>1. Vouched => AcceptedIsBuilt
  BY DEF Vouched, Matches, AcceptedIsBuilt
<1> QED BY <1>1, AlwaysVouched, PTL

\* An extraction directory is whole (extract_verified_bundle).
THEOREM ExtractionHolds == BundleSpec => []UnpackedIsWhole
<1>1. Vouched => UnpackedIsWhole
  BY DEF Vouched, Matches, UnpackedIsWhole
<1> QED BY <1>1, AlwaysVouched, PTL

================================================================================
