------------------------- MODULE ImportExecutionProofs -------------------------
(***************************************************************************)
(* Imports execute the plan their start named and prove what they did, for *)
(* every set of imports, every number of artifacts, every mapping and      *)
(* every number of plans, whoever writes to the registry.                  *)
(***************************************************************************)
EXTENDS ImportExecution, TLAPS

\* What a start can name.
Agreements == [map : Mappings, flags : FlagChoices]

\* Only a claimed import has a worker.
UnclaimedIsIdle(o) == o \notin claimed => runner[o] = Idle

\* While it is claimed, the plan in force is the one the start named.
KeepsPlan(o) ==
  o \in claimed =>
    /\ agreed[o] \in Agreements /\ Usable(agreed[o].map)
    /\ plans[o] # <<>> /\ Current(o).map = agreed[o].map

\* The worker has loaded the plan of its start.
FollowsPlan(o) == runner[o].map # None => runner[o].map = agreed[o].map

\* Nothing has happened to an import that may still be started.
BeforeStart(o) ==
  state[o] \in {"none", "READY"} =>
    /\ runner[o].at \in {"none", "waiting"}
    /\ \A n \in Artifacts : outcome[o][n] = "PENDING"
    /\ receipt[o] = None /\ receiptFile[o] = None

\* Artifacts are settled in their order.
InOrder(o) ==
  /\ runner[o].at \in {"looking", "pushing", "landed"} =>
       /\ runner[o].n \in Artifacts
       /\ \A k \in Artifacts : k < runner[o].n => outcome[o][k] \in Settled
  /\ runner[o].at \in Synchronous => \A k \in Artifacts : outcome[o][k] \in Settled

\* What was touched was touched under an agreement.
TouchedIsUsable(o) ==
  (\E n \in Artifacts : outcome[o][n] # "PENDING") =>
    agreed[o] \in Agreements /\ Usable(agreed[o].map)

\* The receipt comes after the last artifact, the row before the file, the file before
\* the end.
ReceiptInOrder(o) ==
  /\ runner[o].at \in Awaiting \cup {"closing", "receipting"} =>
       receipt[o] = None /\ receiptFile[o] = None
  /\ runner[o].at \in {"receipting", "filing", "deciding"} => state[o] = "VERIFYING_TARGET"
  /\ runner[o].at = "tidying" => state[o] = "COMPLETED"
  /\ runner[o].at \in {"filing", "deciding"} =>
       receipt[o] # None /\ receipt[o].rows = outcome[o]
  /\ runner[o].at = "deciding" => receiptFile[o] = receipt[o]
  /\ receipt[o] # None => receipt[o].map = agreed[o].map

\* COMPLETED has its receipt in the row and in the file, about settled artifacts.
Proven(o) ==
  state[o] = "COMPLETED" =>
    /\ runner[o].at \in {"none", "tidying"}
    /\ receipt[o] # None /\ receiptFile[o] = receipt[o]
    /\ receipt[o].rows = outcome[o]
    /\ \A n \in Artifacts : outcome[o][n] \in {"VERIFIED", "SKIPPED", "LEFT"}

\* What holds of one import at every time.
Sound(o) ==
  /\ UnclaimedIsIdle(o)
  /\ KeepsPlan(o)
  /\ FollowsPlan(o)
  /\ BeforeStart(o)
  /\ InOrder(o)
  /\ TouchedIsUsable(o)
  /\ ReceiptInOrder(o)
  /\ Proven(o)

\* The inductive invariant: it speaks of every import by itself.
AllSound == ExecutionTypeOK /\ \A o \in Imports : Sound(o)

-------------------------------------------------------------------------------
(***************************************************************************)
(* Typing                                                                  *)
(***************************************************************************)
LEMMA TypeInit == ExecutionInit => ExecutionTypeOK
BY ExecutionAssumption
   DEF ExecutionInit, ExecutionTypeOK, NoFlags, FlagChoices, Idle, AllPending, Contents

\* What a worker remembers.
RunnerSteps == {"none"} \cup Awaiting \cup Synchronous
Runners == [at : RunnerSteps, n : 0..ArtifactCount, map : Mappings \cup {None},
            flags : FlagChoices]

\* A worker that only moves on, with a flag choice or without, stays one.
LEMMA RunnerMoves ==
  ASSUME NEW r \in Runners, NEW step \in RunnerSteps, NEW f \in FlagChoices
  PROVE  /\ [r EXCEPT !.at = step] \in Runners
         /\ [r EXCEPT !.at = step, !.flags = f] \in Runners
BY DEF Runners

\* One that goes to an artifact, with its plan or with a new one, stays one.
LEMMA RunnerTurns ==
  ASSUME NEW r \in Runners, NEW step \in RunnerSteps, NEW n \in 0..ArtifactCount,
         NEW m \in Mappings \cup {None}
  PROVE  /\ [r EXCEPT !.at = step, !.n = n] \in Runners
         /\ [r EXCEPT !.at = step, !.n = n, !.map = m] \in Runners
BY DEF Runners

\* A worker is replaced by what a worker may be.
LEMMA RunnerPut ==
  ASSUME ExecutionTypeOK, NEW o \in Imports
  PROVE  /\ runner[o] \in Runners
         /\ \A r \in Runners :
              [runner EXCEPT ![o] = r]
                \in [Imports -> [at : {"none"} \cup Awaiting \cup Synchronous,
                                n : 0..ArtifactCount, map : Mappings \cup {None},
                                flags : FlagChoices]]
<1>1. runner \in [Imports -> Runners]
  BY DEF ExecutionTypeOK, Runners, RunnerSteps
<1>2. \A r \in Runners : [runner EXCEPT ![o] = r] \in [Imports -> Runners]
  BY <1>1
<1> QED
  BY <1>1, <1>2 DEF Runners, RunnerSteps

\* A worker that only moves on keeps the types.
LEMMA RunnerAtType ==
  ASSUME ExecutionTypeOK, NEW o \in Imports, NEW step \in Awaiting \cup Synchronous,
         RunnerAt(o, step)
  PROVE  runner' \in [Imports -> [at : {"none"} \cup Awaiting \cup Synchronous,
                                 n : 0..ArtifactCount, map : Mappings \cup {None},
                                 flags : FlagChoices]]
<1>1. runner' = [runner EXCEPT ![o] = [runner[o] EXCEPT !.at = step]]
  BY DEF RunnerAt
<1>2. step \in RunnerSteps
  BY DEF RunnerSteps
<1>3. NoFlags \in FlagChoices
  BY DEF NoFlags, FlagChoices
<1>4. [runner[o] EXCEPT !.at = step] \in Runners
  BY <1>2, <1>3, RunnerPut, RunnerMoves
<1> QED
  BY <1>1, <1>4, RunnerPut

\* The last element of a sequence is one of its elements.
LEMMA LastInSeq ==
  ASSUME NEW S, NEW q \in Seq(S), q # <<>>
  PROVE  q[Len(q)] \in S
<1>1. Len(q) \in 1..Len(q)
  OBVIOUS
<1> QED
  BY <1>1

\* The plan in force is one of those that were persisted.
LEMMA CurrentType ==
  ASSUME ExecutionTypeOK, NEW o \in Imports, plans[o] # <<>>
  PROVE  Current(o) \in [map : Mappings, conflicts : BOOLEAN]
<1>1. plans[o] \in Seq([map : Mappings, conflicts : BOOLEAN])
  BY DEF ExecutionTypeOK
<1> QED
  BY <1>1, LastInSeq DEF Current

\* A persisted plan is typed, and it is the one in force.
LEMMA PersistsFacts ==
  ASSUME ExecutionTypeOK, NEW o \in Imports, NEW m \in Mappings, Len(plans[o]) < MaxPlans,
         Persists(o, m)
  PROVE  /\ plans' \in [Imports -> Seq([map : Mappings, conflicts : BOOLEAN])]
         /\ \A p \in Imports : Len(plans'[p]) <= MaxPlans
         /\ flags' \in [Imports -> FlagChoices]
         /\ \A p \in Imports : p # o => plans'[p] = plans[p]
<1>1. Plan(o, m) \in [map : Mappings, conflicts : BOOLEAN]
  BY DEF Plan
<1> DEFINE longer == Append(plans[o], Plan(o, m))
<1>2. plans[o] \in Seq([map : Mappings, conflicts : BOOLEAN])
  BY DEF ExecutionTypeOK
<1>3. /\ longer \in Seq([map : Mappings, conflicts : BOOLEAN])
      /\ Len(longer) = Len(plans[o]) + 1
  BY <1>1, <1>2
<1>4. plans' = [plans EXCEPT ![o] = longer]
  BY DEF Persists
<1> HIDE DEF longer
<1>5. Len(longer) <= MaxPlans
  BY <1>2, <1>3, ExecutionAssumption
<1>6. flags' \in [Imports -> FlagChoices]
  BY DEF Persists, ExecutionTypeOK, NoFlags, FlagChoices
<1> QED
  BY <1>3, <1>4, <1>5, <1>6 DEF ExecutionTypeOK

\* Plans, retries and starts keep the types.
LEMMA TypeRequests ==
  ASSUME ExecutionTypeOK, NEW o \in Imports,
         \/ Prepared(o) \/ RetryPlanned(o) \/ RetryUnplanned(o)
         \/ \E m \in Mappings : Retried(o, m) \/ PlanBegins(o, m) \/ PlanEnds(o, m)
         \/ \E m \in Mappings, f \in FlagChoices : Starts(o, m, f) \/ StartRefused(o, m, f)
  PROVE  ExecutionTypeOK'
<1> USE DEF importRows, handlerVars, receiptVars
<1>1. CASE Prepared(o)
  BY <1>1 DEF Prepared, ExecutionTypeOK, Unended
<1>2. CASE RetryPlanned(o)
  <2>1. frozen[o] \in Mappings
    BY <1>2 DEF RetryPlanned, ExecutionTypeOK
  <2>2. /\ plans' \in [Imports -> Seq([map : Mappings, conflicts : BOOLEAN])]
        /\ \A p \in Imports : Len(plans'[p]) <= MaxPlans
        /\ flags' \in [Imports -> FlagChoices]
    BY <1>2, <2>1, PersistsFacts DEF RetryPlanned
  <2> QED
    BY <1>2, <2>2 DEF RetryPlanned, ExecutionTypeOK
<1>3. CASE RetryUnplanned(o)
  BY <1>3 DEF RetryUnplanned, ExecutionTypeOK, Ended
<1>4. ASSUME NEW m \in Mappings, Retried(o, m) PROVE ExecutionTypeOK'
  BY <1>4 DEF Retried, ExecutionTypeOK, Unended
<1>5. ASSUME NEW m \in Mappings, PlanBegins(o, m) PROVE ExecutionTypeOK'
  BY <1>5 DEF PlanBegins, ExecutionTypeOK
<1>6. ASSUME NEW m \in Mappings, PlanEnds(o, m) PROVE ExecutionTypeOK'
  <2>1. planning' \in [Imports -> SUBSET Mappings]
    BY <1>6 DEF PlanEnds, ExecutionTypeOK
  <2>2. CASE PlannableNow(o) /\ Len(plans[o]) < MaxPlans
    <3>1. /\ plans' \in [Imports -> Seq([map : Mappings, conflicts : BOOLEAN])]
          /\ \A p \in Imports : Len(plans'[p]) <= MaxPlans
          /\ flags' \in [Imports -> FlagChoices]
      BY <1>6, <2>2, PersistsFacts DEF PlanEnds
    <3> QED
      BY <1>6, <2>1, <2>2, <3>1 DEF PlanEnds, ExecutionTypeOK
  <2>3. CASE ~(PlannableNow(o) /\ Len(plans[o]) < MaxPlans)
    BY <1>6, <2>1, <2>3 DEF PlanEnds, ExecutionTypeOK
  <2> QED
    BY <2>2, <2>3
<1>7. ASSUME NEW m \in Mappings, NEW f \in FlagChoices, Starts(o, m, f) PROVE ExecutionTypeOK'
  <2>1. runner' \in [Imports -> [at : {"none"} \cup Awaiting \cup Synchronous,
                                n : 0..ArtifactCount, map : Mappings \cup {None},
                                flags : FlagChoices]]
    BY <1>7, RunnerAtType DEF Starts, RunnerAt, Awaiting
  <2>2. agreed' \in [Imports -> [map : Mappings, flags : FlagChoices] \cup {None}]
    BY <1>7 DEF Starts, ExecutionTypeOK
  <2>3. flags' \in [Imports -> FlagChoices] /\ claimed' \subseteq Imports
    BY <1>7 DEF Starts, Accepts, ExecutionTypeOK
  <2> QED
    BY <1>7, <2>1, <2>2, <2>3 DEF Starts, ExecutionTypeOK
<1>8. ASSUME NEW m \in Mappings, NEW f \in FlagChoices, StartRefused(o, m, f)
      PROVE  ExecutionTypeOK'
  BY <1>8 DEF StartRefused, Accepts, ExecutionTypeOK
<1> QED
  BY <1>1, <1>2, <1>3, <1>4, <1>5, <1>6, <1>7, <1>8

\* _fail_running_artifacts keeps the rows typed, and the settled ones as they are.
LEMMA UnwindsFacts ==
  ASSUME ExecutionTypeOK, NEW o \in Imports, NEW s \in Ended, Unwinds(o, s)
  PROVE  /\ state' \in [Imports -> {"none"} \cup Unended \cup Ended]
         /\ outcome' \in [Imports -> [Artifacts -> {"PENDING", "RUNNING"} \cup Settled]]
         /\ claimed' \subseteq Imports
         /\ runner' \in [Imports -> [at : {"none"} \cup Awaiting \cup Synchronous,
                                     n : 0..ArtifactCount, map : Mappings \cup {None},
                                     flags : FlagChoices]]
         /\ \A n \in Artifacts :
              outcome'[o][n] = IF state[o] \in Ended THEN outcome[o][n]
                               ELSE FailedIfRunning(outcome[o][n])
         /\ \A p \in Imports : p # o => outcome'[p] = outcome[p]
<1> DEFINE failed == [n \in Artifacts |-> FailedIfRunning(outcome[o][n])]
<1>1. failed \in [Artifacts -> {"PENDING", "RUNNING"} \cup Settled]
  BY DEF ExecutionTypeOK, FailedIfRunning, Settled
<1>2. outcome' = [outcome EXCEPT ![o] = IF state[o] \in Ended THEN outcome[o] ELSE failed]
  BY DEF Unwinds
<1>3. \A n \in Artifacts : failed[n] = FailedIfRunning(outcome[o][n])
  OBVIOUS
<1> HIDE DEF failed
<1>4. Idle \in [at : {"none"} \cup Awaiting \cup Synchronous, n : 0..ArtifactCount,
               map : Mappings \cup {None}, flags : FlagChoices]
  BY ExecutionAssumption DEF Idle, NoFlags, FlagChoices
<1>5. /\ state' \in [Imports -> {"none"} \cup Unended \cup Ended]
      /\ claimed' \subseteq Imports
  BY DEF Unwinds, ExecutionTypeOK, Ended
<1>6. runner' \in [Imports -> [at : {"none"} \cup Awaiting \cup Synchronous,
                                     n : 0..ArtifactCount, map : Mappings \cup {None},
                                     flags : FlagChoices]]
  BY <1>4 DEF Unwinds, ExecutionTypeOK
<1> QED
  BY <1>1, <1>2, <1>3, <1>5, <1>6 DEF ExecutionTypeOK

\* A worker that settles an artifact keeps the types.
LEMMA SettlesType ==
  ASSUME ExecutionTypeOK, NEW o \in Imports, NEW s \in Settled, Settles(o, s)
  PROVE  ExecutionTypeOK'
<1>1. outcome' \in [Imports -> [Artifacts -> {"PENDING", "RUNNING"} \cup Settled]]
  <2> DEFINE row == [outcome[o] EXCEPT ![runner[o].n] = s]
  <2>1. row \in [Artifacts -> {"PENDING", "RUNNING"} \cup Settled]
    BY DEF ExecutionTypeOK
  <2>2. outcome' = [outcome EXCEPT ![o] = row]
    BY DEF Settles
  <2> HIDE DEF row
  <2> QED
    BY <2>1, <2>2 DEF ExecutionTypeOK
<1>2. runner' \in [Imports -> [at : {"none"} \cup Awaiting \cup Synchronous,
                              n : 0..ArtifactCount, map : Mappings \cup {None},
                              flags : FlagChoices]]
  <2>1. CASE runner[o].n < ArtifactCount
    <3>1. runner[o].n + 1 \in 0..ArtifactCount
      BY <2>1, ExecutionAssumption DEF ExecutionTypeOK
    <3> DEFINE step == [runner[o] EXCEPT !.at = "looking", !.n = runner[o].n + 1]
    <3>2. runner' = [runner EXCEPT ![o] = step]
      BY <2>1 DEF Settles
    <3>3. "looking" \in RunnerSteps /\ None \in Mappings \cup {None}
      BY DEF RunnerSteps, Awaiting
    <3>4. step \in Runners
      BY <3>1, <3>3, RunnerPut, RunnerTurns
    <3> HIDE DEF step
    <3> QED
      BY <3>2, <3>4, RunnerPut
  <2>2. CASE ~(runner[o].n < ArtifactCount)
    BY <2>2, RunnerAtType DEF Settles, RunnerAt, Synchronous
  <2> QED
    BY <2>1, <2>2
<1> QED
  BY <1>1, <1>2 DEF Settles, ExecutionTypeOK, handlerVars, receiptVars

\* So does one that unwinds.
LEMMA UnwindsType ==
  ASSUME ExecutionTypeOK, NEW o \in Imports, NEW s \in Ended, Unwinds(o, s),
         UNCHANGED <<lineage, plans, flags, agreed, handlerVars, receiptVars, registry>>
  PROVE  ExecutionTypeOK'
BY UnwindsFacts DEF ExecutionTypeOK, handlerVars, receiptVars

\* The steps of the worker up to the last artifact keep the types.
LEMMA TypeTransfers ==
  ASSUME AllSound, NEW o \in Imports,
         \/ RunnerBegins(o) \/ HashEnds(o) \/ ExtractionEnds(o)
         \/ FindsSame(o) \/ LookFails(o) \/ FindsConflict(o)
         \/ PushBegins(o) \/ PushLands(o) \/ TargetVerified(o) \/ PushFails(o)
  PROVE  ExecutionTypeOK'
<1> USE DEF importRows, handlerVars, receiptVars
<1>0. ExecutionTypeOK /\ Sound(o)
  BY DEF AllSound
<1>1. CASE RunnerBegins(o)
  <2> DEFINE begun == [runner[o] EXCEPT !.at = "hashing", !.flags = flags[o]]
  <2>1. runner' = [runner EXCEPT ![o] = begun]
    BY <1>1 DEF RunnerBegins
  <2>2. "hashing" \in RunnerSteps /\ flags[o] \in FlagChoices
    BY <1>0 DEF RunnerSteps, Awaiting, ExecutionTypeOK
  <2>3. begun \in Runners
    BY <1>0, <2>2, RunnerPut, RunnerMoves
  <2> HIDE DEF begun
  <2>4. runner' \in [Imports -> [at : {"none"} \cup Awaiting \cup Synchronous,
                                n : 0..ArtifactCount, map : Mappings \cup {None},
                                flags : FlagChoices]]
    BY <1>0, <2>1, <2>3, RunnerPut
  <2> QED
    BY <1>0, <1>1, <2>4 DEF RunnerBegins, ExecutionTypeOK, Unended
<1>2. CASE HashEnds(o)
  BY <1>0, <1>2, RunnerAtType DEF HashEnds, ExecutionTypeOK, Awaiting
<1>3. CASE ExtractionEnds(o)
  <2>1. o \in claimed
    BY <1>0, <1>3 DEF ExtractionEnds, Sound, UnclaimedIsIdle, Idle
  <2>2. Current(o).map \in Mappings
    BY <1>0, <2>1, CurrentType DEF Sound, KeepsPlan
  <2>3. 1 \in 0..ArtifactCount
    BY ExecutionAssumption
  <2> DEFINE moved == [runner[o] EXCEPT !.at = "looking", !.n = 1, !.map = Current(o).map]
  <2>4. moved \in Runners
    <3>1. "looking" \in RunnerSteps
      BY DEF RunnerSteps, Awaiting
    <3> QED
      BY <1>0, <2>2, <2>3, <3>1, RunnerPut, RunnerTurns
  <2>5. runner' = [runner EXCEPT ![o] = moved]
    BY <1>3 DEF ExtractionEnds
  <2> HIDE DEF moved
  <2>6. runner' \in [Imports -> [at : {"none"} \cup Awaiting \cup Synchronous,
                                n : 0..ArtifactCount, map : Mappings \cup {None},
                                flags : FlagChoices]]
    BY <1>0, <2>4, <2>5, RunnerPut
  <2> QED
    BY <1>0, <1>3, <2>6 DEF ExtractionEnds, ExecutionTypeOK
<1>4. CASE \E s \in Settled : Settles(o, s)
  BY <1>0, <1>4, SettlesType
<1>5. CASE PushBegins(o)
  <2> DEFINE row == [outcome[o] EXCEPT ![runner[o].n] = "RUNNING"]
  <2>1. row \in [Artifacts -> {"PENDING", "RUNNING"} \cup Settled]
    BY <1>0 DEF ExecutionTypeOK
  <2>2. outcome' = [outcome EXCEPT ![o] = row]
    BY <1>5 DEF PushBegins
  <2> HIDE DEF row
  <2>3. outcome' \in [Imports -> [Artifacts -> {"PENDING", "RUNNING"} \cup Settled]]
    BY <1>0, <2>1, <2>2 DEF ExecutionTypeOK
  <2> QED
    BY <1>0, <1>5, <2>3, RunnerAtType DEF PushBegins, ExecutionTypeOK, Awaiting
<1>6. CASE PushLands(o)
  <2>1. Own(o, runner[o].n) \in Contents
    BY <1>0, <1>6 DEF Own, Contents, PushLands, Sound, InOrder
  <2> QED
    BY <1>0, <1>6, <2>1, RunnerAtType DEF PushLands, ExecutionTypeOK, Awaiting
<1> QED
  BY <1>1, <1>2, <1>3, <1>4, <1>5, <1>6
     DEF FindsSame, LookFails, FindsConflict, TargetVerified, PushFails, Settled

\* What a worker writes into a receipt.
LEMMA ReceiptType ==
  ASSUME AllSound, NEW o \in Imports, runner[o].at = "receipting"
  PROVE  /\ Receipt(o) \in Receipts /\ Receipt(o) # None
         /\ Receipt(o).rows = outcome[o] /\ Receipt(o).map = agreed[o].map
<1>0. ExecutionTypeOK /\ Sound(o)
  BY DEF AllSound
<1>1. o \in claimed
  BY <1>0 DEF Sound, UnclaimedIsIdle, Idle
<1>2. outcome[o] \in [Artifacts -> Settled]
  BY <1>0 DEF Sound, InOrder, Synchronous, ExecutionTypeOK
<1>3. Current(o).map \in Mappings /\ Current(o).map = agreed[o].map
  BY <1>0, <1>1, CurrentType DEF Sound, KeepsPlan
<1>4. runner[o].flags.over \in BOOLEAN
  BY <1>0 DEF ExecutionTypeOK, FlagChoices
<1>5. Receipt(o) \in Receipts
  BY <1>2, <1>3, <1>4 DEF Receipt, Receipts
<1> QED
  BY <1>3, <1>5, ExecutionAssumption DEF Receipt

\* So do the receipt and the ends.
LEMMA TypeEnds ==
  ASSUME AllSound, NEW o \in Imports,
         \/ RunnerFails(o) \/ Closes(o) \/ CannotClose(o)
         \/ WritesReceiptRow(o) \/ WritesReceiptFile(o)
         \/ ReceiptFileFails(o) \/ EndsWithFailures(o) \/ EndsCompleted(o) \/ Tidies(o)
         \/ CancelsImport(o)
  PROVE  ExecutionTypeOK'
<1> USE DEF importRows, handlerVars, receiptVars
<1>0. ExecutionTypeOK
  BY DEF AllSound
<1>1. CASE \/ RunnerFails(o) \/ CannotClose(o) \/ ReceiptFileFails(o) \/ EndsWithFailures(o)
           \/ Tidies(o) \/ CancelsImport(o)
  BY <1>0, <1>1, UnwindsType
     DEF RunnerFails, CannotClose, ReceiptFileFails, EndsWithFailures, Tidies,
         CancelsImport, Ended
<1>2. CASE Closes(o)
  BY <1>0, <1>2, RunnerAtType DEF Closes, ExecutionTypeOK, Synchronous, Unended
<1>3. CASE WritesReceiptRow(o)
  BY <1>0, <1>3, ReceiptType, RunnerAtType DEF WritesReceiptRow, ExecutionTypeOK, Synchronous
<1>4. CASE WritesReceiptFile(o)
  BY <1>0, <1>4, RunnerAtType DEF WritesReceiptFile, ExecutionTypeOK, Synchronous
<1>5. CASE EndsCompleted(o)
  BY <1>0, <1>5, RunnerAtType DEF EndsCompleted, ExecutionTypeOK, Synchronous, Ended
<1> QED
  BY <1>1, <1>2, <1>3, <1>4, <1>5

\* A restart keeps the types.
LEMMA TypeRestart ==
  ASSUME ExecutionTypeOK, RestartsImports
  PROVE  ExecutionTypeOK'
<1>1. state' \in [Imports -> {"none"} \cup Unended \cup Ended]
  BY DEF RestartsImports, ReconciledState, ExecutionTypeOK, Ended
<1>2. outcome' \in [Imports -> [Artifacts -> {"PENDING", "RUNNING"} \cup Settled]]
  BY DEF RestartsImports, FailedIfRunning, ExecutionTypeOK, Settled
<1>3. runner' \in [Imports -> [at : {"none"} \cup Awaiting \cup Synchronous,
                              n : 0..ArtifactCount, map : Mappings \cup {None},
                              flags : FlagChoices]]
  BY ExecutionAssumption DEF RestartsImports, Idle, NoFlags, FlagChoices
<1> QED
  BY <1>1, <1>2, <1>3 DEF RestartsImports, ExecutionTypeOK, receiptVars

-------------------------------------------------------------------------------
(***************************************************************************)
(* Soundness                                                               *)
(***************************************************************************)
SameImport(p) ==
  /\ state'[p] = state[p] /\ (p \in claimed' <=> p \in claimed)
  /\ plans'[p] = plans[p] /\ agreed'[p] = agreed[p]
  /\ runner'[p] = runner[p] /\ outcome'[p] = outcome[p]
  /\ receipt'[p] = receipt[p] /\ receiptFile'[p] = receiptFile[p]

\* An import that a step does not touch stays sound.
LEMMA SameIsSound ==
  ASSUME NEW p \in Imports, Sound(p), SameImport(p)
  PROVE  Sound(p)'
<1>1. (Current(p) = Current(p))' /\ (plans[p] # <<>> => Current(p)' = Current(p))
  BY DEF Current, SameImport
<1> QED
  BY <1>1 DEF SameImport, Sound, UnclaimedIsIdle, KeepsPlan, FollowsPlan, BeforeStart, InOrder,
     TouchedIsUsable, ReceiptInOrder, Proven

\* A step of one import does not touch another.
LEMMA OthersAreSame ==
  ASSUME ExecutionTypeOK, NEW o \in Imports, RequestStep(o) \/ RunnerStep(o),
         NEW p \in Imports, p # o
  PROVE  SameImport(p)
<1> USE DEF SameImport, importRows, handlerVars, receiptVars
<1>1. CASE \/ Prepared(o) \/ RetryUnplanned(o)
           \/ \E m \in Mappings : Retried(o, m) \/ PlanBegins(o, m)
  BY <1>1 DEF Prepared, RetryUnplanned, Retried, PlanBegins, ExecutionTypeOK
<1>2. CASE RetryPlanned(o) \/ \E m \in Mappings : PlanEnds(o, m)
  BY <1>2 DEF RetryPlanned, PlanEnds, Persists, ExecutionTypeOK
<1>3. CASE \E m \in Mappings, f \in FlagChoices : Starts(o, m, f) \/ StartRefused(o, m, f)
  BY <1>3 DEF Starts, StartRefused, Accepts, ExecutionTypeOK
<1>4. CASE \/ RunnerFails(o) \/ CannotClose(o) \/ ReceiptFileFails(o) \/ EndsWithFailures(o)
           \/ Tidies(o) \/ CancelsImport(o)
  BY <1>4 DEF RunnerFails, CannotClose, ReceiptFileFails, EndsWithFailures, Tidies,
     CancelsImport, Unwinds, ExecutionTypeOK
<1>5. CASE \E s \in Settled : Settles(o, s)
  BY <1>5 DEF Settles, ExecutionTypeOK
<1>6. CASE \/ RunnerBegins(o) \/ HashEnds(o) \/ ExtractionEnds(o) \/ PushBegins(o)
           \/ PushLands(o) \/ Closes(o) \/ WritesReceiptRow(o) \/ WritesReceiptFile(o)
           \/ EndsCompleted(o)
  BY <1>6 DEF RunnerBegins, HashEnds, ExtractionEnds, PushBegins, PushLands, Closes,
     WritesReceiptRow, WritesReceiptFile, EndsCompleted, RunnerAt, ExecutionTypeOK
<1>7. FindsSame(o) \/ LookFails(o) \/ FindsConflict(o) \/ TargetVerified(o) \/ PushFails(o)
        => \E s \in Settled : Settles(o, s)
  BY DEF FindsSame, LookFails, FindsConflict, TargetVerified, PushFails, Settled
<1> QED
  BY <1>1, <1>2, <1>3, <1>4, <1>5, <1>6, <1>7 DEF RequestStep, RunnerStep

\* A plan is replaced only while nobody has claimed the import.
LEMMA PlansKeepSound ==
  ASSUME AllSound, NEW o \in Imports,
         RetryPlanned(o) \/ \E m \in Mappings : PlanBegins(o, m) \/ PlanEnds(o, m)
  PROVE  Sound(o)'
<1>1. /\ UNCHANGED <<state, claimed, agreed, runner, outcome, receipt, receiptFile>>
      /\ plans' = plans \/ o \notin claimed
  BY DEF RetryPlanned, PlanBegins, PlanEnds, PlannableNow, importRows, receiptVars
<1>2. Sound(o)
  BY DEF AllSound
<1>3. KeepsPlan(o)'
  <2>1. CASE plans' = plans
    BY <1>1, <1>2, <2>1 DEF Sound, KeepsPlan, Current
  <2>2. CASE o \notin claimed
    BY <1>1, <2>2 DEF KeepsPlan
  <2> QED
    BY <1>1, <2>1, <2>2
<1> QED
  BY <1>1, <1>2, <1>3 DEF Sound, UnclaimedIsIdle, FollowsPlan, BeforeStart, InOrder,
     TouchedIsUsable, ReceiptInOrder, Proven

\* An import becomes READY from nothing, and a retry handler may write FAILED over a row
\* whose worker awaits something, but not over one that writes its receipt.
LEMMA RowsKeepSound ==
  ASSUME AllSound, NEW o \in Imports,
         Prepared(o) \/ RetryUnplanned(o) \/ \E m \in Mappings : Retried(o, m)
  PROVE  Sound(o)'
<1>1. UNCHANGED <<claimed, plans, agreed, runner, outcome, receipt, receiptFile>>
  BY DEF Prepared, RetryUnplanned, Retried, receiptVars
<1>2. \/ state[o] = "none" /\ state'[o] = "READY"
      \/ state'[o] = "FAILED" /\ runner[o].at \notin Synchronous
  BY DEF Prepared, RetryUnplanned, Retried, Busy, AllSound, ExecutionTypeOK
<1>3. Sound(o)
  BY DEF AllSound
<1>4. BeforeStart(o)' /\ ReceiptInOrder(o)' /\ Proven(o)'
  BY <1>1, <1>2, <1>3 DEF Sound, BeforeStart, ReceiptInOrder, Proven, Synchronous
<1> QED
  BY <1>1, <1>3, <1>4 DEF Sound, UnclaimedIsIdle, KeepsPlan, Current, FollowsPlan, InOrder,
     TouchedIsUsable

\* A start names the plan in force; until then nothing has been touched.
LEMMA StartsKeepSound ==
  ASSUME AllSound, NEW o \in Imports, NEW m \in Mappings, NEW f \in FlagChoices,
         Starts(o, m, f) \/ StartRefused(o, m, f)
  PROVE  Sound(o)'
<1>0. ExecutionTypeOK /\ Sound(o)
  BY DEF AllSound
<1>1. CASE StartRefused(o, m, f)
  BY <1>0, <1>1, SameIsSound DEF StartRefused, SameImport, receiptVars
<1>2. CASE Starts(o, m, f)
  <2>1. /\ UNCHANGED <<state, plans, outcome, receipt, receiptFile>>
        /\ state[o] = "READY" /\ o \notin claimed /\ o \in claimed'
        /\ agreed'[o] = [map |-> m, flags |-> f]
        /\ runner'[o] = [runner[o] EXCEPT !.at = "waiting"]
    BY <1>0, <1>2 DEF Starts, Accepts, ExecutionTypeOK, receiptVars
  <2>2. runner[o] = Idle
    BY <1>0, <2>1 DEF Sound, UnclaimedIsIdle
  <2>3. runner'[o].at = "waiting" /\ runner'[o].map = None
    BY <2>1, <2>2 DEF Idle
  <2>4. /\ agreed'[o] \in Agreements /\ agreed'[o].map = m
        /\ Usable(m) /\ plans[o] # <<>> /\ Current(o).map = m
    BY <1>2, <2>1 DEF Starts, Accepts, Names, Agreements
  <2>5. KeepsPlan(o)'
    BY <2>1, <2>4 DEF KeepsPlan, Current, Agreements
  <2>6. /\ \A n \in Artifacts : outcome[o][n] = "PENDING"
        /\ receipt[o] = None /\ receiptFile[o] = None
    BY <1>0, <2>1 DEF Sound, BeforeStart
  <2>7. BeforeStart(o)' /\ InOrder(o)' /\ TouchedIsUsable(o)' /\ ReceiptInOrder(o)' /\ Proven(o)'
    BY <2>1, <2>3, <2>6 DEF BeforeStart, InOrder, TouchedIsUsable, ReceiptInOrder, Proven,
       Synchronous
  <2> QED
    BY <2>1, <2>3, <2>5, <2>7 DEF Sound, UnclaimedIsIdle, FollowsPlan
<1> QED
  BY <1>1, <1>2

\* The end of a worker, or its cancellation, leaves the outcome that the row shows.
LEMMA UnwindingKeepsSound ==
  ASSUME AllSound, NEW o \in Imports,
         \/ RunnerFails(o) \/ CannotClose(o) \/ ReceiptFileFails(o) \/ EndsWithFailures(o)
         \/ Tidies(o) \/ CancelsImport(o)
  PROVE  Sound(o)'
<1>0. ExecutionTypeOK /\ Sound(o)
  BY DEF AllSound
<1>1. PICK s \in Ended : /\ Unwinds(o, s)
                         /\ s = "COMPLETED" => state[o] = "COMPLETED"
  BY <1>0 DEF RunnerFails, CannotClose, ReceiptFileFails, EndsWithFailures, Tidies,
     CancelsImport, Ended, Sound, ReceiptInOrder
<1>2. /\ UNCHANGED <<plans, agreed, receipt, receiptFile>>
      /\ runner'[o] = Idle /\ o \notin claimed'
      /\ state'[o] = IF state[o] \in Ended THEN state[o] ELSE s
  BY <1>0, <1>1 DEF RunnerFails, CannotClose, ReceiptFileFails, EndsWithFailures, Tidies,
     CancelsImport, Unwinds, ExecutionTypeOK, receiptVars
<1>3. /\ state'[o] \in Ended
      /\ state'[o] = "COMPLETED" => state[o] = "COMPLETED" /\ outcome'[o] = outcome[o]
  BY <1>0, <1>1, <1>2 DEF Ended, Unwinds, ExecutionTypeOK
<1>4. \A n \in Artifacts : outcome'[o][n] # "PENDING" => outcome[o][n] # "PENDING"
  BY <1>0, <1>1, UnwindsFacts DEF FailedIfRunning
<1>5. runner'[o].at = "none" /\ runner'[o].map = None
  BY <1>2 DEF Idle
<1>6. BeforeStart(o)' /\ InOrder(o)' /\ ReceiptInOrder(o)' /\ Proven(o)'
  BY <1>0, <1>2, <1>3, <1>5 DEF Sound, Ended, BeforeStart, InOrder, ReceiptInOrder, Proven,
     Awaiting, Synchronous
<1>7. TouchedIsUsable(o)'
  BY <1>0, <1>2, <1>4 DEF Sound, TouchedIsUsable
<1> QED
  BY <1>2, <1>5, <1>6, <1>7 DEF Sound, UnclaimedIsIdle, KeepsPlan, FollowsPlan

\* Row by row, each under the agreement.
LEMMA SettlingKeepsSound ==
  ASSUME AllSound, NEW o \in Imports, NEW s \in Settled, Settles(o, s),
         runner[o].at \in {"looking", "pushing", "landed"}
  PROVE  Sound(o)'
<1>0. ExecutionTypeOK /\ Sound(o)
  BY DEF AllSound
<1> DEFINE n == runner[o].n
<1>1. /\ UNCHANGED <<state, claimed, plans, agreed, receipt, receiptFile>>
      /\ o \in claimed /\ n \in Artifacts
      /\ \A k \in Artifacts : k < n => outcome[o][k] \in Settled
      /\ receipt[o] = None /\ receiptFile[o] = None
      /\ state[o] \notin {"none", "READY", "COMPLETED"}
  BY <1>0 DEF Settles, receiptVars, Sound, UnclaimedIsIdle, Idle, InOrder, ReceiptInOrder,
     BeforeStart, Proven, Awaiting
<1>2. /\ outcome'[o][n] = s
      /\ \A k \in Artifacts : k # n => outcome'[o][k] = outcome[o][k]
  BY <1>0, <1>1 DEF Settles, ExecutionTypeOK
<1>3. \A k \in Artifacts : k <= n => outcome'[o][k] \in Settled
  BY <1>1, <1>2, ExecutionAssumption DEF Artifacts
<1>4. runner'[o].map = runner[o].map
  BY <1>0 DEF Settles, ExecutionTypeOK
<1>5. \/ runner'[o].at = "looking" /\ runner'[o].n = n + 1 /\ n + 1 \in Artifacts
      \/ runner'[o].at = "closing" /\ n = ArtifactCount
  <2>1. CASE n < ArtifactCount
    BY <1>0, <1>1, <2>1, ExecutionAssumption DEF Settles, ExecutionTypeOK, Artifacts
  <2>2. CASE ~(n < ArtifactCount)
    BY <1>0, <1>1, <2>2, ExecutionAssumption DEF Settles, ExecutionTypeOK, Artifacts
  <2> QED
    BY <2>1, <2>2
<1>6. InOrder(o)'
  BY <1>1, <1>3, <1>5, ExecutionAssumption DEF InOrder, Synchronous, Artifacts
<1>7. TouchedIsUsable(o)' /\ KeepsPlan(o)' /\ FollowsPlan(o)'
  BY <1>0, <1>1, <1>4 DEF Sound, TouchedIsUsable, KeepsPlan, FollowsPlan, Current
<1>8. BeforeStart(o)' /\ ReceiptInOrder(o)' /\ Proven(o)' /\ UnclaimedIsIdle(o)'
  BY <1>0, <1>1, <1>5 DEF BeforeStart, ReceiptInOrder, Proven, UnclaimedIsIdle
<1> QED
  BY <1>6, <1>7, <1>8 DEF Sound

\* On its way to a push and back the worker keeps to the plan.
LEMMA TransferKeepsSound ==
  ASSUME AllSound, NEW o \in Imports,
         \/ RunnerBegins(o) \/ HashEnds(o) \/ ExtractionEnds(o)
         \/ PushBegins(o) \/ PushLands(o)
  PROVE  Sound(o)'
<1>0. ExecutionTypeOK /\ Sound(o)
  BY DEF AllSound
<1>1. /\ UNCHANGED <<claimed, plans, agreed, receipt, receiptFile>>
      /\ runner[o].at \in Awaiting /\ runner'[o].at \in Awaiting \ {"waiting"}
      /\ state'[o] = state[o] \/ state'[o] = "IMPORTING"
      /\ runner[o].at = "waiting" => state'[o] = "IMPORTING"
      /\ runner'[o].map = runner[o].map \/ runner'[o].map = Current(o).map
  <2>1. CASE RunnerBegins(o)
    BY <1>0, <2>1 DEF RunnerBegins, ExecutionTypeOK, receiptVars, Awaiting
  <2>2. CASE ExtractionEnds(o)
    <3>1. runner'[o] = [runner[o] EXCEPT !.at = "looking", !.n = 1, !.map = Current(o).map]
      BY <1>0, <2>2 DEF ExtractionEnds, ExecutionTypeOK
    <3>2. runner'[o].at = "looking" /\ runner'[o].map = Current(o).map
      BY <1>0, <3>1 DEF ExecutionTypeOK
    <3> QED
      BY <2>2, <3>2 DEF ExtractionEnds, importRows, receiptVars, Awaiting
  <2>3. CASE HashEnds(o) \/ PushLands(o) \/ PushBegins(o)
    BY <1>0, <2>3 DEF HashEnds, PushLands, PushBegins, Looking, RunnerAt, ExecutionTypeOK,
       importRows, receiptVars, Awaiting
  <2> QED
    BY <2>1, <2>2, <2>3
<1>2. o \in claimed
  BY <1>0, <1>1 DEF Sound, UnclaimedIsIdle, Idle, Awaiting
<1>3. /\ agreed[o] \in Agreements /\ Usable(agreed[o].map)
      /\ Current(o).map = agreed[o].map
      /\ receipt[o] = None /\ receiptFile[o] = None
      /\ state'[o] \notin {"none", "READY", "COMPLETED"}
  BY <1>0, <1>1, <1>2 DEF Sound, KeepsPlan, ReceiptInOrder, BeforeStart, Proven, Awaiting
<1>4. InOrder(o)'
  <2>1. CASE RunnerBegins(o) \/ HashEnds(o)
    BY <1>0, <2>1 DEF RunnerBegins, HashEnds, RunnerAt, ExecutionTypeOK, InOrder, Synchronous
  <2>2. CASE ExtractionEnds(o)
    <3>1. runner'[o].at = "looking" /\ runner'[o].n = 1
      BY <1>0, <2>2 DEF ExtractionEnds, ExecutionTypeOK
    <3> QED
      BY <3>1, ExecutionAssumption DEF InOrder, Synchronous, Artifacts
  <2>3. CASE PushBegins(o)
    <3>1. /\ runner'[o].at = "pushing" /\ runner'[o].n = runner[o].n
          /\ runner[o].at = "looking"
      BY <1>0, <2>3 DEF PushBegins, Looking, RunnerAt, ExecutionTypeOK
    <3>2. \A k \in Artifacts : k # runner[o].n => outcome'[o][k] = outcome[o][k]
      BY <1>0, <2>3 DEF PushBegins, ExecutionTypeOK
    <3> QED
      BY <1>0, <3>1, <3>2, ExecutionAssumption DEF Sound, InOrder, Synchronous, Artifacts
  <2>4. CASE PushLands(o)
    <3>1. /\ runner'[o].at = "landed" /\ runner'[o].n = runner[o].n
          /\ runner[o].at = "pushing" /\ outcome' = outcome
      BY <1>0, <2>4 DEF PushLands, RunnerAt, ExecutionTypeOK, importRows
    <3> QED
      BY <1>0, <3>1 DEF Sound, InOrder, Synchronous
  <2> QED
    BY <2>1, <2>2, <2>3, <2>4
<1>5. TouchedIsUsable(o)' /\ KeepsPlan(o)' /\ FollowsPlan(o)'
  BY <1>0, <1>1, <1>2, <1>3 DEF Sound, TouchedIsUsable, KeepsPlan, FollowsPlan, Current
<1>6. BeforeStart(o)' /\ ReceiptInOrder(o)' /\ Proven(o)' /\ UnclaimedIsIdle(o)'
  BY <1>1, <1>2, <1>3 DEF BeforeStart, ReceiptInOrder, Proven, UnclaimedIsIdle, Awaiting
<1> QED
  BY <1>5, <1>6, <1>4 DEF Sound

\* From the last artifact to the end, each step finds what the one before has left.
LEMMA ClosingKeepsSound ==
  ASSUME AllSound, NEW o \in Imports,
         Closes(o) \/ WritesReceiptRow(o) \/ WritesReceiptFile(o) \/ EndsCompleted(o)
  PROVE  Sound(o)'
<1>0. ExecutionTypeOK /\ Sound(o)
  BY DEF AllSound
<1>1. /\ UNCHANGED <<claimed, plans, agreed, outcome>>
      /\ runner[o].at \in Synchronous /\ runner'[o].at \in Synchronous
      /\ runner'[o].map = runner[o].map
  BY <1>0 DEF Closes, WritesReceiptRow, WritesReceiptFile, EndsCompleted, RunnerAt,
     ExecutionTypeOK, importRows, Synchronous
<1>2. /\ o \in claimed
      /\ \A n \in Artifacts : outcome[o][n] \in Settled
  BY <1>0, <1>1 DEF Sound, UnclaimedIsIdle, Idle, Synchronous, InOrder
<1>3. /\ UnclaimedIsIdle(o)' /\ KeepsPlan(o)' /\ FollowsPlan(o)' /\ InOrder(o)'
      /\ TouchedIsUsable(o)'
  BY <1>0, <1>1, <1>2 DEF Sound, UnclaimedIsIdle, KeepsPlan, FollowsPlan, InOrder, Current,
     TouchedIsUsable, Synchronous
<1>4. BeforeStart(o)' /\ ReceiptInOrder(o)' /\ Proven(o)'
  <2>1. CASE Closes(o)
    <3>1. runner'[o].at = "receipting" /\ runner[o].at = "closing"
          /\ state'[o] = "VERIFYING_TARGET" /\ UNCHANGED <<receipt, receiptFile>>
      BY <1>0, <2>1 DEF Closes, RunnerAt, ExecutionTypeOK, receiptVars
    <3> QED
      BY <1>0, <1>1, <3>1 DEF Sound, BeforeStart, ReceiptInOrder, Proven, Awaiting
  <2>2. CASE WritesReceiptRow(o)
    <3>1. /\ runner'[o].at = "filing" /\ runner[o].at = "receipting"
          /\ receipt'[o] = Receipt(o) /\ UNCHANGED <<state, receiptFile>>
      BY <1>0, <2>2 DEF WritesReceiptRow, RunnerAt, ExecutionTypeOK, importRows
    <3>2. /\ receipt'[o] # None /\ receipt'[o].rows = outcome[o]
          /\ receipt'[o].map = agreed[o].map
      BY <3>1, ReceiptType
    <3> QED
      BY <1>0, <1>1, <3>1, <3>2 DEF Sound, BeforeStart, ReceiptInOrder, Proven, Awaiting
  <2>3. CASE WritesReceiptFile(o)
    <3>1. /\ runner'[o].at = "deciding" /\ runner[o].at = "filing"
          /\ receiptFile'[o] = receipt[o] /\ UNCHANGED <<state, receipt>>
      BY <1>0, <2>3 DEF WritesReceiptFile, RunnerAt, ExecutionTypeOK, importRows
    <3> QED
      BY <1>0, <1>1, <3>1 DEF Sound, BeforeStart, ReceiptInOrder, Proven, Awaiting
  <2>4. CASE EndsCompleted(o)
    <3>1. /\ runner'[o].at = "tidying" /\ runner[o].at = "deciding"
          /\ state'[o] = "COMPLETED" /\ UNCHANGED <<receipt, receiptFile>>
      BY <1>0, <2>4 DEF EndsCompleted, RunnerAt, ExecutionTypeOK, receiptVars
    <3>2. \A n \in Artifacts : outcome[o][n] \in {"VERIFIED", "SKIPPED", "LEFT"}
      BY <1>2, <2>4 DEF EndsCompleted, Failures, Settled
    <3> QED
      BY <1>0, <1>1, <3>1, <3>2 DEF Sound, BeforeStart, ReceiptInOrder, Proven, Awaiting
  <2> QED
    BY <2>1, <2>2, <2>3, <2>4
<1> QED
  BY <1>3, <1>4 DEF Sound

\* A restart drops the workers; what it reconciles has ended, and what is READY has not
\* been touched.
LEMMA RestartKeepsSound ==
  ASSUME AllSound, RestartsImports, NEW o \in Imports
  PROVE  Sound(o)'
<1>0. ExecutionTypeOK /\ Sound(o)
  BY DEF AllSound
<1>1. /\ UNCHANGED <<plans, agreed, receipt, receiptFile>>
      /\ claimed' = {} /\ runner'[o] = Idle /\ state'[o] = ReconciledState(o)
      /\ \A n \in Artifacts : outcome'[o][n] =
           IF state[o] \in Ended THEN outcome[o][n] ELSE FailedIfRunning(outcome[o][n])
  BY DEF RestartsImports, receiptVars
<1>2. \A n \in Artifacts : outcome'[o][n] # "PENDING" => outcome[o][n] # "PENDING"
  BY <1>1 DEF FailedIfRunning
<1>3. runner'[o].at = "none" /\ runner'[o].map = None
  BY <1>1 DEF Idle
<1>4. state'[o] = "COMPLETED" => state[o] = "COMPLETED" /\ outcome'[o] = outcome[o]
  <2>1. state'[o] = "COMPLETED" => state[o] = "COMPLETED"
    BY <1>1 DEF ReconciledState
  <2>2. outcome[o] \in [Artifacts -> {"PENDING", "RUNNING"} \cup Settled]
    BY <1>0 DEF ExecutionTypeOK
  <2>3. outcome'[o] \in [Artifacts -> {"PENDING", "RUNNING"} \cup Settled]
    BY <1>0, TypeRestart DEF ExecutionTypeOK
  <2> QED
    BY <1>1, <2>1, <2>2, <2>3 DEF Ended
<1>5. TouchedIsUsable(o)' /\ KeepsPlan(o)' /\ FollowsPlan(o)' /\ UnclaimedIsIdle(o)'
  BY <1>0, <1>1, <1>2, <1>3 DEF Sound, TouchedIsUsable, KeepsPlan, FollowsPlan, UnclaimedIsIdle
<1>6. InOrder(o)' /\ ReceiptInOrder(o)' /\ Proven(o)'
  BY <1>0, <1>1, <1>3, <1>4 DEF Sound, InOrder, ReceiptInOrder, Proven, Awaiting, Synchronous
<1>7. BeforeStart(o)'
  BY <1>0, <1>1, <1>2, <1>3 DEF Sound, BeforeStart, ReconciledState
<1> QED
  BY <1>5, <1>6, <1>7 DEF Sound

-------------------------------------------------------------------------------
\* At first there are no imports.
LEMMA SoundInit == ExecutionInit => AllSound
<1> SUFFICES ASSUME ExecutionInit, NEW o \in Imports PROVE Sound(o)
  BY TypeInit DEF AllSound
<1> QED
  BY DEF ExecutionInit, Sound, UnclaimedIsIdle, KeepsPlan, FollowsPlan, BeforeStart, InOrder,
     TouchedIsUsable, ReceiptInOrder, Proven, Idle, AllPending, Synchronous, Awaiting

\* What any step does to one import.
LEMMA SoundStep == AllSound /\ [ExecutionNext]_executionVars => AllSound'
<1> SUFFICES ASSUME AllSound, [ExecutionNext]_executionVars PROVE AllSound'
  OBVIOUS
<1>0. ExecutionTypeOK
  BY DEF AllSound
<1>1. ASSUME NEW o \in Imports, RequestStep(o) \/ RunnerStep(o) PROVE AllSound'
  <2>1. ExecutionTypeOK'
    BY <1>0, <1>1, TypeRequests, TypeTransfers, TypeEnds DEF RequestStep, RunnerStep
  <2>2. Sound(o)'
    <3>1. CASE RequestStep(o)
      BY <3>1, PlansKeepSound, RowsKeepSound, StartsKeepSound, UnwindingKeepsSound
         DEF RequestStep
    <3>2. ASSUME NEW s \in Settled, Settles(o, s),
                 runner[o].at \in {"looking", "pushing", "landed"}
          PROVE  Sound(o)'
      BY <3>2, SettlingKeepsSound
    <3>3. FindsSame(o) \/ LookFails(o) \/ FindsConflict(o) \/ TargetVerified(o) \/ PushFails(o)
            => Sound(o)'
      BY <3>2 DEF FindsSame, LookFails, FindsConflict, TargetVerified, PushFails, Looking,
         Settled
    <3>4. CASE RunnerStep(o)
      BY <3>3, <3>4, TransferKeepsSound, ClosingKeepsSound, UnwindingKeepsSound DEF RunnerStep
    <3> QED
      BY <1>1, <3>1, <3>4
  <2>3. \A p \in Imports : p # o => Sound(p)'
    BY <1>0, <1>1, OthersAreSame, SameIsSound DEF AllSound
  <2> QED
    BY <2>1, <2>2, <2>3 DEF AllSound
<1>2. ASSUME NEW r \in Refs, OutsiderPushes(r) PROVE AllSound'
  <2>1. \A p \in Imports : Sound(p)'
    BY <1>2, SameIsSound DEF OutsiderPushes, SameImport, AllSound, importRows, receiptVars
  <2>2. ExecutionTypeOK'
    BY <1>0, <1>2 DEF OutsiderPushes, ExecutionTypeOK, importRows, handlerVars, receiptVars,
       Contents
  <2> QED
    BY <2>1, <2>2 DEF AllSound
<1>3. CASE RestartsImports
  BY <1>0, <1>3, TypeRestart, RestartKeepsSound DEF AllSound
<1>4. CASE UNCHANGED executionVars
  <2>1. \A p \in Imports : Sound(p)'
    BY <1>4, SameIsSound DEF executionVars, SameImport, AllSound, importRows, receiptVars
  <2>2. ExecutionTypeOK'
    BY <1>0, <1>4 DEF executionVars, ExecutionTypeOK, importRows, handlerVars, receiptVars
  <2> QED
    BY <2>1, <2>2 DEF AllSound
<1> QED
  BY <1>1, <1>2, <1>3, <1>4 DEF ExecutionNext

\* Every import is sound at every time (import_destination_plan.py,
\* import_orchestrator.py).
THEOREM AlwaysSound == ExecutionSpec => []AllSound
BY SoundInit, SoundStep, PTL DEF ExecutionSpec

\* A worker transfers to the destinations its start has named, and the receipt lists
\* those, however late another planner or the handler of a retry come
\* (import_destination_plan.py).
THEOREM AgreedPlanHolds == ExecutionSpec => []ExecutesAgreedPlan
<1>1. AllSound => ExecutesAgreedPlan
  BY DEF AllSound, Sound, FollowsPlan, ReceiptInOrder, ExecutesAgreedPlan
<1> QED
  BY <1>1, AlwaysSound, PTL

\* No destination holds two verified artifacts of an import (the validation of the plan,
\* import_destination_plan.py).
THEOREM DistinctHolds == ExecutionSpec => []VerifiedAreDistinct
<1>1. AllSound => VerifiedAreDistinct
  <2> SUFFICES ASSUME AllSound, NEW o \in Imports, NEW i \in Artifacts, NEW j \in Artifacts,
                      i # j, outcome[o][i] = "VERIFIED"
               PROVE  agreed[o].map[i] # agreed[o].map[j]
    BY DEF VerifiedAreDistinct
  <2>1. Usable(agreed[o].map)
    BY DEF AllSound, Sound, TouchedIsUsable
  <2> QED
    BY <2>1 DEF Usable, Colliding, Reachable
<1> QED
  BY <1>1, AlwaysSound, PTL

\* COMPLETED is proved by a receipt in the row and in the file (_write_receipt,
\* import_orchestrator.py).
THEOREM CompletionHolds == ExecutionSpec => []CompletedIsProven
<1>1. AllSound => CompletedIsProven
  BY DEF AllSound, Sound, Proven, CompletedIsProven
<1> QED
  BY <1>1, AlwaysSound, PTL

\* A receipt once in the row stays as it is (_write_receipt, import_orchestrator.py).
THEOREM ReceiptStays == ExecutionSpec => ReceiptIsFinal
<1> DEFINE Final == \A o \in Imports : receipt[o] # None => receipt'[o] = receipt[o]
<1>1. AllSound /\ [ExecutionNext]_executionVars => [Final]_executionVars
  <2> SUFFICES ASSUME AllSound, ExecutionNext PROVE Final
    OBVIOUS
  <2>1. ASSUME NEW o \in Imports, RequestStep(o) \/ RunnerStep(o), NEW p \in Imports, p # o
        PROVE  receipt'[p] = receipt[p]
    BY <2>1, OthersAreSame DEF AllSound, SameImport
  <2>2. ASSUME NEW o \in Imports, RequestStep(o)
        PROVE  receipt' = receipt
    BY <2>2 DEF RequestStep, Prepared, RetryPlanned, RetryUnplanned, CancelsImport, Retried,
       PlanBegins, PlanEnds, Starts, StartRefused, receiptVars
  <2>3. ASSUME NEW o \in Imports, WritesReceiptRow(o)
        PROVE  receipt[o] = None
    BY <2>3 DEF WritesReceiptRow, AllSound, Sound, ReceiptInOrder
  <2>4. ASSUME NEW o \in Imports, RunnerStep(o), ~WritesReceiptRow(o)
        PROVE  receipt' = receipt
    BY <2>4 DEF RunnerStep, RunnerBegins, HashEnds, ExtractionEnds, RunnerFails, FindsSame,
       LookFails, FindsConflict, PushBegins, PushLands, TargetVerified, PushFails, Settles,
       Closes, CannotClose, WritesReceiptFile, ReceiptFileFails, EndsWithFailures,
       EndsCompleted, Tidies, receiptVars
  <2>5. (\E r \in Refs : OutsiderPushes(r)) \/ RestartsImports => receipt' = receipt
    BY DEF OutsiderPushes, RestartsImports, receiptVars
  <2> QED
    BY <2>1, <2>2, <2>3, <2>4, <2>5 DEF ExecutionNext
<1> QED
  BY <1>1, AlwaysSound, PTL DEF ExecutionSpec, ReceiptIsFinal

===============================================================================
