-------------------------- MODULE GarfieldResultProofs --------------------------
(***************************************************************************)
(* Theorems of GarfieldRun about its accounting and its verdicts: what a   *)
(* checkpoint keeps, what a result claims, and the evidence of one that    *)
(* says "passed"; and what the processes of a run are shown.               *)
(***************************************************************************)
EXTENDS GarfieldRunProofs

\* The steps that neither touch the accounting nor count a process.
Uncounted ==
  \/ CheckpointSnapshotted \/ BuildPlan \/ (\E ok \in BOOLEAN : Validate(ok))
  \/ ValidationBlocked \/ BeginValidationRepair \/ InitialReviewLimit
  \/ VerificationLimit \/ Decide \/ Recapture

LEMMA UncountedKeeps ==
  ASSUME Uncounted
  PROVE  /\ UNCHANGED <<ledger, reviewCalls, runs, spawned, result, worktree>>
         /\ checkpoint' = [phase |-> checkpoint'.phase, snapshot |-> snapshot',
                           plan |-> plan', ledger |-> ledger]
BY DEF Uncounted, CheckpointSnapshotted, BuildPlan, Validate, ValidationBlocked,
       BeginValidationRepair, InitialReviewLimit, VerificationLimit, ReviewLimit,
       Decide, Recapture, Finish, Save, locals, ghosts

\* The ways a step may leave the run.
Leaves == Crash \/ CancelledExit \/ Publish

LEMMA LeavesKeep ==
  ASSUME Leaves
  PROVE  /\ pc' = "idle" /\ ledger' = EmptyLedger /\ verdict' = None /\ snapshot' = None
         /\ UNCHANGED <<worktree, checkpoint, runs, spawned, touched>>
BY DEF Leaves, Crash, CancelledExit, Publish, Exit, ResetLocals, ghosts

-------------------------------------------------------------------------------
(* No accounting claims more processes than ran. *)

Used(l) == l.reviewInvocations + l.fixInvocations

LEMMA UsedType ==
  ASSUME NEW l \in Ledgers
  PROVE  /\ l.reviewInvocations \in Nat /\ l.fixInvocations \in Nat
         /\ l.actorCalls \in Nat /\ Used(l) \in Nat
BY DEF Ledgers, Used

LEMMA EmptyUsed == Used(EmptyLedger) = 0
BY DEF Used, EmptyLedger

LEMMA OvercountStep ==
  ASSUME TypeOK, TypeOK', Evidence, NeverOvercounts, [Next]_vars
  PROVE  NeverOvercounts'
<1> USE DEF NeverOvercounts
<1>1. /\ ledger \in Ledgers /\ ledger' \in Ledgers
      /\ spawned \in Nat /\ spawned' \in Nat
      /\ checkpoint # None => checkpoint.ledger \in Ledgers
  BY DEF TypeOK, Checkpoints
<1>2. Used(ledger) <= spawned
  BY DEF Used
<1>3. ASSUME Used(ledger') <= spawned', spawned <= spawned',
             checkpoint' = checkpoint \/ checkpoint'.ledger = ledger'
      PROVE  NeverOvercounts'
  <2>1. Used(ledger') \in Nat /\ (checkpoint # None => Used(checkpoint.ledger) \in Nat)
    BY <1>1, UsedType
  <2>2. checkpoint # None => Used(checkpoint.ledger) <= spawned
    BY DEF Used
  <2>3. checkpoint' # None => Used(checkpoint'.ledger) <= spawned'
    BY <1>1, <1>3, <2>1, <2>2
  <2>4. QED
    BY <1>3, <2>3 DEF Used
<1>4. CASE UNCHANGED vars
  BY <1>4 DEF vars, locals, ghosts
<1>5. CASE StartRejected \/ ReturnPassed \/ RefuseDrift \/ ActorEdits \/ Cancel \/ UserEdit
  <2>1. UNCHANGED <<ledger, checkpoint, spawned>>
    BY <1>5 DEF StartRejected, ReturnPassed, RefuseDrift, ActorEdits, Cancel,
         UserEdit, locals, ghosts
  <2>2. QED
    BY <2>1
<1>6. CASE Resume \/ StartFresh
  <2>1. /\ UNCHANGED <<checkpoint, spawned>>
        /\ \/ ledger' = EmptyLedger
           \/ checkpoint # None /\ ledger' = checkpoint.ledger
    BY <1>6 DEF Resume, StartFresh, Begin, RestoredLedger
  <2>2. Used(ledger') <= spawned'
    BY <1>1, <2>1, EmptyUsed DEF Used
  <2>3. QED
    BY <1>1, <1>3, <2>1, <2>2
<1>7. CASE Leaves
  <2>1. Used(ledger') <= spawned'
    BY <1>1, <1>7, LeavesKeep, EmptyUsed
  <2>2. QED
    BY <1>1, <1>3, <1>7, <2>1, LeavesKeep
<1>8. CASE Uncounted
  BY <1>1, <1>2, <1>3, <1>8, UncountedKeeps
<1>9. CASE Review
  <2> DEFINE batch == InitialAssignments
  <2>1. plan \in Snapshots /\ snapshot \in Snapshots
    BY <1>9 DEF Review, Evidence, TypeOK
  <2>2. IsFiniteSet(batch) /\ \A a \in batch : a.lenses \subseteq ReviewLens
    BY <2>1, PlanFinite, AssignmentsOfPlan DEF InitialAssignments
  <2>3. PICK outcome : RunReviewAssignments(batch, outcome)
    BY <1>9 DEF Review
  <2>4. checkpoint'.ledger = ledger'
    BY <1>9 DEF Review, ReviewFailure, Finish, Save
  <2> HIDE DEF batch
  <2>5. /\ ledger'.fixInvocations = ledger.fixInvocations
        /\ ledger'.reviewInvocations - ledger.reviewInvocations <= spawned' - spawned
    BY <2>1, <2>2, <2>3, BatchType
  <2>6. spawned <= spawned'
    <3>1. Cardinality(Processed(batch, outcome)) \in Nat
      BY <2>2, BatchCounts
    <3>2. QED
      BY <1>1, <2>3, <3>1 DEF RunReviewAssignments
  <2>7. Used(ledger') <= spawned'
    BY <1>1, <1>2, <2>5, UsedType DEF Used
  <2>8. QED
    BY <1>3, <2>4, <2>6, <2>7
<1>10. CASE Verify
  <2>1. /\ ledger'.fixInvocations = ledger.fixInvocations
        /\ ledger'.reviewInvocations \in {ledger.reviewInvocations,
                                          ledger.reviewInvocations + 1}
        /\ checkpoint'.ledger = ledger'
    BY <1>10, VerifyLedger DEF Finish, Save
  <2>2. spawned' = spawned + 1
    BY <1>10 DEF Verify
  <2>3. Used(ledger') <= spawned'
    BY <1>1, <1>2, <2>1, <2>2, UsedType DEF Used
  <2>4. QED
    BY <1>1, <1>3, <2>1, <2>2, <2>3
<1>11. CASE Adjudicate
  <2>1. checkpoint'.ledger = ledger' /\ spawned' = spawned
    BY <1>11 DEF Adjudicate, Save, ghosts
  <2>2. Used(ledger') = Used(ledger)
    BY <1>11, AdjudicateLedger DEF Used
  <2>3. QED
    BY <1>1, <1>2, <1>3, <2>1, <2>2
<1>12. CASE ActorError
  <2>1. ledger' = ledger /\ checkpoint'.ledger = ledger' /\ spawned' = spawned + 1
    BY <1>12 DEF ActorError, Finish, Save
  <2>2. QED
    BY <1>1, <1>2, <1>3, <2>1, UsedType
<1>13. CASE \E success \in BOOLEAN : ActorReturns(success)
  <2>1. /\ ledger' = [ledger EXCEPT !.fixInvocations = @ + 1, !.actorCalls = @ + 1]
        /\ spawned' = spawned + 1
        /\ checkpoint' = checkpoint \/ checkpoint'.ledger = ledger'
    BY <1>13 DEF ActorReturns, Finish, Save
  <2>2. /\ ledger'.fixInvocations = ledger.fixInvocations + 1
        /\ ledger'.reviewInvocations = ledger.reviewInvocations
    BY <1>1, <2>1 DEF Ledgers
  <2>3. Used(ledger') <= spawned'
    BY <1>1, <1>2, <2>1, <2>2, UsedType DEF Used
  <2>4. QED
    BY <1>1, <1>3, <2>1, <2>3
<1>14. QED
  BY <1>4, <1>5, <1>6, <1>7, <1>8, <1>9, <1>10, <1>11, <1>12, <1>13
     DEF Next, Start, RunStep, Environment, Leaves, Uncounted

(* However often a run is cut off and resumed, neither its accounting nor   *)
(* the one on disk claims more agent processes than ran.                    *)
THEOREM NothingIsOvercounted == Spec => []NeverOvercounts
<1>1. Init => NeverOvercounts
  <2>1. SUFFICES ASSUME Init PROVE NeverOvercounts
    OBVIOUS
  <2>2. ledger = EmptyLedger /\ checkpoint = None /\ spawned = 0
    BY <2>1 DEF Init
  <2>3. QED
    BY <2>2, EmptyUsed DEF NeverOvercounts, Used
<1>2. TypeOK /\ Evidence /\ TypeOK' /\ NeverOvercounts /\ [Next]_vars => NeverOvercounts'
  BY OvercountStep
<1>3. QED
  BY <1>1, <1>2, EvidenceHolds, PTL DEF Spec

-------------------------------------------------------------------------------
(* What a checkpoint keeps of the one before. *)

\* Ledger m has lost nothing of ledger l.
Keeps(l, m) ==
  /\ l.actorCalls <= m.actorCalls
  /\ l.reviewInvocations <= m.reviewInvocations
  /\ l.reviews \subseteq m.reviews
  /\ \A fp \in Fingerprints : l.decisions[fp] <= m.decisions[fp]

LEMMA KeepsItself == ASSUME NEW l \in Ledgers PROVE Keeps(l, l)
BY DEF Keeps, Ledgers

LEMMA KeepsOn ==
  ASSUME NEW l \in Ledgers, NEW m \in Ledgers, NEW n \in Ledgers, Keeps(l, m), Keeps(m, n)
  PROVE  Keeps(l, n)
<1>1. /\ l.actorCalls <= n.actorCalls /\ l.reviewInvocations <= n.reviewInvocations
      /\ l.reviews \subseteq n.reviews
  BY DEF Keeps, Ledgers
<1>2. ASSUME NEW fp \in Fingerprints PROVE l.decisions[fp] <= n.decisions[fp]
  <2>1. {l.decisions[fp], m.decisions[fp], n.decisions[fp]} \subseteq Nat
    BY DEF Ledgers
  <2>2. l.decisions[fp] <= m.decisions[fp] /\ m.decisions[fp] <= n.decisions[fp]
    BY DEF Keeps
  <2>3. QED
    BY <2>1, <2>2
<1>3. QED
  BY <1>1, <1>2 DEF Keeps

LEMMA CountingKeeps ==
  ASSUME NEW decisions \in [Fingerprints -> Nat], NEW new, NEW fp \in Fingerprints
  PROVE  decisions[fp] <= CountDecisions(decisions, new)[fp]
BY DEF CountDecisions

\* What a step adds to the reviews is of this snapshot and this cycle.
Reads ==
  /\ ledger'.actorCalls = ledger.actorCalls
  /\ \A x \in ledger'.reviews \ ledger.reviews : x.on = snapshot /\ x.cycle = ReviewCycle

LEMMA ReviewKeeps ==
  ASSUME TypeOK, TypeOK', Evidence, Review
  PROVE  Keeps(ledger, ledger') /\ Reads
<1> DEFINE batch == InitialAssignments
<1>1. ledger \in Ledgers /\ plan \in Snapshots
  BY DEF Review, Evidence, TypeOK
<1>2. IsFiniteSet(batch)
  BY <1>1, PlanFinite DEF InitialAssignments
<1>3. PICK outcome : RunReviewAssignments(batch, outcome)
  BY DEF Review
<1> HIDE DEF batch
<1> DEFINE n == Cardinality(Counted(batch, outcome))
           new == {[cycle |-> ReviewCycle, lenses |-> a.lenses, on |-> snapshot] :
                     a \in WithKind(Processed(batch, outcome), outcome, {"clear"})}
<1>4. n \in Nat
  BY <1>2, BatchCounts
<1>5. ledger' = [ledger EXCEPT !.reviewInvocations = @ + n, !.reviews = @ \cup new]
  BY <1>3 DEF RunReviewAssignments
<1>6. \A x \in new : x.on = snapshot /\ x.cycle = ReviewCycle
  OBVIOUS
<1> HIDE DEF n, new
<1>7. /\ ledger'.actorCalls = ledger.actorCalls
      /\ ledger'.reviewInvocations = ledger.reviewInvocations + n
      /\ ledger'.reviews = ledger.reviews \cup new
      /\ ledger'.decisions = ledger.decisions
  BY <1>1, <1>5 DEF Ledgers
<1>8. Keeps(ledger, ledger) /\ ledger.reviewInvocations \in Nat
  BY <1>1, KeepsItself DEF Ledgers
<1>9. QED
  BY <1>4, <1>6, <1>7, <1>8 DEF Keeps, Reads

LEMMA VerifyKeeps ==
  ASSUME TypeOK, TypeOK', Evidence, Verify
  PROVE  Keeps(ledger, ledger') /\ Reads
<1> DEFINE a == VerificationAssignment(PlanOf(plan))
           record == [cycle |-> ReviewCycle, lenses |-> a.lenses, on |-> snapshot]
<1>1. ledger \in Ledgers
  BY DEF TypeOK
<1>2. PICK outcome, found :
        ledger' = [ledger EXCEPT
          !.reviewInvocations = IF outcome[a].kind = "error" THEN @ ELSE @ + 1,
          !.reviews = IF outcome[a].kind = "clear" THEN @ \cup {record} ELSE @,
          !.decisions = IF outcome[a].kind = "clear" THEN CountDecisions(@, found) ELSE @]
  BY DEF Verify
<1> DEFINE kind == outcome[a].kind
           R == IF kind = "clear" THEN ledger.reviews \cup {record} ELSE ledger.reviews
           D == IF kind = "clear" THEN CountDecisions(ledger.decisions, found)
                ELSE ledger.decisions
<1>3. /\ ledger'.reviews = R /\ ledger'.decisions = D
      /\ ledger'.actorCalls = ledger.actorCalls
      /\ ledger'.reviewInvocations \in {ledger.reviewInvocations, ledger.reviewInvocations + 1}
  BY <1>1, <1>2, VerifyLedger DEF Ledgers
<1>4. ledger.reviews \subseteq R /\ R \subseteq ledger.reviews \cup {record}
  OBVIOUS
<1>5. ledger.decisions \in [Fingerprints -> Nat] /\ ledger.reviewInvocations \in Nat
      /\ ledger.actorCalls \in Nat
  BY <1>1 DEF Ledgers
<1>6. \A fp \in Fingerprints : ledger.decisions[fp] <= D[fp]
  BY <1>5, CountingKeeps
<1>7. Keeps(ledger, ledger')
  BY <1>3, <1>4, <1>5, <1>6 DEF Keeps
<1>8. Reads
  BY <1>3, <1>4 DEF Reads
<1>9. QED
  BY <1>7, <1>8

\* Every step of a run that does not leave it keeps the accounting, and writes
\* it, on the snapshot of the run, or lets the checkpoint be.
LEMMA RunKeeps ==
  ASSUME TypeOK, TypeOK', Evidence, RunStep, ~Leaves
  PROVE  /\ pc # "idle"
         /\ Keeps(ledger, ledger')
         /\ \/ checkpoint'.ledger = ledger' /\ checkpoint'.snapshot = snapshot'
            \/ UNCHANGED <<checkpoint, snapshot>>
         /\ snapshot' = snapshot \/ pc = "recapturing"
<1>1. ledger \in Ledgers /\ ledger' \in Ledgers
  BY DEF TypeOK
<1>2. CASE Uncounted
  <2>1. checkpoint'.ledger = ledger' /\ checkpoint'.snapshot = snapshot'
    BY <1>2, UncountedKeeps
  <2>2. Keeps(ledger, ledger')
    BY <1>1, <1>2, UncountedKeeps, KeepsItself
  <2>3. pc # "idle" /\ (snapshot' = snapshot \/ pc = "recapturing")
    BY <1>2 DEF Uncounted, CheckpointSnapshotted, BuildPlan, Validate, ValidationBlocked,
         BeginValidationRepair, InitialReviewLimit, VerificationLimit, ReviewLimit,
         Decide, Recapture, locals
  <2>4. QED
    BY <2>1, <2>2, <2>3
<1>3. CASE Review
  <2>1. /\ checkpoint'.ledger = ledger' /\ checkpoint'.snapshot = snapshot'
        /\ pc # "idle" /\ snapshot' = snapshot
    BY <1>3 DEF Review, ReviewFailure, Finish, Save
  <2>2. QED
    BY <1>3, <2>1, ReviewKeeps
<1>4. CASE Verify
  <2>1. pc # "idle" /\ snapshot' = snapshot
    BY <1>4 DEF Verify
  <2>2. checkpoint'.ledger = ledger' /\ checkpoint'.snapshot = snapshot'
    BY <1>4, VerifyLedger DEF Finish, Save
  <2>3. QED
    BY <1>4, <2>1, <2>2, VerifyKeeps
<1>5. CASE Adjudicate
  <2>1. /\ checkpoint'.ledger = ledger' /\ checkpoint'.snapshot = snapshot'
        /\ pc # "idle" /\ snapshot' = snapshot
    BY <1>5 DEF Adjudicate, Save
  <2>2. /\ ledger'.decisions = CountDecisions(ledger.decisions, accepted')
        /\ ledger'.actorCalls = ledger.actorCalls
        /\ ledger'.reviewInvocations = ledger.reviewInvocations
        /\ ledger'.reviews = ledger.reviews
    BY <1>1, <1>5 DEF Adjudicate, Ledgers
  <2>3. Keeps(ledger, ledger)
    BY <1>1, KeepsItself
  <2>4. \A fp \in Fingerprints : ledger.decisions[fp] <= ledger'.decisions[fp]
    BY <1>1, <2>2, CountingKeeps DEF Ledgers
  <2>5. Keeps(ledger, ledger')
    BY <2>2, <2>3, <2>4 DEF Keeps
  <2>6. QED
    BY <2>1, <2>5
<1>6. CASE ActorError
  <2>1. /\ ledger' = ledger
        /\ checkpoint'.ledger = ledger' /\ checkpoint'.snapshot = snapshot'
        /\ pc # "idle" /\ snapshot' = snapshot
    BY <1>6 DEF ActorError, Finish, Save
  <2>2. QED
    BY <1>1, <2>1, KeepsItself
<1>7. CASE \E success \in BOOLEAN : ActorReturns(success)
  <2>1. /\ ledger' = [ledger EXCEPT !.fixInvocations = @ + 1, !.actorCalls = @ + 1]
        /\ \/ checkpoint'.ledger = ledger' /\ checkpoint'.snapshot = snapshot'
           \/ UNCHANGED checkpoint
        /\ pc # "idle" /\ snapshot' = snapshot
    BY <1>7 DEF ActorReturns, Finish, Save
  <2>2. /\ ledger'.actorCalls = ledger.actorCalls + 1
        /\ ledger'.reviewInvocations = ledger.reviewInvocations
        /\ ledger'.reviews = ledger.reviews /\ ledger'.decisions = ledger.decisions
        /\ ledger.actorCalls \in Nat
    BY <1>1, <2>1 DEF Ledgers
  <2>3. Keeps(ledger, ledger)
    BY <1>1, KeepsItself
  <2>4. Keeps(ledger, ledger')
    BY <2>2, <2>3 DEF Keeps
  <2>5. QED
    BY <2>1, <2>4
<1>8. QED
  BY <1>2, <1>3, <1>4, <1>5, <1>6, <1>7 DEF RunStep, Uncounted, Leaves

\* The checkpoint of the snapshot at hand is within the accounting of the run.
Kept ==
  pc # "idle" /\ checkpoint # None /\ checkpoint.snapshot = snapshot =>
    Keeps(checkpoint.ledger, ledger)

KeepsAccounting ==
  checkpoint # None /\ checkpoint'.snapshot = checkpoint.snapshot =>
    Keeps(checkpoint.ledger, checkpoint'.ledger)

LEMMA KeptStep ==
  ASSUME TypeOK, TypeOK', Evidence, RepairIsWriteAhead, Kept, [Next]_vars
  PROVE  Kept' /\ KeepsAccounting
<1>1. /\ ledger \in Ledgers /\ ledger' \in Ledgers
      /\ checkpoint # None => checkpoint.ledger \in Ledgers
      /\ checkpoint' # None => checkpoint'.ledger \in Ledgers
  BY DEF TypeOK, Checkpoints
<1>2. UNCHANGED checkpoint => KeepsAccounting
  BY <1>1, KeepsItself DEF KeepsAccounting
<1>3. CASE UNCHANGED <<pc, checkpoint, snapshot, ledger>>
  BY <1>2, <1>3 DEF Kept
<1>4. CASE Leaves
  BY <1>2, <1>4, LeavesKeep DEF Kept
<1>5. CASE Resume
  <2>1. checkpoint' = checkpoint /\ ledger' = checkpoint.ledger /\ checkpoint # None
    BY <1>5 DEF Resume, Begin, RestoredLedger
  <2>2. QED
    BY <1>1, <1>2, <2>1, KeepsItself DEF Kept
<1>6. CASE StartFresh
  <2>1. checkpoint' = checkpoint /\ (checkpoint # None => checkpoint.snapshot # snapshot')
    BY <1>6 DEF StartFresh, Begin
  <2>2. QED
    BY <1>2, <2>1 DEF Kept
<1>7. CASE RunStep /\ ~Leaves
  <2>1. /\ pc # "idle"
        /\ Keeps(ledger, ledger')
        /\ \/ checkpoint'.ledger = ledger' /\ checkpoint'.snapshot = snapshot'
           \/ UNCHANGED <<checkpoint, snapshot>>
        /\ snapshot' = snapshot \/ pc = "recapturing"
    BY <1>7, RunKeeps
  <2>2. CASE UNCHANGED <<checkpoint, snapshot>>
    <3>1. Kept'
      BY <1>1, <2>1, <2>2, KeepsOn DEF Kept
    <3>2. QED
      BY <1>2, <2>2, <3>1
  <2>3. CASE checkpoint'.ledger = ledger' /\ checkpoint'.snapshot = snapshot'
    <3>1. Kept'
      BY <1>1, <2>3, KeepsItself DEF Kept
    <3>2. SUFFICES ASSUME checkpoint # None, checkpoint'.snapshot = checkpoint.snapshot
                   PROVE  Keeps(checkpoint.ledger, checkpoint'.ledger)
      BY <3>1 DEF KeepsAccounting
    <3>3. checkpoint.snapshot = snapshot
      BY <2>1, <2>3, <3>2 DEF RepairIsWriteAhead
    <3>4. Keeps(checkpoint.ledger, ledger)
      BY <2>1, <3>2, <3>3 DEF Kept
    <3>5. QED
      BY <1>1, <2>1, <2>3, <3>2, <3>4, KeepsOn
  <2>4. QED
    BY <2>1, <2>2, <2>3
<1>8. CASE UNCHANGED vars \/ StartRejected \/ ReturnPassed \/ RefuseDrift \/ ActorEdits
           \/ Cancel \/ UserEdit
  BY <1>3, <1>8 DEF vars, StartRejected, ReturnPassed, RefuseDrift, ActorEdits, Cancel,
                    UserEdit, locals
<1>9. QED
  BY <1>4, <1>5, <1>6, <1>7, <1>8 DEF Next, Start, Environment, Leaves

(* Of two checkpoints of one snapshot the later has lost nothing of the     *)
(* earlier, through crashes, cancellations and any number of runs.          *)
THEOREM AccountingIsKept == Spec => CheckpointKeepsAccounting
<1>1. Init => Kept
  BY DEF Init, Kept
<1>2. TypeOK /\ TypeOK' /\ Evidence /\ RepairIsWriteAhead /\ Kept /\ [Next]_vars =>
        Kept' /\ KeepsAccounting
  BY KeptStep
<1>3. KeepsAccounting =>
        [checkpoint # None /\ checkpoint'.snapshot = checkpoint.snapshot =>
           LET old == checkpoint.ledger new == checkpoint'.ledger IN
           /\ old.actorCalls <= new.actorCalls
           /\ old.reviewInvocations <= new.reviewInvocations
           /\ old.reviews \subseteq new.reviews
           /\ \A fp \in Fingerprints : old.decisions[fp] <= new.decisions[fp]]_vars
  BY DEF KeepsAccounting, Keeps
<1>4. QED
  BY <1>1, <1>2, <1>3, EvidenceHolds, RepairsAreWrittenAhead, PTL
     DEF Spec, CheckpointKeepsAccounting

-------------------------------------------------------------------------------
(* What a passed result stands on, where nobody else edits during a run. *)

LEMMA SelectedCover ==
  ASSUME NEW s \in Snapshots, NEW cycle, NEW affected
  PROVE  \A l \in {"behavior", "validation"} :
           \E a \in SelectReviewAssignments(PlanOf(s), cycle, affected) : l \in a.lenses
<1> DEFINE risk == Risk(SignalsOf[s])
           applicable == Applicability(SignalsOf[s].flags)
<1>1. SUFFICES ASSUME NEW l \in {"behavior", "validation"}
               PROVE  \E a \in SelectReviewAssignments(PlanOf(s), cycle, affected) :
                        l \in a.lenses
  OBVIOUS
<1>2. l \in applicable
  BY DEF Applicability, MandatoryLens
<1>3. risk \in {"simple", "medium", "complex"}
  BY DEF Risk
<1> HIDE DEF risk, applicable
<1>4. PICK c \in Clusters(risk) : l \in c.lenses
  <2>1. CASE risk = "simple"
    BY <2>1 DEF Clusters, Cluster, ReviewLens
  <2>2. CASE risk = "medium"
    BY <2>2 DEF Clusters, Cluster
  <2>3. CASE risk = "complex"
    BY <2>3 DEF Clusters, Cluster
  <2>4. QED
    BY <1>3, <2>1, <2>2, <2>3
<1> DEFINE a == Cluster(c.name, c.lenses \cap applicable)
<1>5. l \in a.lenses
  BY <1>2, <1>4 DEF Cluster
<1>6. a \in Assignments(risk, applicable)
  BY <1>4, <1>5, Zenon DEF Assignments
<1>7. PlanOf(s).assignments = Assignments(risk, applicable)
  BY DEF PlanOf, Plans, BuildReviewPlan, risk, applicable
<1> HIDE DEF a
<1>8. a \in SelectReviewAssignments(PlanOf(s), cycle, affected)
  BY <1>5, <1>6, <1>7 DEF SelectReviewAssignments, AffectedAssignments
<1>9. QED
  BY <1>5, <1>8

\* The reviews of this cycle that read the snapshot at hand.
Last == {x \in ledger.reviews : x.on = snapshot /\ x.cycle = ReviewCycle}

Validated ==
  lastValidation.passed = TRUE /\ CaptureSnapshot(lastValidation.tree) = snapshot

MandatoryRead == {"behavior", "validation"} \subseteq CoveredBy(Last)

Advised ==
  PlanOf(plan).requiresVerification =>
    \E x \in Last : x.lenses = VerificationAssignment(PlanOf(plan)).lenses

\* What has been gathered for the snapshot when the run is at each point.
Gathered ==
  /\ pc \notin {"idle", "acting", "recapturing", "publishing"} => snapshot = Current
  /\ pc \in {"validating", "failing", "reviewing", "reviewed", "verifying", "deciding"} =>
       plan = snapshot
  /\ pc \in {"reviewing", "reviewed", "verifying", "deciding"} => Validated
  /\ pc \in {"reviewed", "verifying", "deciding"} => MandatoryRead
  /\ pc = "deciding" /\ accepted = {} => Advised
  /\ pc = "publishing" /\ verdict.status = "passed" =>
       plan = snapshot /\ Validated /\ MandatoryRead /\ Advised

\* At these points nothing is claimed of the snapshot.
LEMMA ClaimsNothing ==
  ASSUME \/ pc \in {"idle", "acting", "recapturing"}
         \/ pc = "publishing" /\ verdict.status = "blocked"
  PROVE  Gathered
BY DEF Gathered

LEMMA BlockedClaimsNothing ==
  ASSUME NEW reason, Finish("blocked", reason)
  PROVE  Gathered'
BY DEF Finish, Gathered

\* A review cycle that ran to its end has read behavior and validation.
LEMMA ReviewReads ==
  ASSUME TypeOK, Evidence, Review, pc' = "reviewed"
  PROVE  MandatoryRead'
<1> DEFINE batch == InitialAssignments
<1>1. ledger \in Ledgers /\ snapshot' = snapshot
  BY DEF Review, TypeOK
<1>2. PICK outcome : RunReviewAssignments(batch, outcome) /\ Reviewed(batch, outcome)
  BY DEF Review, ReviewFailure, FirstFailure, Finish
<1> DEFINE record(a) == [cycle |-> ReviewCycle, lenses |-> a.lenses, on |-> snapshot]
           clear == WithKind(Processed(batch, outcome), outcome, {"clear"})
<1>3. \A l \in {"behavior", "validation"} : \E a \in batch : l \in a.lenses
  <2>1. plan \in Snapshots
    BY DEF Review, Evidence, TypeOK
  <2>2. QED
    BY <2>1, SelectedCover DEF InitialAssignments
<1> HIDE DEF batch
<1>4. \A a \in batch : a \in clear
  BY <1>2 DEF Reviewed, WithKind, Processed
<1>5. ledger' = [ledger EXCEPT
        !.reviewInvocations = @ + Cardinality(Counted(batch, outcome)),
        !.reviews = @ \cup {record(a) : a \in clear}]
  BY <1>2 DEF RunReviewAssignments
<1> HIDE DEF clear
<1>6. /\ ledger'.reviews = ledger.reviews \cup {record(a) : a \in clear}
      /\ ledger'.actorCalls = ledger.actorCalls
  BY <1>1, <1>5 DEF Ledgers
<1>7. ReviewCycle' = ReviewCycle
  BY <1>6 DEF ReviewCycle
<1>8. \A a \in batch : record(a) \in Last'
  BY <1>1, <1>4, <1>6, <1>7 DEF Last
<1>9. ASSUME NEW l \in {"behavior", "validation"}
      PROVE  \E x \in Last' : l \in x.lenses
  <2>1. PICK a \in batch : l \in a.lenses
    BY <1>3
  <2>2. record(a).lenses = a.lenses
    OBVIOUS
  <2>3. QED
    BY <1>8, <2>1, <2>2
<1>10. QED
  BY <1>9 DEF MandatoryRead, CoveredBy

LEMMA ReviewGathers ==
  ASSUME TypeOK, TypeOK', Evidence, Gathered, Review
  PROVE  Gathered'
<1>1. CASE \E reason : Finish("blocked", reason)
  BY <1>1, BlockedClaimsNothing
<1>2. CASE pc' = "reviewed"
  <2>1. UNCHANGED <<worktree, snapshot, plan, lastValidation>> /\ pc = "reviewing"
    BY DEF Review
  <2>2. snapshot' = Current' /\ plan' = snapshot' /\ Validated'
    BY <2>1 DEF Gathered, Validated, Current
  <2>3. QED
    BY <1>2, <2>2, ReviewReads DEF Gathered
<1>3. QED
  BY <1>1, <1>2 DEF Review, ReviewFailure

LEMMA VerifyGathers ==
  ASSUME TypeOK, TypeOK', Evidence, Gathered, Verify
  PROVE  Gathered'
<1> DEFINE a == VerificationAssignment(PlanOf(plan))
           record == [cycle |-> ReviewCycle, lenses |-> a.lenses, on |-> snapshot]
<1>1. /\ ledger \in Ledgers /\ pc = "verifying"
      /\ UNCHANGED <<worktree, snapshot, plan, lastValidation>>
  BY DEF Verify, TypeOK
<1>2. PICK outcome, accepts :
        /\ ledger' = [ledger EXCEPT
             !.reviewInvocations = IF outcome[a].kind = "error" THEN @ ELSE @ + 1,
             !.reviews = IF outcome[a].kind = "clear" THEN @ \cup {record} ELSE @,
             !.decisions = IF outcome[a].kind = "clear"
               THEN CountDecisions(@, accepts) ELSE @]
        /\ \/ outcome[a].kind = "clear" /\ pc' = "deciding"
           \/ \E reason : Finish("blocked", reason)
  BY DEF Verify
<1>3. CASE \E reason : Finish("blocked", reason)
  BY <1>3, BlockedClaimsNothing
<1>4. CASE outcome[a].kind = "clear" /\ pc' = "deciding"
  <2> HIDE DEF record
  <2>1. ledger'.reviews = ledger.reviews \cup {record} /\ ledger'.actorCalls = ledger.actorCalls
    BY <1>1, <1>2, <1>4 DEF Ledgers
  <2>2. ReviewCycle' = ReviewCycle
    BY <2>1 DEF ReviewCycle
  <2>3. record \in Last' /\ Last \subseteq Last'
    BY <1>1, <2>1, <2>2 DEF Last, record
  <2>4. MandatoryRead'
    BY <1>1, <2>3 DEF Gathered, MandatoryRead, CoveredBy
  <2>5. Advised'
    BY <1>1, <2>3 DEF Advised, record
  <2>6. snapshot' = Current' /\ plan' = snapshot' /\ Validated'
    BY <1>1 DEF Gathered, Validated, Current
  <2>7. QED
    BY <1>4, <2>4, <2>5, <2>6 DEF Gathered
<1>5. QED
  BY <1>2, <1>3, <1>4

LEMMA GatheredStep ==
  ASSUME EditsDuringRun = FALSE, TypeOK, TypeOK', Evidence, Gathered, [Next]_vars
  PROVE  Gathered'
<1>1. CASE UNCHANGED vars
  BY <1>1 DEF vars, locals, Gathered, Current, Validated, MandatoryRead, Advised, Last,
              ReviewCycle, CoveredBy
<1>2. CASE StartRejected \/ ReturnPassed \/ RefuseDrift \/ UserEdit \/ Leaves \/ ActorEdits
  <2>1. pc' \in {"idle", "acting"}
    BY <1>2, LeavesKeep DEF StartRejected, ReturnPassed, RefuseDrift, UserEdit, ActorEdits,
         Enter
  <2>2. QED
    BY <2>1, ClaimsNothing DEF Gathered
<1>3. CASE Resume \/ StartFresh
  BY <1>3 DEF Resume, StartFresh, Begin, Gathered, Current
<1>4. CASE CheckpointSnapshotted \/ BuildPlan
  BY <1>4 DEF CheckpointSnapshotted, BuildPlan, Gathered, Current, locals
<1>5. ASSUME NEW ok \in BOOLEAN, Validate(ok)
      PROVE  Gathered'
  <2>1. /\ UNCHANGED <<worktree, snapshot, plan>>
        /\ pc = "validating"
        /\ lastValidation' = [passed |-> ok, tree |-> worktree]
        /\ pc' = IF ok THEN "reviewing" ELSE "failing"
    BY <1>5 DEF Validate
  <2>2. snapshot' = Current' /\ plan' = snapshot' /\ snapshot' = CaptureSnapshot(worktree)
    BY <2>1 DEF Gathered, Current
  <2>3. CASE ok = TRUE
    <3>1. Validated'
      BY <2>1, <2>2, <2>3 DEF Validated
    <3>2. QED
      BY <2>1, <2>2, <2>3, <3>1 DEF Gathered
  <2>4. CASE ok = FALSE
    BY <2>1, <2>2, <2>4 DEF Gathered
  <2>5. QED
    BY <2>3, <2>4
<1>6. CASE ValidationBlocked \/ InitialReviewLimit \/ VerificationLimit \/ ActorError
  BY <1>6, BlockedClaimsNothing
     DEF ValidationBlocked, InitialReviewLimit, VerificationLimit, ReviewLimit, ActorError
<1>7. CASE BeginValidationRepair
  BY <1>7 DEF BeginValidationRepair, Gathered
<1>8. CASE \E success \in BOOLEAN : ActorReturns(success)
  <2>1. pc' = "recapturing" \/ Finish("blocked", "actor_process_failed")
    BY <1>8 DEF ActorReturns
  <2>2. QED
    BY <2>1, BlockedClaimsNothing DEF Gathered
<1>9. CASE Review
  BY <1>9, ReviewGathers
<1>10. CASE Verify
  BY <1>10, VerifyGathers
<1>11. CASE Adjudicate
  <2>1. /\ UNCHANGED <<worktree, snapshot, plan, lastValidation>>
        /\ pc = "reviewed"
        /\ ledger' = [ledger EXCEPT !.decisions = CountDecisions(@, accepted')]
        /\ pc' = IF NeedsVerification(accepted') THEN "verifying" ELSE "deciding"
    BY <1>11 DEF Adjudicate
  <2>2. ledger'.reviews = ledger.reviews /\ ledger'.actorCalls = ledger.actorCalls
    BY <2>1 DEF TypeOK, Ledgers
  <2>3. Last' = Last
    BY <2>1, <2>2 DEF Last, ReviewCycle
  <2>4. MandatoryRead' /\ Validated' /\ snapshot' = Current' /\ plan' = snapshot'
    BY <2>1, <2>3 DEF Gathered, MandatoryRead, Validated, Current
  <2>5. pc' = "deciding" /\ accepted' = {} => Advised'
    BY <2>1 DEF NeedsVerification, Advised
  <2>6. pc' \in {"verifying", "deciding"}
    BY <2>1
  <2>7. QED
    BY <2>4, <2>5, <2>6 DEF Gathered
<1>12. CASE Decide
  <2>1. /\ UNCHANGED <<worktree, snapshot, plan, ledger, lastValidation>>
        /\ pc = "deciding"
        /\ \/ accepted = {} /\ pc' = "publishing"
           \/ \E reason : Finish("blocked", reason)
           \/ pc' = "acting"
    BY <1>12 DEF Decide, Finish
  <2>2. CASE accepted = {} /\ pc' = "publishing"
    <3>1. Last' = Last
      BY <2>1 DEF Last, ReviewCycle
    <3>2. plan' = snapshot' /\ Validated' /\ MandatoryRead' /\ Advised'
      BY <2>1, <2>2, <3>1 DEF Gathered, Validated, MandatoryRead, Advised
    <3>3. QED
      BY <2>2, <3>2 DEF Gathered
  <2>3. QED
    BY <2>1, <2>2, BlockedClaimsNothing DEF Gathered
<1>13. CASE Recapture
  <2>1. /\ worktree' = worktree /\ snapshot' = Current
        /\ \/ \E reason : Finish("blocked", reason)
           \/ pc' = "snapshotting"
    BY <1>13 DEF Recapture
  <2>2. QED
    BY <2>1, BlockedClaimsNothing DEF Gathered, Current
<1>14. CASE Cancel
  BY <1>14 DEF Cancel, locals, Gathered, Current, Validated, MandatoryRead, Advised, Last,
               ReviewCycle, CoveredBy
<1>15. QED
  BY <1>1, <1>2, <1>3, <1>4, <1>5, <1>6, <1>7, <1>8, <1>9, <1>10, <1>11, <1>12, <1>13, <1>14
     DEF Next, Start, RunStep, Environment, Leaves

LEMMA PublishedStep ==
  ASSUME TypeOK, Gathered, PassedIsEvidenced, [Next]_vars
  PROVE  PassedIsEvidenced'
<1>1. CASE result' = result
  BY <1>1 DEF PassedIsEvidenced, FinalReviews, CoveredBy
<1>2. CASE Publish
  <2>1. SUFFICES ASSUME result'.status = "passed"
                 PROVE  PassedIsEvidenced'
    BY DEF PassedIsEvidenced
  <2>2. /\ pc = "publishing"
        /\ result'.status = verdict.status /\ result'.actorCalls = ledger.actorCalls
        /\ result'.snapshot = snapshot /\ result'.plan = plan
        /\ result'.validation = lastValidation /\ result'.reviews = ledger.reviews
    BY <1>2 DEF Publish
  <2>3. plan = snapshot /\ Validated /\ MandatoryRead /\ Advised
    BY <2>1, <2>2 DEF Gathered
  <2>4. FinalReviews(result') = Last
    BY <2>2 DEF FinalReviews, Last, ReviewCycle
  <2>5. QED
    BY <2>2, <2>3, <2>4 DEF PassedIsEvidenced, Validated, MandatoryRead, Advised, CoveredBy
<1>3. QED
  <2>1. result' = result \/ Publish
    BY DEF Next, Start, RunStep, Environment, vars, StartRejected, ReturnPassed, RefuseDrift,
       Resume, StartFresh, Begin, CheckpointSnapshotted, BuildPlan, Validate,
       ValidationBlocked, BeginValidationRepair, InitialReviewLimit, Review, Adjudicate,
       VerificationLimit, ReviewLimit, Verify, Decide, ActorError, ActorReturns, Recapture,
       CancelledExit, ActorEdits, Cancel, Crash, UserEdit
  <2>2. QED
    BY <1>1, <1>2, <2>1

(* Where nobody but the repair edits the worktree during a run, a result    *)
(* says "passed" only on its evidence: the validation that passed, the      *)
(* plan, the reviews of behavior and validation and the final advisor are   *)
(* all of the snapshot it names.                                            *)
THEOREM PassedIsAlwaysEvidenced ==
  ASSUME EditsDuringRun = FALSE
  PROVE  Spec => []PassedIsEvidenced
<1>1. Init => Gathered /\ PassedIsEvidenced
  BY DEF Init, Gathered, PassedIsEvidenced
<1>2. TypeOK /\ Evidence /\ TypeOK' /\ Gathered /\ PassedIsEvidenced /\ [Next]_vars =>
        Gathered' /\ PassedIsEvidenced'
  BY GatheredStep, PublishedStep
<1>3. QED
  BY <1>1, <1>2, EvidenceHolds, PTL DEF Spec

-------------------------------------------------------------------------------
(* What the processes of a run are shown. *)

\* The snapshot at hand has no secrets once it is looked at.
Clean ==
  /\ SecretsAreNotShown
  /\ pc = "publishing" /\ verdict.status = "passed" => ~IsSensitive(snapshot)

LEMMA CleanStep ==
  ASSUME EditsDuringRun = FALSE, Gathered, Clean, [Next]_vars
  PROVE  Clean'
<1> DEFINE Shown == pc \notin {"idle", "acting", "recapturing", "publishing"}
           Spotless == result' # None /\ result'.status = "passed" =>
                     ~IsSensitive(result'.snapshot)
<1>1. ASSUME result' = result PROVE Spotless
  BY <1>1 DEF Clean, SecretsAreNotShown
<1>2. ASSUME result' = result, pc' \in {"idle", "acting", "recapturing"} PROVE Clean'
  BY <1>1, <1>2 DEF Clean, SecretsAreNotShown, IsSensitive
<1>3. ASSUME result' = result, pc' # "publishing", ~IsSensitive(Current') PROVE Clean'
  BY <1>1, <1>3 DEF Clean, SecretsAreNotShown, IsSensitive
<1>4. ASSUME result' = result, NEW reason, Finish("blocked", reason) PROVE Clean'
  BY <1>1, <1>4 DEF Clean, SecretsAreNotShown, IsSensitive, Finish
<1>5. CASE UNCHANGED vars \/ Cancel
  <2>1. UNCHANGED <<pc, worktree, snapshot, verdict, result>>
    BY <1>5 DEF vars, Cancel, locals
  <2>2. QED
    BY <2>1 DEF Clean, SecretsAreNotShown, Current
<1>6. CASE StartRejected \/ ReturnPassed \/ RefuseDrift \/ UserEdit \/ ActorEdits
           \/ CancelledExit \/ Crash \/ BeginValidationRepair
  <2>1. result' = result /\ pc' \in {"idle", "acting"}
    BY <1>6, LeavesKeep DEF StartRejected, ReturnPassed, RefuseDrift, UserEdit, ActorEdits,
         Enter, CancelledExit, Crash, Exit, BeginValidationRepair
  <2>2. QED
    BY <1>2, <2>1
<1>7. CASE Resume \/ StartFresh
  <2>1. result' = result /\ pc' = "snapshotting" /\ ~IsSensitive(Current)
        /\ worktree' = worktree
    BY <1>7 DEF Resume, StartFresh, Begin, Proceeds
  <2>2. QED
    BY <1>3, <2>1 DEF Current
<1>8. CASE CheckpointSnapshotted \/ BuildPlan \/ (\E ok \in BOOLEAN : Validate(ok))
           \/ Adjudicate
  <2>1. /\ result' = result /\ worktree' = worktree /\ Shown
        /\ pc' # "publishing"
    BY <1>8 DEF CheckpointSnapshotted, BuildPlan, Validate, Adjudicate
  <2>2. QED
    BY <1>3, <2>1 DEF Clean, SecretsAreNotShown, Current
<1>9. CASE ValidationBlocked \/ InitialReviewLimit \/ VerificationLimit \/ ActorError
  <2>1. result' = result /\ \E reason : Finish("blocked", reason)
    BY <1>9 DEF ValidationBlocked, InitialReviewLimit, VerificationLimit, ReviewLimit,
         ActorError
  <2>2. QED
    BY <1>4, <2>1
<1>10. CASE Review \/ Verify
  <2>1. /\ result' = result /\ worktree' = worktree /\ Shown
        /\ \/ pc' \in {"reviewed", "deciding"}
           \/ \E reason : Finish("blocked", reason)
    BY <1>10 DEF Review, Verify, ReviewFailure
  <2>2. QED
    BY <1>3, <1>4, <2>1 DEF Clean, SecretsAreNotShown, Current
<1>11. CASE Decide
  <2>1. /\ result' = result /\ UNCHANGED <<worktree, snapshot>> /\ pc = "deciding"
        /\ \/ pc' = "publishing" \/ pc' = "acting"
           \/ \E reason : Finish("blocked", reason)
    BY <1>11 DEF Decide, Finish
  <2>2. ~IsSensitive(snapshot')
    BY <2>1 DEF Clean, SecretsAreNotShown, Gathered, Current
  <2>3. CASE pc' = "publishing"
    BY <1>1, <2>1, <2>2, <2>3 DEF Clean, SecretsAreNotShown
  <2>4. QED
    BY <1>2, <1>4, <2>1, <2>3
<1>12. CASE \E success \in BOOLEAN : ActorReturns(success)
  <2>1. /\ result' = result
        /\ pc' = "recapturing" \/ \E reason : Finish("blocked", reason)
    BY <1>12 DEF ActorReturns
  <2>2. QED
    BY <1>2, <1>4, <2>1
<1>13. CASE Recapture
  <2>1. /\ result' = result /\ worktree' = worktree
        /\ \/ \E reason : Finish("blocked", reason)
           \/ RepairRejection(snapshot, Current) = {} /\ pc' = "snapshotting"
    BY <1>13 DEF Recapture
  <2>2. RepairRejection(snapshot, Current) = {} => ~IsSensitive(Current)
    BY DEF RepairRejection
  <2>3. QED
    BY <1>3, <1>4, <2>1, <2>2 DEF Current
<1>14. CASE Publish
  <2>1. /\ pc = "publishing" /\ pc' = "idle"
        /\ result'.status = verdict.status /\ result'.snapshot = snapshot
    BY <1>14 DEF Publish, Exit
  <2>2. Spotless
    BY <2>1 DEF Clean
  <2>3. QED
    BY <2>1, <2>2 DEF Clean, SecretsAreNotShown
<1>15. QED
  BY <1>5, <1>6, <1>7, <1>8, <1>9, <1>10, <1>11, <1>12, <1>13, <1>14
     DEF Next, Start, RunStep, Environment

(* Where nobody but the repair edits the worktree during a run, no process  *)
(* that reads it is started over what looks like a secret, whoever put it   *)
(* there, and no snapshot with one passes.                                  *)
THEOREM SecretsStayHidden ==
  ASSUME EditsDuringRun = FALSE
  PROVE  Spec => []SecretsAreNotShown
<1>1. Init => Gathered /\ Clean
  BY DEF Init, Gathered, Clean, SecretsAreNotShown
<1>2. TypeOK /\ Evidence /\ TypeOK' /\ Gathered /\ Clean /\ [Next]_vars =>
        Gathered' /\ Clean'
  BY GatheredStep, CleanStep
<1>3. Clean => SecretsAreNotShown
  BY DEF Clean
<1>4. QED
  BY <1>1, <1>2, <1>3, EvidenceHolds, PTL DEF Spec
================================================================================
