--------------------------- MODULE GarfieldRunProofs ---------------------------
(***************************************************************************)
(* Theorems of GarfieldRun, for every worktree, plan, report and budget.   *)
(***************************************************************************)
EXTENDS GarfieldRun, FiniteSetTheorems, TLAPS

-------------------------------------------------------------------------------
(* The operators the actions are built from. *)

LEMMA CurrentType == worktree \in Worktrees => Current \in Snapshots
BY DEF Current, Snapshots

(* The assignments of a plan are finitely many.                            *)
LEMMA ClustersFinite ==
  ASSUME NEW risk \in {"simple", "medium", "complex"}
  PROVE  IsFiniteSet(Clusters(risk))
<1>1. ASSUME NEW S, IsFiniteSet(S), NEW x
      PROVE  IsFiniteSet({x} \cup S)
  <2>1. {x} \cup S = S \cup {x}
    OBVIOUS
  <2>2. QED
    BY <1>1, <2>1, FS_AddElement
<1>2. \A x : IsFiniteSet({x})
  BY FS_Singleton
<1>3. \A x, y, z : IsFiniteSet({x, y, z})
  <2> TAKE x, y, z
  <2>1. {x, y, z} = {x} \cup ({y} \cup {z})
    OBVIOUS
  <2>2. QED
    BY <1>1, <1>2, <2>1
<1>4. CASE risk = "simple"
  BY <1>2, <1>4 DEF Clusters
<1>5. CASE risk = "medium"
  BY <1>3, <1>5, Zenon DEF Clusters
<1>6. CASE risk = "complex"
  <2>1. \A a, b, c, d, e, f, g : IsFiniteSet({a, b, c, d, e, f, g})
    <3> TAKE a, b, c, d, e, f, g
    <3>1. {a, b, c, d, e, f, g} = {a} \cup ({b, c, d} \cup {e, f, g})
      OBVIOUS
    <3>2. IsFiniteSet({b, c, d} \cup {e, f, g})
      BY <1>3, FS_Union
    <3>3. QED
      BY <1>1, <3>1, <3>2
  <2>2. QED
    BY <1>6, <2>1, Zenon DEF Clusters
<1>7. QED
  BY <1>4, <1>5, <1>6

LEMMA AssignmentsFinite ==
  ASSUME NEW risk \in {"simple", "medium", "complex"}, NEW applicable
  PROVE  IsFiniteSet(Assignments(risk, applicable))
<1> DEFINE image == {Cluster(c.name, c.lenses \cap applicable) : c \in Clusters(risk)}
           f == [c \in Clusters(risk) |-> Cluster(c.name, c.lenses \cap applicable)]
<1>1. f \in Surjection(Clusters(risk), image)
  BY DEF Surjection
<1>2. IsFiniteSet(image)
  BY <1>1, ClustersFinite, FS_Surjection
<1>3. Assignments(risk, applicable) \subseteq image
  BY DEF Assignments
<1>4. QED
  BY <1>2, <1>3, FS_Subset

LEMMA PlanFinite ==
  ASSUME NEW s \in Snapshots, NEW cycle, NEW affected
  PROVE  IsFiniteSet(SelectReviewAssignments(PlanOf(s), cycle, affected))
<1>1. Risk(SignalsOf[s]) \in {"simple", "medium", "complex"}
  BY DEF Risk
<1>2. IsFiniteSet(PlanOf(s).assignments)
  BY <1>1, AssignmentsFinite DEF PlanOf, Plans, BuildReviewPlan
<1>3. SelectReviewAssignments(PlanOf(s), cycle, affected) \subseteq PlanOf(s).assignments
  BY DEF SelectReviewAssignments, AffectedAssignments
<1>4. QED
  BY <1>2, <1>3, FS_Subset

(* Only assignments of the batch run, and only those that run are counted. *)
LEMMA BatchCounts ==
  ASSUME NEW as, IsFiniteSet(as), NEW outcome, NEW kinds
  PROVE  LET run == Processed(as, outcome) IN
         /\ Cardinality(as) \in Nat
         /\ Cardinality(run) \in Nat
         /\ Cardinality(run) <= Cardinality(as)
         /\ Cardinality(WithKind(run, outcome, kinds)) \in Nat
         /\ Cardinality(WithKind(run, outcome, kinds)) <= Cardinality(run)
         /\ Cardinality(Counted(as, outcome)) \in Nat
         /\ Cardinality(Counted(as, outcome)) <= Cardinality(run)
<1> DEFINE run == Processed(as, outcome)
<1>1. run \subseteq as
  BY DEF Processed
<1>2. WithKind(run, outcome, kinds) \subseteq run /\ Counted(as, outcome) \subseteq run
  BY DEF WithKind, Counted
<1> HIDE DEF run
<1>3. IsFiniteSet(run) /\ Cardinality(run) <= Cardinality(as)
  BY <1>1, FS_Subset
<1>4. /\ IsFiniteSet(WithKind(run, outcome, kinds))
      /\ Cardinality(WithKind(run, outcome, kinds)) <= Cardinality(run)
      /\ IsFiniteSet(Counted(as, outcome))
      /\ Cardinality(Counted(as, outcome)) <= Cardinality(run)
  BY <1>2, <1>3, FS_Subset
<1>5. QED
  BY <1>3, <1>4, FS_CardinalityType DEF run

LEMMA FindingLens ==
  /\ \A f \in Findings : f.lens \in ReviewLens
  /\ \A fp \in Fingerprints : fp.lens \in ReviewLens
BY DataAssumption DEF Fingerprints, Fingerprint

(* What is accepted was reported.                                          *)
LEMMA AcceptedWasReported ==
  ASSUME NEW records, NEW paths, \A a \in DOMAIN records : records[a] \in Reports
  PROVE  Accepted(records, paths) \subseteq Findings
<1> SUFFICES ASSUME NEW f \in Accepted(records, paths)
             PROVE  f \in Findings
  OBVIOUS
<1>1. PICK p \in Positions(records) : f = FindingAt(records, p)
  BY DEF Accepted
<1>2. PICK a \in DOMAIN records : \E j \in DOMAIN records[a] : p = <<a, j>>
  BY <1>1 DEF Positions
<1>3. \E j \in DOMAIN records[a] : f = records[a][j]
  BY <1>1, <1>2 DEF FindingAt
<1>4. QED
  BY <1>2, <1>3 DEF Findings

-------------------------------------------------------------------------------
(* Type correctness. *)

LEMMA EmptyLedgerType == EmptyLedger \in Ledgers
BY DEF EmptyLedger, Ledgers

LEMMA SaveType ==
  ASSUME NEW phase \in Phases, Save(phase),
         snapshot' \in Snapshots, plan' \in Snapshots \cup {None},
         ledger' \in Ledgers
  PROVE  /\ checkpoint' \in Checkpoints
         /\ checkpoint'.phase = phase
         /\ checkpoint'.snapshot = snapshot'
         /\ checkpoint'.ledger = ledger'
BY DEF Save, Checkpoints

LEMMA FinishType ==
  ASSUME NEW status \in Statuses, NEW reason \in Reasons, Finish(status, reason),
         snapshot' \in Snapshots, plan' \in Snapshots \cup {None},
         ledger' \in Ledgers
  PROVE  /\ checkpoint' \in Checkpoints
         /\ checkpoint'.phase = status
         /\ checkpoint'.snapshot = snapshot'
         /\ checkpoint'.ledger = ledger'
         /\ verdict' \in Verdicts
         /\ pc' = "publishing"
<1>1. Save(status)
  BY DEF Finish
<1>2. status \in Phases
  BY DEF Statuses, Phases
<1>3. verdict' \in Verdicts /\ pc' = "publishing"
  BY DEF Finish, Verdicts
<1>4. QED
  BY <1>1, <1>2, <1>3, SaveType

LEMMA ExitType ==
  ASSUME Exit
  PROVE  /\ pc' = "idle"
         /\ aborted' \in BOOLEAN
         /\ snapshot' \in Snapshots \cup {None}
         /\ plan' \in Snapshots \cup {None}
         /\ ledger' = EmptyLedger /\ ledger' \in Ledgers
         /\ reviewCalls' = 0
         /\ affectedLenses' \subseteq ReviewLens
         /\ lastValidation' \in Validations \cup {None}
         /\ (\A a \in DOMAIN reports : reports[a] \in Reports)'
         /\ accepted' \subseteq Findings
         /\ verdict' \in Verdicts \cup {None}
BY EmptyLedgerType DEF Exit, ResetLocals, NoReports

LEMMA InitType == Init => TypeOK
<1> SUFFICES ASSUME Init PROVE TypeOK
  OBVIOUS
<1>1. \A a \in DOMAIN reports : reports[a] \in Reports
  BY DEF Init, NoReports
<1>2. aborted \in BOOLEAN
  BY Zenon DEF Init
<1>3. QED
  BY <1>1, <1>2, EmptyLedgerType DEF Init, TypeOK, NeverAccepted

LEMMA CountDecisionsType ==
  ASSUME NEW decisions \in [Fingerprints -> Nat], NEW new
  PROVE  CountDecisions(decisions, new) \in [Fingerprints -> Nat]
BY DEF CountDecisions

LEMMA RecordedType ==
  ASSUME TypeOK, NEW new
  PROVE  Recorded(new) \in [Fingerprints -> SUBSET Nat]
<1>1. ReviewCycle \in Nat
  BY DEF ReviewCycle, TypeOK, Ledgers
<1>2. \A fp \in Fingerprints : acceptedIn[fp] \subseteq Nat
  BY DEF TypeOK
<1>3. QED
  BY <1>1, <1>2 DEF Recorded

LEMMA StartType ==
  ASSUME TypeOK, Start
  PROVE  TypeOK'
<1> USE DEF TypeOK
<1>1. CASE StartRejected
  BY <1>1 DEF StartRejected, Enter, locals
<1>2. CASE ReturnPassed
  BY <1>2 DEF ReturnPassed, Enter, locals
<1>3. CASE RefuseDrift
  BY <1>3 DEF RefuseDrift, Enter, locals
<1>4. ASSUME Begin, Enter
      PROVE  /\ snapshot' \in Snapshots
             /\ pc' = "snapshotting"
             /\ runs' \in Nat
             /\ UNCHANGED <<worktree, checkpoint, result, aborted, lastValidation,
                            reports, accepted, verdict, spawned, touched>>
             /\ cutOff' = None
  BY <1>4, CurrentType DEF Begin, Enter
<1>5. CASE Resume
  <2>1. checkpoint \in Checkpoints
    BY <1>5 DEF Resume
  <2>2. /\ ledger' = checkpoint.ledger /\ ledger' \in Ledgers
        /\ plan' \in Snapshots \cup {None}
        /\ reviewCalls' \in Nat
    BY <1>5, <2>1 DEF Resume, RestoredLedger, Checkpoints, Ledgers
  <2>3. affectedLenses' \subseteq ReviewLens
    <3>1. {"behavior", "validation"} \subseteq ReviewLens
      BY DEF ReviewLens
    <3>2. QED
      BY <1>5, <3>1, FindingLens DEF Resume
  <2>4. QED
    BY <1>4, <1>5, <2>2, <2>3 DEF Resume
<1>6. CASE StartFresh
  BY <1>4, <1>6, EmptyLedgerType DEF StartFresh, NeverAccepted
<1>7. QED
  BY <1>1, <1>2, <1>3, <1>5, <1>6 DEF Start

LEMMA EnvironmentType ==
  ASSUME TypeOK, Environment
  PROVE  TypeOK'
<1> USE DEF TypeOK
<1>1. CASE ActorEdits
  BY <1>1 DEF ActorEdits, AddsProtected, locals
<1>2. CASE Cancel
  BY <1>2 DEF Cancel, locals, ghosts
<1>3. CASE Crash
  BY <1>3, ExitType DEF Crash, CutOff
<1>4. CASE UserEdit
  BY <1>4 DEF UserEdit, locals
<1>5. QED
  BY <1>1, <1>2, <1>3, <1>4 DEF Environment

(* The turn of the loop up to the reviews.                                 *)
LEMMA PrepareType ==
  ASSUME TypeOK,
         \/ CheckpointSnapshotted
         \/ BuildPlan
         \/ \E ok \in BOOLEAN : Validate(ok)
         \/ ValidationBlocked
         \/ BeginValidationRepair
  PROVE  TypeOK'
<1> USE DEF TypeOK
<1>1. CASE CheckpointSnapshotted
  <2>1. Save("snapshotted") /\ "snapshotted" \in Phases
    BY <1>1 DEF CheckpointSnapshotted, Phases
  <2>2. checkpoint' \in Checkpoints
    BY <1>1, <2>1, SaveType DEF CheckpointSnapshotted, locals
  <2>3. QED
    BY <1>1, <2>2 DEF CheckpointSnapshotted, locals, ghosts, ProcessPoints
<1>2. CASE BuildPlan
  <2>1. Save("planned") /\ "planned" \in Phases
    BY <1>2 DEF BuildPlan, Phases
  <2>2. checkpoint' \in Checkpoints
    BY <1>2, <2>1, SaveType DEF BuildPlan
  <2>3. QED
    BY <1>2, <2>2 DEF BuildPlan, ghosts, ProcessPoints
<1>3. ASSUME NEW ok \in BOOLEAN, Validate(ok)
      PROVE  TypeOK'
  <2>1. Save("validated") /\ "validated" \in Phases
    BY <1>3 DEF Validate, Phases
  <2>2. checkpoint' \in Checkpoints
    BY <1>3, <2>1, SaveType DEF Validate
  <2>3. lastValidation' \in Validations
    BY <1>3 DEF Validate, Validations
  <2>4. pc' \in {"reviewing", "failing"}
    BY <1>3 DEF Validate
  <2>5. QED
    BY <1>3, <2>2, <2>3, <2>4 DEF Validate, ghosts, ProcessPoints
<1>4. CASE ValidationBlocked
  <2>1. /\ Finish("blocked", "validation_failed_after_actor_limit")
        /\ snapshot' \in Snapshots /\ plan' \in Snapshots \cup {None}
        /\ ledger' \in Ledgers
    BY <1>4 DEF ValidationBlocked
  <2>2. checkpoint' \in Checkpoints /\ verdict' \in Verdicts /\ pc' = "publishing"
    <3>1. "blocked" \in Statuses
      BY DEF Statuses
    <3>2. "validation_failed_after_actor_limit" \in Reasons
      BY DEF Reasons
    <3>3. QED
      BY <2>1, <3>1, <3>2, FinishType
  <2>3. QED
    BY <1>4, <2>2 DEF ValidationBlocked, ghosts
<1>5. CASE BeginValidationRepair
  <2>1. Save("actor_pending") /\ "actor_pending" \in Phases
    BY <1>5 DEF BeginValidationRepair, Phases
  <2>2. checkpoint' \in Checkpoints
    BY <1>5, <2>1, SaveType DEF BeginValidationRepair
  <2>3. QED
    BY <1>5, <2>2 DEF BeginValidationRepair, ghosts, ProcessPoints
<1>6. QED
  BY <1>1, <1>2, <1>3, <1>4, <1>5

(* Past the planning the plan is there, past the validation its evidence.  *)
Evidence ==
  /\ pc \notin {"idle", "snapshotting", "planning"} => plan \in Snapshots
  /\ pc \notin {"idle", "snapshotting", "planning", "validating"} =>
       lastValidation \in Validations

LEMMA BlockedType ==
  ASSUME NEW reason \in Reasons, Finish("blocked", reason),
         snapshot' \in Snapshots, plan' \in Snapshots \cup {None},
         ledger' \in Ledgers
  PROVE  checkpoint' \in Checkpoints /\ verdict' \in Verdicts /\ pc' = "publishing"
BY FinishType DEF Statuses

LEMMA AssignmentsOfPlan ==
  ASSUME NEW s \in Snapshots, NEW cycle, NEW affected
  PROVE  \A a \in SelectReviewAssignments(PlanOf(s), cycle, affected) :
           a.lenses \subseteq ReviewLens
<1> DEFINE applicable == Applicability(SignalsOf[s].flags)
           risk == Risk(SignalsOf[s])
<1>1. applicable \subseteq ReviewLens
  BY DEF Applicability, MandatoryLens, ReviewLens
<1>2. SelectReviewAssignments(PlanOf(s), cycle, affected) \subseteq
        Assignments(risk, applicable)
  BY DEF SelectReviewAssignments, AffectedAssignments, PlanOf, Plans, BuildReviewPlan
<1> HIDE DEF applicable, risk
<1>3. \A a \in Assignments(risk, applicable) :
         \E c \in Clusters(risk) : a = Cluster(c.name, c.lenses \cap applicable)
  BY Zenon DEF Assignments
<1>4. \A a \in Assignments(risk, applicable) : a.lenses \subseteq applicable
  BY <1>3 DEF Cluster
<1>5. QED
  BY <1>1, <1>2, <1>4

(* The accounting of a batch of reviewers keeps its type and its bounds.   *)
LEMMA BatchType ==
  ASSUME TypeOK, plan \in Snapshots, snapshot \in Snapshots,
         NEW batch, IsFiniteSet(batch), \A a \in batch : a.lenses \subseteq ReviewLens,
         NEW outcome, RunReviewAssignments(batch, outcome)
  PROVE  /\ reviewCalls' \in Nat
         /\ spawned' \in Nat
         /\ ledger' \in Ledgers
         /\ ledger'.actorCalls = ledger.actorCalls
         /\ ledger'.fixInvocations = ledger.fixInvocations
         /\ Cardinality(batch) \in Nat
         /\ reviewCalls' <= reviewCalls + Cardinality(batch)
         /\ ledger'.reviewInvocations - ledger.reviewInvocations
              <= reviewCalls' - reviewCalls
         /\ ledger'.reviewInvocations - ledger.reviewInvocations
              <= spawned' - spawned
<1> DEFINE run   == Processed(batch, outcome)
           clear == WithKind(run, outcome, {"clear"})
           used  == Counted(batch, outcome)
           new   == {[cycle |-> ReviewCycle, lenses |-> a.lenses, on |-> snapshot] :
                       a \in clear}
<1>1. /\ reviewCalls' = reviewCalls + Cardinality(run)
      /\ spawned' = spawned + Cardinality(run)
      /\ ledger' = [ledger EXCEPT !.reviewInvocations = @ + Cardinality(used),
                                  !.reviews = @ \cup new]
  BY DEF RunReviewAssignments
<1>2. /\ Cardinality(batch) \in Nat
      /\ Cardinality(run) \in Nat
      /\ Cardinality(run) <= Cardinality(batch)
      /\ Cardinality(used) \in Nat
      /\ Cardinality(used) <= Cardinality(run)
  BY BatchCounts
<1>3. clear \subseteq batch
  BY DEF WithKind, Processed
<1>4. ReviewCycle \in Nat
  BY DEF ReviewCycle, TypeOK, Ledgers
<1>5. new \subseteq ReviewRecords
  <2> SUFFICES ASSUME NEW a \in clear
               PROVE  [cycle |-> ReviewCycle, lenses |-> a.lenses, on |-> snapshot]
                        \in ReviewRecords
    BY Zenon
  <2>1. a.lenses \in SUBSET ReviewLens
    BY <1>3
  <2> HIDE DEF clear
  <2>2. QED
    BY <1>4, <2>1, Zenon DEF ReviewRecords
<1> HIDE DEF run, clear, used, new
<1>6. ledger \in Ledgers /\ reviewCalls \in Nat /\ spawned \in Nat
  BY DEF TypeOK
<1>7. /\ ledger' \in Ledgers
      /\ ledger'.actorCalls = ledger.actorCalls
      /\ ledger'.fixInvocations = ledger.fixInvocations
      /\ ledger'.reviewInvocations = ledger.reviewInvocations + Cardinality(used)
  <2>1. /\ ledger.reviewInvocations + Cardinality(used) \in Nat
        /\ ledger.reviews \cup new \in SUBSET ReviewRecords
    BY <1>2, <1>5, <1>6 DEF Ledgers
  <2>2. QED
    BY <1>1, <1>6, <2>1 DEF Ledgers
<1>8. ledger.reviewInvocations \in Nat
  BY <1>6 DEF Ledgers
<1>9. /\ reviewCalls' \in Nat
      /\ reviewCalls' - reviewCalls = Cardinality(run)
      /\ reviewCalls' <= reviewCalls + Cardinality(batch)
  <2>1. reviewCalls' = reviewCalls + Cardinality(run)
    BY <1>1
  <2>2. reviewCalls + Cardinality(run) <= reviewCalls + Cardinality(batch)
    <3>1. \A r, n, c \in Nat : r <= n => c + r <= c + n
      OBVIOUS
    <3>2. reviewCalls \in Nat /\ Cardinality(run) \in Nat /\ Cardinality(batch) \in Nat
      BY <1>2, <1>6
    <3>3. Cardinality(run) <= Cardinality(batch)
      BY <1>2
    <3>4. QED
      BY <3>1, <3>2, <3>3
  <2>3. reviewCalls' \in Nat /\ reviewCalls' - reviewCalls = Cardinality(run)
    BY <2>1, <1>2, <1>6
  <2>4. QED
    BY <2>1, <2>2, <2>3
<1>10. spawned' \in Nat /\ spawned' - spawned = Cardinality(run)
  <2>1. spawned' = spawned + Cardinality(run)
    BY <1>1
  <2>2. QED
    BY <2>1, <1>2, <1>6
<1>11. ledger'.reviewInvocations - ledger.reviewInvocations = Cardinality(used)
  BY <1>2, <1>7, <1>8
<1>12. QED
  BY <1>2, <1>7, <1>9, <1>10, <1>11

(* The report of a clear outcome is one of the reports.                    *)
LEMMA OutcomeType ==
  ASSUME NEW as, NEW outcome \in OutcomesOf(as), NEW a \in as,
         outcome[a].kind = "clear"
  PROVE  outcome[a].findings \in Reports
<1>1. outcome[a] \in Outcomes(a)
  BY DEF OutcomesOf
<1>2. QED
  BY <1>1 DEF Outcomes

LEMMA FailureReasonType ==
  ASSUME NEW a, NEW o \in Outcomes(a), o.kind # "clear"
  PROVE  FailureReason[o.kind] \in Reasons
<1>1. o.kind \in {"error", "failed", "malformed"}
  BY DEF Outcomes
<1>2. QED
  BY <1>1 DEF FailureReason, Reasons

LEMMA FailureReasonsType ==
  ASSUME NEW batch, NEW outcome \in OutcomesOf(batch), NEW a \in batch,
         outcome[a].kind # "clear"
  PROVE  FailureReason[outcome[a].kind] \in Reasons
<1>1. outcome[a] \in Outcomes(a)
  BY DEF OutcomesOf
<1>2. QED
  BY <1>1, FailureReasonType

LEMMA ReviewLimitType ==
  ASSUME TypeOK, pc # "idle", NEW batch, ReviewLimit(batch)
  PROVE  TypeOK'
<1> USE DEF TypeOK
<1>1. /\ Finish("blocked", "review_call_limit_reached")
      /\ snapshot' \in Snapshots /\ plan' \in Snapshots \cup {None}
      /\ ledger' \in Ledgers
  BY DEF ReviewLimit
<1>2. "review_call_limit_reached" \in Reasons
  BY DEF Reasons
<1>3. checkpoint' \in Checkpoints /\ verdict' \in Verdicts /\ pc' = "publishing"
  BY <1>1, <1>2, BlockedType
<1>4. QED
  BY <1>3 DEF ReviewLimit, ghosts

LEMMA ReviewType ==
  ASSUME TypeOK, Evidence, Review
  PROVE  TypeOK'
<1> USE DEF TypeOK
<1>1. /\ plan \in Snapshots /\ snapshot \in Snapshots
      /\ UNCHANGED <<worktree, result, aborted, snapshot, plan, affectedLenses,
                     lastValidation, accepted, runs, cutOff, touched, acceptedIn>>
  BY DEF Review, Evidence
<1> DEFINE batch == InitialAssignments
<1>2. IsFiniteSet(batch) /\ \A a \in batch : a.lenses \subseteq ReviewLens
  BY <1>1, PlanFinite, AssignmentsOfPlan DEF InitialAssignments
<1>3. PICK outcome \in OutcomesOf(batch) :
        /\ RunReviewAssignments(batch, outcome)
        /\ \/ /\ Reviewed(batch, outcome)
              /\ Save("reviewed")
              /\ pc' = "reviewed"
              /\ UNCHANGED verdict
           \/ /\ ReviewFailure(batch, outcome)
              /\ UNCHANGED reports
  BY DEF Review
<1> HIDE DEF batch
<1>4. reviewCalls' \in Nat /\ spawned' \in Nat /\ ledger' \in Ledgers
  BY <1>1, <1>2, <1>3, BatchType
<1>5. CASE /\ Reviewed(batch, outcome)
           /\ Save("reviewed")
           /\ pc' = "reviewed"
           /\ UNCHANGED verdict
  <2>1. "reviewed" \in Phases
    BY DEF Phases
  <2>2. checkpoint' \in Checkpoints
    BY <1>1, <1>4, <1>5, <2>1, SaveType
  <2>3. reports' = [a \in batch |-> outcome[a].findings]
    BY <1>5 DEF Reviewed
  <2>4. \A a \in batch : outcome[a].findings \in Reports
    BY <1>5, OutcomeType DEF Reviewed
  <2>5. \A a \in DOMAIN reports' : reports'[a] \in Reports
    BY <2>3, <2>4
  <2>6. pc' = "reviewed" /\ verdict' = verdict
    BY <1>5
  <2>7. QED
    BY <1>1, <1>4, <2>2, <2>5, <2>6
<1>6. CASE ReviewFailure(batch, outcome) /\ UNCHANGED reports
  <2>1. PICK a \in batch : /\ outcome[a].kind # "clear"
                           /\ Finish("blocked", FailureReason[outcome[a].kind])
    BY <1>6 DEF ReviewFailure, FirstFailure, Processed
  <2>2. FailureReason[outcome[a].kind] \in Reasons
    BY <2>1, FailureReasonsType
  <2>3. checkpoint' \in Checkpoints /\ verdict' \in Verdicts /\ pc' = "publishing"
    BY <1>1, <1>4, <2>1, <2>2, BlockedType
  <2>4. QED
    BY <1>1, <1>4, <1>6, <2>3
<1>7. QED
  BY <1>3, <1>5, <1>6

LEMMA AdjudicateType ==
  ASSUME TypeOK, Adjudicate
  PROVE  TypeOK'
<1> USE DEF TypeOK
<1>1. /\ snapshot \in Snapshots
      /\ UNCHANGED <<worktree, result, aborted, snapshot, plan, reviewCalls,
                     affectedLenses, lastValidation, verdict, runs, spawned, cutOff, touched>>
      /\ acceptedIn' \in [Fingerprints -> SUBSET Nat]
  BY RecordedType DEF Adjudicate
<1>2. accepted' \subseteq Findings
  BY AcceptedWasReported DEF Adjudicate
<1>3. ledger' \in Ledgers
  <2>1. ledger.decisions \in [Fingerprints -> Nat]
    BY DEF Ledgers
  <2>2. CountDecisions(ledger.decisions, accepted') \in [Fingerprints -> Nat]
    BY <2>1, CountDecisionsType
  <2>3. ledger' = [ledger EXCEPT !.decisions =
                     CountDecisions(ledger.decisions, accepted')]
    BY DEF Adjudicate
  <2>4. QED
    BY <2>2, <2>3 DEF Ledgers
<1>4. \A a \in DOMAIN reports' : reports'[a] \in Reports
  BY DEF Adjudicate, NoReports
<1>5. checkpoint' \in Checkpoints
  <2>1. Save("adjudicated") /\ "adjudicated" \in Phases
    BY DEF Adjudicate, Phases
  <2>2. QED
    BY <1>1, <1>3, <2>1, SaveType
<1>6. pc' \in {"verifying", "deciding"}
  BY DEF Adjudicate
<1>7. QED
  BY <1>1, <1>2, <1>3, <1>4, <1>5, <1>6 DEF ProcessPoints

(* The accounting of the final advisor.                                    *)
LEMMA VerifyLedger ==
  ASSUME TypeOK, Evidence, Verify
  PROVE  /\ accepted' \subseteq Findings
         /\ ledger' \in Ledgers
         /\ ledger'.actorCalls = ledger.actorCalls
         /\ ledger'.fixInvocations = ledger.fixInvocations
         /\ ledger'.reviewInvocations \in {ledger.reviewInvocations,
                                           ledger.reviewInvocations + 1}
         /\ \/ Save("verified") /\ pc' = "deciding" /\ UNCHANGED verdict
            \/ \E reason \in Reasons : Finish("blocked", reason)
<1> USE DEF TypeOK
<1> DEFINE a == VerificationAssignment(PlanOf(plan))
           found(o) == Accepted([b \in {a} |-> o[b].findings], snapshot.paths)
           record == [cycle |-> ReviewCycle, lenses |-> a.lenses, on |-> snapshot]
<1>1. plan \in Snapshots /\ snapshot \in Snapshots
  BY DEF Verify, Evidence
<1>2. PICK outcome \in OutcomesOf({a}) :
        /\ accepted' = IF outcome[a].kind = "clear" THEN found(outcome) ELSE accepted
        /\ ledger' = [ledger EXCEPT
             !.reviewInvocations = IF outcome[a].kind = "error" THEN @ ELSE @ + 1,
             !.reviews = IF outcome[a].kind = "clear" THEN @ \cup {record} ELSE @,
             !.decisions = IF outcome[a].kind = "clear"
               THEN CountDecisions(@, found(outcome)) ELSE @]
        /\ \/ /\ outcome[a].kind = "clear"
              /\ Save("verified")
              /\ pc' = "deciding"
              /\ UNCHANGED verdict
           \/ /\ outcome[a].kind # "clear"
              /\ Finish("blocked", FailureReason[outcome[a].kind])
  BY DEF Verify, FinalAssignments
<1>3. record \in ReviewRecords
  <2>1. a.lenses \subseteq ReviewLens
    <3>1. PlanOf(plan).applicable \subseteq ReviewLens
      BY <1>1 DEF PlanOf, Plans, BuildReviewPlan, Applicability, MandatoryLens, ReviewLens
    <3>2. QED
      BY <3>1 DEF VerificationAssignment, Cluster
  <2>2. ReviewCycle \in Nat
    BY DEF ReviewCycle, Ledgers
  <2> HIDE DEF a
  <2>3. QED
    BY <1>1, <2>1, <2>2, Zenon DEF ReviewRecords
<1> DEFINE accepts == found(outcome)
<1>4. outcome[a].kind = "clear" => accepts \subseteq Findings
  <2>1. SUFFICES ASSUME outcome[a].kind = "clear"
                 PROVE  accepts \subseteq Findings
    OBVIOUS
  <2>2. outcome[a].findings \in Reports
    BY <2>1, OutcomeType
  <2> DEFINE records == [b \in {a} |-> outcome[b].findings]
  <2>3. \A b \in DOMAIN records : records[b] \in Reports
    BY <2>2
  <2> HIDE DEF records
  <2>4. Accepted(records, snapshot.paths) \subseteq Findings
    BY <2>3, AcceptedWasReported
  <2>5. QED
    BY <2>4 DEF records
<1>5. outcome[a].kind # "clear" => FailureReason[outcome[a].kind] \in Reasons
  BY FailureReasonsType
<1> DEFINE kind == outcome[a].kind
<1>6. ledger' = [ledger EXCEPT
        !.reviewInvocations = IF kind = "error" THEN @ ELSE @ + 1,
        !.reviews = IF kind = "clear" THEN @ \cup {record} ELSE @,
        !.decisions = IF kind = "clear" THEN CountDecisions(@, accepts) ELSE @]
  BY <1>2
<1>7. accepted' = IF kind = "clear" THEN accepts ELSE accepted
  BY <1>2
<1>8. \/ kind = "clear" /\ Save("verified") /\ pc' = "deciding" /\ UNCHANGED verdict
      \/ kind # "clear" /\ Finish("blocked", FailureReason[kind])
  BY <1>2
<1>9. ledger.decisions \in [Fingerprints -> Nat]
  BY DEF Ledgers
<1> HIDE DEF a, found, record, accepts, kind
<1>10. CountDecisions(ledger.decisions, accepts) \in [Fingerprints -> Nat]
  BY <1>9, CountDecisionsType
<1>11. /\ ledger' \in Ledgers
       /\ ledger'.actorCalls = ledger.actorCalls
       /\ ledger'.fixInvocations = ledger.fixInvocations
       /\ ledger'.reviewInvocations \in {ledger.reviewInvocations,
                                         ledger.reviewInvocations + 1}
  <2> DEFINE n == IF kind = "error" THEN ledger.reviewInvocations
                  ELSE ledger.reviewInvocations + 1
             R == IF kind = "clear" THEN ledger.reviews \cup {record} ELSE ledger.reviews
             D == IF kind = "clear" THEN CountDecisions(ledger.decisions, accepts)
                  ELSE ledger.decisions
  <2>1. /\ n \in Nat /\ n \in {ledger.reviewInvocations, ledger.reviewInvocations + 1}
        /\ R \in SUBSET ReviewRecords
        /\ D \in [Fingerprints -> Nat]
    BY <1>3, <1>9, <1>10 DEF Ledgers
  <2>2. ledger' = [ledger EXCEPT !.reviewInvocations = n, !.reviews = R,
                                 !.decisions = D]
    BY <1>6
  <2> HIDE DEF n, R, D
  <2>3. QED
    BY <2>1, <2>2 DEF Ledgers
<1>12. accepted' \subseteq Findings
  BY <1>4, <1>7 DEF kind
<1>13. QED
  BY <1>5, <1>8, <1>11, <1>12 DEF kind

LEMMA VerifyType ==
  ASSUME TypeOK, Evidence, Verify
  PROVE  TypeOK'
<1> USE DEF TypeOK
<1>1. /\ accepted' \subseteq Findings /\ ledger' \in Ledgers
      /\ \/ Save("verified") /\ pc' = "deciding" /\ UNCHANGED verdict
         \/ \E reason \in Reasons : Finish("blocked", reason)
  BY VerifyLedger
<1>2. /\ snapshot \in Snapshots /\ reviewCalls' \in Nat /\ spawned' \in Nat
      /\ UNCHANGED <<worktree, result, aborted, snapshot, plan, affectedLenses,
                     lastValidation, reports, runs, cutOff, touched>>
      /\ acceptedIn' \in [Fingerprints -> SUBSET Nat]
  BY RecordedType DEF Verify
<1>3. CASE Save("verified") /\ pc' = "deciding" /\ UNCHANGED verdict
  <2>1. "verified" \in Phases
    BY DEF Phases
  <2>2. checkpoint' \in Checkpoints
    BY <1>1, <1>2, <1>3, <2>1, SaveType
  <2>3. QED
    BY <1>1, <1>2, <1>3, <2>2
<1>4. CASE \E reason \in Reasons : Finish("blocked", reason)
  <2>1. checkpoint' \in Checkpoints /\ verdict' \in Verdicts /\ pc' = "publishing"
    BY <1>1, <1>2, <1>4, BlockedType
  <2>2. QED
    BY <1>1, <1>2, <2>1
<1>5. QED
  BY <1>1, <1>3, <1>4

LEMMA DecideType ==
  ASSUME TypeOK, Decide
  PROVE  /\ TypeOK'
         /\ \/ pc' = "publishing"
            \/ /\ pc' = "acting" /\ ledger.actorCalls < MaxActorCalls
               /\ Save("actor_pending") /\ checkpoint' \in Checkpoints
<1> USE DEF TypeOK
<1>1. /\ snapshot \in Snapshots
      /\ UNCHANGED <<worktree, result, aborted, snapshot, plan, ledger, reviewCalls,
                     affectedLenses, lastValidation, reports, accepted, ghosts>>
  BY DEF Decide
<1>2. CASE \E status \in Statuses, reason \in Reasons : Finish(status, reason)
  <2>1. checkpoint' \in Checkpoints /\ verdict' \in Verdicts /\ pc' = "publishing"
    BY <1>1, <1>2, FinishType
  <2>2. QED
    BY <1>1, <2>1 DEF ghosts
<1>3. CASE /\ Save("actor_pending") /\ pc' = "acting" /\ UNCHANGED verdict
           /\ ledger.actorCalls < MaxActorCalls
  <2>1. "actor_pending" \in Phases
    BY DEF Phases
  <2>2. checkpoint' \in Checkpoints
    BY <1>1, <1>3, <2>1, SaveType
  <2>3. QED
    BY <1>1, <1>3, <2>2 DEF ghosts, ProcessPoints
<1>4. \/ \E status \in Statuses, reason \in Reasons : Finish(status, reason)
      \/ /\ Save("actor_pending") /\ pc' = "acting" /\ UNCHANGED verdict
         /\ ledger.actorCalls < MaxActorCalls
  <2>1. /\ {"passed", "blocked"} \subseteq Statuses
        /\ {"validation_and_adaptive_review_clear", "repeated_finding_without_progress",
            "findings_remain_after_actor_limit"} \subseteq Reasons
    BY DEF Statuses, Reasons
  <2>2. QED
    BY <2>1 DEF Decide
<1>5. QED
  BY <1>2, <1>3, <1>4

LEMMA ActorType ==
  ASSUME TypeOK, ActorError \/ \E success \in BOOLEAN : ActorReturns(success)
  PROVE  TypeOK'
<1> USE DEF TypeOK
<1>1. CASE ActorError
  <2>1. /\ Finish("blocked", "actor_execution_error") /\ spawned' \in Nat
        /\ snapshot' \in Snapshots /\ plan' \in Snapshots \cup {None}
        /\ ledger' \in Ledgers
        /\ UNCHANGED <<runs, cutOff, touched, acceptedIn>>
    BY <1>1 DEF ActorError
  <2>2. "actor_execution_error" \in Reasons
    BY DEF Reasons
  <2>3. checkpoint' \in Checkpoints /\ verdict' \in Verdicts /\ pc' = "publishing"
    BY <2>1, <2>2, BlockedType
  <2>4. QED
    BY <1>1, <2>1, <2>3 DEF ActorError
<1>2. ASSUME NEW success \in BOOLEAN, ActorReturns(success)
      PROVE  TypeOK'
  <2>1. /\ snapshot' \in Snapshots /\ plan' \in Snapshots \cup {None}
        /\ spawned' \in Nat
        /\ UNCHANGED <<worktree, result, aborted, snapshot, plan, reviewCalls,
                       affectedLenses, lastValidation, reports, accepted, runs,
                       cutOff, touched, acceptedIn>>
    BY <1>2 DEF ActorReturns
  <2>2. ledger' \in Ledgers
    <3>1. ledger.fixInvocations + 1 \in Nat /\ ledger.actorCalls + 1 \in Nat
      BY DEF Ledgers
    <3>2. QED
      BY <1>2, <3>1 DEF ActorReturns, Ledgers
  <2>3. CASE pc' = "recapturing" /\ UNCHANGED <<checkpoint, verdict>>
    BY <2>1, <2>2, <2>3 DEF ProcessPoints
  <2>4. CASE Finish("blocked", "actor_process_failed")
    <3>1. "actor_process_failed" \in Reasons
      BY DEF Reasons
    <3>2. checkpoint' \in Checkpoints /\ verdict' \in Verdicts /\ pc' = "publishing"
      BY <2>1, <2>2, <2>4, <3>1, BlockedType
    <3>3. QED
      BY <2>1, <2>2, <3>2
  <2>5. QED
    BY <1>2, <2>3, <2>4 DEF ActorReturns
<1>3. QED
  BY <1>1, <1>2

LEMMA RecaptureType ==
  ASSUME TypeOK, Recapture
  PROVE  TypeOK' /\ pc' \in {"publishing", "snapshotting"}
<1> USE DEF TypeOK
<1>1. /\ snapshot' \in Snapshots /\ accepted' \subseteq Findings
      /\ ledger' \in Ledgers
      /\ UNCHANGED <<worktree, result, aborted, ledger, reviewCalls, lastValidation,
                     reports, ghosts>>
  BY CurrentType DEF Recapture
<1>2. ASSUME NEW reason \in RepairRejection(snapshot, Current),
             UNCHANGED <<plan, affectedLenses>>, Finish("blocked", reason)
      PROVE  TypeOK' /\ pc' = "publishing"
  <2>1. reason \in Reasons
    BY DEF RepairRejection, Reasons
  <2>2. checkpoint' \in Checkpoints /\ verdict' \in Verdicts /\ pc' = "publishing"
    BY <1>1, <1>2, <2>1, BlockedType
  <2>3. QED
    BY <1>1, <1>2, <2>2 DEF ghosts
<1>3. CASE /\ affectedLenses' = {"behavior", "validation"} \cup {f.lens : f \in accepted}
           /\ plan' = None
           /\ Save("actor_completed")
           /\ pc' = "snapshotting"
           /\ UNCHANGED verdict
  <2>1. "actor_completed" \in Phases
    BY DEF Phases
  <2>2. checkpoint' \in Checkpoints
    BY <1>1, <1>3, <2>1, SaveType
  <2>3. affectedLenses' \subseteq ReviewLens
    <3>1. {"behavior", "validation"} \subseteq ReviewLens
      BY DEF ReviewLens
    <3>2. {f.lens : f \in accepted} \subseteq ReviewLens
      BY FindingLens
    <3>3. QED
      BY <1>3, <3>1, <3>2
  <2>4. QED
    BY <1>1, <1>3, <2>2, <2>3 DEF ghosts
<1>4. QED
  BY <1>2, <1>3 DEF Recapture

LEMMA PublishedType ==
  ASSUME TypeOK, Publish
  PROVE  result' \in Results
<1> USE DEF TypeOK
<1>1. /\ verdict \in Verdicts /\ snapshot \in Snapshots
      /\ ledger \in Ledgers
      /\ plan \in Snapshots \cup {None}
      /\ lastValidation \in Validations \cup {None}
  BY DEF Publish
<1>2. ledger.reviewInvocations + ledger.fixInvocations \in Nat
  BY <1>1 DEF Ledgers
<1>3. verdict.status \in Statuses /\ verdict.reason \in Reasons
  BY <1>1 DEF Verdicts
<1>4. /\ ledger.actorCalls \in Nat /\ ledger.reviews \in SUBSET ReviewRecords
      /\ ledger.decisions \in [Fingerprints -> Nat]
  BY <1>1 DEF Ledgers
<1>5. QED
  BY <1>1, <1>2, <1>3, <1>4 DEF Publish, Results

LEMMA EndType ==
  ASSUME TypeOK, Publish \/ CancelledExit
  PROVE  TypeOK' /\ pc' = "idle"
<1> USE DEF TypeOK
<1>1. CASE Publish
  BY <1>1, PublishedType, ExitType DEF Publish, ghosts
<1>2. CASE CancelledExit
  BY <1>2, ExitType DEF CancelledExit, CutOff
<1>3. QED
  BY <1>1, <1>2

LEMMA RunStepType ==
  ASSUME TypeOK, Evidence, RunStep
  PROVE  TypeOK'
<1>1. CASE InitialReviewLimit \/ VerificationLimit
  <2>1. pc # "idle" /\ \E batch : ReviewLimit(batch)
    BY <1>1 DEF InitialReviewLimit, VerificationLimit
  <2>2. QED
    BY <2>1, ReviewLimitType
<1>2. CASE \/ CheckpointSnapshotted \/ BuildPlan \/ \E ok \in BOOLEAN : Validate(ok)
           \/ ValidationBlocked \/ BeginValidationRepair
  BY <1>2, PrepareType
<1>3. CASE Review \/ Adjudicate \/ Verify \/ Decide
  BY <1>3, ReviewType, AdjudicateType, VerifyType, DecideType
<1>4. CASE ActorError \/ \E success \in BOOLEAN : ActorReturns(success)
  BY <1>4, ActorType
<1>5. CASE Recapture \/ Publish \/ CancelledExit
  BY <1>5, RecaptureType, EndType
<1>6. QED
  BY <1>1, <1>2, <1>3, <1>4, <1>5 DEF RunStep

LEMMA StepType ==
  ASSUME TypeOK, Evidence, [Next]_vars
  PROVE  TypeOK'
<1>1. CASE UNCHANGED vars
  BY <1>1 DEF TypeOK, vars, locals, ghosts
<1>2. QED
  BY <1>1, StartType, RunStepType, EnvironmentType DEF Next

(* Plan and validation are evidence of the turn: only Exit, Begin and the  *)
(* recapture drop the plan, and they all lead before the planning.         *)
LEMMA EvidenceStep ==
  ASSUME TypeOK, Evidence, [Next]_vars
  PROVE  Evidence'
<1> USE DEF Evidence
<1>1. CASE UNCHANGED vars
  BY <1>1 DEF vars, locals
<1>2. CASE Start
  <2>1. \/ pc' = "snapshotting"
        \/ UNCHANGED <<pc, plan, lastValidation>>
    BY <1>2 DEF Start, StartRejected, ReturnPassed, RefuseDrift, Resume, StartFresh,
                Begin, locals
  <2>2. QED
    BY <2>1
<1>3. CASE Environment
  <2>1. \/ pc' = "idle"
        \/ UNCHANGED <<pc, plan, lastValidation>>
    BY <1>3 DEF Environment, ActorEdits, Cancel, Crash, UserEdit, Exit, locals
  <2>2. QED
    BY <2>1
<1>4. CASE CheckpointSnapshotted \/ BuildPlan
  <2>1. TypeOK'
    BY <1>4, PrepareType
  <2>2. \/ pc' = "planning"
        \/ pc' = "validating" /\ plan' = snapshot /\ snapshot \in Snapshots
    BY <1>4 DEF CheckpointSnapshotted, BuildPlan, TypeOK
  <2>3. QED
    BY <2>2
<1>5. ASSUME NEW ok \in BOOLEAN, Validate(ok)
      PROVE  Evidence'
  BY <1>5 DEF Validate, Validations, TypeOK
<1>6. CASE \/ ValidationBlocked \/ BeginValidationRepair \/ InitialReviewLimit
           \/ Review \/ Adjudicate \/ VerificationLimit \/ Verify \/ Decide
           \/ ActorError \/ \E success \in BOOLEAN : ActorReturns(success)
  <2>1. /\ pc \notin {"idle", "snapshotting", "planning", "validating"}
        /\ UNCHANGED <<plan, lastValidation>>
    BY <1>6 DEF ValidationBlocked, BeginValidationRepair, InitialReviewLimit, Review,
                Adjudicate, VerificationLimit, ReviewLimit, Verify, Decide,
                ActorError, ActorReturns
  <2>2. QED
    BY <2>1
<1>7. CASE Recapture
  <2>1. pc = "recapturing" /\ UNCHANGED lastValidation
    BY <1>7 DEF Recapture
  <2>2. UNCHANGED plan \/ pc' = "snapshotting"
    BY <1>7 DEF Recapture
  <2>3. QED
    BY <2>1, <2>2
<1>8. CASE Publish \/ CancelledExit
  BY <1>8, EndType
<1>9. QED
  BY <1>1, <1>2, <1>3, <1>4, <1>5, <1>6, <1>7, <1>8 DEF Next, RunStep

THEOREM EvidenceHolds == Spec => [](TypeOK /\ Evidence)
<1>1. Init => TypeOK /\ Evidence
  BY InitType DEF Init, Evidence
<1>2. TypeOK /\ Evidence /\ [Next]_vars => (TypeOK /\ Evidence)'
  BY StepType, EvidenceStep
<1>3. QED
  BY <1>1, <1>2, PTL DEF Spec

(* Every variable keeps its type, in every run, crash and retry.           *)
THEOREM TypeCorrect == Spec => []TypeOK
BY EvidenceHolds, PTL

(* Both branches at the head of finish are dead: a terminal verdict always *)
(* has a plan and a validation, whatever path of execute led to it.        *)
THEOREM FinishAlwaysHasEvidence == Spec => []FinishHasEvidence
<1>1. TypeOK /\ Evidence => FinishHasEvidence
  BY DEF Evidence, FinishHasEvidence
<1>2. QED
  BY <1>1, EvidenceHolds, PTL

-------------------------------------------------------------------------------
(* The write-ahead checkpoint of a repair.                                 *)

(* A repair that was cut off leaves a checkpoint that refuses its edits.   *)
CrashIsGuarded ==
  cutOff # None =>
    /\ pc = "idle"
    /\ checkpoint \in Checkpoints
    /\ checkpoint.phase = "actor_pending"
    /\ checkpoint.snapshot = cutOff

LEMMA CutOffStep ==
  ASSUME RepairIsWriteAhead, CrashIsGuarded, pc # "idle", Crash \/ CancelledExit
  PROVE  CrashIsGuarded' /\ pc' = "idle"
<1>1. pc' = "idle" /\ UNCHANGED <<worktree, checkpoint>> /\ CutOff
  BY DEF Crash, CancelledExit, Exit
<1>2. cutOff = None
  BY DEF CrashIsGuarded
<1>3. CASE pc \in {"acting", "recapturing"}
  BY <1>1, <1>3 DEF CutOff, RepairIsWriteAhead, CrashIsGuarded
<1>4. CASE pc \notin {"acting", "recapturing"}
  BY <1>1, <1>2, <1>4 DEF CutOff, CrashIsGuarded
<1>5. QED
  BY <1>3, <1>4

LEMMA WriteAheadStep ==
  ASSUME TypeOK, Evidence, RepairIsWriteAhead, CrashIsGuarded, [Next]_vars
  PROVE  RepairIsWriteAhead' /\ CrashIsGuarded'
<1>1. CASE UNCHANGED vars
  BY <1>1 DEF vars, locals, ghosts, RepairIsWriteAhead, CrashIsGuarded, Current
<1>2. CASE StartRejected \/ ReturnPassed \/ RefuseDrift
  <2>1. UNCHANGED <<checkpoint, pc, snapshot, cutOff>>
    BY <1>2 DEF StartRejected, ReturnPassed, RefuseDrift, locals
  <2>2. QED
    BY <2>1 DEF RepairIsWriteAhead, CrashIsGuarded
<1>3. CASE Resume \/ StartFresh
  <2>1. pc' = "snapshotting" /\ cutOff' = None
    BY <1>3 DEF Resume, StartFresh, Begin
  <2>2. QED
    BY <2>1 DEF RepairIsWriteAhead, CrashIsGuarded
<1>4. CASE ActorEdits \/ Cancel \/ UserEdit
  <2>1. UNCHANGED <<checkpoint, pc, snapshot, cutOff>>
    BY <1>4 DEF ActorEdits, Cancel, UserEdit, locals, ghosts
  <2>2. QED
    BY <2>1 DEF RepairIsWriteAhead, CrashIsGuarded
<1>6. CASE Crash \/ CancelledExit
  <2>1. pc # "idle"
    BY <1>6 DEF Crash, CancelledExit, ProcessPoints
  <2>2. QED
    BY <1>6, <2>1, CutOffStep DEF RepairIsWriteAhead
<1>8. ASSUME pc # "idle", pc' \notin {"acting", "recapturing"},
             cutOff' = cutOff
      PROVE  RepairIsWriteAhead' /\ CrashIsGuarded'
  BY <1>8 DEF RepairIsWriteAhead, CrashIsGuarded
<1>9. CASE CheckpointSnapshotted \/ BuildPlan \/ (\E ok \in BOOLEAN : Validate(ok))
  BY <1>8, <1>9 DEF CheckpointSnapshotted, BuildPlan, Validate, ghosts
<1>10. CASE ValidationBlocked \/ InitialReviewLimit \/ VerificationLimit
  BY <1>8, <1>10 DEF ValidationBlocked, InitialReviewLimit, VerificationLimit,
                     ReviewLimit, Finish, ghosts
<1>11. CASE Review \/ Adjudicate
  <2>1. pc # "idle" /\ cutOff' = cutOff
    BY <1>11 DEF Review, Adjudicate, ghosts
  <2>2. pc' \in {"reviewed", "publishing", "verifying", "deciding"}
    BY <1>11 DEF Review, ReviewFailure, Finish, Adjudicate
  <2>3. QED
    BY <1>8, <2>1, <2>2
<1>12. CASE Verify
  <2>1. pc' \in {"deciding", "publishing"}
    BY <1>12, VerifyLedger DEF Finish
  <2>2. QED
    BY <1>8, <1>12, <2>1 DEF Verify
<1>13. CASE BeginValidationRepair
  <2>1. /\ Save("actor_pending") /\ pc' = "acting"
        /\ TypeOK' /\ pc # "idle" /\ cutOff' = cutOff
    BY <1>13, PrepareType DEF BeginValidationRepair, ghosts
  <2>2. checkpoint' \in Checkpoints
    BY <1>13, <2>1, SaveType DEF TypeOK, Phases
  <2>3. QED
    BY <2>1, <2>2 DEF Save, RepairIsWriteAhead, CrashIsGuarded
<1>14. CASE Decide
  <2>1. pc # "idle" /\ cutOff' = cutOff
    BY <1>14 DEF Decide, ghosts
  <2>2. \/ pc' = "publishing"
        \/ pc' = "acting" /\ Save("actor_pending") /\ checkpoint' \in Checkpoints
    BY <1>14, DecideType
  <2>3. CASE pc' = "publishing"
    BY <1>8, <2>1, <2>3
  <2>4. CASE pc' = "acting" /\ Save("actor_pending") /\ checkpoint' \in Checkpoints
    BY <2>1, <2>4 DEF Save, RepairIsWriteAhead, CrashIsGuarded
  <2>5. QED
    BY <2>2, <2>3, <2>4
<1>15. CASE ActorError
  BY <1>8, <1>15 DEF ActorError, Finish
<1>16. ASSUME NEW success \in BOOLEAN, ActorReturns(success)
       PROVE  RepairIsWriteAhead' /\ CrashIsGuarded'
  <2>1. pc = "acting" /\ UNCHANGED <<snapshot, cutOff>>
    BY <1>16 DEF ActorReturns
  <2>2. CASE pc' = "recapturing" /\ UNCHANGED checkpoint
    BY <2>1, <2>2 DEF RepairIsWriteAhead, CrashIsGuarded
  <2>3. CASE pc' = "publishing"
    BY <1>8, <2>1, <2>3
  <2>4. QED
    BY <1>16, <2>2, <2>3 DEF ActorReturns, Finish
<1>17. CASE Recapture
  <2>1. pc # "idle" /\ cutOff' = cutOff
    BY <1>17 DEF Recapture, ghosts
  <2>2. QED
    BY <1>8, <1>17, <2>1, RecaptureType
<1>18. CASE Publish
  <2>1. pc # "idle" /\ cutOff' = cutOff /\ pc' = "idle"
    BY <1>18 DEF Publish, Exit, ghosts
  <2>2. QED
    BY <1>8, <2>1
<1>19. QED
  BY <1>1, <1>2, <1>3, <1>4, <1>6, <1>9, <1>10, <1>11, <1>12, <1>13,
     <1>14, <1>15, <1>16, <1>17, <1>18 DEF Next, Start, RunStep, Environment

THEOREM WriteAheadHolds == Spec => [](RepairIsWriteAhead /\ CrashIsGuarded)
<1>1. Init => RepairIsWriteAhead /\ CrashIsGuarded
  BY DEF Init, RepairIsWriteAhead, CrashIsGuarded
<1>2. TypeOK /\ Evidence /\ RepairIsWriteAhead /\ CrashIsGuarded /\ [Next]_vars
        => (RepairIsWriteAhead /\ CrashIsGuarded)'
  BY WriteAheadStep
<1>3. QED
  BY <1>1, <1>2, EvidenceHolds, PTL DEF Spec

(* While a repair may write the worktree, the checkpoint on disk says so,  *)
(* for the snapshot the repair began from.                                 *)
THEOREM RepairsAreWrittenAhead == Spec => []RepairIsWriteAhead
BY WriteAheadHolds, PTL

LEMMA NoStartOnDrift ==
  ASSUME CrashIsGuarded, Next, pc = "idle", pc' # "idle", cutOff # None
  PROVE  Current = cutOff
<1>1. /\ checkpoint # None
      /\ checkpoint.phase = "actor_pending" /\ checkpoint.snapshot = cutOff
  BY NoneAssumption DEF CrashIsGuarded
<1>2. Resume \/ StartFresh
  BY DEF Next, Start, StartRejected, ReturnPassed, RefuseDrift, RunStep, Environment,
         CheckpointSnapshotted, BuildPlan, Validate, ValidationBlocked,
         BeginValidationRepair, InitialReviewLimit, Review, Adjudicate,
         VerificationLimit, Verify, Decide, ActorError, ActorReturns, Recapture,
         Publish, CancelledExit, ProcessPoints, ActorEdits, Cancel, Crash, UserEdit
<1>3. CASE Resume
  BY <1>1, <1>3 DEF Resume
<1>4. CASE StartFresh
  BY <1>1, <1>4 DEF StartFresh, PendingDrift
<1>5. QED
  BY <1>2, <1>3, <1>4

(* However many runs follow a repair that was cut off, and whatever is      *)
(* edited between them, the first that gets past its start sees the very    *)
(* snapshot the repair began from.                                          *)
THEOREM CrashedRepairsAreRefused == Spec => NoRunOnCrashedRepair
<1>1. CrashIsGuarded /\ [Next]_vars
        => [pc = "idle" /\ pc' # "idle" /\ cutOff # None => Current = cutOff]_vars
  BY NoStartOnDrift
<1>2. QED
  BY <1>1, WriteAheadHolds, PTL DEF Spec, NoRunOnCrashedRepair

-------------------------------------------------------------------------------
(* The budgets.  A repair begins only below its limit, so that counting it *)
(* at its end stays within it.                                             *)

RoomForRepair == pc = "acting" => ledger.actorCalls < MaxActorCalls

Budgeted == WithinBudget /\ RoomForRepair

(* One step of an accounting in memory that is within its budget.          *)
LedgerWithin ==
  /\ ledger.actorCalls <= MaxActorCalls
  /\ ledger.fixInvocations = ledger.actorCalls
  /\ ledger.reviewInvocations <= reviewCalls
  /\ reviewCalls <= MaxReviewCalls

LEMMA BudgetNat == MaxActorCalls \in Nat /\ MaxReviewCalls \in Nat
BY BudgetAssumption

LEMMA LedgerNumbers ==
  ASSUME NEW l \in Ledgers
  PROVE  /\ l.actorCalls \in Nat /\ l.fixInvocations \in Nat
         /\ l.reviewInvocations \in Nat
BY DEF Ledgers

(* What is saved is what the step leaves in memory.                        *)
LEMMA SavedWithin ==
  ASSUME TypeOK', WithinBudget, LedgerWithin',
         UNCHANGED checkpoint \/ checkpoint'.ledger = ledger'
  PROVE  WithinBudget'
<1>1. CASE UNCHANGED checkpoint
  BY <1>1 DEF WithinBudget, LedgerWithin
<1>2. CASE checkpoint'.ledger = ledger'
  <2>1. ledger' \in Ledgers /\ reviewCalls' \in Nat
    BY DEF TypeOK
  <2>2. ledger'.reviewInvocations <= MaxReviewCalls
    BY <2>1, LedgerNumbers, BudgetNat DEF LedgerWithin
  <2>3. QED
    BY <1>2, <2>2 DEF WithinBudget, LedgerWithin
<1>3. QED
  BY <1>1, <1>2

LEMMA EmptyWithin ==
  ASSUME NEW l, l = EmptyLedger
  PROVE  /\ l.actorCalls <= MaxActorCalls
         /\ l.fixInvocations = l.actorCalls
         /\ l.reviewInvocations = 0
         /\ 0 <= MaxReviewCalls
BY BudgetNat DEF EmptyLedger

LEMMA ExitBudget ==
  ASSUME Budgeted, TypeOK', Exit, UNCHANGED checkpoint
  PROVE  Budgeted'
<1>1. LedgerWithin'
  BY EmptyWithin DEF Exit, ResetLocals, LedgerWithin
<1>2. WithinBudget'
  BY <1>1, SavedWithin DEF Budgeted
<1>3. QED
  BY <1>2 DEF Budgeted, RoomForRepair, Exit

(* A step that charges nothing, and begins a repair only where it may.     *)
LEMMA UnchargedBudget ==
  ASSUME Budgeted, TypeOK',
         UNCHANGED checkpoint \/ checkpoint'.ledger = ledger',
         reviewCalls' = reviewCalls,
         ledger'.actorCalls = ledger.actorCalls,
         ledger'.fixInvocations = ledger.fixInvocations,
         ledger'.reviewInvocations = ledger.reviewInvocations,
         pc' = "acting" => pc = "acting" \/ ledger.actorCalls < MaxActorCalls
  PROVE  Budgeted'
<1>1. LedgerWithin'
  BY DEF Budgeted, WithinBudget, LedgerWithin
<1>2. WithinBudget'
  BY <1>1, SavedWithin DEF Budgeted
<1>3. QED
  BY <1>2 DEF Budgeted, RoomForRepair

LEMMA StartBudget ==
  ASSUME TypeOK, TypeOK', Budgeted, Start
  PROVE  Budgeted'
<1>1. CASE StartRejected \/ ReturnPassed \/ RefuseDrift
  <2>1. UNCHANGED <<checkpoint, pc, ledger, reviewCalls>>
    BY <1>1 DEF StartRejected, ReturnPassed, RefuseDrift, locals
  <2>2. QED
    BY <2>1, UnchargedBudget
<1>2. CASE StartFresh
  <2>1. /\ ledger' = EmptyLedger /\ reviewCalls' = 0 /\ UNCHANGED checkpoint
        /\ pc' = "snapshotting"
    BY <1>2 DEF StartFresh, Begin
  <2>2. LedgerWithin'
    BY <2>1, EmptyWithin DEF LedgerWithin
  <2>3. QED
    BY <2>1, <2>2, SavedWithin DEF Budgeted, RoomForRepair
<1>3. CASE Resume
  <2>1. /\ checkpoint \in Checkpoints /\ checkpoint # None
        /\ ledger' = checkpoint.ledger /\ UNCHANGED checkpoint
        /\ reviewCalls' = ledger'.reviewInvocations
        /\ pc' = "snapshotting"
    BY <1>3 DEF Resume, RestoredLedger, Begin, TypeOK
  <2>2. ledger' \in Ledgers
    BY DEF TypeOK
  <2>3. LedgerWithin'
    BY <2>1, <2>2, LedgerNumbers DEF LedgerWithin, Budgeted, WithinBudget
  <2>4. QED
    BY <2>1, <2>3, SavedWithin DEF Budgeted, RoomForRepair
<1>4. QED
  BY <1>1, <1>2, <1>3 DEF Start

LEMMA ReviewBudget ==
  ASSUME TypeOK, TypeOK', Evidence, Budgeted, Review
  PROVE  Budgeted'
<1> DEFINE batch == InitialAssignments
<1>1. plan \in Snapshots /\ snapshot \in Snapshots
  BY DEF Review, Evidence, TypeOK
<1>2. IsFiniteSet(batch) /\ \A a \in batch : a.lenses \subseteq ReviewLens
  BY <1>1, PlanFinite, AssignmentsOfPlan DEF InitialAssignments
<1>3. PICK outcome : RunReviewAssignments(batch, outcome)
  BY DEF Review
<1>4. reviewCalls + Cardinality(batch) <= MaxReviewCalls
  BY DEF Review, WithinReviewBudget
<1>5. /\ checkpoint'.ledger = ledger'
      /\ pc' \in {"reviewed", "publishing"}
  BY DEF Review, ReviewFailure, Finish, Save
<1> HIDE DEF batch
<1>6. /\ reviewCalls' \in Nat
      /\ ledger'.actorCalls = ledger.actorCalls
      /\ ledger'.fixInvocations = ledger.fixInvocations
      /\ Cardinality(batch) \in Nat
      /\ reviewCalls' <= reviewCalls + Cardinality(batch)
      /\ ledger'.reviewInvocations - ledger.reviewInvocations <= reviewCalls' - reviewCalls
  BY <1>1, <1>2, <1>3, BatchType
<1>7. /\ ledger.reviewInvocations \in Nat /\ ledger'.reviewInvocations \in Nat
      /\ reviewCalls \in Nat
  BY LedgerNumbers DEF TypeOK
<1>8. LedgerWithin'
  <2>1. ledger.reviewInvocations <= reviewCalls
    BY DEF Budgeted, WithinBudget
  <2>2. ledger'.reviewInvocations <= reviewCalls'
    BY <1>6, <1>7, <2>1
  <2>3. reviewCalls' <= MaxReviewCalls
    BY <1>4, <1>6, <1>7, BudgetNat
  <2>4. QED
    BY <1>6, <2>2, <2>3 DEF LedgerWithin, Budgeted, WithinBudget
<1>9. WithinBudget'
  BY <1>5, <1>8, SavedWithin DEF Budgeted
<1>10. QED
  BY <1>5, <1>9 DEF Budgeted, RoomForRepair

LEMMA VerifyBudget ==
  ASSUME TypeOK, TypeOK', Evidence, Budgeted, Verify
  PROVE  Budgeted'
<1>1. /\ ledger'.actorCalls = ledger.actorCalls
      /\ ledger'.fixInvocations = ledger.fixInvocations
      /\ ledger'.reviewInvocations \in {ledger.reviewInvocations,
                                        ledger.reviewInvocations + 1}
  BY VerifyLedger
<1>2. checkpoint'.ledger = ledger' /\ pc' \in {"deciding", "publishing"}
  BY VerifyLedger DEF Finish, Save
<1>3. reviewCalls' = reviewCalls + 1 /\ reviewCalls + 1 <= MaxReviewCalls
  BY FS_Singleton DEF Verify, WithinReviewBudget, FinalAssignments
<1>4. ledger.reviewInvocations \in Nat /\ reviewCalls \in Nat
  BY LedgerNumbers DEF TypeOK
<1>5. LedgerWithin'
  <2>1. ledger.reviewInvocations <= reviewCalls
    BY DEF Budgeted, WithinBudget
  <2>2. ledger'.reviewInvocations <= reviewCalls'
    BY <1>1, <1>3, <1>4, <2>1
  <2>3. QED
    BY <1>1, <1>3, <2>2 DEF LedgerWithin, Budgeted, WithinBudget
<1>6. WithinBudget'
  BY <1>2, <1>5, SavedWithin DEF Budgeted
<1>7. QED
  BY <1>2, <1>6 DEF Budgeted, RoomForRepair

LEMMA ActorBudget ==
  ASSUME TypeOK, TypeOK', Budgeted, NEW success \in BOOLEAN, ActorReturns(success)
  PROVE  Budgeted'
<1>1. /\ ledger' = [ledger EXCEPT !.fixInvocations = @ + 1, !.actorCalls = @ + 1]
      /\ reviewCalls' = reviewCalls
      /\ pc = "acting"
  BY DEF ActorReturns
<1>2. ledger \in Ledgers
  BY DEF TypeOK
<1>3. /\ ledger'.actorCalls = ledger.actorCalls + 1
      /\ ledger'.fixInvocations = ledger.fixInvocations + 1
      /\ ledger'.reviewInvocations = ledger.reviewInvocations
  BY <1>1, <1>2 DEF Ledgers
<1>4. ledger.actorCalls < MaxActorCalls
  BY <1>1 DEF Budgeted, RoomForRepair
<1>5. LedgerWithin'
  <2>1. ledger.actorCalls + 1 <= MaxActorCalls
    BY <1>2, <1>4, LedgerNumbers, BudgetNat
  <2>2. QED
    BY <1>1, <1>3, <2>1 DEF LedgerWithin, Budgeted, WithinBudget
<1>6. /\ UNCHANGED checkpoint \/ checkpoint'.ledger = ledger'
      /\ pc' \in {"recapturing", "publishing"}
  BY DEF ActorReturns, Finish, Save
<1>7. WithinBudget'
  BY <1>5, <1>6, SavedWithin DEF Budgeted
<1>8. QED
  BY <1>6, <1>7 DEF Budgeted, RoomForRepair

LEMMA AdjudicateLedger ==
  ASSUME TypeOK, Adjudicate
  PROVE  /\ ledger'.actorCalls = ledger.actorCalls
         /\ ledger'.fixInvocations = ledger.fixInvocations
         /\ ledger'.reviewInvocations = ledger.reviewInvocations
<1>1. ledger \in Ledgers
  BY DEF TypeOK
<1>2. ledger' = [ledger EXCEPT !.decisions =
                   CountDecisions(ledger.decisions, accepted')]
  BY DEF Adjudicate
<1>3. QED
  BY <1>1, <1>2 DEF Ledgers

LEMMA BudgetStep ==
  ASSUME TypeOK, TypeOK', Evidence, Budgeted, [Next]_vars
  PROVE  Budgeted'
<1>1. CASE UNCHANGED vars
  BY <1>1, UnchargedBudget DEF vars, locals
<1>2. CASE Start
  BY <1>2, StartBudget
<1>3. CASE ActorEdits \/ Cancel \/ UserEdit
  <2>1. UNCHANGED <<checkpoint, pc, ledger, reviewCalls>>
    BY <1>3 DEF ActorEdits, Cancel, UserEdit, locals
  <2>2. QED
    BY <2>1, UnchargedBudget
<1>4. CASE Crash \/ CancelledExit \/ Publish
  BY <1>4, ExitBudget DEF Crash, CancelledExit, Publish
<1>5. CASE \/ CheckpointSnapshotted \/ BuildPlan \/ (\E ok \in BOOLEAN : Validate(ok))
           \/ ValidationBlocked \/ InitialReviewLimit \/ VerificationLimit
           \/ ActorError \/ Recapture
  <2>1. /\ UNCHANGED <<ledger, reviewCalls>>
        /\ checkpoint'.ledger = ledger'
        /\ pc' # "acting"
    BY <1>5 DEF CheckpointSnapshotted, BuildPlan, Validate, ValidationBlocked,
         InitialReviewLimit, VerificationLimit, ReviewLimit, ActorError, Recapture,
         Finish, Save, locals
  <2>2. QED
    BY <2>1, UnchargedBudget
<1>6. CASE BeginValidationRepair \/ Decide
  <2>1. /\ UNCHANGED <<ledger, reviewCalls>>
        /\ checkpoint'.ledger = ledger'
        /\ pc' = "acting" => ledger.actorCalls < MaxActorCalls
    BY <1>6 DEF BeginValidationRepair, Decide, Finish, Save
  <2>2. QED
    BY <2>1, UnchargedBudget
<1>7. CASE Adjudicate
  <2>1. /\ reviewCalls' = reviewCalls
        /\ checkpoint'.ledger = ledger'
        /\ pc' # "acting"
    BY <1>7 DEF Adjudicate, Save
  <2>2. QED
    BY <1>7, <2>1, AdjudicateLedger, UnchargedBudget
<1>8. CASE Review \/ Verify \/ \E success \in BOOLEAN : ActorReturns(success)
  BY <1>8, ReviewBudget, VerifyBudget, ActorBudget
<1>9. QED
  BY <1>1, <1>2, <1>3, <1>4, <1>5, <1>6, <1>7, <1>8 DEF Next, RunStep, Environment

(* One accounting, however often it is resumed, never pays for more than   *)
(* maxActorCalls repairs and maxReviewCalls reviewers.                     *)
THEOREM BudgetsHold == Spec => []WithinBudget
<1>1. Init => Budgeted
  <2>1. SUFFICES ASSUME Init PROVE Budgeted
    OBVIOUS
  <2>2. ledger = EmptyLedger /\ reviewCalls = 0 /\ checkpoint = None /\ pc = "idle"
    BY <2>1 DEF Init
  <2>3. QED
    BY <2>2, EmptyWithin DEF Budgeted, WithinBudget, RoomForRepair
<1>2. TypeOK /\ Evidence /\ TypeOK' /\ Budgeted /\ [Next]_vars => Budgeted'
  BY BudgetStep
<1>3. Budgeted => WithinBudget
  BY DEF Budgeted
<1>4. QED
  BY <1>1, <1>2, <1>3, EvidenceHolds, PTL DEF Spec

-------------------------------------------------------------------------------
(* The loop's variant.  A turn goes down through the points of the loop,   *)
(* and the one step back up, from a repair to a new snapshot, has been     *)
(* paid for with a repair.                                                 *)

LEMMA LeftOfTurnValues ==
  /\ LeftOfTurn["publishing"] = 1 /\ LeftOfTurn["acting"] = 2
  /\ LeftOfTurn["deciding"] = 3 /\ LeftOfTurn["failing"] = 3
  /\ LeftOfTurn["verifying"] = 4 /\ LeftOfTurn["reviewed"] = 5
  /\ LeftOfTurn["reviewing"] = 6 /\ LeftOfTurn["validating"] = 7
  /\ LeftOfTurn["planning"] = 8 /\ LeftOfTurn["snapshotting"] = 9
  /\ LeftOfTurn["recapturing"] = 10
BY DEF LeftOfTurn

LEMMA StepsLeftNat ==
  ASSUME TypeOK, WithinBudget
  PROVE  /\ StepsLeft \in Nat
         /\ pc # "idle" => StepsLeft > 0
<1>1. ledger.actorCalls \in Nat /\ MaxActorCalls - ledger.actorCalls \in Nat
  BY LedgerNumbers, BudgetNat DEF TypeOK, WithinBudget
<1>2. pc # "idle" => LeftOfTurn[pc] \in 1..10
  BY LeftOfTurnValues DEF TypeOK, ProcessPoints
<1>3. QED
  BY <1>1, <1>2 DEF StepsLeft

LEMMA TurnGoesDown ==
  ASSUME TypeOK, pc' \notin {"idle"}, pc # "idle",
         ledger'.actorCalls = ledger.actorCalls,
         LeftOfTurn[pc'] \in Nat, LeftOfTurn[pc] \in Nat, LeftOfTurn[pc'] < LeftOfTurn[pc]
  PROVE  StepsLeft' < StepsLeft
<1>1. ledger.actorCalls \in Nat
  BY LedgerNumbers DEF TypeOK
<1>2. QED
  BY <1>1, BudgetNat DEF StepsLeft

(* A step of the run that keeps its count of repairs ends the run or goes  *)
(* down the turn.                                                          *)
LEMMA TurnStep ==
  ASSUME TypeOK, Evidence, RunStep, ~Publish, ~CancelledExit,
         \A success \in BOOLEAN : ~ActorReturns(success), ~Recapture
  PROVE  /\ ledger'.actorCalls = ledger.actorCalls
         /\ pc # "idle" /\ pc' # "idle"
         /\ LeftOfTurn[pc'] < LeftOfTurn[pc]
         /\ LeftOfTurn[pc'] \in Nat /\ LeftOfTurn[pc] \in Nat
<1>1. CASE \/ CheckpointSnapshotted \/ BuildPlan \/ \E ok \in BOOLEAN : Validate(ok)
  BY <1>1, LeftOfTurnValues
     DEF CheckpointSnapshotted, BuildPlan, Validate, locals
<1>2. CASE ValidationBlocked \/ BeginValidationRepair \/ Decide \/ ActorError
  BY <1>2, LeftOfTurnValues
     DEF ValidationBlocked, BeginValidationRepair, Decide, ActorError, Finish
<1>3. CASE InitialReviewLimit \/ VerificationLimit
  BY <1>3, LeftOfTurnValues DEF InitialReviewLimit, VerificationLimit, ReviewLimit, Finish
<1>4. CASE Review
  <2>1. ledger'.actorCalls = ledger.actorCalls
    BY <1>4 DEF Review, RunReviewAssignments, TypeOK, Ledgers
  <2>2. pc = "reviewing" /\ pc' \in {"reviewed", "publishing"}
    BY <1>4 DEF Review, ReviewFailure, Finish
  <2>3. QED
    BY <2>1, <2>2, LeftOfTurnValues
<1>5. CASE Adjudicate
  BY <1>5, AdjudicateLedger, LeftOfTurnValues DEF Adjudicate
<1>6. CASE Verify
  <2>1. pc = "verifying" /\ pc' \in {"deciding", "publishing"}
    BY <1>6, VerifyLedger DEF Verify, Finish
  <2>2. QED
    BY <1>6, <2>1, VerifyLedger, LeftOfTurnValues
<1>7. QED
  BY <1>1, <1>2, <1>3, <1>4, <1>5, <1>6 DEF RunStep

(* The steps that count a repair, or go back up once one is counted.       *)
LEMMA RepairDescends ==
  ASSUME TypeOK, (\E success \in BOOLEAN : ActorReturns(success)) \/ Recapture
  PROVE  StepsLeft' < StepsLeft
<1>1. ledger \in Ledgers /\ ledger.actorCalls \in Nat
  BY LedgerNumbers DEF TypeOK
<1>2. CASE Recapture
  <2>1. pc = "recapturing" /\ pc' \in {"publishing", "snapshotting"} /\ ledger' = ledger
    BY <1>2 DEF Recapture, Finish
  <2>2. QED
    BY <1>1, <2>1, LeftOfTurnValues, TurnGoesDown
<1>3. CASE \E success \in BOOLEAN : ActorReturns(success)
  <2>1. pc = "acting" /\ pc' \in {"recapturing", "publishing"}
    BY <1>3 DEF ActorReturns, Finish
  <2>2. ledger'.actorCalls = ledger.actorCalls + 1
    BY <1>1, <1>3 DEF ActorReturns, Ledgers
  <2>3. LeftOfTurn[pc'] \in {1, 10} /\ LeftOfTurn[pc] = 2
    BY <2>1, LeftOfTurnValues
  <2>4. 9 * (MaxActorCalls - (ledger.actorCalls + 1))
          = 9 * (MaxActorCalls - ledger.actorCalls) - 9
    BY <1>1, BudgetNat
  <2>5. 9 * (MaxActorCalls - ledger.actorCalls) \in Int
    BY <1>1, BudgetNat
  <2>6. QED
    BY <2>1, <2>2, <2>3, <2>4, <2>5 DEF StepsLeft
<1>4. QED
  BY <1>2, <1>3

LEMMA OthersMoveNothing ==
  ASSUME ActorEdits \/ Cancel \/ UserEdit \/ UNCHANGED vars
  PROVE  UNCHANGED <<pc, checkpoint, result, locals>>
BY DEF ActorEdits, Cancel, UserEdit, vars

(* For every budget, set of worktrees and report, a run that is entered    *)
(* has at most 9 * (MaxActorCalls + 1) steps of its own.                   *)
THEOREM RunsAreBounded == Spec => LoopDescends
<1>1. ASSUME TypeOK, Evidence, WithinBudget, TypeOK', WithinBudget', [Next]_vars, pc # "idle"
      PROVE  \/ UNCHANGED <<pc, checkpoint, result, locals>>
             \/ 0 <= StepsLeft' /\ StepsLeft' < StepsLeft
  <2>1. StepsLeft \in Nat /\ StepsLeft > 0 /\ StepsLeft' \in Nat
    <3>1. StepsLeft \in Nat /\ StepsLeft > 0
      BY <1>1, StepsLeftNat
    <3>2. StepsLeft' \in Nat
      <4>1. MaxActorCalls - ledger'.actorCalls \in Nat
        BY <1>1, LedgerNumbers, BudgetNat DEF TypeOK, WithinBudget
      <4>2. pc' # "idle" => LeftOfTurn[pc'] \in Nat
        BY <1>1, LeftOfTurnValues DEF TypeOK, ProcessPoints
      <4>3. QED
        BY <4>1, <4>2 DEF StepsLeft
    <3>3. QED
      BY <3>1, <3>2
  <2>2. CASE Publish \/ CancelledExit \/ Crash
    <3>1. StepsLeft' = 0
      BY <2>2 DEF Publish, CancelledExit, Crash, Exit, StepsLeft
    <3>2. QED
      BY <2>1, <3>1
  <2>3. CASE (\E success \in BOOLEAN : ActorReturns(success)) \/ Recapture
    BY <1>1, <2>1, <2>3, RepairDescends
  <2>4. CASE RunStep /\ ~Publish /\ ~CancelledExit /\ ~Recapture
             /\ \A success \in BOOLEAN : ~ActorReturns(success)
    BY <1>1, <2>1, <2>4, TurnStep, TurnGoesDown
  <2>5. CASE ActorEdits \/ Cancel \/ UserEdit \/ UNCHANGED vars
    BY <2>5, OthersMoveNothing
  <2>6. ~Start
    BY <1>1 DEF Start, StartRejected, ReturnPassed, RefuseDrift, Resume, StartFresh, Enter
  <2>7. QED
    BY <1>1, <2>2, <2>3, <2>4, <2>5, <2>6 DEF Next, Environment
<1>2. [](TypeOK /\ Evidence) /\ []WithinBudget /\ [][Next]_vars => LoopDescends
  BY <1>1, PTL DEF LoopDescends
<1>3. QED
  BY <1>2, EvidenceHolds, BudgetsHold, PTL DEF Spec
================================================================================
