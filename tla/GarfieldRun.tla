------------------------------ MODULE GarfieldRun ------------------------------
(***************************************************************************)
(* The run method of the Garfield model (extensions/models/garfield.ts,    *)
(* model.methods.run.execute): snapshot, plan, validate, review,           *)
(* adjudicate, verify, repair, again - with its two durable resources, the *)
(* checkpoint and the result, through crashes, cancellations, retries and  *)
(* edits of the worktree by others.  One work item, whose arguments do not *)
(* change from one run to the next; runs of one work item do not overlap   *)
(* (the workflow declares concurrency 1).                                  *)
(*                                                                         *)
(* A worktree is [paths, diff, untracked]: the changed paths git status    *)
(* lists, the diff of the tracked files, the content of untracked files.   *)
(***************************************************************************)
EXTENDS ReviewBatches

CONSTANTS
  Worktrees,               \* the contents the working copy may have
  SignalsOf,               \* what buildReviewPlan reads off each snapshot
  Reports,                 \* the finding lists a reviewer may answer with
  ProtectedPaths,          \* changed paths under .git/, .swamp/ or .agents/
  SensitivePaths,          \* changed paths that look like secrets
  SensitiveDiffs,          \* diffs that hold private key material
  MaxActorCalls, MaxReviewCalls,  \* run arguments
  MaxRuns,                 \* bound of the model: how often the run is started
  EditsDuringRun,          \* may others edit the worktree during a run?
  EditsBetweenRuns,        \* ... and between runs?
  None

CaptureSnapshot(w) == [paths |-> w.paths, diff |-> w.diff]

Snapshots == {CaptureSnapshot(w) : w \in Worktrees}

Findings == UNION {{r[j] : j \in DOMAIN r} : r \in Reports}

Fingerprints == {Fingerprint(f) : f \in Findings}

Plans == [s \in Snapshots |-> BuildReviewPlan(SignalsOf[s])]

PlanOf(s) == Plans[s]

(* What the durable resources and the locals may hold. *)
Phases == {"snapshotted", "planned", "validated", "reviewed", "adjudicated",
           "actor_pending", "actor_completed", "verified", "passed", "blocked"}

Statuses == {"passed", "blocked"}

Reasons ==
  {"validation_and_adaptive_review_clear", "validation_failed_after_actor_limit",
   "findings_remain_after_actor_limit", "repeated_finding_without_progress",
   "review_call_limit_reached", "review_execution_error",
   "review_process_failed", "malformed_review_response",
   "actor_execution_error", "actor_process_failed", "changed_sensitive_paths",
   "actor_made_no_workspace_change", "actor_changed_protected_paths"}

ReviewRecords == [cycle : Nat, lenses : SUBSET ReviewLens, on : Snapshots]

Ledgers == [actorCalls : Nat, reviewInvocations : Nat, fixInvocations : Nat,
            reviews : SUBSET ReviewRecords, decisions : [Fingerprints -> Nat]]

Validations == [passed : BOOLEAN, tree : Worktrees]

Checkpoints == [phase : Phases, snapshot : Snapshots,
                plan : Snapshots \cup {None}, ledger : Ledgers]

Results == [status : Statuses, reason : Reasons, actorCalls : Nat,
            snapshot : Snapshots, agentCalls : Nat,
            plan : Snapshots \cup {None}, validation : Validations \cup {None},
            reviews : SUBSET ReviewRecords, decisions : [Fingerprints -> Nat]]

Verdicts == [status : Statuses, reason : Reasons]

ASSUME BudgetAssumption ==
  /\ MaxActorCalls \in 0..2
  /\ MaxReviewCalls \in 1..20
  /\ MaxConcurrentReviewers \in 1..3
  /\ MaxRuns \in Nat
  /\ {EditsDuringRun, EditsBetweenRuns} \subseteq BOOLEAN

ASSUME DataAssumption ==
  /\ SignalsOf \in [Snapshots -> Signals]
  /\ \A f \in Findings : f.lens \in ReviewLens

ASSUME NoneAssumption ==
  None \notin Snapshots \cup Checkpoints \cup Results \cup Validations \cup Verdicts

VARIABLES
  worktree,        \* the git working copy
  checkpoint,      \* resource "checkpoint-<key>", or None
  result,          \* resource "result-<key>", or None
  (* Locals of execute. *)
  pc, aborted,
  snapshot,        \* the snapshot the cycle works on
  plan,            \* the snapshot the current plan was built for, or None
  ledger,          \* what a checkpoint persists of the accounting
  reviewCalls,     \* reviewer processes charged to maxReviewCalls
  affectedLenses,
  lastValidation,  \* [passed, tree]; tree is a ghost: the tree it ran on
  reports,         \* the records of the review just run
  accepted,        \* the findings accepted in this cycle
  verdict,         \* what finish was called with
  (* Ghosts: only properties read them (and the bound on runs). *)
  runs,            \* how often execute was entered
  spawned,         \* agent processes whose end a run ever saw
  cutOff,          \* the snapshot from which a repair began that was cut off, or None
  touched,         \* protected paths that repairs added
  acceptedIn       \* the cycles of the account that accepted each fingerprint

locals == <<snapshot, plan, ledger, reviewCalls, affectedLenses, lastValidation,
            reports, accepted, verdict>>
ghosts == <<runs, spawned, cutOff, touched, acceptedIn>>
vars == <<worktree, checkpoint, result, pc, aborted, locals, ghosts>>

EmptyLedger ==
  [actorCalls |-> 0, reviewInvocations |-> 0, fixInvocations |-> 0,
   reviews |-> {}, decisions |-> [fp \in Fingerprints |-> 0]]

NoReports == [a \in {} |-> <<>>]

NeverAccepted == [fp \in Fingerprints |-> {}]

-------------------------------------------------------------------------------
(* Durable writes and ways out of a run. *)

\* Mutant: the checkpoint ahead of a repair is not written.
SaveAfterRepair(phase) ==
  IF phase = "actor_pending" THEN UNCHANGED checkpoint
  ELSE checkpoint' = [phase |-> phase, snapshot |-> snapshot', plan |-> plan',
                      ledger |-> ledger']

\* await checkpoint(phase, ...): the payload is the state the step leaves.
Save(phase) ==
  checkpoint' = [phase |-> phase, snapshot |-> snapshot', plan |-> plan',
                 ledger |-> ledger']

\* finish(status, reason): the terminal checkpoint first, the result after it.
Finish(status, reason) ==
  /\ verdict' = [status |-> status, reason |-> reason]
  /\ Save(status)
  /\ pc' = "publishing"

ResetLocals ==
  /\ snapshot' = None /\ plan' = None /\ ledger' = EmptyLedger
  /\ reviewCalls' = 0 /\ affectedLenses' = {} /\ lastValidation' = None
  /\ reports' = NoReports /\ accepted' = {} /\ verdict' = None

Exit == pc' = "idle" /\ aborted' = FALSE /\ ResetLocals

\* Mutant: a cancelled repair is awaited for ever.
ProcessPointsButRepair == {"planning", "validating", "reviewing", "verifying",
                           "recapturing"}

\* Where the run awaits a process; an aborted signal makes each of them throw.
ProcessPoints == {"planning", "validating", "reviewing", "verifying", "acting",
                  "recapturing"}

\* Once the signal is aborted, runProcess throws however its process ended.
Settles == ~aborted

-------------------------------------------------------------------------------
(* Entering execute. *)

Current == CaptureSnapshot(worktree)

IsSensitive(s) == s.paths \cap SensitivePaths # {} \/ s.diff \in SensitiveDiffs

HasPassed(s) == result # None /\ result.status = "passed" /\ result.snapshot = s

Enter == pc = "idle" /\ runs < MaxRuns /\ runs' = runs + 1

\* assertNoSensitiveChanges throws before anything is written.
StartRejected ==
  /\ Enter
  /\ IsSensitive(Current)
  /\ UNCHANGED <<worktree, checkpoint, result, pc, aborted, locals, spawned,
                 cutOff, touched, acceptedIn>>

\* The passed result of this very snapshot is written again and returned.
ReturnPassed ==
  /\ Enter
  /\ ~IsSensitive(Current)
  /\ HasPassed(Current)
  /\ result' = result
  /\ UNCHANGED <<worktree, checkpoint, pc, aborted, locals, spawned, cutOff, touched,
                 acceptedIn>>

Proceeds == ~IsSensitive(Current) /\ ~HasPassed(Current)

\* Mutant: the phase of the checkpoint is not looked at.
NeverPendingDrift == FALSE

PendingDrift ==
  /\ checkpoint # None
  /\ checkpoint.phase = "actor_pending"
  /\ checkpoint.snapshot # Current

\* "Workspace changed after a pending actor checkpoint; refusing ..."
RefuseDrift ==
  /\ Enter
  /\ Proceeds
  /\ PendingDrift
  /\ UNCHANGED <<worktree, checkpoint, result, pc, aborted, locals, spawned,
                 cutOff, touched, acceptedIn>>

\* Mutant: the accounting starts over.
RestoredNothing == EmptyLedger

\* Mutant: the reviews read back are charged again.
RestoredTwice == [checkpoint.ledger EXCEPT
                    !.reviewInvocations = @ + Cardinality(checkpoint.ledger.reviews)]

\* What a resumed run reads back of the accounting.
RestoredLedger == checkpoint.ledger

\* Mutant: the run starts on no snapshot.
BeginUncaptured ==
  /\ pc' = "snapshotting"
  /\ cutOff' = None
  /\ UNCHANGED <<snapshot, worktree, checkpoint, result, aborted, lastValidation,
                 reports, accepted, verdict, spawned, touched>>

Begin ==
  /\ snapshot' = Current
  /\ pc' = "snapshotting"
  /\ cutOff' = None
  /\ UNCHANGED <<worktree, checkpoint, result, aborted, lastValidation, reports,
                 accepted, verdict, spawned, touched>>

Resume ==
  /\ Enter
  /\ Proceeds
  /\ checkpoint # None
  /\ checkpoint.snapshot = Current
  /\ Begin
  /\ ledger' = RestoredLedger
  /\ plan' = checkpoint.plan
  /\ affectedLenses' = {"behavior", "validation"} \cup
       {fp.lens : fp \in {g \in Fingerprints : ledger'.decisions[g] > 0}}
  /\ reviewCalls' = ledger'.reviewInvocations
  /\ UNCHANGED acceptedIn

StartFresh ==
  /\ Enter
  /\ Proceeds
  /\ checkpoint # None => checkpoint.snapshot # Current
  /\ ~PendingDrift
  /\ Begin
  /\ plan' = None /\ ledger' = EmptyLedger
  /\ reviewCalls' = 0 /\ affectedLenses' = {}
  /\ acceptedIn' = NeverAccepted

-------------------------------------------------------------------------------
(* One turn of the loop: snapshot, plan, validate. *)

CheckpointSnapshotted ==
  /\ pc = "snapshotting"
  /\ UNCHANGED <<worktree, result, aborted, locals, ghosts>>
  /\ pc' = "planning"
  /\ Save("snapshotted")

BuildPlan ==
  /\ pc = "planning"
  /\ UNCHANGED <<worktree, result, aborted, snapshot, ledger, reviewCalls,
                 affectedLenses, lastValidation, reports, accepted, verdict,
                 ghosts>>
  /\ Settles
  /\ plan' = snapshot
  /\ Save("planned")
  /\ pc' = "validating"

\* Mutant: the review goes on whatever the validation says.
ValidateIgnored(ok) ==
  /\ pc = "validating"
  /\ UNCHANGED <<worktree, result, aborted, snapshot, plan, ledger, reviewCalls,
                 affectedLenses, reports, accepted, verdict, ghosts>>
  /\ Settles
  /\ lastValidation' = [passed |-> ok, tree |-> worktree]
  /\ Save("validated")
  /\ pc' = "reviewing"

\* Mutant: a failed validation is not kept.
ValidateUnrecorded(ok) ==
  /\ pc = "validating"
  /\ UNCHANGED <<worktree, result, aborted, snapshot, plan, ledger, reviewCalls,
                 affectedLenses, reports, accepted, verdict, ghosts>>
  /\ Settles
  /\ lastValidation' = IF ok THEN [passed |-> ok, tree |-> worktree] ELSE lastValidation
  /\ Save("validated")
  /\ pc' = IF ok THEN "reviewing" ELSE "failing"

Validate(ok) ==
  /\ pc = "validating"
  /\ UNCHANGED <<worktree, result, aborted, snapshot, plan, ledger, reviewCalls,
                 affectedLenses, reports, accepted, verdict, ghosts>>
  /\ Settles
  /\ lastValidation' = [passed |-> ok, tree |-> worktree]
  /\ Save("validated")
  /\ pc' = IF ok THEN "reviewing" ELSE "failing"

ValidationBlocked ==
  /\ pc = "failing"
  /\ UNCHANGED <<worktree, result, aborted, snapshot, plan, ledger, reviewCalls,
                 affectedLenses, lastValidation, reports, accepted, ghosts>>
  /\ ledger.actorCalls >= MaxActorCalls
  /\ Finish("blocked", "validation_failed_after_actor_limit")

\* The write-ahead checkpoint of a repair of the validation failure.
BeginValidationRepair ==
  /\ pc = "failing"
  /\ UNCHANGED <<worktree, result, aborted, snapshot, plan, ledger, reviewCalls,
                 affectedLenses, lastValidation, reports, verdict, ghosts>>
  /\ ledger.actorCalls < MaxActorCalls
  /\ accepted' = {}
  /\ Save("actor_pending")
  /\ pc' = "acting"

-------------------------------------------------------------------------------
(* Reviews, each of which is one step: what it leaves behind is that of    *)
(* ReviewBatches.                                                          *)

Outcomes(a) ==
  [kind : {"error", "failed", "malformed"}, findings : {<<>>}] \cup
  [kind : {"clear"}, findings : {r \in Reports :
                                   \A j \in DOMAIN r : r[j].lens \in a.lenses}]

\* parseReviewResponse lets a report through only inside the assignment's lenses.
OutcomesOf(as) ==
  {o \in [as -> UNION {Outcomes(a) : a \in as}] : \A a \in as : o[a] \in Outcomes(a)}

\* Mutant: a batch is charged as one call.
WithinBudgetByBatch(as) == reviewCalls < MaxReviewCalls

WithinReviewBudget(as) == reviewCalls + Cardinality(as) <= MaxReviewCalls

ReviewCycle == ledger.actorCalls + 1

\* The reason of the first failure; the assignment it names is left out.
FailureReason == [error     |-> "review_execution_error",
                  failed    |-> "review_process_failed",
                  malformed |-> "malformed_review_response"]

\* Everything runReviewAssignments leaves behind.
RunReviewAssignments(as, outcome) ==
  LET run   == Processed(as, outcome)
      clear == WithKind(run, outcome, {"clear"})
  IN /\ aborted => LateAbortMissed(as, outcome)
     /\ reviewCalls' = reviewCalls + Cardinality(run)
     /\ spawned' = spawned + Cardinality(run)
     /\ ledger' = [ledger EXCEPT
          !.reviewInvocations = @ + Cardinality(Counted(as, outcome)),
          !.reviews = @ \cup {[cycle |-> ReviewCycle, lenses |-> a.lenses,
                               on |-> snapshot] : a \in clear}]

\* finish("blocked", reviewBatch.failure)
ReviewFailure(as, outcome) ==
  \E a \in FirstFailure(as, outcome) :
    Finish("blocked", FailureReason[outcome[a].kind])

InitialAssignments ==
  SelectReviewAssignments(PlanOf(plan), ReviewCycle, affectedLenses)

Reviewed(as, outcome) ==
  /\ \A a \in as : outcome[a].kind = "clear"
  /\ reports' = [a \in as |-> outcome[a].findings]

ReviewLimit(as) ==
  /\ ~WithinReviewBudget(as)
  /\ UNCHANGED <<worktree, result, aborted, snapshot, plan, ledger, reviewCalls,
                 affectedLenses, lastValidation, reports, accepted, ghosts>>
  /\ Finish("blocked", "review_call_limit_reached")

InitialReviewLimit == pc = "reviewing" /\ ReviewLimit(InitialAssignments)

Review ==
  /\ pc = "reviewing"
  /\ UNCHANGED <<worktree, result, aborted, snapshot, plan, affectedLenses,
                 lastValidation, accepted, runs, cutOff, touched, acceptedIn>>
  /\ WithinReviewBudget(InitialAssignments)
  /\ \E outcome \in OutcomesOf(InitialAssignments) :
       /\ RunReviewAssignments(InitialAssignments, outcome)
       /\ \/ /\ Reviewed(InitialAssignments, outcome)
             /\ Save("reviewed")
             /\ pc' = "reviewed"
             /\ UNCHANGED verdict
          \/ /\ ReviewFailure(InitialAssignments, outcome)
             /\ UNCHANGED reports

\* decisions.push(...): how often each fingerprint has been accepted so far.
CountDecisions(decisions, new) ==
  [fp \in Fingerprints |->
     IF \E f \in new : Fingerprint(f) = fp THEN decisions[fp] + 1
     ELSE decisions[fp]]

Recorded(new) ==
  [fp \in Fingerprints |->
     acceptedIn[fp] \cup {ReviewCycle : f \in {g \in new : Fingerprint(g) = fp}}]

NeedsVerification(found) == found = {} /\ PlanOf(plan).requiresVerification

Adjudicate ==
  /\ pc = "reviewed"
  /\ UNCHANGED <<worktree, result, aborted, snapshot, plan, reviewCalls,
                 affectedLenses, lastValidation, verdict, runs, spawned, cutOff, touched>>
  /\ accepted' = Accepted(reports, snapshot.paths)
  /\ ledger' = [ledger EXCEPT !.decisions = CountDecisions(@, accepted')]
  /\ acceptedIn' = Recorded(accepted')
  /\ reports' = NoReports
  /\ Save("adjudicated")
  /\ pc' = IF NeedsVerification(accepted') THEN "verifying" ELSE "deciding"

FinalAssignments == {VerificationAssignment(PlanOf(plan))}

VerificationLimit == pc = "verifying" /\ ReviewLimit(FinalAssignments)

\* The final advisor; its findings are adjudicated on their own.
Verify ==
  /\ pc = "verifying"
  /\ UNCHANGED <<worktree, result, aborted, snapshot, plan, affectedLenses,
                 lastValidation, reports, runs, cutOff, touched>>
  /\ WithinReviewBudget(FinalAssignments)
  /\ \E outcome \in OutcomesOf(FinalAssignments) :
       /\ aborted => LateAbortMissed(FinalAssignments, outcome)
       /\ reviewCalls' = reviewCalls + 1
       /\ spawned' = spawned + 1
       /\ LET a == VerificationAssignment(PlanOf(plan))
              clear == outcome[a].kind = "clear"
              found == Accepted([b \in {a} |-> outcome[b].findings], snapshot.paths)
          IN /\ accepted' = IF clear THEN found ELSE accepted
             /\ ledger' = [ledger EXCEPT
                  !.reviewInvocations = IF outcome[a].kind = "error" THEN @ ELSE @ + 1,
                  !.reviews = IF clear
                    THEN @ \cup {[cycle |-> ReviewCycle, lenses |-> a.lenses,
                                  on |-> snapshot]}
                    ELSE @,
                  !.decisions = IF clear THEN CountDecisions(@, found) ELSE @]
             /\ acceptedIn' = IF clear THEN Recorded(found) ELSE acceptedIn
             /\ \/ /\ clear
                   /\ Save("verified")
                   /\ pc' = "deciding"
                   /\ UNCHANGED verdict
                \/ /\ ~clear
                   /\ Finish("blocked", FailureReason[outcome[a].kind])

Repeated == \E f \in accepted : ledger.decisions[Fingerprint(f)] >= 2

\* The exits of a reviewed cycle, in the order the code tries them.
Decide ==
  /\ pc = "deciding"
  /\ UNCHANGED <<worktree, result, aborted, snapshot, plan, ledger, reviewCalls,
                 affectedLenses, lastValidation, reports, accepted, ghosts>>
  /\ \/ /\ accepted = {}
        /\ Finish("passed", "validation_and_adaptive_review_clear")
     \/ /\ accepted # {} /\ Repeated
        /\ Finish("blocked", "repeated_finding_without_progress")
     \/ /\ accepted # {} /\ ~Repeated
        /\ ledger.actorCalls >= MaxActorCalls
        /\ Finish("blocked", "findings_remain_after_actor_limit")
     \/ /\ accepted # {} /\ ~Repeated
        /\ ledger.actorCalls < MaxActorCalls
        /\ Save("actor_pending")
        /\ pc' = "acting"
        /\ UNCHANGED verdict

-------------------------------------------------------------------------------
(* Repairs. *)

\* Protected paths that are not of the snapshot the repair began from.
AddsProtected(w) == (w.paths \ snapshot.paths) \cap ProtectedPaths

\* The repair process writes the workspace while the run awaits it.
ActorEdits ==
  /\ pc = "acting"
  /\ worktree' \in Worktrees \ {worktree}
  /\ touched' = (touched \cap worktree'.paths) \cup AddsProtected(worktree')
  /\ UNCHANGED <<checkpoint, result, pc, aborted, locals, runs, spawned, cutOff,
                 acceptedIn>>

\* invoke() returned null: nothing is counted, and the run is blocked.
ActorError ==
  /\ pc = "acting"
  /\ UNCHANGED <<worktree, result, aborted, snapshot, plan, ledger, reviewCalls,
                 affectedLenses, lastValidation, reports, accepted, runs, cutOff,
                 touched, acceptedIn>>
  /\ Settles
  /\ Finish("blocked", "actor_execution_error")
  /\ spawned' = spawned + 1

\* Mutant: only a repair that failed is counted.
ActorReturnsUncounted(success) ==
  /\ pc = "acting"
  /\ UNCHANGED <<worktree, result, aborted, snapshot, plan, reviewCalls,
                 affectedLenses, lastValidation, reports, accepted, runs, cutOff, touched,
                 acceptedIn>>
  /\ Settles
  /\ spawned' = spawned + 1
  /\ \/ /\ success
        /\ pc' = "recapturing"
        /\ UNCHANGED <<checkpoint, verdict, ledger>>
     \/ /\ ~success
        /\ ledger' = [ledger EXCEPT !.fixInvocations = @ + 1, !.actorCalls = @ + 1]
        /\ Finish("blocked", "actor_process_failed")

ActorReturns(success) ==
  /\ pc = "acting"
  /\ UNCHANGED <<worktree, result, aborted, snapshot, plan, reviewCalls,
                 affectedLenses, lastValidation, reports, accepted, runs, cutOff, touched,
                 acceptedIn>>
  /\ Settles
  /\ spawned' = spawned + 1
  /\ ledger' = [ledger EXCEPT !.fixInvocations = @ + 1, !.actorCalls = @ + 1]
  /\ \/ /\ success
        /\ pc' = "recapturing"
        /\ UNCHANGED <<checkpoint, verdict>>
     \/ /\ ~success
        /\ Finish("blocked", "actor_process_failed")

\* Mutant: what the repair left is not looked at for secrets.
RepairRejectionBlind(before, after) ==
  IF before = after THEN {"actor_made_no_workspace_change"}
  ELSE IF (after.paths \ before.paths) \cap ProtectedPaths # {}
    THEN {"actor_changed_protected_paths"}
  ELSE {}

\* assertNoSensitiveChanges, then assertActorScope, on the new snapshot.
RepairRejection(before, after) ==
  IF IsSensitive(after) THEN {"changed_sensitive_paths"}
  ELSE IF before = after THEN {"actor_made_no_workspace_change"}
  ELSE IF (after.paths \ before.paths) \cap ProtectedPaths # {}
    THEN {"actor_changed_protected_paths"}
  ELSE {}

Recapture ==
  /\ pc = "recapturing"
  /\ UNCHANGED <<worktree, result, aborted, ledger, reviewCalls, lastValidation,
                 reports, ghosts>>
  /\ Settles
  /\ snapshot' = Current
  /\ \/ \E reason \in RepairRejection(snapshot, Current) :
          /\ UNCHANGED <<plan, affectedLenses>>
          /\ Finish("blocked", reason)
     \/ /\ RepairRejection(snapshot, Current) = {}
        /\ affectedLenses' = {"behavior", "validation"} \cup {f.lens : f \in accepted}
        /\ plan' = None
        /\ Save("actor_completed")
        /\ pc' = "snapshotting"
        /\ UNCHANGED verdict
  /\ accepted' = {}

-------------------------------------------------------------------------------
(* The end of a run, and what may befall it. *)

\* The second write of finish; a blocked run then throws.
Publish ==
  /\ pc = "publishing"
  /\ result' = [status     |-> verdict.status,     reason    |-> verdict.reason,
                actorCalls |-> ledger.actorCalls,  snapshot  |-> snapshot,
                agentCalls |-> ledger.reviewInvocations + ledger.fixInvocations,
                plan       |-> plan,               validation |-> lastValidation,
                reviews    |-> ledger.reviews,     decisions |-> ledger.decisions]
  /\ Exit
  /\ UNCHANGED <<worktree, checkpoint, ghosts>>

Cancel ==
  /\ pc # "idle"
  /\ ~aborted
  /\ aborted' = TRUE
  /\ UNCHANGED <<worktree, checkpoint, result, pc, locals, ghosts>>

\* A repair under way, or returned and not yet looked at, is cut off.
CutOff == cutOff' = IF pc \in {"acting", "recapturing"} THEN snapshot ELSE cutOff

\* runProcess throws; invoke rethrows when the signal is aborted.
CancelledExit ==
  /\ aborted
  /\ pc \in ProcessPoints
  /\ pc = "reviewing" => WithinReviewBudget(InitialAssignments)
  /\ pc = "verifying" => WithinReviewBudget(FinalAssignments)
  /\ CutOff
  /\ Exit
  /\ UNCHANGED <<worktree, checkpoint, result, runs, spawned, touched, acceptedIn>>

\* The process dies, or git, a resource write or the validation program throws.
Crash ==
  /\ pc # "idle"
  /\ CutOff
  /\ Exit
  /\ UNCHANGED <<worktree, checkpoint, result, runs, spawned, touched, acceptedIn>>

\* Anyone else: the user, an editor, the validation program itself.
UserEdit ==
  /\ IF pc = "idle" THEN EditsBetweenRuns ELSE EditsDuringRun
  /\ worktree' \in Worktrees \ {worktree}
  /\ touched' = touched \cap worktree'.paths
  /\ UNCHANGED <<checkpoint, result, pc, aborted, locals, runs, spawned, cutOff, acceptedIn>>

-------------------------------------------------------------------------------
Init ==
  /\ worktree \in Worktrees
  /\ checkpoint = None /\ result = None
  /\ pc = "idle" /\ aborted = FALSE
  /\ snapshot = None /\ plan = None /\ ledger = EmptyLedger
  /\ reviewCalls = 0 /\ affectedLenses = {} /\ lastValidation = None
  /\ reports = NoReports /\ accepted = {} /\ verdict = None
  /\ runs = 0 /\ spawned = 0 /\ cutOff = None
  /\ touched = {} /\ acceptedIn = NeverAccepted

Start == StartRejected \/ ReturnPassed \/ RefuseDrift \/ Resume \/ StartFresh

\* What the run does once entered, the return of its processes included.
RunStep ==
  \/ CheckpointSnapshotted
  \/ BuildPlan
  \/ \E ok \in BOOLEAN : Validate(ok)
  \/ ValidationBlocked
  \/ BeginValidationRepair
  \/ InitialReviewLimit
  \/ Review
  \/ Adjudicate
  \/ VerificationLimit
  \/ Verify
  \/ Decide
  \/ ActorError
  \/ \E success \in BOOLEAN : ActorReturns(success)
  \/ Recapture
  \/ Publish
  \/ CancelledExit

Environment == ActorEdits \/ Cancel \/ Crash \/ UserEdit

Next == Start \/ RunStep \/ Environment

Spec == Init /\ [][Next]_vars

\* Every await of a run returns: git after 30 s, validation and agents after
\* their timeouts, resource writes on their own.
FairSpec == Spec /\ WF_vars(RunStep)
-------------------------------------------------------------------------------
(* Properties. *)

(* Every variable has its type; a run that is under way has a snapshot, and *)
(* one that publishes has a verdict.                                        *)
TypeOK ==
  /\ worktree \in Worktrees
  /\ checkpoint \in Checkpoints \cup {None}
  /\ result \in Results \cup {None}
  /\ pc \in ProcessPoints \cup {"idle", "snapshotting", "failing", "reviewed",
                                "deciding", "publishing"}
  /\ aborted \in BOOLEAN
  /\ snapshot \in Snapshots \cup {None}
  /\ pc # "idle" => snapshot \in Snapshots
  /\ plan \in Snapshots \cup {None}
  /\ ledger \in Ledgers
  /\ reviewCalls \in Nat
  /\ affectedLenses \subseteq ReviewLens
  /\ lastValidation \in Validations \cup {None}
  /\ \A a \in DOMAIN reports : reports[a] \in Reports
  /\ accepted \subseteq Findings
  /\ verdict \in Verdicts \cup {None}
  /\ pc = "publishing" => verdict \in Verdicts
  /\ runs \in Nat
  /\ spawned \in Nat
  /\ cutOff \in Snapshots \cup {None}
  /\ touched \subseteq ProtectedPaths
  /\ acceptedIn \in [Fingerprints -> SUBSET Nat]

CoveredBy(reviews) == UNION {r.lenses : r \in reviews}

FinalReviews(r) ==
  {x \in r.reviews : x.on = r.snapshot /\ x.cycle = r.actorCalls + 1}

(* A passed result carries its evidence, whatever crashes, cancellations,   *)
(* retries and repairs came before: the validation passed and ran on a tree *)
(* of the snapshot the result names, the plan is that snapshot's, its last  *)
(* review cycle read that snapshot under the behavior and validation lenses *)
(* and, where the plan asks for it, the final advisor read it too.          *)
PassedIsEvidenced ==
  result # None /\ result.status = "passed" =>
    /\ result.validation.passed
    /\ CaptureSnapshot(result.validation.tree) = result.snapshot
    /\ result.plan = result.snapshot
    /\ {"behavior", "validation"} \subseteq CoveredBy(FinalReviews(result))
    /\ PlanOf(result.plan).requiresVerification =>
         \E r \in FinalReviews(result) :
           r.lenses = VerificationAssignment(PlanOf(result.plan)).lenses

(* However often a run crashes and is resumed from its checkpoint, one      *)
(* accounting never exceeds maxActorCalls repairs and maxReviewCalls        *)
(* reviewer processes, in memory or in the checkpoint.                      *)
WithinBudget ==
  /\ ledger.actorCalls <= MaxActorCalls
  /\ ledger.fixInvocations = ledger.actorCalls
  /\ ledger.reviewInvocations <= reviewCalls
  /\ reviewCalls <= MaxReviewCalls
  /\ checkpoint # None =>
       /\ checkpoint.ledger.actorCalls <= MaxActorCalls
       /\ checkpoint.ledger.fixInvocations = checkpoint.ledger.actorCalls
       /\ checkpoint.ledger.reviewInvocations <= MaxReviewCalls

(* finish never builds a plan and never throws for want of validation       *)
(* evidence: both branches at its head are dead, because every terminal     *)
(* verdict comes after a plan and a validation of the same turn.            *)
FinishHasEvidence ==
  pc = "publishing" => plan \in Snapshots /\ lastValidation \in Validations

(* While a repair process may write the worktree, the checkpoint on disk    *)
(* says that it may, for the snapshot the repair began from.                *)
RepairIsWriteAhead ==
  pc \in {"acting", "recapturing"} =>
    /\ checkpoint \in Checkpoints
    /\ checkpoint.phase = "actor_pending"
    /\ checkpoint.snapshot = snapshot

(* What a repair left that a crash or a cancellation cut off is never taken *)
(* for the change to review: the next run that gets past its start sees the *)
(* very snapshot the repair began from.  The content of untracked files is  *)
(* no part of a snapshot, and over edits of it a run does go on.            *)
NoRunOnCrashedRepair ==
  [][pc = "idle" /\ pc' # "idle" /\ cutOff # None => Current = cutOff]_vars

(* No accounting claims more agent processes than ever ran: what a resumed   *)
(* run restores is not charged to it a second time.                         *)
NeverOvercounts ==
  /\ ledger.reviewInvocations + ledger.fixInvocations <= spawned
  /\ checkpoint # None =>
       checkpoint.ledger.reviewInvocations + checkpoint.ledger.fixInvocations
         <= spawned

(* Two checkpoints of one snapshot, one after the other: the later one has  *)
(* lost none of the accounting and none of the decisions of the earlier.    *)
CheckpointKeepsAccounting ==
  [][checkpoint # None /\ checkpoint'.snapshot = checkpoint.snapshot =>
       LET old == checkpoint.ledger new == checkpoint'.ledger IN
       /\ old.actorCalls <= new.actorCalls
       /\ old.reviewInvocations <= new.reviewInvocations
       /\ old.reviews \subseteq new.reviews
       /\ \A fp \in Fingerprints : old.decisions[fp] <= new.decisions[fp]]_vars

StateOf(phase) ==
  CASE phase = "actor_pending" -> "pending"
    [] phase \in Statuses     -> phase
    [] OTHER                  -> "open"

\* The part of a ledger, or of a result, that readers rely on.
AccountOf(repairs, of) ==
  [repairs |-> repairs, reviews |-> of.reviews, decisions |-> of.decisions]

Nothing == [state |-> "none", on |-> None, account |-> AccountOf(0, EmptyLedger)]

JournalOf(c) ==
  [state   |-> StateOf(c.phase), on |-> c.snapshot,
   account |-> AccountOf(c.ledger.actorCalls, c.ledger)]

Journal == IF checkpoint = None THEN Nothing ELSE JournalOf(checkpoint)

OutcomeOf(r) ==
  [state |-> r.status, on |-> r.snapshot, account |-> AccountOf(r.actorCalls, r)]

Outcome == IF result = None THEN Nothing ELSE OutcomeOf(result)

Item == INSTANCE WorkItem WITH
  journal <- Journal, outcome <- Outcome, Concerns <- Fingerprints,
  Lenses <- ReviewLens, Required <- {"behavior", "validation"}

(* The checkpoint and the result are one account that no crash,             *)
(* cancellation or retry breaks off: a pending repair is counted, blocked   *)
(* or resumed but never forgotten, an account goes on across the repair and *)
(* starts over only on another snapshot, only a snapshot that was read      *)
(* passes, and the result says what the last checkpoint says.               *)
KeepsOneAccount == Item!Spec

(* Nobody is shown what looks like a secret: in no run, the first on a      *)
(* worktree or a later one over whatever a repair wrote, does the worktree  *)
(* hold sensitive changes when it is listed, validated, reviewed or given   *)
(* to a repair; and no snapshot passes that has them.                       *)
SecretsAreNotShown ==
  /\ pc \notin {"idle", "acting", "recapturing", "publishing"} => ~IsSensitive(Current)
  /\ result # None /\ result.status = "passed" => ~IsSensitive(result.snapshot)

\* A bound on the steps a run has yet to make: those left of this turn of the
\* loop, and a turn for every repair left.
LeftOfTurn ==
  [publishing |-> 1, acting |-> 2, deciding |-> 3, failing |-> 3, verifying |-> 4,
   reviewed |-> 5, reviewing |-> 6, validating |-> 7, planning |-> 8, snapshotting |-> 9,
   recapturing |-> 10]

StepsLeft ==
  IF pc = "idle" THEN 0 ELSE 9 * (MaxActorCalls - ledger.actorCalls) + LeftOfTurn[pc]

(* The loop has no counter of its own, and yet every step of a run brings   *)
(* its end nearer, whatever its reviewers find and its repairs do: the rest *)
(* are steps of others, which move neither the run nor what it has written. *)
LoopDescends ==
  [][pc # "idle" =>
       \/ UNCHANGED <<pc, checkpoint, result, locals>>
       \/ 0 <= StepsLeft' /\ StepsLeft' < StepsLeft]_vars

(* Every run that is entered ends.                                          *)
Termination == pc # "idle" ~> pc = "idle"

(* What the README and comments of the code promise and the code does not   *)
(* keep in every case; see the README of this directory.                    *)

(* A passed result is returned again only for the very content it judged.   *)
PassedTreeIsCurrent ==
  HasPassed(Current) => worktree = result.validation.tree

(* A verdict that a finding made no progress comes after a repair of it:    *)
(* the finding was accepted in two cycles, which a repair separates.        *)
RepeatedNeedsRepair ==
  verdict # None /\ verdict.reason = "repeated_finding_without_progress" =>
    \E fp \in Fingerprints : \E c, d \in acceptedIn[fp] : c # d

(* No snapshot passes that holds a protected path which a repair added.     *)
NoProtectedPathPasses ==
  [][result' # result /\ result'.status = "passed" =>
       touched \cap result'.snapshot.paths = {}]_vars

(* Every lens that applies to a passed snapshot was reviewed in the run.    *)
EveryApplicableLensReviewed ==
  result # None /\ result.status = "passed" =>
    PlanOf(result.plan).applicable \subseteq CoveredBy(result.reviews)
================================================================================
