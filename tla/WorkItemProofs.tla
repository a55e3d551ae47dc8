----------------------------- MODULE WorkItemProofs -----------------------------
(***************************************************************************)
(* The checkpoint and the result of GarfieldRun implement WorkItem, for    *)
(* any worktrees, signals, reports and bounds, with and without edits by   *)
(* others during a run.  The invariant says how the locals of a run and    *)
(* the checkpoint on disk hang together between any two steps (Linked),    *)
(* where a run that has not written yet stands (Started), and that a       *)
(* snapshot reviewed in this cycle has been read (HasRead).                *)
(***************************************************************************)
EXTENDS GarfieldResultProofs

\* Where a run works on an open account.
Working == {"planning", "validating", "failing", "reviewing", "reviewed", "verifying",
            "deciding"}

OpenPhases == Phases \ ({"actor_pending"} \cup Statuses)

\* A ledger to which a repair has been charged.
Charged(l) == [l EXCEPT !.fixInvocations = @ + 1, !.actorCalls = @ + 1]

Linked ==
  /\ pc \notin {"idle", "snapshotting"} =>
       checkpoint \in Checkpoints /\ checkpoint.snapshot = snapshot
  /\ pc \notin {"idle", "snapshotting", "recapturing"} => checkpoint.ledger = ledger
  /\ pc = "recapturing" => ledger = Charged(checkpoint.ledger)
  /\ pc \in Working => checkpoint.phase \in OpenPhases
  /\ pc \in {"acting", "recapturing"} => checkpoint.phase = "actor_pending"
  /\ pc = "publishing" => checkpoint.phase = verdict.status

\* The run goes on with the account of the checkpoint, or is to open one.
TakenUp ==
  /\ checkpoint \in Checkpoints
  /\ checkpoint.snapshot = snapshot /\ checkpoint.ledger = ledger
  /\ checkpoint.phase \in Statuses => ~HasPassed(snapshot)

ToBeOpened ==
  /\ checkpoint # None =>
       checkpoint.snapshot # snapshot /\ checkpoint.phase # "actor_pending"
  /\ ledger = EmptyLedger /\ ~HasPassed(snapshot)

Started == pc = "snapshotting" => TakenUp \/ ToBeOpened

HasRead == pc \in {"reviewed", "verifying", "deciding"} => MandatoryRead

WorkItemInv == Linked /\ Started /\ HasRead

-------------------------------------------------------------------------------
(* The mapping. *)

LEMMA StateOfPhase ==
  /\ \A p \in OpenPhases : p \in Phases /\ StateOf(p) = "open"
  /\ StateOf("actor_pending") = "pending" /\ "actor_pending" \in Phases
  /\ \A p \in Statuses : p \in Phases /\ StateOf(p) = p
  /\ \A p \in Phases : StateOf(p) \in {"open", "pending", "passed", "blocked"}
BY DEF StateOf, OpenPhases, Phases, Statuses

LEMMA AccountType ==
  ASSUME NEW l \in Ledgers
  PROVE  /\ AccountOf(l.actorCalls, l) \in Item!Accounts
         /\ AccountOf(l.actorCalls, l).repairs = l.actorCalls
         /\ AccountOf(l.actorCalls, l).reviews = l.reviews
         /\ AccountOf(l.actorCalls, l).decisions = l.decisions
BY DEF Ledgers, ReviewRecords, AccountOf, Item!Accounts

LEMMA JournalType ==
  ASSUME NEW c \in Checkpoints
  PROVE  /\ JournalOf(c) \in Item!Journals
         /\ JournalOf(c).state = StateOf(c.phase)
         /\ JournalOf(c).on = c.snapshot
         /\ JournalOf(c).account = AccountOf(c.ledger.actorCalls, c.ledger)
<1>1. c.phase \in Phases /\ c.snapshot \in Snapshots /\ c.ledger \in Ledgers
  BY DEF Checkpoints
<1>2. StateOf(c.phase) \in {"open", "pending", "passed", "blocked"}
  BY <1>1, StateOfPhase
<1>3. AccountOf(c.ledger.actorCalls, c.ledger) \in Item!Accounts
  BY <1>1, AccountType
<1>4. QED
  BY <1>1, <1>2, <1>3 DEF JournalOf, Item!Journals

LEMMA NewAccountIsEmpty == AccountOf(EmptyLedger.actorCalls, EmptyLedger) = Item!NewAccount
BY DEF AccountOf, EmptyLedger, Item!NewAccount

LEMMA NothingIsNothing == Nothing = Item!Nothing
BY DEF Nothing, Item!Nothing, AccountOf, EmptyLedger, Item!NewAccount

\* A ledger that keeps another one and adds readings of s is a grown account.
LEMMA GrownAccount ==
  ASSUME NEW l \in Ledgers, NEW m \in Ledgers, NEW s, Keeps(l, m),
         m.actorCalls = l.actorCalls,
         \A x \in m.reviews \ l.reviews : x.on = s /\ x.cycle = l.actorCalls + 1
  PROVE  Item!Grows(AccountOf(l.actorCalls, l), AccountOf(m.actorCalls, m), s)
BY AccountType DEF Keeps, Item!Grows, Item!Readings

LEMMA PassedIsHasPassed ==
  ASSUME TypeOK, NEW s \in Snapshots
  PROVE  Item!Passed(s) <=> HasPassed(s)
BY NoneAssumption DEF TypeOK, Item!Passed, HasPassed, Outcome, OutcomeOf, Nothing
-------------------------------------------------------------------------------
(* What a step of a run does to the accounting and to the checkpoint. *)

\* The account of this snapshot goes on: nothing is lost, and what is added to the
\* reviews is of this snapshot and cycle.
GoesOn == snapshot' = snapshot /\ result' = result /\ Keeps(ledger, ledger') /\ Reads

Saves == \E phase \in OpenPhases : Save(phase) /\ pc' \in Working

Announces == Save("actor_pending") /\ pc' = "acting"

Blocks == \E reason \in Reasons : Finish("blocked", reason)

Passes ==
  /\ pc = "deciding" /\ ledger' = ledger
  /\ \E reason \in Reasons : Finish("passed", reason)

LEMMA NothingAdded == ASSUME TypeOK, ledger' = ledger PROVE Keeps(ledger, ledger') /\ Reads
BY KeepsItself DEF TypeOK, Reads

LEMMA ReviewGoesOn ==
  ASSUME TypeOK, TypeOK', Evidence, Review
  PROVE  GoesOn /\ (Saves \/ Blocks)
<1>1. GoesOn
  BY ReviewKeeps DEF Review, GoesOn
<1>2. PICK outcome \in OutcomesOf(InitialAssignments) :
        \/ Save("reviewed") /\ pc' = "reviewed"
        \/ ReviewFailure(InitialAssignments, outcome)
  BY DEF Review
<1>3. CASE ReviewFailure(InitialAssignments, outcome)
  <2> DEFINE batch == InitialAssignments
  <2>1. PICK a \in Processed(batch, outcome) :
          outcome[a].kind # "clear" /\ Finish("blocked", FailureReason[outcome[a].kind])
    BY <1>3 DEF ReviewFailure, FirstFailure
  <2>2. a \in batch
    BY <2>1 DEF Processed
  <2>3. FailureReason[outcome[a].kind] \in Reasons
    BY <1>2, <2>1, <2>2, FailureReasonsType
  <2>4. QED
    BY <1>1, <2>1, <2>3 DEF Blocks
<1>4. QED
  BY <1>1, <1>2, <1>3 DEF Saves, OpenPhases, Phases, Statuses, Working

LEMMA VerifyGoesOn ==
  ASSUME TypeOK, TypeOK', Evidence, Verify
  PROVE  GoesOn /\ (Saves \/ Blocks)
<1>1. GoesOn
  BY VerifyKeeps DEF Verify, GoesOn
<1>2. Saves \/ Blocks
  BY VerifyLedger DEF Saves, Blocks, OpenPhases, Phases, Statuses, Working
<1>3. QED
  BY <1>1, <1>2

LEMMA AdjudicateGoesOn ==
  ASSUME TypeOK, TypeOK', Adjudicate
  PROVE  GoesOn /\ Saves
<1>1. ledger \in Ledgers /\ ledger' = [ledger EXCEPT !.decisions = CountDecisions(@, accepted')]
  BY DEF Adjudicate, TypeOK
<1>2. /\ ledger'.decisions = CountDecisions(ledger.decisions, accepted')
      /\ ledger'.actorCalls = ledger.actorCalls
      /\ ledger'.reviewInvocations = ledger.reviewInvocations
      /\ ledger'.reviews = ledger.reviews
      /\ ledger.decisions \in [Fingerprints -> Nat]
      /\ ledger.actorCalls \in Nat /\ ledger.reviewInvocations \in Nat
  BY <1>1 DEF Ledgers
<1>3. \A fp \in Fingerprints : ledger.decisions[fp] <= ledger'.decisions[fp]
  BY <1>2, CountingKeeps
<1>4. GoesOn
  BY <1>2, <1>3 DEF GoesOn, Keeps, Reads, Adjudicate
<1>5. Save("adjudicated") /\ pc' \in Working
  BY DEF Adjudicate, Working
<1>6. QED
  BY <1>4, <1>5 DEF Saves, OpenPhases, Phases, Statuses

LEMMA WorkingStep ==
  ASSUME TypeOK, TypeOK', Evidence, RunStep, pc \in Working, ~CancelledExit
  PROVE  GoesOn /\ (Saves \/ Announces \/ Blocks \/ Passes)
<1>1. CASE BuildPlan
  BY <1>1, NothingAdded DEF BuildPlan, GoesOn, Saves, OpenPhases, Phases, Statuses, Working
<1>2. ASSUME NEW ok \in BOOLEAN, Validate(ok)
      PROVE  GoesOn /\ Saves
  <2>1. pc' \in Working /\ Save("validated")
    BY <1>2 DEF Validate, Working
  <2>2. GoesOn
    BY <1>2, NothingAdded DEF Validate, GoesOn
  <2>3. QED
    BY <2>1, <2>2 DEF Saves, OpenPhases, Phases, Statuses
<1>3. CASE ValidationBlocked \/ InitialReviewLimit \/ VerificationLimit
  BY <1>3, NothingAdded DEF ValidationBlocked, InitialReviewLimit, VerificationLimit,
     ReviewLimit, GoesOn, Blocks, Reasons
<1>4. CASE BeginValidationRepair
  BY <1>4, NothingAdded DEF BeginValidationRepair, GoesOn, Announces
<1>5. CASE Decide
  <2>1. GoesOn /\ pc = "deciding" /\ ledger' = ledger
    BY <1>5, NothingAdded DEF Decide, GoesOn
  <2>2. Announces \/ Blocks \/ \E reason \in Reasons : Finish("passed", reason)
    BY <1>5 DEF Decide, Announces, Blocks, Reasons
  <2>3. QED
    BY <2>1, <2>2 DEF Passes
<1>6. QED
  BY <1>1, <1>2, <1>3, <1>4, <1>5, ReviewGoesOn, AdjudicateGoesOn, VerifyGoesOn
     DEF RunStep, Working, CheckpointSnapshotted, ActorError, ActorReturns, Recapture, Publish
-------------------------------------------------------------------------------
(* A step while the account is open. *)

LEMMA Saved ==
  ASSUME TypeOK', pc' # "idle", NEW phase \in Phases, Save(phase)
  PROVE  /\ checkpoint' \in Checkpoints /\ checkpoint'.phase = phase
         /\ checkpoint'.snapshot = snapshot' /\ checkpoint'.ledger = ledger'
         /\ ledger' \in Ledgers
BY SaveType DEF TypeOK

LEMMA Finished ==
  ASSUME TypeOK', NEW status \in Statuses, NEW reason, Finish(status, reason)
  PROVE  /\ checkpoint' \in Checkpoints /\ checkpoint'.phase = status
         /\ checkpoint'.snapshot = snapshot' /\ checkpoint'.ledger = ledger'
         /\ ledger' \in Ledgers
         /\ pc' = "publishing" /\ verdict'.status = status
         /\ Linked' /\ Started' /\ HasRead'
<1>1. Save(status) /\ pc' = "publishing" /\ verdict'.status = status
  BY DEF Finish
<1>2. status \in Phases
  BY StateOfPhase
<1>3. /\ checkpoint' \in Checkpoints /\ checkpoint'.phase = status
      /\ checkpoint'.snapshot = snapshot' /\ checkpoint'.ledger = ledger'
      /\ ledger' \in Ledgers
  BY <1>1, <1>2, Saved
<1>4. Linked' /\ Started' /\ HasRead'
  BY <1>1, <1>3 DEF Linked, Started, HasRead, Working
<1>5. QED
  BY <1>1, <1>3, <1>4

LEMMA WorkingLinks ==
  ASSUME TypeOK', Saves \/ Announces \/ Blocks \/ Passes
  PROVE  Linked' /\ Started'
<1>1. CASE Saves
  <2>1. PICK phase \in OpenPhases : Save(phase) /\ pc' \in Working
    BY <1>1 DEF Saves
  <2>2. /\ checkpoint' \in Checkpoints /\ checkpoint'.phase = phase
        /\ checkpoint'.snapshot = snapshot' /\ checkpoint'.ledger = ledger'
    BY <2>1, StateOfPhase, Saved DEF Working
  <2>3. QED
    BY <2>1, <2>2 DEF Linked, Started, Working
<1>2. CASE Announces
  <2>1. /\ checkpoint' \in Checkpoints /\ checkpoint'.phase = "actor_pending"
        /\ checkpoint'.snapshot = snapshot' /\ checkpoint'.ledger = ledger'
        /\ pc' = "acting"
    BY <1>2, StateOfPhase, Saved DEF Announces
  <2>2. QED
    BY <2>1 DEF Linked, Started, Working
<1>3. CASE Blocks \/ Passes
  BY <1>3, Finished DEF Blocks, Passes, Statuses
<1>4. QED
  BY <1>1, <1>2, <1>3

LEMMA WorkingImplements ==
  ASSUME TypeOK, TypeOK', Linked, HasRead, pc \in Working, GoesOn,
         Saves \/ Announces \/ Blocks \/ Passes
  PROVE  Item!Work \/ Item!Pass \/ Item!Block
<1>1. /\ checkpoint \in Checkpoints /\ checkpoint.snapshot = snapshot
      /\ checkpoint.ledger = ledger /\ checkpoint.phase \in OpenPhases
      /\ ledger \in Ledgers /\ ledger' \in Ledgers
      /\ checkpoint # None /\ Outcome' = Outcome
  BY NoneAssumption DEF Linked, Working, TypeOK, GoesOn, Outcome
<1>2. /\ Journal = JournalOf(checkpoint)
      /\ Journal.state = "open" /\ Journal.on = snapshot
      /\ Journal.account = AccountOf(ledger.actorCalls, ledger)
  BY <1>1, JournalType, StateOfPhase DEF Journal
<1>3. Item!Grows(Journal.account, AccountOf(ledger'.actorCalls, ledger'), Journal.on)
  BY <1>1, <1>2, GrownAccount DEF GoesOn, Reads, ReviewCycle
<1>4. ASSUME checkpoint' \in Checkpoints, checkpoint'.snapshot = snapshot',
             checkpoint'.ledger = ledger'
      PROVE  /\ Journal' = JournalOf(checkpoint') /\ Journal' \in Item!Journals
             /\ Journal'.state = StateOf(checkpoint'.phase) /\ Journal'.on = Journal.on
             /\ Journal'.account = AccountOf(ledger'.actorCalls, ledger')
             /\ Item!Grows(Journal.account, Journal'.account, Journal.on)
  <2>1. checkpoint' # None
    BY <1>4, NoneAssumption
  <2>2. Journal' = JournalOf(checkpoint')
    BY <2>1 DEF Journal
  <2>3. QED
    BY <1>2, <1>3, <1>4, <2>2, JournalType DEF GoesOn
<1>5. CASE Saves \/ Announces
  <2>1. PICK phase \in OpenPhases \cup {"actor_pending"} : Save(phase) /\ pc' # "idle"
    BY <1>5 DEF Saves, Announces, Working
  <2>2. /\ checkpoint' \in Checkpoints /\ checkpoint'.phase = phase
        /\ checkpoint'.snapshot = snapshot' /\ checkpoint'.ledger = ledger'
    BY <2>1, StateOfPhase, Saved
  <2>3. Journal'.state \in {"open", "pending"}
    BY <1>4, <2>2, StateOfPhase
  <2>4. Item!Work
    BY <1>1, <1>2, <1>4, <2>2, <2>3 DEF Item!Work
  <2>5. QED
    BY <2>4
<1>6. CASE Blocks
  <2>1. /\ checkpoint' \in Checkpoints /\ checkpoint'.phase = "blocked"
        /\ checkpoint'.snapshot = snapshot' /\ checkpoint'.ledger = ledger'
    BY <1>6, Finished DEF Blocks, Statuses
  <2>2. Journal'.state = "blocked"
    BY <1>4, <2>1, StateOfPhase DEF Statuses
  <2>3. Item!Block
    BY <1>1, <1>2, <1>4, <2>1, <2>2 DEF Item!Block
  <2>4. QED
    BY <2>3
<1>7. CASE Passes
  <2>1. /\ checkpoint' \in Checkpoints /\ checkpoint'.phase = "passed"
        /\ checkpoint'.snapshot = snapshot' /\ checkpoint'.ledger = ledger'
        /\ ledger' = ledger /\ snapshot' = snapshot
    BY <1>7, Finished DEF Passes, Statuses, GoesOn
  <2>2. Journal' = [Journal EXCEPT !.state = "passed"]
    BY <1>1, <1>2, <1>4, <2>1, StateOfPhase DEF JournalOf, Statuses
  <2>3. Item!Readings(Journal.account, Journal.on) = Last
    BY <1>1, <1>2, AccountType DEF Item!Readings, Last, ReviewCycle
  <2>4. {"behavior", "validation"} \subseteq UNION {r.lenses : r \in Last}
    BY <1>7 DEF HasRead, Passes, MandatoryRead, CoveredBy
  <2>5. Item!Pass
    BY <1>1, <1>2, <2>2, <2>3, <2>4 DEF Item!Pass
  <2>6. QED
    BY <2>5
<1>8. QED
  BY <1>5, <1>6, <1>7
LEMMA ReadStaysRead ==
  ASSUME MandatoryRead, snapshot' = snapshot, ledger'.actorCalls = ledger.actorCalls,
         ledger.reviews \subseteq ledger'.reviews
  PROVE  MandatoryRead'
<1>1. Last \subseteq Last'
  BY DEF Last, ReviewCycle
<1>2. QED
  BY <1>1 DEF MandatoryRead, CoveredBy

LEMMA WorkingReads ==
  ASSUME TypeOK, Evidence, RunStep, pc \in Working, ~CancelledExit, HasRead, GoesOn
  PROVE  HasRead'
<1>1. CASE Review
  BY <1>1, ReviewReads DEF HasRead, Review, ReviewFailure, Finish
<1>2. CASE Adjudicate \/ Verify \/ Decide
  <2>1. pc \in {"reviewed", "verifying", "deciding"}
    BY <1>2 DEF Adjudicate, Verify, Decide
  <2>2. QED
    BY <2>1, ReadStaysRead DEF HasRead, GoesOn, Keeps, Reads
<1>3. CASE ~(Review \/ Adjudicate \/ Verify \/ Decide)
  <2>1. pc' \notin {"reviewed", "verifying", "deciding"}
    BY <1>3 DEF RunStep, Working, CheckpointSnapshotted, BuildPlan, Validate, ValidationBlocked,
       BeginValidationRepair, InitialReviewLimit, VerificationLimit, ReviewLimit, ActorError,
       ActorReturns, Recapture, Publish, Exit, Finish
  <2>2. QED
    BY <2>1 DEF HasRead
<1>4. QED
  BY <1>1, <1>2, <1>3

-------------------------------------------------------------------------------
(* The first write of a run, the end of a repair, and the result. *)

LEMMA FirstWrite ==
  ASSUME TypeOK, TypeOK', Started, CheckpointSnapshotted
  PROVE  /\ Linked' /\ Started' /\ HasRead'
         /\ Item!Continue \/ \E s \in Snapshots : Item!Begin(s)
<1>1. /\ pc = "snapshotting" /\ pc' = "planning" /\ Save("snapshotted")
      /\ UNCHANGED <<snapshot, ledger, result>>
  BY DEF CheckpointSnapshotted, locals
<1>2. "snapshotted" \in OpenPhases /\ snapshot \in Snapshots /\ ledger \in Ledgers
  BY <1>1 DEF OpenPhases, Phases, Statuses, TypeOK
<1>3. /\ checkpoint' \in Checkpoints /\ checkpoint'.phase = "snapshotted"
      /\ checkpoint'.snapshot = snapshot /\ checkpoint'.ledger = ledger
  BY <1>1, <1>2, StateOfPhase, Saved
<1>4. Linked' /\ Started' /\ HasRead'
  BY <1>1, <1>2, <1>3 DEF Linked, Started, HasRead, Working
<1>5. /\ Outcome' = Outcome
      /\ Journal' = [state |-> "open", on |-> snapshot,
                     account |-> AccountOf(ledger.actorCalls, ledger)]
  BY <1>1, <1>2, <1>3, NoneAssumption, StateOfPhase DEF Outcome, Journal, JournalOf
<1>6. CASE TakenUp
  <2>1. checkpoint # None /\ checkpoint.phase \in Phases
    BY <1>6, NoneAssumption DEF TakenUp, Checkpoints
  <2>2. /\ Journal = JournalOf(checkpoint) /\ Journal \in Item!Journals
        /\ Journal.state = StateOf(checkpoint.phase) /\ Journal.on = snapshot
    BY <1>6, <2>1, JournalType DEF Journal, TakenUp
  <2>3. Journal' = [Journal EXCEPT !.state = "open"]
    BY <1>5, <1>6, <2>2 DEF JournalOf, TakenUp
  <2>4. Journal.state \in {"passed", "blocked"} => checkpoint.phase \in Statuses
    BY <2>1, <2>2, StateOfPhase DEF OpenPhases, Statuses
  <2>5. Journal.state \in {"passed", "blocked"} => ~Item!Passed(Journal.on)
    BY <1>2, <1>6, <2>2, <2>4, PassedIsHasPassed DEF TakenUp
  <2>6. Item!Continue
    BY <1>5, <2>2, <2>3, <2>5 DEF Item!Continue
  <2>7. QED
    BY <1>4, <2>6
<1>7. CASE ToBeOpened
  <2>1. Journal.on # snapshot /\ Journal.state # "pending"
    <3>1. CASE checkpoint = None
      BY <1>2, <3>1, NoneAssumption DEF Journal, Nothing
    <3>2. CASE checkpoint # None
      <4>1. checkpoint \in Checkpoints /\ checkpoint.phase \in Phases
        BY <3>2 DEF TypeOK, Checkpoints
      <4>2. StateOf(checkpoint.phase) # "pending"
        BY <1>7, <3>2, <4>1, StateOfPhase DEF ToBeOpened, OpenPhases, Statuses
      <4>3. QED
        BY <1>7, <3>2, <4>1, <4>2, JournalType DEF ToBeOpened, Journal
    <3>3. QED
      BY <3>1, <3>2
  <2>2. ~Item!Passed(snapshot)
    BY <1>2, <1>7, PassedIsHasPassed DEF ToBeOpened
  <2>3. Journal' = [state |-> "open", on |-> snapshot, account |-> Item!NewAccount]
    BY <1>5, <1>7, NewAccountIsEmpty DEF ToBeOpened
  <2>4. Item!Begin(snapshot)
    BY <1>5, <2>1, <2>2, <2>3 DEF Item!Begin
  <2>5. QED
    BY <1>2, <1>4, <2>4
<1>8. QED
  BY <1>1, <1>6, <1>7 DEF Started

LEMMA PendingJournal ==
  ASSUME TypeOK, Linked, pc \in {"acting", "recapturing"}
  PROVE  /\ checkpoint \in Checkpoints /\ checkpoint.snapshot = snapshot
         /\ Journal = JournalOf(checkpoint)
         /\ Journal.state = "pending" /\ Journal.on = snapshot
         /\ Journal.account = AccountOf(checkpoint.ledger.actorCalls, checkpoint.ledger)
<1>1. checkpoint \in Checkpoints /\ checkpoint.phase = "actor_pending"
      /\ checkpoint.snapshot = snapshot
  BY DEF Linked
<1>2. QED
  BY <1>1, NoneAssumption, JournalType, StateOfPhase DEF Journal

\* What a repair is charged with is one repair.
LEMMA ChargedAccount ==
  ASSUME NEW l \in Ledgers, NEW m, m = Charged(l)
  PROVE  AccountOf(m.actorCalls, m) = Item!Repaired(AccountOf(l.actorCalls, l))
BY DEF Charged, Ledgers, AccountOf, Item!Repaired

\* A repair ends the run: the account is as it was, or has one repair more.
LEMMA RepairBlocks ==
  ASSUME TypeOK, TypeOK', Linked, pc \in {"acting", "recapturing"}, result' = result, Blocks,
         \/ ledger' = checkpoint.ledger /\ snapshot' = snapshot
         \/ ledger' = Charged(checkpoint.ledger)
  PROVE  Linked' /\ Started' /\ HasRead' /\ Item!Block
<1>1. /\ checkpoint' \in Checkpoints /\ checkpoint'.phase = "blocked"
      /\ checkpoint'.snapshot = snapshot' /\ checkpoint'.ledger = ledger'
      /\ Linked' /\ Started' /\ HasRead'
  BY Finished DEF Blocks, Statuses
<1>2. /\ Journal' = JournalOf(checkpoint') /\ Journal' \in Item!Journals
      /\ Journal'.state = "blocked" /\ Journal'.on = snapshot'
      /\ Journal'.account = AccountOf(ledger'.actorCalls, ledger')
  BY <1>1, NoneAssumption, JournalType, StateOfPhase DEF Journal, Statuses
<1>3. checkpoint.ledger \in Ledgers /\ Outcome' = Outcome
  BY PendingJournal DEF Checkpoints, Outcome
<1>4. \/ Journal'.account = Journal.account /\ Journal'.on = Journal.on
      \/ Journal'.account = Item!Repaired(Journal.account)
  BY <1>2, <1>3, PendingJournal, ChargedAccount
<1>5. Item!Block
  BY <1>2, <1>3, <1>4, PendingJournal DEF Item!Block
<1>6. QED
  BY <1>1, <1>5
LEMMA RepairStep ==
  ASSUME TypeOK, TypeOK', Linked, RunStep, pc \in {"acting", "recapturing"}, ~CancelledExit
  PROVE  /\ Linked' /\ Started' /\ HasRead'
         /\ \/ Item!Block \/ \E s \in Snapshots : Item!Repair(s)
            \/ UNCHANGED <<Journal, Outcome>>
<1>1. /\ checkpoint \in Checkpoints /\ checkpoint.phase = "actor_pending"
      /\ checkpoint.snapshot = snapshot /\ checkpoint.ledger \in Ledgers
      /\ pc = "acting" => checkpoint.ledger = ledger
      /\ pc = "recapturing" => ledger = Charged(checkpoint.ledger)
  BY DEF Linked, Checkpoints
<1>2. CASE ActorError
  <2>1. Blocks /\ result' = result /\ ledger' = checkpoint.ledger /\ snapshot' = snapshot
    BY <1>1, <1>2 DEF ActorError, Blocks, Reasons
  <2>2. QED
    BY <2>1, RepairBlocks
<1>3. ASSUME NEW success \in BOOLEAN, ActorReturns(success)
      PROVE  Linked' /\ Started' /\ HasRead' /\ (Item!Block \/ UNCHANGED <<Journal, Outcome>>)
  <2>1. /\ pc = "acting" /\ snapshot' = snapshot /\ result' = result
        /\ ledger' = Charged(checkpoint.ledger)
    BY <1>1, <1>3 DEF ActorReturns, Charged
  <2>2. CASE pc' = "recapturing" /\ checkpoint' = checkpoint
    <3>1. Linked' /\ Started' /\ HasRead'
      BY <1>1, <2>1, <2>2 DEF Linked, Started, HasRead, Working, Charged
    <3>2. UNCHANGED <<Journal, Outcome>>
      BY <2>1, <2>2 DEF Journal, Outcome
    <3>3. QED
      BY <3>1, <3>2
  <2>3. CASE Finish("blocked", "actor_process_failed")
    <3>1. Blocks
      BY <2>3 DEF Blocks, Reasons
    <3>2. QED
      BY <2>1, <3>1, RepairBlocks
  <2>4. QED
    BY <1>3, <2>2, <2>3 DEF ActorReturns
<1>4. CASE Recapture
  <2>1. /\ pc = "recapturing" /\ snapshot' = Current /\ result' = result
        /\ ledger' = Charged(checkpoint.ledger)
    BY <1>1, <1>4 DEF Recapture
  <2>2. CASE \E reason \in RepairRejection(snapshot, Current) : Finish("blocked", reason)
    <3>1. RepairRejection(snapshot, Current) \subseteq Reasons
      BY DEF RepairRejection, Reasons
    <3>2. Blocks
      BY <2>2, <3>1 DEF Blocks
    <3>3. QED
      BY <2>1, <3>2, RepairBlocks
  <2>3. CASE /\ RepairRejection(snapshot, Current) = {}
             /\ Save("actor_completed") /\ pc' = "snapshotting"
    <3>1. snapshot' # snapshot /\ snapshot' \in Snapshots
      BY <2>1, <2>3, CurrentType DEF RepairRejection, TypeOK
    <3>2. "actor_completed" \in OpenPhases
      BY DEF OpenPhases, Phases, Statuses
    <3>3. /\ checkpoint' \in Checkpoints /\ checkpoint'.phase = "actor_completed"
          /\ checkpoint'.snapshot = snapshot' /\ checkpoint'.ledger = ledger'
      BY <2>3, <3>2, StateOfPhase, Saved
    <3>4. Linked' /\ Started' /\ HasRead'
      BY <2>3, <3>2, <3>3 DEF Linked, Started, TakenUp, HasRead, Working, OpenPhases
    <3>5. Journal' = [state |-> "open", on |-> snapshot',
                      account |-> AccountOf(ledger'.actorCalls, ledger')]
      BY <3>2, <3>3, NoneAssumption, StateOfPhase DEF Journal, JournalOf
    <3>6. Journal' = [state |-> "open", on |-> snapshot',
                      account |-> Item!Repaired(Journal.account)]
      BY <1>1, <2>1, <3>5, PendingJournal, ChargedAccount
    <3>7. Item!Repair(snapshot')
      BY <2>1, <3>1, <3>6, PendingJournal DEF Item!Repair, Outcome
    <3>8. QED
      BY <3>1, <3>4, <3>7
  <2>4. QED
    BY <1>4, <2>2, <2>3 DEF Recapture
<1>5. QED
  BY <1>2, <1>3, <1>4 DEF RunStep, CheckpointSnapshotted, BuildPlan, Validate,
     ValidationBlocked, BeginValidationRepair, InitialReviewLimit, Review, Adjudicate,
     VerificationLimit, Verify, Decide, Publish

LEMMA PublishStep ==
  ASSUME TypeOK, TypeOK', Linked, Publish
  PROVE  Item!Publish
<1>1. /\ pc = "publishing" /\ checkpoint' = checkpoint /\ verdict \in Verdicts
  BY DEF Publish, TypeOK
<1>2. /\ checkpoint \in Checkpoints /\ checkpoint.snapshot = snapshot
      /\ checkpoint.ledger = ledger /\ checkpoint.phase = verdict.status
      /\ verdict.status \in Statuses
  BY <1>1 DEF Linked, Verdicts
<1>3. /\ Journal = [state |-> verdict.status, on |-> snapshot,
                   account |-> AccountOf(ledger.actorCalls, ledger)]
      /\ Journal' = Journal
  BY <1>1, <1>2, NoneAssumption, StateOfPhase DEF Journal, JournalOf
<1>4. result' \in Results
  BY PublishedType
<1>5. Outcome' = [state |-> verdict.status, on |-> snapshot,
                  account |-> AccountOf(ledger.actorCalls, ledger)]
  BY <1>4, NoneAssumption DEF Publish, Outcome, OutcomeOf, AccountOf
<1>6. QED
  BY <1>2, <1>3, <1>5 DEF Item!Publish, Statuses
-------------------------------------------------------------------------------
(* Every step. *)

\* A step that moves neither the run nor its account.
LEMMA Unmoved ==
  ASSUME WorkItemInv, UNCHANGED <<pc, checkpoint, result, snapshot, ledger, verdict>>
  PROVE  WorkItemInv' /\ UNCHANGED <<Journal, Outcome>>
BY DEF WorkItemInv, Linked, Started, TakenUp, ToBeOpened, HasPassed, HasRead, MandatoryRead,
       Last, ReviewCycle, CoveredBy, Working, OpenPhases, Charged, Journal, Outcome

LEMMA BeginStep ==
  ASSUME TypeOK, Resume \/ StartFresh
  PROVE  WorkItemInv' /\ UNCHANGED <<Journal, Outcome>>
<1>1. /\ pc' = "snapshotting" /\ snapshot' = Current
      /\ UNCHANGED <<checkpoint, result>> /\ ~HasPassed(Current)
  BY DEF Resume, StartFresh, Begin, Proceeds
<1>2. (~HasPassed(snapshot))'
  BY <1>1 DEF HasPassed
<1>3. TakenUp' \/ ToBeOpened'
  <2>1. CASE Resume
    BY <1>1, <1>2, <2>1 DEF Resume, RestoredLedger, TakenUp, TypeOK
  <2>2. CASE StartFresh
    BY <1>1, <1>2, <2>2 DEF StartFresh, PendingDrift, ToBeOpened
  <2>3. QED
    BY <2>1, <2>2
<1>4. WorkItemInv'
  BY <1>1, <1>3 DEF WorkItemInv, Linked, Started, HasRead, Working
<1>5. QED
  BY <1>1, <1>4 DEF Journal, Outcome

LEMMA WorkItemStep ==
  ASSUME TypeOK, TypeOK', Evidence, WorkItemInv, [Next]_vars
  PROVE  WorkItemInv' /\ (Item!Next \/ UNCHANGED <<Journal, Outcome>>)
<1>1. CASE RunStep /\ ~Leaves /\ pc \in Working
  <2>1. GoesOn /\ (Saves \/ Announces \/ Blocks \/ Passes)
    BY <1>1, WorkingStep DEF Leaves
  <2>2. Linked' /\ Started' /\ HasRead'
    BY <1>1, <2>1, WorkingLinks, WorkingReads DEF WorkItemInv, Leaves
  <2>3. Item!Next
    BY <1>1, <2>1, WorkingImplements DEF WorkItemInv, Item!Next
  <2>4. QED
    BY <2>2, <2>3 DEF WorkItemInv
<1>2. CASE RunStep /\ ~Leaves /\ pc \in {"acting", "recapturing"}
  BY <1>2, RepairStep DEF WorkItemInv, Leaves, Item!Next
<1>3. CASE CheckpointSnapshotted
  BY <1>3, FirstWrite DEF WorkItemInv, Item!Next
<1>4. CASE Leaves
  <2>1. WorkItemInv'
    BY <1>4, LeavesKeep DEF WorkItemInv, Linked, Started, HasRead, Working
  <2>2. CASE Publish
    BY <2>1, <2>2, PublishStep DEF WorkItemInv, Item!Next
  <2>3. CASE Crash \/ CancelledExit
    BY <2>1, <2>3 DEF Crash, CancelledExit, Journal, Outcome
  <2>4. QED
    BY <1>4, <2>2, <2>3 DEF Leaves
<1>5. CASE Resume \/ StartFresh
  BY <1>5, BeginStep
<1>6. CASE StartRejected \/ ReturnPassed \/ RefuseDrift \/ ActorEdits \/ Cancel \/ UserEdit
           \/ UNCHANGED vars
  <2>1. UNCHANGED <<pc, checkpoint, result, snapshot, ledger, verdict>>
    BY <1>6 DEF StartRejected, ReturnPassed, RefuseDrift, ActorEdits, Cancel, UserEdit, vars,
       locals
  <2>2. QED
    BY <2>1, Unmoved
<1>7. ASSUME RunStep, ~Leaves
      PROVE  CheckpointSnapshotted \/ pc \in Working \cup {"acting", "recapturing"}
  BY <1>7 DEF RunStep, Leaves, Working, CheckpointSnapshotted, BuildPlan, Validate,
     ValidationBlocked, BeginValidationRepair, InitialReviewLimit, Review, Adjudicate,
     VerificationLimit, Verify, Decide, ActorError, ActorReturns, Recapture
<1>8. QED
  BY <1>1, <1>2, <1>3, <1>4, <1>5, <1>6, <1>7 DEF Next, Start, Environment, Leaves

(* The checkpoint and the result are one account: every step of every run,  *)
(* crash and cancellation included, is a step of WorkItem or none.          *)
THEOREM WorkItemImplemented == Spec => KeepsOneAccount
<1>1. Init => WorkItemInv /\ Item!Init
  BY NothingIsNothing DEF Init, WorkItemInv, Linked, Started, HasRead, Working, Item!Init,
     Journal, Outcome
<1>2. TypeOK /\ TypeOK' /\ Evidence /\ WorkItemInv /\ [Next]_vars =>
        WorkItemInv' /\ [Item!Next]_<<Journal, Outcome>>
  BY WorkItemStep
<1>3. QED
  BY <1>1, <1>2, EvidenceHolds, PTL DEF Spec, KeepsOneAccount, Item!Spec
=================================================================================
