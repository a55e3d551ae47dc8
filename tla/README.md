# Garfield in TLA+

This directory specifies and verifies the program logic of the Garfield
extension: the run method of the `@adam/garfield` model
(`extensions/models/garfield.ts`), which validates, reviews and repairs the change
in a Git workspace without a coordinator agent, and the benchmark harness
(`benchmarking/src/garfield_bench/`), which counts the tokens of an agent tree,
calibrates that count, and runs and archives pairs of treatments. TLC checks the modules
on small instances; TLAPS proves theorems about them for every value of their
constants. Paths below are relative to the repository.

## Inventory

| Component | State it keeps | Operations | What is hard about it |
| --- | --- | --- | --- |
| Run loop (`execute`) | resources `checkpoint-<key>` and `result-<key>`; snapshot, plan, budgets, decisions in memory | start or resume, plan, validate, review, adjudicate, verify, decide, repair, recapture, finish | crashes between two durable writes, cancellation at every await, failed processes that have had effects, a worktree that others edit |
| Planning (`buildReviewPlan`, `selectReviewAssignments`) | none | a diff to lenses, risk, assignments; the assignments of a later cycle | fourteen signals and two thresholds combine |
| Adjudication (`adjudicateFindings`) | none | reports to accepted, deferred, rejected findings | order of reports, duplicates |
| Child processes (`runProcess`) | timers, listener, two promises of output, an exit status | spawn, timeout, abort, SIGTERM, SIGKILL, settle | every order of timeout, abort, exit, and descendants on the pipes |
| Review batches (`invoke`, `runReviewAssignments`) | the batch at hand, charges, records, the first failure | start a batch, remove a schema file, rethrow or swallow, read the answers | reviewers side by side under one signal; an abort between the end of a process and the end of its call |
| Review responses (`ReviewSchema`, `parseReviewResponse`) | the records of a cycle | what a reviewer wrote to a review or to none | each reviewer may leave to another what is not of its lenses; batches of which one fails |
| Agent output (`runAgent`, `parseCodexEvents`) | none | a Codex process to an invocation record | malformed, oversized, incomplete output |
| Resource names (`resourceKey`; `_resource_key` in Python) | none | a work item to a name | two implementations that must agree |
| App-server session (`app_server.py`) | process, deadline, root thread, completion | three requests, a loop over notifications, shutdown | several agents report side by side; the client decides when the tree is complete |
| Token collectors (`telemetry.py`) | sessions, parents, counts, ledger, active threads; what was seen | one handler per notification or event, validation of the tree | duplicated, lost and reordered reports; two kinds of report of one agent; sessions named by whichever event comes first |
| Calibration (`calibrate_events`, `_calibrate`, the gate of the runner) | `calibration.json` | reconcile the rows of one parent and one child with a total kept by somebody else | what a total that fits proves of the rows |
| Runner, workspaces, adapters (`runner.py`, `workspace.py`, `adapters/`) | a directory and five files per run; a workspace | invoke, prepare and compare, run, patch, account, check, grade, write the result | several command lines at one directory, exceptions and deaths between two files, agents that write on after their timeout |
| Grading, aggregation, reports, blinding | files | what passes; medians, tables, pairs of patches | they read while runs are written |
| Ledgerlite (`benchmarking/ledgerlite`) | a map under a mutex | the benchmark's subject, changed by the treatments | read and write under separate locks |

How they interact: the workflow (`workflows/*.yaml`, concurrency 1) calls `execute`;
`execute` calls Git, the validation program and Codex through `runProcess`, all under
one abort signal, and reads and writes its two resources through the context it is
given. It calls the planner and adjudication as functions. The benchmark runs the
workflow, or a coordinator through one or two app-server sessions, in a copy of Ledgerlite,
reads the tokens off the result resource or the notification stream, and refuses to run
before a calibration has passed. Report and blind review read what runs have left.

What makes each part correct, in short: a passed result has its evidence; budgets
hold across crashes; half a repair is never taken for the user's change; cancellation
is not failure; the run ends (run loop). Every applicable lens has one reviewer, later
cycles cover the repair, critical changes are read twice (planning). One report of each
concern is judged, and stays judged (adjudication). A stopped process is not a clean one,
nothing outlives the call (processes), and nobody is blamed for a cancellation (batches). Every check of every lens is answered by somebody
(responses). An accepted session is counted exactly, once, with one root (sessions). No
token is counted twice, and a calibration that fits is right agent by agent
(calibration). Runs appear once and whole, and pairs start alike (runner). `PROJECT.json` lists the hazards line by line with the properties
that watch them.

## Modules

| Module | Models | Shape |
| --- | --- | --- |
| `ReviewPolicy` | `buildReviewPlan`, `selectReviewAssignments`, `adjudicateFindings`, `findingFingerprint` | operators; a diff is the set of its signals and a size class, a report the sequence of its findings |
| `ReviewPlanning` | a change that evolves signal by signal | drives the planning operators through all their inputs |
| `Adjudication` | reports that grow finding by finding, for any change and any findings | drives the adjudication operators |
| `ReviewBatches` | batches, charges and first failure of a whole `runReviewAssignments`, given how each reviewer ends | operators; EXTENDS `ReviewPolicy` |
| `GarfieldRun` | `execute` and everything it calls that changes state | one action per stretch between two awaits that matter; EXTENDS `ReviewBatches`, a review is one step |
| `WorkItem` | what the checkpoint and the result of a work item promise their readers, however often it is run | abstract specification, implemented by `GarfieldRun` |
| `RunProcess` | `runProcess` for several processes under one signal | actions of the code (spawn, timers, abort, settle) and of the child |
| `ReviewProcesses` | `runReviewAssignments`, `invoke` and `runAgent`, step by step | EXTENDS `RunProcess` and `ReviewBatches`: its reviewers are processes, and what it returns is what the operators say |
| `AppServerSession` | `run_app_server_session` with `CodexAppServerCollector` | actions per message and per way out; the server's agents are the environment |
| `ReviewResponse` | `ReviewSchema`'s refinement, `parseReviewResponse` and the batches of `runReviewAssignments` | one action per response, of a first or a later cycle; EXTENDS `ReviewPlanning`, whose plan it answers, and `ReviewBatches` |
| `Calibration` | `calibrate_events` | operators, shared by the two modules that calibrate: `TokenCalibration` and, for the live calibration, `AppServerSession` |
| `TokenCalibration` | `CodexJSONLCollector`, `_calibrate`, the gate of the runner | one action per event; the runtime and what its agents spend are the environment |
| `Benchmark` | `_run_treatments` and what it calls, for several command lines | one action per step that reads or writes a file others see |
| `RunArchive` | what a reader of the runs directory may rely on | abstract specification, implemented by `Benchmark` |
| `MC*` | | small instances for TLC |
| `*Proofs` | | the theorems |

### GarfieldRun

`worktree` is the Git working copy as [paths, diff, untracked]. `CaptureSnapshot`
keeps the paths and the diff, which are what `captureSnapshot` hashes: two worktrees
that differ in untracked content have one snapshot. `checkpoint` and `result` are the
two resources. `pc` is the await `execute` is at. `ledger` is the part of the accounting
that a checkpoint persists and a resumed run reads back; `reviewCalls` is the local that
is charged for a reviewer even when its process could not be completed.

| Actions | Code |
| --- | --- |
| `StartRejected`, `ReturnPassed`, `RefuseDrift`, `Resume`, `StartFresh` | the entry, lines 1509–1583: each is one path through the early returns and throws |
| `CheckpointSnapshotted`, `BuildPlan`, `Validate` | the head of the loop, with the checkpoint each stretch writes |
| `ValidationBlocked`, `BeginValidationRepair` | a failed validation |
| `InitialReviewLimit`, `Review` | `runReviewAssignments` for the cycle: what each reviewer answers, and what the batches leave charged and counted |
| `Adjudicate`, `VerificationLimit`, `Verify` | adjudication; the final advisor |
| `Decide` | the exits of a reviewed cycle in the order of the code |
| `ActorEdits`, `ActorError`, `ActorReturns`, `Recapture` | the repair, which edits while it is awaited, its return, the new snapshot and its two assertions; both call sites share them |
| `Publish` | the result, the second of `finish`'s writes (`Finish` is the first) |
| `Cancel`, `CancelledExit`, `Crash`, `UserEdit` | the abort signal and its exceptions, a process that dies (or Git, a write, the validation program throwing), edits by anyone else |

`runs`, `spawned`, `cutOff`, `touched`, `acceptedIn` and the tree in `lastValidation` are
history variables that only properties read (and `runs` the bound on runs). `cutOff` is the
snapshot from which a repair began that a crash or a cancellation cut off, whatever that
repair had done by then; `acceptedIn` has the cycles in which the account accepted each
concern.

Abstractions: arguments do not change between runs of a work item; runs do not overlap
(the workflow's concurrency is 1); a repair process that outlives the death of the run is
not modelled, so its edits after a crash appear as `UserEdit`; commits move the base of
the diff and are another worktree to the model; a checkpoint's `validation` and `findings`
are never read back by the code and left out; decisions keep the accepted ones, the only
ones the code counts; the assignment in a reason is left out; texts, redaction and
token sums are left out.

`WorkItem` knows a journal and an outcome. A journal is a state, a snapshot and an account
of repairs, reviews and decisions; it is begun, continued, worked on, repaired, passed,
blocked and published. `Journal` and `Outcome` read both off `checkpoint` and `result`:
`actor_pending` is "pending", a terminal phase is itself, any other phase is "open", and no
resource is `Nothing`. What a run holds in memory, and where it is cut off, is no part of
it: a crash is a stutter, and a resumption `Continue`. `StepsLeft` is the loop's variant: the points left of
a turn, and a turn for every repair left.

### RunProcess and ReviewProcesses

Each process has its own record of what its call knows and of its child. Check of the
signal, spawn, listener and timeout are one turn of JavaScript's event loop and one
action. `child.kill` on a child that has just exited throws or not, which the choice in
`Stop` allows. A descendant may hold the pipes open after the child's exit. Reading a pipe
is assumed not to fail: the other way in which the `Promise.all` at line 1340 may settle, a
rejection with the child alive, is not modelled.

`ReviewProcesses` puts a reviewer around each process. `agent[p].stage` is how far `invoke`
is and `came` what `runAgent` came to.

| Actions | Code |
| --- | --- |
| `Runs` | the steps of the reviewer's process, as in `RunProcess` |
| `AgentEnds` | `runProcess` settles or throws, `runAgent` makes of it an invocation or an exception, and awaits the removal of the schema file (1262) |
| `Removed` | the file is gone: the catch of `invoke` rethrows if the signal is aborted by then, and the first to do so rejects the `Promise.all` of the batch |
| `ReadBatch` | the answers of a batch, charged, counted and read in order, in the turn in which the last one came; the next batch |
| `Aborts` | the caller's abort, at any time but within such a turn |

An abort that comes while the last files of a review are being removed finds reviewers that
answered and nothing that throws. The review then returns as if nothing had happened, which
`GarfieldRun` allows by `LateAbortMissed`; the run stops at its next process.

### AppServerSession

One step is one message, consumed as it is sent; agents' messages interleave in every
way, each agent's own in order. Messages the server would send after the client has
left the loop are those it has yet to send. Any notification may be lost: usage (`Loses`),
the start and the end of a turn, a spawned agent's activity and the call that wakes an agent
(`GoesUnheard`); a call that wakes nobody is as good as not made. `meter` is what the
provider has counted for the tree. What the calibration command makes of the stream, given a
total, is `Calibrates`, over the module `Calibration`. Sessions' five token fields are one number,
added up by deltas (`counted`) and reconciled with the cumulative total (`ledger`).
`thread/started` registers what the answer to `thread/start` or the spawning item
registers and is folded into those. Server-side request ids are distinct from the three
of the client. Agent texts, roles and durations are left out.

### ReviewResponse

`sig` and `plan` are those of `ReviewPlanning`, whose change evolves until its review begins
(`Evolve`). A response is the status of each of the
fifteen checks and the lenses of its findings. `Respond` reads one response in the order of
the assignments, `NoResponse` one whose process or shape failed. A failure stops later
batches but not the rest of its own. `Waiting` offers the final advisor whenever the plan
asks for it, also where the code would not because a finding was accepted. `Repaired`
makes the cycle a later one, whose `Asked` are the assignments `selectReviewAssignments`
selects for the lenses the repair was for; the plan is that of the repaired change.

### TokenCalibration

`collector` is the state of `CodexJSONLCollector`; `agents` and `meter` are what the runtime
and the provider know. An agent may report by turn, by records of usage, or both.

| Actions | Code |
| --- | --- |
| `ThreadStarted`, `CollabToolCall`, `ToolEnds` | the branches that register a session and its parent (`setdefault`: the first event decides) |
| `TurnCompleted`, `UsageRecorded`, `Repeat` | `turn.completed`, `agent.usage`, and a report that comes again or late: `Consume` is the handler, `Key` and `Seen` its test for repetition, `Mixed` its exception |
| `Calibrate` | `_calibrate` with the provider's total or the runtime's; `Admitted` is `_require_calibration` |
| `Spawn` | an agent of the runtime starts another |

Assumed of the stream: its first event is the root's `thread.started`; a report that may
come twice has an id; only turns of the root leave their thread unnamed; no id is a
numeral that the collector also gives to a report without an id.

### Benchmark

| Actions | Code |
| --- | --- |
| `Invoke`, `ChooseCase`, `Finished`, `Abandon` | a command line, its shuffled schedule, its end; an exception or a death |
| `Prepare`, `Compare` | `prepare_workspace` for each treatment, then the comparison of the digests |
| `FindNoDirectory`, `MakeDirectory` | `run_dir.exists()`, `mkdir`: two steps |
| `SessionAccepted`, `SessionFails`, `WorkflowEnds` | what adapters return |
| `WritePatch`, `WriteUsage`, `WriteGrade`, `WriteResult` | the files of a run, one after the other |
| `EditBase` | someone edits the base |

A file carries the invocation that wrote it. `Reported` are the runs `aggregate_runs` reads
and `Compared` the pairs of the blind review. The content of a workspace is left out: what a
patch holds and whether the checks pass is any. That leaves open what a process that outlives
its run writes between the patch and the checks, what an agent commits (`git diff HEAD`,
`workspace.py`:108, shows the difference to wherever HEAD is) and what `.gitignore` hides.
A copy and the write of one file are each one step.

## Runs

| Run | Instance | Shows |
| --- | --- | --- |
| `run_retries` | 4 worktrees, one simple, one medium with verification, one that differs in an untracked file, one with a secret path; 2 runs, budgets 2 and 4, crash, cancellation and edits between runs, fairness | `TypeOK`, `PassedIsEvidenced`, `WithinBudget`, `FinishHasEvidence`, `RepairIsWriteAhead`, `SecretsAreNotShown`, `NeverOvercounts`, `CheckpointKeepsAccounting`, `NoRunOnCrashedRepair`, `KeepsOneAccount` (the refinement of `WorkItem`), `LoopDescends`, `Termination` |
| `reviews` | three things side by side: every combination of 14 signals and 3 sizes (36864); a first and a later cycle of a simple, a medium and a complex change in batches of 2, up to 2 responses of a cycle missing, or other than a plain one in a check and a finding; reports of up to 3 of 10 findings by the reviewers of a medium plan | of plans, exhaustively: `LensesPartitioned`, `LaterCyclesCoverTheRepair`, `VerifiedPlansAreSplit`, `TwoCyclesFitDefaultBudget`; of responses: `EveryLensIsAnswered`, `DuplicatesAreOnesOwn`; of reports: `OneOfEachConcernIsJudged`, `LaterReportsChangeNothing` |
| `processes` | the 3 reviewers of a medium plan in batches of 2, timeouts, an abort, descendants, fairness | `StoppedIsNeverClean`, `NothingOutlivesTheCall`, `AbortReachesAll`, `EveryChildIsTimed`, `KilledIsNotBlamed`, `NoReviewerIsLeftBehind`, `ReturnsTheReview`, `ReviewEnds` |
| `session` | a root and 2 agents that are alike, 4 turns and 3 tokens of the tree, 2 notifications lost, every fault | `AcceptedIsReconciled`, `OneCoordinator`, `CalibratedIsTheTree`, `AcceptedIsQuiet` |
| `calibration` | 2 agents, 3 tokens, 3 turns of each or repetitions of them | `TypeOK`, `CountedAtMostOnce`, `AdmittedIsExact` |
| `benchmark` | 2 command lines, 2 invocations of a pair or a workflow of one restarted case, 2 contents of the base | `TypeOK`, `WholeRuns`, `PairedStartAlike`, `Archived` |

The bounds: two runs are what a crash and its resumption take, and budgets of 2 repairs
and 4 reviews let both bind (a medium cycle with its advisor takes 3 reviews), so that
limits, resumed budgets and repetition all happen. A batch of 2 with 3 reviewers
makes a batch that never starts. Three agents make a peer, a grandchild and a cycle possible;
four turns of the tree one each and a second, three tokens one each or a lost delta beside a
repeated one; and an agent that takes one turn is unknown to the stream once two notifications
are lost, those of its turn's start and of its response, say, beside its activity. A calibration admits one
parent and one child, so that two agents are those of interest, and three tokens let a lost
report be as large as a repeated one. Two command lines are a race; a second case would only
lengthen the schedule. Responses deviate in checks that two lenses share or one alone has.
The proofs lift all of these bounds but those of the liveness properties and of
`ReturnsTheReview`, and `EditsDuringRun = FALSE` of two theorems named below.

`CHECK_DEADLOCK FALSE` is set where the system may stop: no run left to start, all
calls settled, the session ended, every report full, a cycle answered or blocked, a
verdict given, or every invocation spent.

Fairness: `GarfieldRun!FairSpec` is weak fairness of the run's own steps. The steps are
returns of Git (timeout 30 s), validation (at most 600 s) and agents (`agentTimeoutMs`) and
writes of resources. That each process does return is what `ReviewEnds` shows
of the reviewers, unless a descendant holds a pipe for ever: `Termination` rests on that
assumption. `ReviewProcesses!FairReviewSpec` asks only that armed timers fire, ready promises
settle and files are removed; no child has to do anything. Sessions have no liveness property; their end is the
deadline.

## What the properties leave out

Each of these is a behaviour of the code that a stronger property would forbid; changing
the property or the instance as described shows it.

- `PassedIsEvidenced` is checked with `EditsDuringRun = FALSE`. With `TRUE` an edit between
  the snapshot and the validation makes it fail: nothing compares the worktree with the
  snapshot after line 1523, so a passed result may rest on a validation of another tree.
- `NoRunOnCrashedRepair` compares snapshots, as the code does. A cut-off repair that only
  wrote files which were untracked already has changed no snapshot (line 1114), and the next
  run resumes over its edits.
- It speaks of repairs that were cut off. A repair that edits and then
  fails with an exception is blocked by `finish`, which writes `blocked` over
  `actor_pending`, and the next run starts afresh on its edits, with a full budget.
- `NeverOvercounts` is an inequality: a process whose `runAgent` throws is not in
  `invocations`, so `agentCalls` may fall short of the processes that ran.
- `ReviewEnds` has its premise because the timeout does not bound a call: a
  descendant of the child that holds its pipes outlives the SIGKILL.
- `AcceptedIsQuiet` speaks of turns that were announced. A session may be accepted while an
  agent that was spawned or messaged has not begun its turn, its tokens still to come.
- `KilledIsNotBlamed` is about reviewers the abort stopped. One whose process failed on its
  own, and whose file is still being removed when the abort comes, did fail; if it threw, the
  review is cancelled and not blocked, if it returned a failure, the review is blocked by it.
- `EveryLensIsAnswered` speaks of a first cycle's lenses and, of a later cycle, of those it is
  for. `EveryApplicableLensReviewed`, below, is what does not hold over the cycles of a run.
- `CalibratedIsTheTree` speaks of a total that is the provider's. Held against the runtime's
  own ledger, which is read off the same stream, an agent that the stream never named is
  missing from both sides; only agents that have a session and no usage are refused. In
  `_calibrate` (`cli.py`:114) a live calibration that passes on its own ledger is not held
  against a total that was supplied.
- `DuplicatesAreOnesOwn` and `EveryLensIsAnswered` ask no finding of each check marked
  "finding". The refinement of `ReviewSchema` compares the two over the whole response, so
  that two marked checks and a finding for one of them are let through; the prompt says
  "A coverage status of finding requires at least one actionable finding".
- No property says that a run the report counts as a success has a whole account. Success in
  `aggregate.py`:48 is `grade_passed`, which a run has whose session failed or timed out after
  the work was done; its partial `usage.jsonl` is summed with the others, although
  benchmarking/README.md:31 says "Root-only totals are never presented as complete tree
  totals." `result.json` of such a run says that it failed.
- `Archived` rests on files that are written at once, which `write_text` (`runner.py`:132) does
  not promise: a reader may find half a result.
- `PairedStartAlike` compares results of one invocation. The blind review pairs whatever two
  results lie side by side.
- `AdmittedIsExact` asks for a total that is current. The runtime's own is that of the last
  turn that carried one (`telemetry.py`:105), and a calibration against it may pass while
  the report of a later turn is lost.
- The stream's assumptions matter: an unnamed turn of a child is counted for the root
  (`telemetry.py`:85), and a turn without an id that comes again is counted again (:92).
  A session that a turn or a tool names first never gets a parent; the calibration then
  refuses, which is safe.
- Nothing is said of liveness of the benchmark: a run whose command line died keeps its
  directory and can not be repeated under its name (`runner.py`:102), and a fixture that
  collides with the hidden tests ends the whole schedule (`grading.py`:121).
- `validation_observed` decides nothing for `swamp-garfield` and `workflow-garfield`
  (`grading.py`:50): their metadata always names the validation target.

## Where code and documents differ

Each of these runs ends in a counterexample to what the repository says; `findings` in
`PROJECT.json` quotes it.

| Run | What happens |
| --- | --- |
| `run_untracked` | other content in an untracked file, same snapshot: the old passed result is returned |
| `run_protected` | a repair adds a path under `.swamp/`; its run is blocked, and the next one, which has the path in its first snapshot, passes |
| `run_skipped_lens` | the first validation fails, and its repair raises the risk and makes `deadCode` applicable; the first review is numbered cycle 2 and leaves out the implementation reviewer, so that neither `deadCode` nor `minimalism`, which applied from the start, is ever read |
| `twin` | a finding that is only inferred is read before a grounded one of the same concern; neither is accepted |
| `run_repeated` | a run resumed after adjudication counts its own finding twice and is blocked without a repair |
| `session_deadline` | the root ends before a subagent; the session waits for its deadline |

## Proofs

No proof takes anything on trust but the named assumptions of the modules, and
`EditsDuringRun = FALSE`, which two theorems of `GarfieldResultProofs` state as a hypothesis.

`GarfieldRunProofs`. From the named assumptions on the constants (budgets in the ranges
of `RunArgsSchema`, signals for every snapshot, lenses of findings among the lenses,
`None` outside the other sets), for any worktrees, findings and number of runs:

- `TypeCorrect`: `TypeOK`, by one lemma per group of actions.
- `FinishAlwaysHasEvidence`: not inductive alone. `Evidence` adds which locals are set
  at every `pc`: a plan and a validation from `Validate` on, until `Recapture` drops the plan.
- `RepairsAreWrittenAhead`: inductive with the types; the two actions that enter
  `acting` write the checkpoint in the same step.
- `CrashedRepairsAreRefused`: needs `CrashIsGuarded`: from the moment a repair is cut off until
  a run gets past its start, no run is under way and the checkpoint is `actor_pending` for the
  snapshot the repair began from, so that a run either finds that snapshot and resumes, or
  `PendingDrift` holds and it is refused; it rests on the previous one.
- `RunsAreBounded`: `LoopDescends`, from the budgets: a turn of the loop only goes down, and the
  step back up to a new snapshot is paid for with a repair.
- `BudgetsHold`: needs `RoomForRepair` (a run at `acting` has a repair left) and what the
  budget test implies for the processes of a batch (`Processed` is part of the assignments).

`GarfieldResultProofs` rests on those and proves

- `NothingIsOvercounted`: the ledger in memory and the one on disk are within `spawned`;
  each step that counts a process has run it.
- `AccountingIsKept`: needs `Kept`, that what is in memory extends what is on disk as long as
  both are of one snapshot; a fresh start only happens on another.
- `PassedIsAlwaysEvidenced`, if nobody edits during a run (`EditsDuringRun = FALSE`): needs
  `Gathered`, which says for every `pc` what evidence has been collected and of which
  snapshot, and that a passing verdict has all of it.
- `SecretsStayHidden`, if nobody edits during a run: needs that a run under way is about the
  worktree as it is, but for a repair that may write, and that its snapshot is not sensitive
  until a repair is looked at.

`WorkItemProofs` rests on both and proves `WorkItemImplemented`: `GarfieldRun` implements
`WorkItem`, with edits during a run or without. What the mapping needs of the run is

- `Linked`: once a run has written, the checkpoint is of its snapshot and, but between
  the return of a repair and the next write, has its ledger; its phase says "pending" exactly while a
  repair may be under way, and the verdict that is being published is in it;
- `Started`: a run that has not written either continues the checkpoint of its snapshot or is
  to open an account for another one, over no pending repair and no passed result;
- `HasRead`: after a review the account has readings of behavior and validation of this
  snapshot and this cycle, which is what `Pass` asks for.

Each step maps to one action or to a stutter: every checkpoint within a turn to `Work`,
`Recapture` to `Repair` or `Block`, `CheckpointSnapshotted` to `Begin`, `Continue` or, after a
repair, a stutter. The invariant was model-checked on the instance of `run_retries`, with edits during
a run and without, before it was proved.

`BenchmarkProofs` proves all four properties of `benchmark` for any number of command lines,
cases and bases. Its invariant has for every `pc` which files the run at hand has and
whose they are, and that no two command lines work at one run. `ArchiveImplemented` maps each
step to `Publish` (`WriteResult`) or to a stutter; `PairsStartAlike` needs that invocations
have different numbers and visit a case once.

`TokenCalibrationProofs` proves all three properties of `calibration` for any agents and
bounds. `CountedAtMostOnce` is strengthened by what the latest report may still add: counted
and pending tokens are within what was spent, those of records of usage within what was billed.
`AdmittedIsExact` follows with `Within` (no two or three agents have spent more than the tree):
two rows that are each at most what two agents spent, and add up
to what all agents spent, leave no room for anybody else or for any error.

`ReviewProofs` has three parts. Of plans, `LensesPartitioned`, `LaterCyclesCoverTheRepair`,
`VerifiedPlansAreSplit` and `TwoCyclesFitDefaultBudget` follow from `sig \in Signals`, by cases on the
risk; for the last, the ranks of assignments are an injection into 0..6. Of responses: only those that
satisfy `ParseReviewResponse` are kept, and with `PlanSplits` of the first part nothing a
lens needs is left out and no two reviewers report of one lens, for every change and every
set of responses; for a later cycle `OwedAreAsked` says that the lenses it is for belong to
assignments it asks. Of adjudication: `OneOfEachConcernIsJudged` and `LaterReportsChangeNothing`
for every change, pool of findings and length of reports. The first needs the first report of a
concern (`FirstReport`, the least of a finite set of positions), that the positions
of findings are strictly and totally ordered (`PositionsOrdered`), because no two reviewers
have one rank, and that one fingerprint is one concern. Neither needs induction over the
reports: what becomes of a finding depends on what is read before it, not on what became of that.

`RunProcessProofs` proves the four safety properties of processes for any set of processes
from one inductive invariant, which relates `stopping`, timers, listener and `pc`. For
`EveryChildIsTimed`, the safety part of `ReviewEnds`, it is joined by `Timed`: a child that
runs has the timeout until `stop` is entered and the timer of SIGKILL from then on.
`ReviewersAreProcesses` maps every step of a review to one of its processes or to a stutter, so
that all of this holds of reviewers; `KilledIsNotBlamed` and `NoReviewerIsLeftBehind` then follow
from `ReviewInv`: where a call is, its agent is, only an aborted process that was stopped
throws and makes its review reject, and no answer is read of a batch that has such a one.

`AppServerSessionProofs` proves `AcceptedIsReconciled` from the invariant that what is
counted is the ledger, the ledger the total last consumed, and that an update already seen
is never the newest one of an agent that has spent more since; and `OneCoordinator` from
acyclicity: a session without a parent other than the root is refused, and a root with a
parent closes a set in which every thread has a parent in the set. `CalibratedIsTheTree`
needs `Within`: nobody is counted beyond what it spent, and what all have spent is on the
meter; rows that add up to the meter then leave no room for an agent without a row, nor for a
row that is short.
`AcceptedIsQuiet` needs `Waits`: as long as the client listens, every agent in a turn it has
announced is among the collector's active threads, so that the session is not done.

Only model-checked: `Termination` and `ReviewEnds`, which are liveness and beyond the
prover, as are ENABLED and induction over data; and `ReturnsTheReview`, whose induction over
the batches is within its reach and not done. Of `Termination`, the variant is proved
(`LoopDescends`); what TLC adds is that a run always has a step to make. Every other invariant and
action property of the passing runs, and both refinements, are theorems.

Two fields of one element are written `[f EXCEPT ![p] = [f[p] EXCEPT !.a = x, !.b = y]]`
throughout, never `[f EXCEPT ![p].a = x, ![p].b = y]`: tlapm 1.4.5 gives the solver an
inconsistent encoding of the latter, from which it proves anything.

## Not modelled

Torn snapshots (Git's two reads are one step), torn files (a file of a run is written in
place, in one step here). The content of prompts, redaction, shapes of messages
(`parseCodexEvents`, JSON fences): what they tell the run is in `GarfieldRun`'s outcomes and
`ReviewResponse`'s `NoResponse`. `resourceKey` and `_resource_key`, two hashes that differ
outside the BMP, which no work item of the benchmark is (`garfield-bench:<run>:<uuid>`).
Medians, tables, the
seed and layout of a blind bundle. Ledgerlite, the harness's input; the workflow file, the
cases and the stored results, which are data.

## Plan

Done, in this order: `ReviewPolicy`, `ReviewPlanning`, `GarfieldRun` with its first proofs,
`Adjudication`, `RunProcess`, `AppServerSession`, `Calibration` and `TokenCalibration`,
`RunArchive` and `Benchmark`, the proofs of all of these, `ReviewResponse`, `WorkItem` and its
implementation, the loop's variant, `ReviewBatches` and `ReviewProcesses`.

Next:

1. A proof of `ReturnsTheReview`.
2. A snapshot of two reads in `GarfieldRun`; a pipe that cannot be read in `RunProcess`.
3. An account of repairs that fail after they have edited (`garfield.ts`:1959): `WorkItem!Block`
   allows one to go uncounted, as the code does.
4. Workspaces in `Benchmark`: HEAD, ignored files, and who still writes them when the checks run.
5. Theorems: a variant of a command line of the benchmark.
