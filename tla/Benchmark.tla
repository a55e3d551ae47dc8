-------------------------------- MODULE Benchmark --------------------------------
(***************************************************************************)
(* The benchmark harness (benchmarking/src/garfield_bench): command lines  *)
(* that run cases under treatments and leave a directory per run, which    *)
(* the report and the blind review read.  Several command lines may share  *)
(* a runs directory, one may die at any point, and an exception ends all   *)
(* that its command line had still to do.                                  *)
(*                                                                         *)
(* A run is a case (with its repetition) under a treatment.  What an agent *)
(* tree does is its contract: a session that is accepted has counted its   *)
(* tokens (AppServerSession), a workflow that passed has its record        *)
(* (GarfieldRun); any other may have counted some of them only.  What the  *)
(* agents make of the workspace, and what the checks find there, is any    *)
(* patch and any grade.                                                    *)
(***************************************************************************)
EXTENDS Naturals, FiniteSets

CONSTANTS
  Procs,            \* command lines at work
  Cases,            \* cases, one name for each repetition of each
  Restarted,        \* those whose coordinator is replaced half way
  Bases,            \* contents of the base tree with the fixture applied
  Commands,         \* the command lines given: cases, and treatments of each
  MaxInvocations,   \* bound: command lines started
  None

Coordinated == {"garfield", "swamp-garfield"}
Treatments == Coordinated \cup {"workflow-garfield"}

\* run-one takes one treatment of one case; run-pair, pilot and full take the
\* two coordinated treatments of one case or of all of them.
CommandLines ==
  ({{c} : c \in Cases} \X ({{t} : t \in Treatments} \cup {Coordinated}))
    \cup {<<Cases, Coordinated>>}

VARIABLES
  job,          \* what each command line is at
  dirs,         \* the run directories
  base,         \* the base tree, which others may edit
  invocations   \* how many command lines were started

vars == <<job, dirs, base, invocations>>

Runs == Cases \X Treatments

Attempts == 1..MaxInvocations

\* The files of a run; each carries the command line that wrote it.
Patches  == [by : Attempts]                                   \* final.patch
Usages   == [by : Attempts, whole : BOOLEAN]                  \* usage.jsonl, known to be whole
Gradings == [by : Attempts, passed : BOOLEAN]                 \* grading.json
Results  == [by : Attempts, passed : BOOLEAN, hash : Bases]   \* result.json

Directories ==
  [patch   : Patches \cup {None},
   usage   : Usages \cup {None},
   grading : Gradings \cup {None},
   result  : Results \cup {None}]

ASSUME BenchmarkAssumption ==
  /\ Restarted \subseteq Cases
  /\ Commands \subseteq CommandLines
  /\ MaxInvocations \in Nat
  /\ None \notin Bases \cup Treatments \cup Cases
  /\ None \notin Patches \cup Usages \cup Gradings \cup Results
  /\ None \notin Directories

EmptyDirectory ==
  [patch |-> None, usage |-> None, grading |-> None, result |-> None]

Points == {"idle", "choosing", "preparing", "comparing", "starting", "creating",
           "running", "patching", "accounting", "grading", "resulting"}

Jobs ==
  [pc      : Points,
   id      : Attempts \cup {0},
   cases   : SUBSET Cases,               \* the rest of the schedule
   case    : Cases \cup {None},
   wanted  : SUBSET Treatments,          \* the treatments of the case, and
   todo    : SUBSET Treatments,          \* those not yet run
   hashes  : [Treatments -> Bases \cup {None}],    \* of the prepared workspaces
   at      : Treatments \cup {None},
   session : {1, 2},
   completed : BOOLEAN]                  \* the status the adapter returned

Idle ==
  [pc |-> "idle", id |-> 0, cases |-> {}, case |-> None,
   wanted |-> {}, todo |-> {}, hashes |-> [t \in Treatments |-> None], at |-> None,
   session |-> 1, completed |-> FALSE]

Init ==
  /\ job = [p \in Procs |-> Idle]
  /\ dirs = [r \in Runs |-> None]
  /\ base \in Bases
  /\ invocations = 0

At(p, pc) == job[p].pc = pc

Run(p) == <<job[p].case, job[p].at>>

-------------------------------------------------------------------------------
(* Command lines. *)

Invoke(p, cases, wanted) ==
  /\ At(p, "idle")
  /\ invocations < MaxInvocations
  /\ invocations' = invocations + 1
  /\ job' = [job EXCEPT ![p] =
       [Idle EXCEPT !.pc = "choosing", !.id = invocations + 1,
                    !.cases = cases, !.wanted = wanted]]
  /\ UNCHANGED <<dirs, base>>

\* The schedule is shuffled: the next case is any of those left.
ChooseCase(p, c) ==
  /\ At(p, "choosing")
  /\ c \in job[p].cases
  /\ job' = [job EXCEPT ![p] =
               [job[p] EXCEPT !.pc = "preparing", !.case = c, !.cases = @ \ {c},
                         !.todo = job[p].wanted,
                         !.hashes = [t \in Treatments |-> None]]]
  /\ UNCHANGED <<dirs, base, invocations>>

Finished(p) ==
  /\ At(p, "choosing")
  /\ job[p].cases = {}
  /\ job' = [job EXCEPT ![p] = Idle]
  /\ UNCHANGED <<dirs, base, invocations>>

\* An exception leaves _run_treatments, and with it the command line; or the
\* process dies.  The run directory stays as it is.
Abandon(p) ==
  /\ ~At(p, "idle")
  /\ job' = [job EXCEPT ![p] = Idle]
  /\ UNCHANGED <<dirs, base, invocations>>

-------------------------------------------------------------------------------
(* Preparation: every treatment gets a copy of the base as it is then. *)

Prepare(p, t) ==
  /\ At(p, "preparing")
  /\ t \in job[p].todo /\ job[p].hashes[t] = None
  /\ LET hashes == [job[p].hashes EXCEPT ![t] = base] IN
     job' = [job EXCEPT ![p] =
                [job[p] EXCEPT !.hashes = hashes,
                          !.pc = IF \A u \in job[p].todo : hashes[u] # None
                                 THEN "comparing" ELSE @]]
  /\ UNCHANGED <<dirs, base, invocations>>

\* Mutant: the digests are not compared.
AnyTrees(p) == TRUE

IdenticalTrees(p) ==
  \A t, u \in job[p].todo : job[p].hashes[t] = job[p].hashes[u]

\* "treatments received non-identical starting trees" is an exception.
Compare(p) ==
  /\ At(p, "comparing")
  /\ job' = [job EXCEPT ![p] =
       IF IdenticalTrees(p) THEN [@ EXCEPT !.pc = "starting"] ELSE Idle]
  /\ UNCHANGED <<dirs, base, invocations>>

-------------------------------------------------------------------------------
(* One run. *)

\* run_dir.exists(); the order of the treatments is shuffled.
FindNoDirectory(p, t) ==
  /\ At(p, "starting")
  /\ t \in job[p].todo
  /\ job' = [job EXCEPT ![p] =
       IF dirs[<<job[p].case, t>>] = None
       THEN [@ EXCEPT !.pc = "creating", !.at = t]
       ELSE Idle]
  /\ UNCHANGED <<dirs, base, invocations>>

\* Mutant: a directory made in between is used all the same (exist_ok).
MakeDirectoryOrNot(p) ==
  /\ At(p, "creating")
  /\ dirs' = IF dirs[Run(p)] = None THEN [dirs EXCEPT ![Run(p)] = EmptyDirectory] ELSE dirs
  /\ job' = [job EXCEPT ![p].pc = "running"]
  /\ UNCHANGED <<base, invocations>>

\* run_dir.mkdir(parents=True) raises if another was quicker.
MakeDirectory(p) ==
  /\ At(p, "creating")
  /\ IF dirs[Run(p)] = None
     THEN /\ dirs' = [dirs EXCEPT ![Run(p)] = EmptyDirectory]
          /\ job' = [job EXCEPT ![p].pc = "running"]
     ELSE /\ job' = [job EXCEPT ![p] = Idle]
          /\ UNCHANGED dirs
  /\ UNCHANGED <<base, invocations>>

\* The adapter returns: completed; or else failed or timed out, which nobody tells
\* apart afterwards.
Completes(p) ==
  job' = [job EXCEPT ![p] = [job[p] EXCEPT !.pc = "patching", !.completed = TRUE]]

Fails(p) == job' = [job EXCEPT ![p].pc = "patching"]

Sessions(case) == IF case \in Restarted THEN 2 ELSE 1

\* Mutant: off by one.
HasAnotherSessionStill(p) == job[p].session <= Sessions(job[p].case)

HasAnotherSession(p) == job[p].session < Sessions(job[p].case)

\* A session of a coordinator that exited with 0: the next one, or the end.
SessionAccepted(p) ==
  /\ At(p, "running") /\ job[p].at \in Coordinated
  /\ IF HasAnotherSession(p)
     THEN job' = [job EXCEPT ![p].session = @ + 1]
     ELSE Completes(p)
  /\ UNCHANGED <<dirs, base, invocations>>

\* Any other is the last; its rows are kept with those before it.
SessionFails(p) ==
  /\ At(p, "running") /\ job[p].at \in Coordinated
  /\ Fails(p)
  /\ UNCHANGED <<dirs, base, invocations>>

\* swamp workflow run, and the result resource read after it: the workflow
\* exited with 0 and its result is passed; or it was blocked, it failed or
\* timed out, or no result was found, and then there are no rows at all.
WorkflowEnds(p) ==
  /\ At(p, "running") /\ job[p].at = "workflow-garfield"
  /\ Completes(p) \/ Fails(p)
  /\ UNCHANGED <<dirs, base, invocations>>

WritePatch(p) ==
  /\ At(p, "patching")
  /\ dirs' = [dirs EXCEPT ![Run(p)].patch = [by |-> job[p].id]]
  /\ job' = [job EXCEPT ![p].pc = "accounting"]
  /\ UNCHANGED <<base, invocations>>

\* Mutant: rows are kept for completed runs only.
WriteUsageOfCompleted(p) ==
  /\ At(p, "accounting")
  /\ dirs' = IF job[p].completed
             THEN [dirs EXCEPT ![Run(p)].usage = [by |-> job[p].id, whole |-> job[p].completed]]
             ELSE dirs
  /\ job' = [job EXCEPT ![p].pc = "grading"]
  /\ UNCHANGED <<base, invocations>>

WriteUsage(p) ==
  /\ At(p, "accounting")
  /\ dirs' = [dirs EXCEPT ![Run(p)].usage = [by |-> job[p].id, whole |-> job[p].completed]]
  /\ job' = [job EXCEPT ![p].pc = "grading"]
  /\ UNCHANGED <<base, invocations>>

\* The checks run in the workspace as it is by then, and their grade is written.
WriteGrade(p) ==
  /\ At(p, "grading")
  /\ \E passed \in BOOLEAN :
       dirs' = [dirs EXCEPT ![Run(p)].grading = [by |-> job[p].id, passed |-> passed]]
  /\ job' = [job EXCEPT ![p].pc = "resulting"]
  /\ UNCHANGED <<base, invocations>>

PassedStatus(p) == job[p].completed /\ dirs[Run(p)].grading.passed

WriteResult(p) ==
  LET left == job[p].todo \ {job[p].at} IN
  /\ At(p, "resulting")
  /\ dirs' = [dirs EXCEPT ![Run(p)].result =
       [by |-> job[p].id, passed |-> PassedStatus(p), hash |-> job[p].hashes[job[p].at]]]
  /\ job' = [job EXCEPT ![p] =
       [Idle EXCEPT !.pc = IF left = {} THEN "choosing" ELSE "starting",
                    !.id = job[p].id, !.cases = job[p].cases, !.case = job[p].case,
                    !.wanted = job[p].wanted, !.todo = left,
                    !.hashes = [job[p].hashes EXCEPT ![job[p].at] = None]]]
  /\ UNCHANGED <<base, invocations>>

\* Anyone else edits the base tree or a fixture.
EditBase ==
  /\ base' \in Bases \ {base}
  /\ UNCHANGED <<job, dirs, invocations>>

-------------------------------------------------------------------------------
Step(p) ==
  \/ \E c \in Cases : ChooseCase(p, c)
  \/ \E t \in Treatments : Prepare(p, t) \/ FindNoDirectory(p, t)
  \/ Finished(p) \/ Compare(p) \/ MakeDirectory(p)
  \/ SessionAccepted(p) \/ SessionFails(p) \/ WorkflowEnds(p)
  \/ WritePatch(p) \/ WriteUsage(p) \/ WriteGrade(p) \/ WriteResult(p)

Next ==
  \/ \E p \in Procs : \/ \E c \in Commands : Invoke(p, c[1], c[2])
                      \/ Step(p) \/ Abandon(p)
  \/ EditBase

Spec == Init /\ [][Next]_vars
-------------------------------------------------------------------------------
(* What is read of the runs afterwards. *)

\* aggregate_runs reads the directories that have a result.json.
Reported == {r \in Runs : dirs[r] # None /\ dirs[r].result # None}

\* prepare_blind_review lays the two patches of a case side by side.
Compared == {c \in Cases : \A t \in Coordinated : <<c, t>> \in Reported}

-------------------------------------------------------------------------------
(* Properties. *)

\* Every command line, directory and file has its type.
TypeOK ==
  /\ job \in [Procs -> Jobs]
  /\ dirs \in [Runs -> Directories \cup {None}]
  /\ base \in Bases
  /\ invocations \in 0..MaxInvocations

Files(d) == {d.patch, d.usage, d.grading, d.result}

\* A run with a result has all its files, and all of them of one command line,
\* however many worked at it and wherever they died: the report, which opens
\* usage.jsonl of every run with a result, finds it, and no run is patched
\* together from two.
WholeRuns ==
  \A r \in Reported :
    LET d == dirs[r] IN
    None \notin Files(d) /\ \A f \in Files(d) : f.by = d.result.by

\* The two patches of a pair started from the same tree, although the base or
\* the fixture may be edited while the workspaces are copied.
PairedStartAlike ==
  \A c \in Compared :
    LET result(t) == dirs[<<c, t>>].result IN
    \A t, u \in Coordinated :
      result(t).by = result(u).by => result(t).hash = result(u).hash

Sound(d) ==
  /\ None \notin Files(d)
  /\ \A f \in Files(d) : f.by = d.result.by
  /\ d.result.passed => d.usage.whole /\ d.grading.passed

SoundDirectories == {d \in Directories : Sound(d)}

Archive == INSTANCE RunArchive WITH
  Records <- SoundDirectories,
  archive <- [r \in Runs |-> IF r \in Reported THEN dirs[r] ELSE None]

\* Whoever reads the runs directory at any time sees runs appear one at a time,
\* whole, and never changed or withdrawn afterwards, although they are written
\* file by file by several command lines that may die.
Archived == Archive!Spec
================================================================================
