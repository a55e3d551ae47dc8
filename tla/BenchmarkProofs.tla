----------------------------- MODULE BenchmarkProofs -----------------------------
(***************************************************************************)
(* Theorems about Benchmark, for any command lines and cases and any       *)
(* number of invocations.                                                  *)
(***************************************************************************)
EXTENDS Benchmark, TLAPS

\* The types.

LEMMA IdleType == Idle \in Jobs
  <1>1. [t \in Treatments |-> None] \in [Treatments -> Bases \cup {None}]
    OBVIOUS
  <1> QED BY <1>1 DEF Idle, Jobs, Points

\* A change to the job of one command line.
LEMMA OneJob ==
  ASSUME job \in [Procs -> Jobs], NEW p \in Procs, NEW j \in Jobs,
         job' = [job EXCEPT ![p] = j]
  PROVE  job' \in [Procs -> Jobs]
  OBVIOUS

LEMMA TypeInit == Init => TypeOK
  <1> SUFFICES ASSUME Init PROVE TypeOK
    OBVIOUS
  <1>1. MaxInvocations \in Nat
    BY BenchmarkAssumption
  <1> QED BY <1>1, IdleType DEF Init, TypeOK

LEMMA InvokeType ==
  ASSUME TypeOK, NEW p \in Procs, NEW c \in Commands, Invoke(p, c[1], c[2])
  PROVE  TypeOK'
  <1>1. c \in CommandLines
    BY BenchmarkAssumption
  <1>2. c[1] \in SUBSET Cases /\ c[2] \in SUBSET Treatments
    BY <1>1 DEF CommandLines, Treatments
  <1>3. invocations + 1 \in Attempts /\ MaxInvocations \in Nat
    BY BenchmarkAssumption DEF Invoke, TypeOK, Attempts
  <1>4. [Idle EXCEPT !.pc = "choosing", !.id = invocations + 1,
                     !.cases = c[1], !.wanted = c[2]] \in Jobs
    BY <1>2, <1>3, IdleType DEF Jobs, Points
  <1>5. job' \in [Procs -> Jobs]
    BY <1>4 DEF Invoke, TypeOK
  <1> QED BY <1>3, <1>5 DEF Invoke, TypeOK, Attempts

LEMMA ChooseCaseType ==
  ASSUME TypeOK, NEW p \in Procs, NEW c \in Cases, ChooseCase(p, c)
  PROVE  TypeOK'
  <1> DEFINE j == [job[p] EXCEPT !.pc = "preparing", !.case = c, !.cases = @ \ {c},
                                 !.todo = job[p].wanted,
                                 !.hashes = [t \in Treatments |-> None]]
  <1>1. [t \in Treatments |-> None] \in [Treatments -> Bases \cup {None}]
    OBVIOUS
  <1>2. job[p] \in Jobs
    BY DEF TypeOK
  <1>3. j \in Jobs
    BY <1>1, <1>2 DEF Jobs, Points
  <1>4. job' = [job EXCEPT ![p] = j]
    BY DEF ChooseCase
  <1> QED BY <1>3, <1>4 DEF ChooseCase, TypeOK

LEMMA PrepareType ==
  ASSUME TypeOK, NEW p \in Procs, NEW t \in Treatments, Prepare(p, t)
  PROVE  TypeOK'
  <1> DEFINE hashes == [job[p].hashes EXCEPT ![t] = base]
             pc == IF \A u \in job[p].todo : hashes[u] # None THEN "comparing"
                   ELSE job[p].pc
             j == [job[p] EXCEPT !.hashes = hashes, !.pc = pc]
  <1>1. job[p] \in Jobs /\ hashes \in [Treatments -> Bases \cup {None}]
    BY DEF TypeOK, Jobs
  <1>2. pc \in Points
    BY <1>1 DEF Jobs, Points
  <1> HIDE DEF hashes, pc
  <1>3. j \in Jobs
    BY <1>1, <1>2 DEF Jobs
  <1>4. job' = [job EXCEPT ![p] = j]
    BY DEF Prepare, hashes, pc
  <1> QED BY <1>3, <1>4 DEF Prepare, TypeOK

LEMMA FindNoDirectoryType ==
  ASSUME TypeOK, NEW p \in Procs, NEW t \in Treatments, FindNoDirectory(p, t)
  PROVE  TypeOK'
  <1>1. job[p] \in Jobs
    BY DEF TypeOK
  <1>2. [job[p] EXCEPT !.pc = "creating", !.at = t] \in Jobs
    BY <1>1 DEF Jobs, Points
  <1> QED BY <1>2, IdleType DEF FindNoDirectory, TypeOK

LEMMA AwayType ==
  ASSUME TypeOK, NEW p \in Procs, Finished(p) \/ Compare(p) \/ Abandon(p)
  PROVE  TypeOK'
  <1>1. job[p] \in Jobs
    BY DEF TypeOK
  <1>2. [job[p] EXCEPT !.pc = "starting"] \in Jobs
    BY <1>1 DEF Jobs, Points
  <1> QED BY <1>2, IdleType DEF Finished, Compare, Abandon, TypeOK

\* A change to one run directory.
LEMMA OneDirectory ==
  ASSUME dirs \in [Runs -> Directories \cup {None}], NEW r \in Runs,
         NEW d \in Directories, dirs' = [dirs EXCEPT ![r] = d]
  PROVE  dirs' \in [Runs -> Directories \cup {None}]
  OBVIOUS


-------------------------------------------------------------------------------
(* The inductive invariant. *)

\* At work on a run, with patch, account, checks and grade done one by one.
Graded     == {"resulting"}
Accounted  == Graded \cup {"grading"}
Patched    == Accounted \cup {"accounting"}
Working    == Patched \cup {"running", "patching"}

\* The id, the case and the treatment at hand, once there are any.
Placed(p) ==
  /\ job[p].pc # "idle" => job[p].id \in 1..invocations
  /\ job[p].pc \notin {"idle", "choosing"} => job[p].case \in Cases
  /\ job[p].pc \in Working \cup {"creating"} => job[p].at \in job[p].todo

\* The prepared workspaces, all alike once they have been compared.
Hashed(p) ==
  /\ job[p].pc = "comparing" => \A t \in job[p].todo : job[p].hashes[t] # None
  /\ job[p].pc \in Working \cup {"starting", "creating"} =>
       \A t, u \in job[p].todo : job[p].hashes[t] # None /\ job[p].hashes[t] = job[p].hashes[u]

\* The files of the run at hand.
Written(p) ==
  LET d == dirs[Run(p)]
      mine(f) == f # None /\ f.by = job[p].id
  IN
  /\ job[p].pc \in Working => d # None /\ d.result = None
  /\ job[p].pc \in Patched => mine(d.patch)
  /\ job[p].pc \in Accounted => mine(d.usage) /\ d.usage.whole = job[p].completed
  /\ job[p].pc \in Graded => mine(d.grading)

Local(p) == Placed(p) /\ Hashed(p) /\ Written(p)

\* No two command lines work at one run.
Exclusive ==
  \A p, q \in Procs :
    p # q /\ job[p].pc \in Working /\ job[q].pc \in Working => Run(p) # Run(q)

SoundReport(r) ==
  dirs[r] # None /\ dirs[r].result # None => Sound(dirs[r])

Inv ==
  /\ TypeOK
  /\ \A p \in Procs : Local(p)
  /\ Exclusive
  /\ \A r \in Runs : SoundReport(r)

LEMMA RunIsRun ==
  ASSUME TypeOK, NEW p \in Procs, Placed(p), job[p].pc \in Working \cup {"creating"}
  PROVE  Run(p) \in Runs /\ job[p].at \in Treatments /\ job[p].id \in Attempts
  <1>1. job[p].case \in Cases /\ job[p].at \in Treatments
    BY DEF TypeOK, Jobs, Placed, Working, Patched, Accounted, Graded
  <1>2. job[p].id \in Attempts
    BY BenchmarkAssumption DEF TypeOK, Placed, Attempts, Working, Patched, Accounted, Graded
  <1> QED BY <1>1, <1>2 DEF Run, Runs

LEMMA MakeDirectoryType ==
  ASSUME TypeOK, NEW p \in Procs, Placed(p), MakeDirectory(p)
  PROVE  TypeOK'
  <1>1. Run(p) \in Runs
    BY RunIsRun DEF MakeDirectory, At
  <1>2. [job[p] EXCEPT !.pc = "running"] \in Jobs
    <2>1. job[p] \in Jobs
      BY DEF TypeOK
    <2> QED BY <2>1 DEF Jobs, Points
  <1>3. EmptyDirectory \in Directories
    BY DEF EmptyDirectory, Directories
  <1> QED BY <1>1, <1>2, <1>3, IdleType DEF MakeDirectory, TypeOK

LEMMA AdapterType ==
  ASSUME TypeOK, NEW p \in Procs,
         SessionAccepted(p) \/ SessionFails(p) \/ WorkflowEnds(p)
  PROVE  TypeOK'
  <1>1. job[p] \in Jobs
    BY DEF TypeOK
  <1>2. /\ [job[p] EXCEPT !.pc = "patching", !.completed = TRUE] \in Jobs
        /\ [job[p] EXCEPT !.pc = "patching"] \in Jobs
    BY <1>1 DEF Jobs, Points
  <1>3. CASE Completes(p) /\ UNCHANGED <<dirs, base, invocations>>
    BY <1>2, <1>3 DEF Completes, TypeOK
  <1>4. CASE Fails(p) /\ UNCHANGED <<dirs, base, invocations>>
    BY <1>2, <1>4 DEF Fails, TypeOK
  <1>6. CASE SessionAccepted(p) /\ HasAnotherSession(p)
    <2>1. job[p].session + 1 = 2
      BY <1>1, <1>6 DEF Jobs, HasAnotherSession, Sessions
    <2>2. [job[p] EXCEPT !.session = @ + 1] \in Jobs
      BY <1>1, <2>1 DEF Jobs
    <2> QED BY <1>6, <2>2 DEF SessionAccepted, TypeOK
  <1> QED BY <1>3, <1>4, <1>6 DEF SessionAccepted, SessionFails, WorkflowEnds

\* The steps that write a file of the run.
LEMMA FilesType ==
  ASSUME TypeOK, NEW p \in Procs, Placed(p), Written(p),
         WritePatch(p) \/ WriteUsage(p) \/ WriteGrade(p)
  PROVE  TypeOK'
  <1>1. Run(p) \in Runs /\ job[p].id \in Attempts /\ job[p] \in Jobs
    BY RunIsRun DEF WritePatch, WriteUsage, WriteGrade, At, Working, Patched, Accounted, Graded, TypeOK
  <1>2. dirs[Run(p)] \in Directories
    BY <1>1 DEF WritePatch, WriteUsage, WriteGrade, At, Working, Patched, Accounted, Graded, TypeOK, Written
  <1>3. \A pc \in Points : [job[p] EXCEPT !.pc = pc] \in Jobs
    BY <1>1 DEF Jobs
  <1>4. CASE WritePatch(p)
    <2>1. [by |-> job[p].id] \in Patches
      BY <1>1 DEF Patches, Jobs
    <2>2. [dirs[Run(p)] EXCEPT !.patch = [by |-> job[p].id]] \in Directories
      BY <1>2, <2>1 DEF Directories
    <2> QED BY <1>1, <1>3, <1>4, <2>2 DEF WritePatch, TypeOK, Points
  <1>5. CASE WriteUsage(p)
    <2>1. [by |-> job[p].id, whole |-> job[p].completed] \in Usages
      BY <1>1 DEF Usages, Jobs
    <2>2. [dirs[Run(p)] EXCEPT !.usage = [by |-> job[p].id, whole |-> job[p].completed]]
            \in Directories
      BY <1>2, <2>1 DEF Directories
    <2> QED BY <1>1, <1>3, <1>5, <2>2 DEF WriteUsage, TypeOK, Points
  <1>6. ASSUME NEW passed \in BOOLEAN, WriteGrade(p),
               dirs' = [dirs EXCEPT ![Run(p)].grading = [by |-> job[p].id, passed |-> passed]]
        PROVE  TypeOK'
    <2>1. [by |-> job[p].id, passed |-> passed] \in Gradings
      BY <1>1 DEF Gradings
    <2>2. [dirs[Run(p)] EXCEPT !.grading = [by |-> job[p].id, passed |-> passed]]
            \in Directories
      BY <1>2, <2>1 DEF Directories
    <2> QED BY <1>1, <1>3, <1>6, <2>2 DEF WriteGrade, TypeOK, Points
  <1> QED BY <1>4, <1>5, <1>6 DEF WriteGrade

LEMMA WriteResultType ==
  ASSUME TypeOK, NEW p \in Procs, Local(p), WriteResult(p)
  PROVE  /\ TypeOK'
         /\ Run(p) \in Runs /\ dirs[Run(p)] \in Directories /\ job[p] \in Jobs
         /\ [by |-> job[p].id, passed |-> PassedStatus(p),
             hash |-> job[p].hashes[job[p].at]] \in Results
  <1> DEFINE left == job[p].todo \ {job[p].at}
             pc == IF left = {} THEN "choosing" ELSE "starting"
             hashes == [job[p].hashes EXCEPT ![job[p].at] = None]
             j == [Idle EXCEPT !.pc = pc, !.id = job[p].id, !.cases = job[p].cases,
                               !.case = job[p].case, !.wanted = job[p].wanted,
                               !.todo = left, !.hashes = hashes]
             result == [by |-> job[p].id, passed |-> PassedStatus(p),
                        hash |-> job[p].hashes[job[p].at]]
  <1>1. job[p].pc = "resulting" /\ job[p].pc \in Working
    BY DEF WriteResult, At, Working, Patched, Accounted, Graded
  <1>2. Run(p) \in Runs /\ job[p].at \in Treatments /\ job[p].id \in Attempts
    BY <1>1, RunIsRun DEF Local
  <1>3. job[p] \in Jobs
    BY DEF TypeOK
  <1>4. dirs[Run(p)] \in Directories
    BY <1>1, <1>2 DEF TypeOK, Local, Written
  <1>5. job[p].hashes[job[p].at] \in Bases
    BY <1>1, <1>2, <1>3 DEF Jobs, Local, Placed, Hashed
  <1>6. dirs[Run(p)].grading \in Gradings
    BY <1>1, <1>4 DEF Local, Written, Graded, Directories
  <1>7. PassedStatus(p) \in BOOLEAN
    BY DEF PassedStatus
  <1>8. result \in Results
    BY <1>2, <1>5, <1>7 DEF Results
  <1>9. [dirs[Run(p)] EXCEPT !.result = result] \in Directories
    BY <1>4, <1>8 DEF Directories
  <1>10. pc \in Points /\ left \in SUBSET Treatments
         /\ hashes \in [Treatments -> Bases \cup {None}]
    BY <1>2, <1>3 DEF Jobs, Points
  <1>11. job' = [job EXCEPT ![p] = j]
    BY DEF WriteResult
  <1> HIDE DEF pc, left, hashes
  <1>12. j \in Jobs
    BY <1>3, <1>10, IdleType DEF Jobs
  <1>13. job' \in [Procs -> Jobs]
    BY <1>11, <1>12 DEF TypeOK
  <1>14. dirs' = [dirs EXCEPT ![Run(p)] = [dirs[Run(p)] EXCEPT !.result = result]]
    BY <1>2 DEF WriteResult, TypeOK
  <1> HIDE DEF result, j
  <1>15. dirs' \in [Runs -> Directories \cup {None}]
    BY <1>2, <1>9, <1>14 DEF TypeOK
  <1>16. base' = base /\ invocations' = invocations
    BY DEF WriteResult
  <1> QED BY <1>2, <1>3, <1>4, <1>8, <1>13, <1>15, <1>16 DEF TypeOK, result

\* Whoever is not at work in a step keeps what is local to it.
LEMMA Frame ==
  ASSUME NEW q \in Procs, Local(q), job'[q] = job[q],
         invocations \in Nat, invocations' \in Nat, invocations <= invocations',
         job[q].pc \in Working => dirs'[Run(q)] = dirs[Run(q)]
  PROVE  Local(q)' /\ Run(q)' = Run(q)
  <1>1. Run(q)' = Run(q)
    BY DEF Run
  <1>2. Placed(q)'
    BY DEF Local, Placed
  <1>3. Hashed(q)'
    BY DEF Local, Hashed
  <1>4. Written(q)'
    BY <1>1 DEF Local, Written, Working, Patched, Accounted, Graded
  <1> QED BY <1>1, <1>2, <1>3, <1>4 DEF Local

\* A command line that goes away, or starts over, has nothing at hand.
LEMMA IdleLocal ==
  ASSUME NEW p \in Procs, job'[p] = Idle
  PROVE  Local(p)' /\ job'[p].pc = "idle"
  BY DEF Idle, Local, Placed, Hashed, Written, Working, Patched, Accounted, Graded

-------------------------------------------------------------------------------
(* Every step preserves what is local to the command line that takes it. *)

LEMMA InvokeLocal ==
  ASSUME TypeOK, NEW p \in Procs, NEW c \in Commands, Invoke(p, c[1], c[2])
  PROVE  Local(p)' /\ job'[p].pc = "choosing"
  <1>1. job'[p] = [Idle EXCEPT !.pc = "choosing", !.id = invocations + 1,
                               !.cases = c[1], !.wanted = c[2]]
    BY DEF Invoke, TypeOK
  <1>2. job'[p].pc = "choosing" /\ job'[p].id = invocations + 1
    BY <1>1, IdleType DEF Jobs
  <1>3. job'[p].id \in 1..invocations'
    BY <1>2 DEF TypeOK, Invoke
  <1> QED BY <1>2, <1>3 DEF Local, Placed, Hashed, Written, Working, Patched, Accounted, Graded

LEMMA ChooseCaseLocal ==
  ASSUME TypeOK, NEW p \in Procs, Local(p), NEW c \in Cases, ChooseCase(p, c)
  PROVE  Local(p)' /\ job'[p].pc = "preparing"
  <1>1. job[p] \in Jobs /\ job[p].pc = "choosing" /\ invocations' = invocations
    BY DEF TypeOK, ChooseCase, At
  <1>2. job'[p] = [job[p] EXCEPT !.pc = "preparing", !.case = c, !.cases = @ \ {c},
                                 !.todo = job[p].wanted,
                                 !.hashes = [t \in Treatments |-> None]]
    BY DEF ChooseCase, TypeOK
  <1>3. job'[p].pc = "preparing" /\ job'[p].case = c /\ job'[p].id = job[p].id
    BY <1>1, <1>2 DEF Jobs
  <1>4. job'[p].id \in 1..invocations'
    BY <1>1, <1>3 DEF Local, Placed
  <1> QED BY <1>3, <1>4 DEF Local, Placed, Hashed, Written, Working, Patched, Accounted, Graded

LEMMA PrepareLocal ==
  ASSUME TypeOK, NEW p \in Procs, Local(p), NEW t \in Treatments, Prepare(p, t)
  PROVE  Local(p)' /\ job'[p].pc \in {"preparing", "comparing"}
  <1> DEFINE hashes == [job[p].hashes EXCEPT ![t] = base]
             pc == IF \A u \in job[p].todo : hashes[u] # None THEN "comparing"
                   ELSE job[p].pc
  <1>1. job[p] \in Jobs /\ job[p].pc = "preparing" /\ invocations' = invocations
    BY DEF TypeOK, Prepare, At
  <1>2. job'[p] = [job[p] EXCEPT !.hashes = hashes, !.pc = pc]
    BY DEF Prepare, TypeOK
  <1>3. pc \in {"preparing", "comparing"}
    BY <1>1
  <1>4. pc = "comparing" => \A u \in job[p].todo : hashes[u] # None
    BY <1>1
  <1> HIDE DEF hashes, pc
  <1>5. /\ job'[p].pc = pc /\ job'[p].hashes = hashes /\ job'[p].todo = job[p].todo
        /\ job'[p].id = job[p].id /\ job'[p].case = job[p].case
    BY <1>1, <1>2 DEF Jobs
  <1>6. Placed(p)'
    BY <1>1, <1>3, <1>5 DEF Local, Placed, Working, Patched, Accounted, Graded
  <1>7. Hashed(p)'
    BY <1>3, <1>4, <1>5 DEF Hashed, Working, Patched, Accounted, Graded
  <1>8. Written(p)'
    BY <1>3, <1>5 DEF Written, Working, Patched, Accounted, Graded
  <1> QED BY <1>3, <1>5, <1>6, <1>7, <1>8 DEF Local

\* The steps that change the point of the command line, and its treatment.
LEMMA StartLocal ==
  ASSUME TypeOK, NEW p \in Procs, Local(p),
         Compare(p) \/ \E t \in Treatments : FindNoDirectory(p, t)
  PROVE  Local(p)' /\ job'[p].pc \in {"idle", "starting", "creating"}
  <1>1. job[p] \in Jobs /\ invocations' = invocations
    BY DEF TypeOK, Compare, FindNoDirectory
  <1>2. CASE job'[p] = Idle
    BY <1>2, IdleLocal
  <1>3. CASE Compare(p) /\ IdenticalTrees(p)
    <2>1. job[p].pc = "comparing" /\ job'[p] = [job[p] EXCEPT !.pc = "starting"]
      BY <1>3 DEF Compare, At, TypeOK
    <2>2. /\ job'[p].pc = "starting" /\ job'[p].id = job[p].id /\ job'[p].case = job[p].case
          /\ job'[p].todo = job[p].todo /\ job'[p].hashes = job[p].hashes
      BY <1>1, <2>1 DEF Jobs
    <2>3. Placed(p)'
      BY <1>1, <2>1, <2>2 DEF Local, Placed, Working, Patched, Accounted, Graded
    <2>4. Hashed(p)'
      BY <1>3, <2>1, <2>2 DEF Local, Hashed, IdenticalTrees
    <2>5. Written(p)'
      BY <2>2 DEF Written, Working, Patched, Accounted, Graded
    <2> QED BY <2>2, <2>3, <2>4, <2>5 DEF Local
  <1>4. ASSUME NEW t \in Treatments, FindNoDirectory(p, t), job'[p] # Idle
        PROVE  Local(p)' /\ job'[p].pc = "creating"
    <2>1. job[p].pc = "starting" /\ t \in job[p].todo
          /\ job'[p] = [job[p] EXCEPT !.pc = "creating", !.at = t]
      BY <1>4 DEF FindNoDirectory, At, TypeOK
    <2>2. /\ job'[p].pc = "creating" /\ job'[p].id = job[p].id /\ job'[p].case = job[p].case
          /\ job'[p].todo = job[p].todo /\ job'[p].hashes = job[p].hashes /\ job'[p].at = t
      BY <1>1, <2>1 DEF Jobs
    <2>3. Placed(p)'
      BY <1>1, <2>1, <2>2 DEF Local, Placed, Working, Patched, Accounted, Graded
    <2>4. Hashed(p)'
      BY <2>1, <2>2 DEF Local, Hashed
    <2>5. Written(p)'
      BY <2>2 DEF Written, Working, Patched, Accounted, Graded
    <2> QED BY <2>2, <2>3, <2>4, <2>5 DEF Local
  <1>5. CASE Compare(p) /\ ~IdenticalTrees(p)
    BY <1>2, <1>5 DEF Compare, TypeOK
  <1> QED BY <1>2, <1>3, <1>4, <1>5

LEMMA AwayLocal ==
  ASSUME TypeOK, NEW p \in Procs, Finished(p) \/ Abandon(p)
  PROVE  Local(p)' /\ job'[p].pc = "idle"
  <1>1. job'[p] = Idle
    BY DEF Finished, Abandon, TypeOK
  <1> QED BY <1>1, IdleLocal

LEMMA MakeDirectoryLocal ==
  ASSUME TypeOK, NEW p \in Procs, Local(p), MakeDirectory(p)
  PROVE  /\ Local(p)'
         /\ dirs[Run(p)] # None => job'[p].pc = "idle" /\ dirs' = dirs
         /\ Run(p) \in Runs
         /\ dirs[Run(p)] = None =>
              Run(p)' = Run(p) /\ dirs' = [dirs EXCEPT ![Run(p)] = EmptyDirectory]
  <1>1. job[p].pc = "creating" /\ job[p] \in Jobs /\ invocations' = invocations
    BY DEF MakeDirectory, At, TypeOK
  <1>2. Run(p) \in Runs
    BY <1>1, RunIsRun DEF Local
  <1>3. CASE dirs[Run(p)] = None
    <2>1. job'[p] = [job[p] EXCEPT !.pc = "running"]
          /\ dirs' = [dirs EXCEPT ![Run(p)] = EmptyDirectory]
      BY <1>3 DEF MakeDirectory, TypeOK
    <2>2. /\ job'[p].pc = "running" /\ job'[p].id = job[p].id /\ job'[p].case = job[p].case
          /\ job'[p].todo = job[p].todo /\ job'[p].hashes = job[p].hashes
          /\ job'[p].at = job[p].at
      BY <1>1, <2>1 DEF Jobs
    <2>3. Run(p)' = Run(p)
      BY <2>2 DEF Run
    <2>4. dirs'[Run(p)] = EmptyDirectory
      BY <1>2, <2>1 DEF TypeOK
    <2>5. EmptyDirectory # None /\ EmptyDirectory.result = None
      BY BenchmarkAssumption DEF EmptyDirectory, Directories
    <2>6. Placed(p)'
      BY <1>1, <2>2 DEF Local, Placed, Working, Patched, Accounted, Graded
    <2>7. Hashed(p)'
      BY <1>1, <2>2 DEF Local, Hashed
    <2>8. Written(p)'
      BY <2>2, <2>3, <2>4, <2>5 DEF Written, Working, Patched, Accounted, Graded
    <2> QED BY <1>2, <1>3, <2>1, <2>3, <2>6, <2>7, <2>8 DEF Local
  <1>4. CASE dirs[Run(p)] # None
    <2>1. job'[p] = Idle /\ dirs' = dirs
      BY <1>4 DEF MakeDirectory, TypeOK
    <2> QED BY <1>2, <1>4, <2>1, IdleLocal
  <1> QED BY <1>3, <1>4

\* What a step of the adapter or of the checks leaves as it was.
SameRun(p) ==
  /\ job'[p].id = job[p].id /\ job'[p].case = job[p].case /\ job'[p].at = job[p].at
  /\ job'[p].todo = job[p].todo /\ job'[p].hashes = job[p].hashes
  /\ job[p].pc \in Working /\ job'[p].pc \in Working
  /\ invocations' = invocations

LEMMA SameRunLocal ==
  ASSUME NEW p \in Procs, Local(p), SameRun(p)
  PROVE  Run(p)' = Run(p) /\ Placed(p)' /\ Hashed(p)'
  <1>1. Run(p)' = Run(p)
    BY DEF SameRun, Run
  <1>2. Placed(p)'
    BY DEF SameRun, Local, Placed, Working, Patched, Accounted, Graded
  <1>3. Hashed(p)'
    BY DEF SameRun, Local, Hashed, Working, Patched, Accounted, Graded
  <1> QED BY <1>1, <1>2, <1>3

LEMMA AdapterLocal ==
  ASSUME TypeOK, NEW p \in Procs, Local(p),
         SessionAccepted(p) \/ SessionFails(p) \/ WorkflowEnds(p)
  PROVE  Local(p)' /\ SameRun(p) /\ dirs' = dirs
  <1>1. job[p] \in Jobs /\ invocations' = invocations /\ dirs' = dirs
    BY DEF TypeOK, SessionAccepted, SessionFails, WorkflowEnds
  <1>2. ASSUME job[p].pc = "running",
               \/ job'[p] = [job[p] EXCEPT !.pc = "patching", !.completed = TRUE]
               \/ job'[p] = [job[p] EXCEPT !.pc = "patching"]
        PROVE  Local(p)' /\ SameRun(p)
    <2>1. /\ job'[p].pc = "patching" /\ job'[p].todo = job[p].todo /\ job'[p].id = job[p].id
          /\ job'[p].case = job[p].case /\ job'[p].at = job[p].at
          /\ job'[p].hashes = job[p].hashes
      BY <1>1, <1>2 DEF Jobs
    <2>2. SameRun(p)
      BY <1>1, <1>2, <2>1 DEF SameRun, Working, Patched, Accounted, Graded
    <2>3. Written(p)'
      BY <1>1, <1>2, <2>1, <2>2, SameRunLocal DEF Local, Written, Working, Patched, Accounted, Graded
    <2> QED BY <2>2, <2>3, SameRunLocal DEF Local
  <1>3. CASE SessionAccepted(p) /\ HasAnotherSession(p)
    <2>1. job[p].pc = "running" /\ job'[p] = [job[p] EXCEPT !.session = @ + 1]
      BY <1>3 DEF SessionAccepted, At, TypeOK
    <2>2. /\ job'[p].pc = "running" /\ job'[p].todo = job[p].todo /\ job'[p].id = job[p].id
          /\ job'[p].case = job[p].case /\ job'[p].at = job[p].at
          /\ job'[p].hashes = job[p].hashes
      BY <1>1, <2>1 DEF Jobs
    <2>3. SameRun(p)
      BY <1>1, <2>1, <2>2 DEF SameRun, Working, Patched, Accounted, Graded
    <2>4. Written(p)'
      BY <1>1, <2>1, <2>2, <2>3, SameRunLocal DEF Local, Written, Working, Patched, Accounted, Graded
    <2> QED BY <1>1, <2>3, <2>4, SameRunLocal DEF Local
  <1>4. CASE Completes(p) /\ At(p, "running")
    BY <1>1, <1>2, <1>4 DEF Completes, At, TypeOK
  <1>5. CASE Fails(p) /\ At(p, "running")
    BY <1>1, <1>2, <1>5 DEF Fails, At, TypeOK
  <1> QED BY <1>1, <1>3, <1>4, <1>5 DEF SessionAccepted, SessionFails, WorkflowEnds

\* Each file is written by its owner, over a directory without a result.
LEMMA FilesLocal ==
  ASSUME TypeOK, NEW p \in Procs, Local(p), WritePatch(p) \/ WriteUsage(p) \/ WriteGrade(p)
  PROVE  /\ Local(p)' /\ SameRun(p) /\ Run(p) \in Runs
         /\ \E d \in Directories : d.result = None /\ dirs' = [dirs EXCEPT ![Run(p)] = d]
  <1>1. job[p] \in Jobs /\ invocations' = invocations
    BY DEF TypeOK, WritePatch, WriteUsage, WriteGrade
  <1>2. job[p].pc \in Working
    BY DEF WritePatch, WriteUsage, WriteGrade, At, Working, Patched, Accounted, Graded
  <1>3. Run(p) \in Runs /\ job[p].id \in Attempts
    BY <1>2, RunIsRun DEF Local
  <1>4. dirs[Run(p)] \in Directories /\ dirs[Run(p)].result = None
    BY <1>2, <1>3 DEF TypeOK, Local, Written
  <1> DEFINE d0 == dirs[Run(p)]
  <1>5. ASSUME NEW pc \in Working, job'[p] = [job[p] EXCEPT !.pc = pc]
        PROVE  /\ SameRun(p) /\ job'[p].pc = pc /\ job'[p].completed = job[p].completed
    <2>1. /\ job'[p].pc = pc /\ job'[p].todo = job[p].todo /\ job'[p].id = job[p].id
          /\ job'[p].case = job[p].case /\ job'[p].at = job[p].at
          /\ job'[p].hashes = job[p].hashes /\ job'[p].completed = job[p].completed
      BY <1>1, <1>5 DEF Jobs
    <2> QED BY <1>1, <1>2, <2>1 DEF SameRun
  <1>6. ASSUME NEW d \in Directories, dirs' = [dirs EXCEPT ![Run(p)] = d]
        PROVE  dirs'[Run(p)] = d /\ d # None
    BY <1>3, <1>6, BenchmarkAssumption DEF TypeOK
  <1>7. CASE WritePatch(p)
    <2> DEFINE f == [by |-> job[p].id]
               d == [d0 EXCEPT !.patch = f]
    <2>1. f \in Patches /\ f # None
      BY <1>1, <1>3, BenchmarkAssumption DEF Patches, Jobs
    <2>2. d \in Directories /\ d.patch = f /\ d.result = None
      BY <1>4, <2>1 DEF Directories
    <2>3. job[p].pc = "patching" /\ job'[p] = [job[p] EXCEPT !.pc = "accounting"]
          /\ dirs' = [dirs EXCEPT ![Run(p)] = d]
      BY <1>7, <1>3 DEF WritePatch, At, TypeOK
    <2>4. f.by = job[p].id
      OBVIOUS
    <2> HIDE DEF d, f
    <2>5. SameRun(p) /\ job'[p].pc = "accounting" /\ job'[p].completed = job[p].completed
      BY <1>5, <2>3 DEF Working, Patched, Accounted, Graded
    <2>6. dirs'[Run(p)] = d /\ d # None
      BY <1>6, <2>2, <2>3
    <2>7. Written(p)'
      BY <2>1, <2>2, <2>4, <2>5, <2>6, SameRunLocal DEF Written, SameRun, Working, Patched, Accounted, Graded
    <2> QED BY <1>3, <2>2, <2>3, <2>5, <2>7, SameRunLocal DEF Local
  <1>8. CASE WriteUsage(p)
    <2> DEFINE f == [by |-> job[p].id, whole |-> job[p].completed]
               d == [d0 EXCEPT !.usage = f]
    <2>1. f \in Usages /\ f # None
      BY <1>1, <1>3, BenchmarkAssumption DEF Usages, Jobs
    <2>2. d \in Directories /\ d.usage = f /\ d.result = None /\ d.patch = d0.patch
      BY <1>4, <2>1 DEF Directories
    <2>3. job[p].pc = "accounting" /\ job'[p] = [job[p] EXCEPT !.pc = "grading"]
          /\ dirs' = [dirs EXCEPT ![Run(p)] = d]
      BY <1>8, <1>3 DEF WriteUsage, At, TypeOK
    <2>4. f.by = job[p].id /\ f.whole = job[p].completed
      OBVIOUS
    <2> HIDE DEF d, f
    <2>5. SameRun(p) /\ job'[p].pc = "grading" /\ job'[p].completed = job[p].completed
      BY <1>5, <2>3 DEF Working, Patched, Accounted, Graded
    <2>6. dirs'[Run(p)] = d /\ d # None
      BY <1>6, <2>2, <2>3
    <2>7. d0.patch # None /\ d0.patch.by = job[p].id
      BY <2>3 DEF Local, Written, Working, Patched, Accounted, Graded
    <2>8. Run(p)' = Run(p) /\ job'[p].id = job[p].id
      BY <2>5, SameRunLocal DEF SameRun
    <2> HIDE DEF d0
    <2>9. Written(p)'
      BY <2>1, <2>2, <2>4, <2>5, <2>6, <2>7, <2>8 DEF Written, Working, Patched, Accounted, Graded
    <2> QED BY <1>3, <2>2, <2>3, <2>5, <2>9, SameRunLocal DEF Local
  <1>9. CASE WriteGrade(p)
    <2>1. PICK passed \in BOOLEAN :
            dirs' = [dirs EXCEPT ![Run(p)].grading = [by |-> job[p].id, passed |-> passed]]
      BY <1>9 DEF WriteGrade
    <2> DEFINE f == [by |-> job[p].id, passed |-> passed]
               d == [d0 EXCEPT !.grading = f]
    <2>2. f \in Gradings /\ f # None
      <3>1. f \in Gradings
        BY <1>3 DEF Gradings
      <3> QED BY <3>1, BenchmarkAssumption
    <2>3. d \in Directories /\ d.grading = f /\ d.result = None /\ d.patch = d0.patch
          /\ d.usage = d0.usage
      BY <1>4, <2>2 DEF Directories
    <2>4. job[p].pc = "grading" /\ job'[p] = [job[p] EXCEPT !.pc = "resulting"]
          /\ dirs' = [dirs EXCEPT ![Run(p)] = d]
      BY <1>9, <1>3, <2>1 DEF WriteGrade, At, TypeOK
    <2>5. f.by = job[p].id
      OBVIOUS
    <2> HIDE DEF d, f
    <2>6. SameRun(p) /\ job'[p].pc = "resulting" /\ job'[p].completed = job[p].completed
      BY <1>5, <2>4 DEF Working, Patched, Accounted, Graded
    <2>7. dirs'[Run(p)] = d /\ d # None
      BY <1>6, <2>3, <2>4
    <2>8. /\ d0.patch # None /\ d0.patch.by = job[p].id
          /\ d0.usage # None /\ d0.usage.by = job[p].id /\ d0.usage.whole = job[p].completed
      BY <2>4 DEF Local, Written, Working, Patched, Accounted, Graded
    <2>9. Run(p)' = Run(p) /\ job'[p].id = job[p].id
      BY <2>6, SameRunLocal DEF SameRun
    <2> HIDE DEF d0
    <2>10. Written(p)'
      BY <2>2, <2>3, <2>5, <2>6, <2>7, <2>8, <2>9 DEF Written, Working, Patched, Accounted, Graded
    <2> QED BY <1>3, <2>3, <2>4, <2>6, <2>10, SameRunLocal DEF Local
  <1> QED BY <1>7, <1>8, <1>9

\* The record that is added last is sound.
LEMMA ResultLocal ==
  ASSUME TypeOK, NEW p \in Procs, Local(p), WriteResult(p)
  PROVE  /\ Local(p)' /\ job'[p].pc \in {"choosing", "starting"}
         /\ job[p].pc \in Working /\ Run(p) \in Runs
         /\ \E d \in Directories :
              /\ dirs' = [dirs EXCEPT ![Run(p)] = d]
              /\ d.result # None /\ Sound(d)
              /\ d.result.by = job[p].id /\ d.result.hash = job[p].hashes[job[p].at]
  <1> DEFINE left == job[p].todo \ {job[p].at}
             pc == IF left = {} THEN "choosing" ELSE "starting"
             hashes == [job[p].hashes EXCEPT ![job[p].at] = None]
             result == [by |-> job[p].id, passed |-> PassedStatus(p),
                        hash |-> job[p].hashes[job[p].at]]
             d0 == dirs[Run(p)]
             d == [d0 EXCEPT !.result = result]
  <1>1. job[p].pc = "resulting" /\ job[p].pc \in Working /\ invocations' = invocations
    BY DEF WriteResult, At, Working, Patched, Accounted, Graded
  <1>2. Run(p) \in Runs /\ d0 \in Directories /\ job[p] \in Jobs /\ result \in Results
    BY WriteResultType
  <1>3. job'[p] = [Idle EXCEPT !.pc = pc, !.id = job[p].id, !.cases = job[p].cases,
                               !.case = job[p].case, !.wanted = job[p].wanted,
                               !.todo = left, !.hashes = hashes]
    BY DEF WriteResult, TypeOK
  <1>4. dirs' = [dirs EXCEPT ![Run(p)] = d]
    BY <1>2 DEF WriteResult, TypeOK
  <1>5. /\ d0.patch # None /\ d0.patch.by = job[p].id
        /\ d0.usage # None /\ d0.usage.by = job[p].id /\ d0.usage.whole = job[p].completed
        /\ d0.grading # None /\ d0.grading.by = job[p].id
    BY <1>1 DEF Local, Written, Working, Patched, Accounted, Graded
  <1>6. result.passed => job[p].completed /\ d0.grading.passed
    BY DEF PassedStatus
  <1>7. result.by = job[p].id /\ result.hash = job[p].hashes[job[p].at]
    OBVIOUS
  <1>8. pc \in {"choosing", "starting"} /\ left \subseteq job[p].todo /\ job[p].at \notin left
    OBVIOUS
  <1>9. \A t \in left : hashes[t] = job[p].hashes[t]
    BY <1>2 DEF Jobs
  <1>10. \A t, u \in job[p].todo :
           job[p].hashes[t] # None /\ job[p].hashes[t] = job[p].hashes[u]
    BY <1>1 DEF Local, Hashed
  <1>11. job[p].id \in 1..invocations /\ job[p].case \in Cases
    BY <1>1 DEF Local, Placed
  <1> HIDE DEF left, pc, hashes, result, d0
  <1>12. /\ d.patch = d0.patch /\ d.usage = d0.usage /\ d.grading = d0.grading
         /\ d.result = result /\ d \in Directories
    BY <1>2 DEF Directories
  <1> HIDE DEF d
  <1>13. result # None
    BY <1>2, BenchmarkAssumption
  <1>14. Sound(d)
    BY <1>5, <1>6, <1>7, <1>12, <1>13 DEF Sound, Files
  <1>15. /\ job'[p].pc = pc /\ job'[p].id = job[p].id /\ job'[p].case = job[p].case
         /\ job'[p].todo = left /\ job'[p].hashes = hashes
    BY <1>3, IdleType DEF Jobs
  <1>16. Placed(p)'
    BY <1>1, <1>8, <1>11, <1>15 DEF Placed, Working, Patched, Accounted, Graded
  <1>17. Hashed(p)'
    BY <1>8, <1>9, <1>10, <1>15 DEF Hashed
  <1>18. Written(p)'
    BY <1>8, <1>15 DEF Written, Working, Patched, Accounted, Graded
  <1> QED BY <1>1, <1>2, <1>4, <1>7, <1>8, <1>12, <1>13, <1>14, <1>15, <1>16, <1>17, <1>18
          DEF Local

-------------------------------------------------------------------------------
(* The invariant. *)

\* What any step of a command line does to the others and to the directories:
\* nothing; or it makes or writes its own, which has no result; or it adds a
\* sound result to it and lets it go.
Writes(p, d) == Run(p) \in Runs /\ d \in Directories /\ dirs' = [dirs EXCEPT ![Run(p)] = d]

Keeps(p) ==
  /\ dirs' = dirs
  /\ job'[p].pc \notin Working \/ (job[p].pc \in Working /\ Run(p)' = Run(p))

WritesFile(p) ==
  /\ \E d \in Directories : Writes(p, d) /\ d.result = None
  /\ job[p].pc \in Working \/ dirs[Run(p)] = None
  /\ Run(p)' = Run(p)

Publishes(p) ==
  /\ job[p].pc \in Working /\ job'[p].pc \notin Working
  /\ \E d \in Directories :
       /\ Writes(p, d)
       /\ d.result # None /\ Sound(d)

Effect(p) ==
  /\ \A q \in Procs \ {p} : job'[q] = job[q]
  /\ Local(p)' /\ TypeOK'
  /\ invocations' \in {invocations, invocations + 1}
  /\ Keeps(p) \/ WritesFile(p) \/ Publishes(p)

LEMMA StepEffect ==
  ASSUME Inv, NEW p \in Procs,
         Step(p) \/ Abandon(p) \/ \E c \in Commands : Invoke(p, c[1], c[2])
  PROVE  Effect(p)
  <1>1. TypeOK /\ Local(p) /\ Placed(p) /\ Written(p)
    BY DEF Inv, Local
  <1>2. CASE \E c \in Commands : Invoke(p, c[1], c[2])
    <2>1. /\ \A q \in Procs \ {p} : job'[q] = job[q]
          /\ invocations' = invocations + 1 /\ dirs' = dirs
      BY <1>1, <1>2 DEF Invoke, TypeOK
    <2>2. TypeOK' /\ Local(p)' /\ job'[p].pc = "choosing"
      BY <1>1, <1>2, InvokeType, InvokeLocal
    <2> QED BY <2>1, <2>2 DEF Effect, Keeps, Working, Patched, Accounted, Graded
  <1>3. CASE \E c \in Cases : ChooseCase(p, c)
    <2>1. /\ \A q \in Procs \ {p} : job'[q] = job[q]
          /\ invocations' = invocations /\ dirs' = dirs
      BY <1>1, <1>3 DEF ChooseCase, TypeOK
    <2>2. TypeOK' /\ Local(p)' /\ job'[p].pc = "preparing"
      BY <1>1, <1>3, ChooseCaseType, ChooseCaseLocal
    <2> QED BY <2>1, <2>2 DEF Effect, Keeps, Working, Patched, Accounted, Graded
  <1>4. CASE \E t \in Treatments : Prepare(p, t)
    <2>1. /\ \A q \in Procs \ {p} : job'[q] = job[q]
          /\ invocations' = invocations /\ dirs' = dirs
      BY <1>1, <1>4 DEF Prepare, TypeOK
    <2>2. TypeOK' /\ Local(p)' /\ job'[p].pc \in {"preparing", "comparing"}
      BY <1>1, <1>4, PrepareType, PrepareLocal
    <2> QED BY <2>1, <2>2 DEF Effect, Keeps, Working, Patched, Accounted, Graded
  <1>5. CASE Compare(p) \/ \E t \in Treatments : FindNoDirectory(p, t)
    <2>1. /\ \A q \in Procs \ {p} : job'[q] = job[q]
          /\ invocations' = invocations /\ dirs' = dirs
      BY <1>1, <1>5 DEF Compare, FindNoDirectory, TypeOK
    <2>2. TypeOK' /\ Local(p)' /\ job'[p].pc \in {"idle", "starting", "creating"}
      BY <1>1, <1>5, AwayType, FindNoDirectoryType, StartLocal
    <2> QED BY <2>1, <2>2 DEF Effect, Keeps, Working, Patched, Accounted, Graded
  <1>6. CASE Finished(p) \/ Abandon(p)
    <2>1. /\ \A q \in Procs \ {p} : job'[q] = job[q]
          /\ invocations' = invocations /\ dirs' = dirs
      BY <1>1, <1>6 DEF Finished, Abandon, TypeOK
    <2>2. TypeOK' /\ Local(p)' /\ job'[p].pc = "idle"
      BY <1>1, <1>6, AwayType, AwayLocal
    <2> QED BY <2>1, <2>2 DEF Effect, Keeps, Working, Patched, Accounted, Graded
  <1>7. CASE MakeDirectory(p)
    <2>1. /\ \A q \in Procs \ {p} : job'[q] = job[q]
          /\ invocations' = invocations
      BY <1>1, <1>7 DEF MakeDirectory, TypeOK
    <2>2. TypeOK' /\ Local(p)'
      BY <1>1, <1>7, MakeDirectoryType, MakeDirectoryLocal
    <2>3. EmptyDirectory \in Directories /\ EmptyDirectory.result = None
      BY DEF EmptyDirectory, Directories
    <2>4. Keeps(p) \/ WritesFile(p)
      BY <1>1, <1>7, <2>3, MakeDirectoryLocal DEF Keeps, WritesFile, Writes, Working, Patched, Accounted, Graded
    <2> QED BY <2>1, <2>2, <2>4 DEF Effect
  <1>8. CASE SessionAccepted(p) \/ SessionFails(p) \/ WorkflowEnds(p)
    <2>1. \A q \in Procs \ {p} : job'[q] = job[q]
      BY <1>1, <1>8 DEF SessionAccepted, SessionFails, WorkflowEnds,
                        Completes, Fails, TypeOK
    <2>2. TypeOK' /\ Local(p)' /\ SameRun(p) /\ dirs' = dirs
      BY <1>1, <1>8, AdapterType, AdapterLocal
    <2> QED BY <1>1, <2>1, <2>2, SameRunLocal DEF Effect, Keeps, SameRun
  <1>9. CASE WritePatch(p) \/ WriteUsage(p) \/ WriteGrade(p)
    <2>1. \A q \in Procs \ {p} : job'[q] = job[q]
      BY <1>1, <1>9 DEF WritePatch, WriteUsage, WriteGrade, TypeOK
    <2>2. /\ TypeOK' /\ Local(p)' /\ SameRun(p) /\ Run(p) \in Runs
          /\ \E d \in Directories : d.result = None /\ dirs' = [dirs EXCEPT ![Run(p)] = d]
      BY <1>1, <1>9, FilesType, FilesLocal
    <2> QED BY <1>1, <2>1, <2>2, SameRunLocal DEF Effect, WritesFile, Writes, SameRun
  <1>10. CASE WriteResult(p)
    <2>1. /\ \A q \in Procs \ {p} : job'[q] = job[q]
          /\ invocations' = invocations
      BY <1>1, <1>10 DEF WriteResult, TypeOK
    <2>2. TypeOK'
      BY <1>1, <1>10, WriteResultType
    <2>3. Local(p)' /\ job'[p].pc \notin Working
      BY <1>1, <1>10, ResultLocal DEF Working, Patched, Accounted, Graded
    <2>4. Publishes(p)
      BY <1>1, <1>10, <2>3, ResultLocal DEF Publishes, Writes
    <2> QED BY <2>1, <2>2, <2>3, <2>4 DEF Effect
  <1> QED BY <1>2, <1>3, <1>4, <1>5, <1>6, <1>7, <1>8, <1>9, <1>10 DEF Step

\* Only the directory of the command line that writes changes.
LEMMA EffectElsewhere ==
  ASSUME Inv, NEW p \in Procs, Effect(p), NEW q \in Procs, q # p, job[q].pc \in Working
  PROVE  dirs'[Run(q)] = dirs[Run(q)]
  <1>1. Run(q) \in Runs /\ dirs[Run(q)] # None
    BY RunIsRun DEF Inv, Local, Written
  <1>2. job[p].pc \in Working => Run(q) # Run(p)
    BY DEF Inv, Exclusive
  <1> QED BY <1>1, <1>2 DEF Inv, TypeOK, Effect, Keeps, WritesFile, Publishes, Writes

LEMMA EffectInv ==
  ASSUME Inv, NEW p \in Procs, Effect(p)
  PROVE  Inv'
  <1>1. ASSUME NEW q \in Procs, q # p PROVE Local(q)' /\ Run(q)' = Run(q)
    <2>1. job'[q] = job[q] /\ Local(q) /\ invocations \in Nat
          /\ invocations' \in Nat /\ invocations <= invocations'
      BY <1>1, BenchmarkAssumption DEF Effect, Inv, TypeOK
    <2>2. job[q].pc \in Working => dirs'[Run(q)] = dirs[Run(q)]
      BY <1>1, EffectElsewhere
    <2> QED BY <2>1, <2>2, Frame
  <1>2. \A q \in Procs : Local(q)'
    BY <1>1 DEF Effect
  <1>3. ASSUME NEW q \in Procs, q # p, job'[p].pc \in Working, job'[q].pc \in Working
        PROVE  Run(p)' # Run(q)'
    <2>1. job[q].pc \in Working /\ Run(q)' = Run(q)
      BY <1>1, <1>3 DEF Effect
    <2>2. Run(p)' = Run(p) /\ (job[p].pc \in Working \/ dirs[Run(p)] = None)
      BY <1>3 DEF Effect, Keeps, WritesFile, Publishes
    <2>3. dirs[Run(q)] # None
      BY <2>1 DEF Inv, Local, Written
    <2> QED BY <1>3, <2>1, <2>2, <2>3 DEF Inv, Exclusive
  <1>4. Exclusive'
    <2> SUFFICES ASSUME NEW a \in Procs, NEW b \in Procs, a # b,
                        job'[a].pc \in Working, job'[b].pc \in Working
                 PROVE  Run(a)' # Run(b)'
      BY DEF Exclusive
    <2>1. CASE a = p
      BY <1>3, <2>1
    <2>2. CASE b = p
      BY <1>3, <2>2
    <2>3. CASE a # p /\ b # p
      BY <1>1, <2>3 DEF Effect, Inv, Exclusive
    <2> QED BY <2>1, <2>2, <2>3
  <1>5. \A r \in Runs : SoundReport(r)'
    BY DEF Inv, TypeOK, Effect, Keeps, WritesFile, Publishes, Writes, SoundReport
  <1>6. TypeOK'
    BY DEF Effect
  <1> QED BY <1>2, <1>4, <1>5, <1>6 DEF Inv

LEMMA InitInv == Init => Inv
  <1> SUFFICES ASSUME Init PROVE Inv
    OBVIOUS
  <1>1. \A p \in Procs : job[p].pc = "idle"
    BY DEF Init, Idle
  <1> QED BY <1>1, TypeInit DEF Init, Inv, Local, Placed, Hashed, Written, Exclusive, SoundReport,
                                Working, Patched, Accounted, Graded

LEMMA NextInv == Inv /\ [Next]_vars => Inv'
  <1> SUFFICES ASSUME Inv, [Next]_vars PROVE Inv'
    OBVIOUS
  <1>1. ASSUME UNCHANGED <<job, dirs, invocations>>, base' \in Bases PROVE Inv'
    <2>1. TypeOK'
      BY <1>1 DEF Inv, TypeOK
    <2>2. ASSUME NEW q \in Procs PROVE Local(q)' /\ Run(q)' = Run(q)
      BY <1>1, Frame, BenchmarkAssumption DEF Inv, TypeOK
    <2>3. Exclusive' /\ \A r \in Runs : SoundReport(r)'
      BY <1>1, <2>2 DEF Inv, Exclusive, SoundReport
    <2> QED BY <2>1, <2>2, <2>3 DEF Inv
  <1>2. CASE EditBase
    BY <1>1, <1>2 DEF EditBase
  <1>3. CASE UNCHANGED vars
    BY <1>1, <1>3 DEF vars, Inv, TypeOK
  <1>4. ASSUME NEW p \in Procs,
               Step(p) \/ Abandon(p)
                 \/ \E c \in Commands : Invoke(p, c[1], c[2])
        PROVE  Inv'
    BY <1>4, StepEffect, EffectInv
  <1> QED BY <1>2, <1>3, <1>4 DEF Next

THEOREM Invariance == Spec => []Inv
  BY InitInv, NextInv, PTL DEF Spec

-------------------------------------------------------------------------------
(* What is promised. *)

\* All state has its type, for every set of command lines.
THEOREM TypeCorrect == Spec => []TypeOK
  <1>1. Inv => TypeOK
    BY DEF Inv
  <1> QED BY <1>1, Invariance, PTL

\* However many command lines share the runs directory, whoever of them dies
\* and wherever, a run with a result has all its files of one command line.
THEOREM RunsAreWhole == Spec => []WholeRuns
  <1>1. Inv => WholeRuns
    BY DEF Inv, SoundReport, WholeRuns, Reported, Sound
  <1> QED BY <1>1, Invariance, PTL

\* The harness implements the archive: runs appear one by one, whole and sound,
\* and nothing changes or withdraws one.
THEOREM ArchiveImplemented == Spec => Archived
  <1> DEFINE archive == [r \in Runs |-> IF r \in Reported THEN dirs[r] ELSE None]
  <1>1. Init => Archive!Init
    BY DEF Init, Archive!Init, Reported
  <1>2. ASSUME Inv, NEW p \in Procs, Effect(p) PROVE Archive!Next \/ archive' = archive
    <2>1. CASE Keeps(p)
      BY <2>1 DEF Keeps, Reported
    <2>2. CASE WritesFile(p)
      <3>1. \A r \in Runs : r \in Reported' <=> r \in Reported
        BY <1>2, <2>2 DEF WritesFile, Writes, Inv, TypeOK, Local, Written, Reported
      <3>2. \A r \in Reported : dirs'[r] = dirs[r]
        BY <1>2, <2>2 DEF WritesFile, Writes, Inv, TypeOK, Local, Written, Reported
      <3> QED BY <3>1, <3>2
    <2>3. CASE Publishes(p)
      <3>1. PICK d \in Directories : Writes(p, d) /\ d.result # None /\ Sound(d)
        BY <2>3 DEF Publishes
      <3>2. Run(p) \in Runs /\ Run(p) \notin Reported /\ dirs' = [dirs EXCEPT ![Run(p)] = d]
        BY <1>2, <2>3, <3>1 DEF Publishes, Writes, Inv, Local, Written, Reported
      <3>3. d # None /\ d \in SoundDirectories
        BY <3>1, BenchmarkAssumption DEF SoundDirectories
      <3>4. dirs'[Run(p)] = d /\ \A r \in Runs \ {Run(p)} : dirs'[r] = dirs[r]
        BY <1>2, <3>2 DEF Inv, TypeOK
      <3>5. Run(p) \in Reported' /\ \A r \in Runs \ {Run(p)} : r \in Reported' <=> r \in Reported
        BY <3>1, <3>2, <3>3, <3>4 DEF Reported
      <3>6. archive[Run(p)] = None /\ archive'[Run(p)] = d
            /\ \A r \in Runs \ {Run(p)} : archive'[r] = archive[r]
        BY <3>2, <3>4, <3>5
      <3>7. archive' = [archive EXCEPT ![Run(p)] = archive'[Run(p)]]
        BY <3>2, <3>6
      <3> HIDE DEF archive
      <3>8. PICK r \in Runs : r = Run(p)
        BY <3>2
      <3>9. Archive!Publish(r)
        BY <3>3, <3>6, <3>7, <3>8 DEF Archive!Publish, archive
      <3> QED BY <3>9 DEF Archive!Next, archive
    <2> QED BY <1>2, <2>1, <2>2, <2>3 DEF Effect
  <1>3. Inv /\ [Next]_vars => [Archive!Next]_archive
    <2> SUFFICES ASSUME Inv, [Next]_vars PROVE Archive!Next \/ archive' = archive
      OBVIOUS
    <2>1. CASE EditBase \/ UNCHANGED vars
      BY <2>1 DEF EditBase, vars, Reported
    <2>2. ASSUME NEW p \in Procs,
                 Step(p) \/ Abandon(p)
                   \/ \E c \in Commands : Invoke(p, c[1], c[2])
          PROVE  Archive!Next \/ archive' = archive
      BY <1>2, <2>2, StepEffect
    <2> QED BY <2>1, <2>2 DEF Next
  <1> QED BY <1>1, <1>3, Invariance, PTL DEF Spec, Archived, Archive!Spec

-------------------------------------------------------------------------------
(* Pairs.  The results of one command line for one case have one hash, for    *)
(* it takes every case once and its id is its own.                            *)

Late == Working \cup {"starting", "creating"}

\* The results the command line p has written.
By(p, r) == dirs[r] # None /\ dirs[r].result # None /\ dirs[r].result.by = job[p].id

Mine(p) ==
  job[p].pc # "idle" =>
    /\ job[p].pc # "choosing" => job[p].case \notin job[p].cases
    /\ \A r \in Runs : By(p, r) =>
         /\ r[1] \notin job[p].cases
         /\ job[p].pc \in {"preparing", "comparing"} => r[1] # job[p].case
         /\ job[p].pc \in Late /\ r[1] = job[p].case =>
              \A t \in job[p].todo : job[p].hashes[t] = dirs[r].result.hash

OwnIds ==
  \A p, q \in Procs :
    p # q /\ job[p].pc # "idle" /\ job[q].pc # "idle" => job[p].id # job[q].id

PairInv ==
  /\ \A p \in Procs : Mine(p)
  /\ OwnIds
  /\ \A r \in Reported : dirs[r].result.by \in 1..invocations
  /\ \A r, s \in Reported :
       r[1] = s[1] /\ dirs[r].result.by = dirs[s].result.by =>
         dirs[r].result.hash = dirs[s].result.hash

SameCase(p) ==
  job'[p].id = job[p].id /\ job'[p].cases = job[p].cases /\ job'[p].case = job[p].case

\* How a command line moves along its schedule.
Fresh(p) ==
  /\ job'[p].pc = "choosing" /\ job'[p].id = invocations + 1
  /\ invocations' = invocations + 1 /\ dirs' = dirs

Takes(p) ==
  /\ job[p].pc = "choosing" /\ job'[p].pc = "preparing" /\ job'[p].id = job[p].id
  /\ job'[p].case \in job[p].cases /\ job'[p].cases = job[p].cases \ {job'[p].case}
  /\ dirs' = dirs /\ invocations' = invocations

Prepares(p) ==
  /\ SameCase(p) /\ dirs' = dirs /\ invocations' = invocations
  /\ job[p].pc = "preparing" /\ job'[p].pc \in {"preparing", "comparing"}

Goes(p) ==
  /\ SameCase(p) /\ job'[p].todo = job[p].todo /\ job'[p].hashes = job[p].hashes
  /\ job[p].pc \in Late \cup {"comparing"} /\ job'[p].pc \in Late
  /\ invocations' = invocations

Delivers(p) ==
  /\ SameCase(p) /\ job'[p].todo \subseteq job[p].todo
  /\ \A t \in job'[p].todo : job'[p].hashes[t] = job[p].hashes[t]
  /\ job[p].pc \in Working /\ job[p].at \in job[p].todo
  /\ job'[p].pc \in {"choosing", "starting"} /\ invocations' = invocations
  /\ \E d \in Directories :
       /\ dirs' = [dirs EXCEPT ![Run(p)] = d] /\ Run(p) \in Runs
       /\ d.result # None /\ d.result.by = job[p].id
       /\ d.result.hash = job[p].hashes[job[p].at]

Moves(p) ==
  \/ job'[p].pc = "idle" /\ dirs' = dirs /\ invocations' = invocations
  \/ Fresh(p) \/ Takes(p) \/ Prepares(p) \/ Delivers(p)
  \/ Goes(p) /\ (Keeps(p) \/ WritesFile(p))

LEMMA LatePoints ==
  Working \subseteq Late /\ {"starting", "creating"} \subseteq Late
    /\ "choosing" \notin Late /\ "preparing" \notin Late /\ "comparing" \notin Late
    /\ "idle" \notin Late
  BY DEF Late, Working, Patched, Accounted, Graded

LEMMA StepMoves ==
  ASSUME Inv, NEW p \in Procs,
         Step(p) \/ Abandon(p) \/ \E c \in Commands : Invoke(p, c[1], c[2])
  PROVE  Moves(p)
  <1>1. TypeOK /\ Local(p) /\ Placed(p) /\ job[p] \in Jobs /\ Effect(p)
    BY StepEffect DEF Inv, Local, TypeOK
  <1>2. CASE \E c \in Commands : Invoke(p, c[1], c[2])
    <2>1. PICK c \in Commands : Invoke(p, c[1], c[2])
      BY <1>2
    <2>2. job'[p] = [Idle EXCEPT !.pc = "choosing", !.id = invocations + 1,
                                 !.cases = c[1], !.wanted = c[2]]
          /\ invocations' = invocations + 1 /\ dirs' = dirs
      BY <1>1, <2>1 DEF Invoke, TypeOK
    <2>3. job'[p].pc = "choosing" /\ job'[p].id = invocations + 1
      BY <2>2, IdleType DEF Jobs
    <2> QED BY <2>2, <2>3 DEF Moves, Fresh
  <1>3. CASE \E c \in Cases : ChooseCase(p, c)
    <2>1. PICK c \in Cases : ChooseCase(p, c)
      BY <1>3
    <2>2. /\ job'[p] = [job[p] EXCEPT !.pc = "preparing", !.case = c, !.cases = @ \ {c},
                                      !.todo = job[p].wanted,
                                      !.hashes = [t \in Treatments |-> None]]
          /\ job[p].pc = "choosing" /\ c \in job[p].cases
          /\ dirs' = dirs /\ invocations' = invocations
      BY <1>1, <2>1 DEF ChooseCase, At, TypeOK
    <2>3. /\ job'[p].pc = "preparing" /\ job'[p].case = c /\ job'[p].id = job[p].id
          /\ job'[p].cases = job[p].cases \ {c}
      BY <1>1, <2>2 DEF Jobs
    <2> QED BY <2>2, <2>3 DEF Moves, Takes
  <1>4. CASE \E t \in Treatments : Prepare(p, t)
    <2>1. PICK t \in Treatments : Prepare(p, t)
      BY <1>4
    <2>2. job'[p].pc \in {"preparing", "comparing"}
      BY <1>1, <2>1, PrepareLocal
    <2>3. \E h, pc : job'[p] = [job[p] EXCEPT !.hashes = h, !.pc = pc]
      BY <1>1, <2>1 DEF Prepare, TypeOK
    <2>4. SameCase(p)
      BY <1>1, <2>3 DEF SameCase, Jobs
    <2>5. job[p].pc = "preparing" /\ dirs' = dirs /\ invocations' = invocations
      BY <2>1 DEF Prepare, At
    <2> QED BY <2>2, <2>4, <2>5 DEF Moves, Prepares
  <1>5. CASE Compare(p)
    <2>1. dirs' = dirs /\ invocations' = invocations /\ job[p].pc = "comparing"
          /\ (job'[p] = Idle \/ job'[p] = [job[p] EXCEPT !.pc = "starting"])
      BY <1>1, <1>5 DEF Compare, At, TypeOK
    <2>2. CASE job'[p] = Idle
      BY <2>1, <2>2, IdleLocal DEF Moves
    <2>3. CASE job'[p] = [job[p] EXCEPT !.pc = "starting"]
      <3>1. /\ SameCase(p) /\ job'[p].todo = job[p].todo /\ job'[p].hashes = job[p].hashes
            /\ job'[p].pc = "starting"
        BY <1>1, <2>3 DEF SameCase, Jobs
      <3>2. Keeps(p)
        BY <2>1, <3>1 DEF Keeps, Working, Patched, Accounted, Graded
      <3> QED BY <2>1, <3>1, <3>2, LatePoints DEF Moves, Goes
    <2> QED BY <2>1, <2>2, <2>3
  <1>6. CASE \E t \in Treatments : FindNoDirectory(p, t)
    <2>1. PICK t \in Treatments : FindNoDirectory(p, t)
      BY <1>6
    <2>2. dirs' = dirs /\ invocations' = invocations /\ job[p].pc = "starting"
          /\ (job'[p] = Idle \/ job'[p] = [job[p] EXCEPT !.pc = "creating", !.at = t])
      BY <1>1, <2>1 DEF FindNoDirectory, At, TypeOK
    <2>3. CASE job'[p] = Idle
      BY <2>2, <2>3, IdleLocal DEF Moves
    <2>4. CASE job'[p] = [job[p] EXCEPT !.pc = "creating", !.at = t]
      <3>1. /\ SameCase(p) /\ job'[p].todo = job[p].todo /\ job'[p].hashes = job[p].hashes
            /\ job'[p].pc = "creating"
        BY <1>1, <2>4 DEF SameCase, Jobs
      <3>2. Keeps(p)
        BY <2>2, <3>1 DEF Keeps, Working, Patched, Accounted, Graded
      <3> QED BY <2>2, <3>1, <3>2, LatePoints DEF Moves, Goes
    <2> QED BY <2>2, <2>3, <2>4
  <1>7. CASE Finished(p) \/ Abandon(p)
    <2>1. job'[p].pc = "idle" /\ dirs' = dirs /\ invocations' = invocations
      BY <1>1, <1>7, AwayLocal DEF Finished, Abandon
    <2> QED BY <2>1 DEF Moves
  <1>8. CASE MakeDirectory(p)
    <2>1. invocations' = invocations /\ job[p].pc = "creating"
      BY <1>8 DEF MakeDirectory, At
    <2>2. CASE dirs[Run(p)] # None
      BY <1>1, <1>8, <2>1, <2>2, MakeDirectoryLocal DEF Moves
    <2>3. CASE dirs[Run(p)] = None
      <3>1. job'[p] = [job[p] EXCEPT !.pc = "running"]
        BY <1>1, <1>8, <2>3 DEF MakeDirectory, TypeOK
      <3>2. /\ SameCase(p) /\ job'[p].todo = job[p].todo /\ job'[p].hashes = job[p].hashes
            /\ job'[p].pc = "running"
        BY <1>1, <3>1 DEF SameCase, Jobs
      <3>3. "running" \in Working
        BY DEF Working
      <3>4. WritesFile(p)
        <4>1. EmptyDirectory \in Directories /\ EmptyDirectory.result = None
          BY DEF EmptyDirectory, Directories
        <4> QED BY <1>1, <1>8, <2>3, <4>1, MakeDirectoryLocal DEF WritesFile, Writes
      <3> QED BY <2>1, <3>2, <3>3, <3>4, LatePoints DEF Moves, Goes
    <2> QED BY <2>2, <2>3
  <1>9. CASE SessionAccepted(p) \/ SessionFails(p) \/ WorkflowEnds(p)
    <2>1. Local(p)' /\ SameRun(p) /\ dirs' = dirs
      BY <1>1, <1>9, AdapterLocal
    <2>2. job'[p].cases = job[p].cases
      <3>1. CASE Completes(p)
        <4>1. job'[p] = [job[p] EXCEPT !.pc = "patching", !.completed = TRUE]
          BY <1>1, <3>1 DEF Completes, TypeOK
        <4> QED BY <1>1, <4>1 DEF Jobs
      <3>2. CASE Fails(p)
        <4>1. job'[p] = [job[p] EXCEPT !.pc = "patching"]
          BY <1>1, <3>2 DEF Fails, TypeOK
        <4> QED BY <1>1, <4>1 DEF Jobs
      <3>3. CASE SessionAccepted(p) /\ ~Completes(p)
        <4>1. job'[p] = [job[p] EXCEPT !.session = @ + 1]
          BY <1>1, <3>3 DEF SessionAccepted, TypeOK
        <4> QED BY <1>1, <4>1 DEF Jobs
      <3> QED BY <1>9, <3>1, <3>2, <3>3 DEF SessionFails, WorkflowEnds
    <2>3. Keeps(p)
      BY <1>1, <2>1, SameRunLocal DEF Keeps, SameRun
    <2> QED BY <2>1, <2>2, <2>3, LatePoints DEF Moves, Goes, SameRun, SameCase
  <1>10. CASE WritePatch(p) \/ WriteUsage(p) \/ WriteGrade(p)
    <2>1. /\ Local(p)' /\ SameRun(p) /\ Run(p) \in Runs
          /\ \E d \in Directories : d.result = None /\ dirs' = [dirs EXCEPT ![Run(p)] = d]
      BY <1>1, <1>10, FilesLocal
    <2>2. \E pc : job'[p] = [job[p] EXCEPT !.pc = pc]
      BY <1>1, <1>10 DEF WritePatch, WriteUsage, WriteGrade, TypeOK
    <2>3. job'[p].cases = job[p].cases
      BY <1>1, <2>2 DEF Jobs
    <2>4. WritesFile(p)
      BY <1>1, <2>1, SameRunLocal DEF WritesFile, Writes, SameRun
    <2> QED BY <2>1, <2>3, <2>4, LatePoints DEF Moves, Goes, SameRun, SameCase
  <1>11. CASE WriteResult(p)
    <2> DEFINE left == job[p].todo \ {job[p].at}
               pc == IF left = {} THEN "choosing" ELSE "starting"
               hashes == [job[p].hashes EXCEPT ![job[p].at] = None]
    <2>1. job'[p] = [Idle EXCEPT !.pc = pc, !.id = job[p].id, !.cases = job[p].cases,
                                 !.case = job[p].case, !.wanted = job[p].wanted,
                                 !.todo = left, !.hashes = hashes]
          /\ invocations' = invocations
      BY <1>1, <1>11 DEF WriteResult, TypeOK
    <2>2. left \subseteq job[p].todo /\ \A t \in left : hashes[t] = job[p].hashes[t]
      BY <1>1 DEF Jobs
    <2> HIDE DEF left, pc, hashes
    <2>3. SameCase(p) /\ job'[p].todo = left /\ job'[p].hashes = hashes
      BY <2>1, IdleType DEF SameCase, Jobs
    <2>4. job[p].at \in job[p].todo
      BY <1>1, <1>11, ResultLocal DEF Placed
    <2>5. Delivers(p)
      BY <1>1, <1>11, <2>1, <2>2, <2>3, <2>4, ResultLocal DEF Delivers
    <2> QED BY <2>5 DEF Moves
  <1> QED BY <1>2, <1>3, <1>4, <1>5, <1>6, <1>7, <1>8, <1>9, <1>10, <1>11 DEF Step

HasResult(d) == d # None /\ d.result # None

SameResults ==
  \A r \in Runs : /\ HasResult(dirs'[r]) <=> HasResult(dirs[r])
                  /\ HasResult(dirs[r]) => dirs'[r] = dirs[r]

\* All but one of the moves leave the results as they are.
LEMMA MovesResults ==
  ASSUME Inv, NEW p \in Procs, Moves(p), ~Delivers(p)
  PROVE  SameResults
  <1>1. CASE dirs' = dirs
    BY <1>1 DEF SameResults, HasResult
  <1>2. CASE WritesFile(p)
    <2>1. dirs[Run(p)] = None \/ dirs[Run(p)].result = None
      BY <1>2 DEF WritesFile, Inv, Local, Written
    <2> QED BY <1>2, <2>1, BenchmarkAssumption DEF WritesFile, Writes, SameResults, HasResult, Inv, TypeOK
  <1> QED BY <1>1, <1>2 DEF Moves, Fresh, Takes, Prepares, Goes, Keeps

\* The one that delivers adds a result of its own.
LEMMA DeliversResults ==
  ASSUME Inv, NEW p \in Procs, Delivers(p)
  PROVE  /\ Run(p) \in Runs /\ ~HasResult(dirs[Run(p)]) /\ HasResult(dirs'[Run(p)])
         /\ dirs'[Run(p)].result.by = job[p].id
         /\ dirs'[Run(p)].result.hash = job[p].hashes[job[p].at]
         /\ \A r \in Runs \ {Run(p)} : dirs'[r] = dirs[r]
  <1>1. PICK d \in Directories :
          /\ dirs' = [dirs EXCEPT ![Run(p)] = d] /\ Run(p) \in Runs
          /\ d.result # None /\ d.result.by = job[p].id
          /\ d.result.hash = job[p].hashes[job[p].at]
    BY DEF Delivers
  <1>2. dirs'[Run(p)] = d /\ \A r \in Runs \ {Run(p)} : dirs'[r] = dirs[r]
    BY <1>1 DEF Inv, TypeOK
  <1>3. ~HasResult(dirs[Run(p)])
    BY DEF Delivers, Inv, Local, Written, HasResult
  <1>4. d # None
    BY BenchmarkAssumption
  <1>5. HasResult(dirs'[Run(p)])
    BY <1>1, <1>2, <1>4 DEF HasResult
  <1> QED BY <1>1, <1>2, <1>3, <1>5

\* A command line that did not move has the results it had.
LEMMA OthersMine ==
  ASSUME Inv, PairInv, NEW p \in Procs, Effect(p), Moves(p), NEW q \in Procs, q # p
  PROVE  Mine(q)'
  <1>1. job'[q] = job[q] /\ Mine(q)
    BY DEF Effect, PairInv
  <1> SUFFICES ASSUME job[q].pc # "idle" PROVE Mine(q)'
    BY <1>1 DEF Mine
  <1>2. ASSUME NEW r \in Runs, HasResult(dirs'[r]), dirs'[r].result.by = job[q].id
        PROVE  HasResult(dirs[r]) /\ dirs'[r] = dirs[r]
    <2>1. CASE ~Delivers(p)
      BY <1>2, <2>1, MovesResults DEF SameResults
    <2>2. CASE Delivers(p)
      <3>1. job[p].pc # "idle"
        BY <2>2, LatePoints DEF Delivers
      <3>2. job[p].id # job[q].id
        BY <3>1 DEF PairInv, OwnIds
      <3>3. r # Run(p)
        BY <1>2, <2>2, <3>2, DeliversResults
      <3> QED BY <1>2, <2>2, <3>3, DeliversResults
    <2> QED BY <2>1, <2>2
  <1> QED BY <1>1, <1>2 DEF Mine, By, HasResult

LEMMA OwnMine ==
  ASSUME Inv, PairInv, NEW p \in Procs, Effect(p), Moves(p)
  PROVE  Mine(p)'
  <1>1. Mine(p) /\ \A r \in Runs : HasResult(dirs[r]) => dirs[r].result.by \in 1..invocations
    BY DEF PairInv, Reported, HasResult
  <1>2. invocations \in Nat
    BY BenchmarkAssumption DEF Inv, TypeOK
  <1>3. CASE job'[p].pc = "idle"
    BY <1>3 DEF Mine
  <1>4. CASE Fresh(p)
    <2>1. \A r \in Runs : ~By(p, r)'
      BY <1>1, <1>2, <1>4 DEF Fresh, By, HasResult
    <2> QED BY <1>4, <2>1 DEF Mine, Fresh
  <1>5. CASE Takes(p)
    <2>1. \A r \in Runs : By(p, r)' => By(p, r)
      BY <1>5 DEF Takes, By
    <2> QED BY <1>1, <1>5, <2>1, LatePoints DEF Mine, Takes
  <1>6. CASE Prepares(p)
    <2>1. \A r \in Runs : By(p, r)' => By(p, r)
      BY <1>6 DEF Prepares, SameCase, By
    <2> QED BY <1>1, <1>6, <2>1, LatePoints DEF Mine, Prepares, SameCase
  <1>7. CASE Goes(p) /\ ~Delivers(p)
    <2>1. \A r \in Runs : By(p, r)' => By(p, r) /\ dirs'[r] = dirs[r]
      BY <1>7, MovesResults DEF SameResults, HasResult, Goes, SameCase, By
    <2> QED BY <1>1, <1>7, <2>1, LatePoints DEF Mine, Goes, SameCase
  <1>8. CASE Delivers(p)
    <2>1. Run(p)[1] = job[p].case
      BY DEF Run
    <2>2. \A t \in job[p].todo : job[p].hashes[t] = job[p].hashes[job[p].at]
      BY <1>8 DEF Delivers, Inv, Local, Hashed
    <2>3. job[p].case \notin job[p].cases /\ job[p].pc \in Late
      BY <1>1, <1>8, LatePoints DEF Mine, Delivers
    <2>4. ASSUME NEW r \in Runs, By(p, r)'
          PROVE  /\ r[1] \notin job[p].cases
                 /\ r[1] = job[p].case =>
                      \A t \in job[p].todo : job[p].hashes[t] = dirs'[r].result.hash
      <3>1. CASE r = Run(p)
        BY <1>8, <2>1, <2>2, <2>3, <3>1, DeliversResults
      <3>2. CASE r # Run(p)
        <4>1. By(p, r) /\ dirs'[r] = dirs[r]
          BY <1>8, <2>4, <3>2, DeliversResults DEF By, Delivers, SameCase
        <4> QED BY <1>1, <2>3, <4>1, LatePoints DEF Mine
      <3> QED BY <3>1, <3>2
    <2> QED BY <1>8, <2>3, <2>4, LatePoints DEF Mine, Delivers, SameCase
  <1> QED BY <1>3, <1>4, <1>5, <1>6, <1>7, <1>8 DEF Moves

LEMMA MovesOwnIds ==
  ASSUME Inv, PairInv, NEW p \in Procs, Effect(p), Moves(p)
  PROVE  OwnIds' /\ invocations \in Nat /\ invocations' \in Nat /\ invocations <= invocations'
  <1>1. invocations \in Nat /\ \A q \in Procs : job[q].pc # "idle" => job[q].id \in 1..invocations
    BY BenchmarkAssumption DEF Inv, TypeOK, Local, Placed
  <1>2. invocations' \in Nat /\ invocations <= invocations'
    BY <1>1, BenchmarkAssumption DEF Effect, TypeOK
  <1>3. \/ job'[p].pc = "idle"
        \/ job'[p].id = invocations + 1
        \/ job[p].pc # "idle" /\ job'[p].id = job[p].id
    BY LatePoints DEF Moves, Fresh, Takes, Prepares, Goes, Delivers, SameCase
  <1>4. \A q \in Procs \ {p} : job'[q] = job[q]
    BY DEF Effect
  <1>5. ASSUME NEW q \in Procs, q # p, job'[p].pc # "idle", job'[q].pc # "idle"
        PROVE  job'[p].id # job'[q].id
    BY <1>1, <1>3, <1>4, <1>5 DEF PairInv, OwnIds
  <1>6. ASSUME NEW a \in Procs, NEW b \in Procs, a # b, a # p, b # p,
               job'[a].pc # "idle", job'[b].pc # "idle"
        PROVE  job'[a].id # job'[b].id
    BY <1>4, <1>6 DEF PairInv, OwnIds
  <1> QED BY <1>1, <1>2, <1>5, <1>6 DEF OwnIds

LEMMA MovesReported ==
  ASSUME Inv, PairInv, NEW p \in Procs, Effect(p), Moves(p)
  PROVE  /\ \A r \in Reported' : dirs'[r].result.by \in 1..invocations'
         /\ \A r, s \in Reported' :
              r[1] = s[1] /\ dirs'[r].result.by = dirs'[s].result.by =>
                dirs'[r].result.hash = dirs'[s].result.hash
  <1>1. /\ \A r \in Runs : HasResult(dirs[r]) => dirs[r].result.by \in 1..invocations
        /\ \A r, s \in Runs :
              HasResult(dirs[r]) /\ HasResult(dirs[s]) /\ r[1] = s[1]
                /\ dirs[r].result.by = dirs[s].result.by =>
                  dirs[r].result.hash = dirs[s].result.hash
    BY DEF PairInv, Reported, HasResult
  <1>2. invocations \in Nat /\ invocations' \in Nat /\ invocations <= invocations'
    BY MovesOwnIds
  <1>3. Reported' = {r \in Runs : HasResult(dirs'[r])}
    BY DEF Reported, HasResult
  <1>4. CASE ~Delivers(p)
    BY <1>1, <1>2, <1>3, <1>4, MovesResults DEF SameResults
  <1>5. CASE Delivers(p)
    <2>1. job[p].id \in 1..invocations /\ Run(p)[1] = job[p].case
      BY <1>5, LatePoints DEF Delivers, Inv, Local, Placed, Run
    <2>2. ASSUME NEW s \in Runs, s # Run(p), HasResult(dirs'[s]), s[1] = job[p].case,
                 dirs'[s].result.by = job[p].id
          PROVE  dirs'[s].result.hash = job[p].hashes[job[p].at]
      <3>1. dirs'[s] = dirs[s]
        BY <1>5, <2>2, DeliversResults
      <3>2. By(p, s) /\ Mine(p)
        BY <2>2, <3>1 DEF By, HasResult, PairInv
      <3> QED BY <1>5, <2>2, <3>1, <3>2, LatePoints DEF Mine, Delivers
    <2>3. \A r \in Runs : HasResult(dirs'[r]) => dirs'[r].result.by \in 1..invocations'
      BY <1>1, <1>2, <1>5, <2>1, DeliversResults
    <2>4. ASSUME NEW r \in Runs, NEW s \in Runs, HasResult(dirs'[r]), HasResult(dirs'[s]),
                 r[1] = s[1], dirs'[r].result.by = dirs'[s].result.by
          PROVE  dirs'[r].result.hash = dirs'[s].result.hash
      <3>1. CASE r = Run(p) /\ s # Run(p)
        BY <1>5, <2>1, <2>2, <2>4, <3>1, DeliversResults
      <3>2. CASE s = Run(p) /\ r # Run(p)
        BY <1>5, <2>1, <2>2, <2>4, <3>2, DeliversResults
      <3>3. CASE r # Run(p) /\ s # Run(p)
        BY <1>1, <1>5, <2>4, <3>3, DeliversResults
      <3> QED BY <3>1, <3>2, <3>3
    <2> QED BY <1>3, <2>3, <2>4
  <1> QED BY <1>4, <1>5

LEMMA NextPairInv == Inv /\ PairInv /\ [Next]_vars => PairInv'
  <1> SUFFICES ASSUME Inv, PairInv, [Next]_vars PROVE PairInv'
    OBVIOUS
  <1>1. CASE EditBase \/ UNCHANGED vars
    BY <1>1 DEF EditBase, vars, PairInv, Mine, By, OwnIds, Reported
  <1>2. ASSUME NEW p \in Procs,
               Step(p) \/ Abandon(p)
                 \/ \E c \in Commands : Invoke(p, c[1], c[2])
        PROVE  PairInv'
    <2>1. Effect(p) /\ Moves(p)
      BY <1>2, StepEffect, StepMoves
    <2>2. \A q \in Procs : Mine(q)'
      BY <2>1, OwnMine, OthersMine
    <2> QED BY <2>1, <2>2, MovesOwnIds, MovesReported DEF PairInv
  <1> QED BY <1>1, <1>2 DEF Next

\* Two runs of a pair that one command line made started from the same tree:
\* the digests of all workspaces were compared before the first of them ran,
\* and neither another command line nor a second visit to the case can put a
\* result of the same id beside them.
THEOREM PairsStartAlike == Spec => []PairedStartAlike
  <1>1. Init => PairInv
    BY DEF Init, Idle, PairInv, Mine, OwnIds, Reported
  <1>2. PairInv => PairedStartAlike
    BY DEF PairInv, PairedStartAlike, Compared
  <1> QED BY <1>1, <1>2, NextPairInv, Invariance, PTL DEF Spec
=================================================================================
