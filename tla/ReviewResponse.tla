----------------------------- MODULE ReviewResponse -----------------------------
(***************************************************************************)
(* What the reviewers of one cycle answer, and what of it is let through:  *)
(* ReviewSchema and parseReviewResponse of extensions/models/garfield.ts.  *)
(* A response has a status for each of the coverage checks and findings,   *)
(* of which validation looks at the lens alone.  Answers are read in the   *)
(* order of the assignments; one that is not let through blocks the run,   *)
(* but the rest of its batch is still read.  The change evolves as in      *)
(* ReviewPlanning until a cycle of its review begins, the first one or,    *)
(* after a repair, a later one.                                            *)
(***************************************************************************)
EXTENDS ReviewPlanning, ReviewBatches

CONSTANTS
  Changes,       \* the changes that come to be reviewed
  Candidates,    \* what a reviewer may answer
  Repairs,       \* the lenses a repair may have been for
  MaxSlips       \* bound: answers of a cycle that are not the plain one

\* REVIEW_COVERAGE_KEYS
Check == {"requestedBehavior", "compatibility", "boundaryBehavior", "failureBehavior",
          "stateAndSideEffects", "outputContract", "validationEvidence",
          "implementationMinimalism", "repositoryInstructions", "testsAndEvidence",
          "interfacesAndTypes", "generatedDependencies", "documentation",
          "deadCodeAndLayering", "policyCompliance"}

Status == {"pass", "finding", "not-applicable"}

Responses == [assignment : AssignmentName, status : [Check -> Status],
              findings : SUBSET ReviewLens]

ASSUME ResponseAssumption ==
  /\ Changes \subseteq Signals
  /\ Candidates \subseteq Responses
  /\ Repairs \subseteq SUBSET ReviewLens
  /\ MaxConcurrentReviewers \in Nat \ {0}
  /\ MaxSlips \in Nat

VARIABLES
  cycle,       \* its number, and the lenses the repair ahead of it was for
  responses,   \* the responses let through, by assignment
  failed,      \* the assignments that got none
  slips

cycleVars == <<sig, cycle, responses, failed, slips>>

FirstCycle == [number |-> 1, affected |-> {}]

LensCoverage ==
  [behavior              |-> {"requestedBehavior", "compatibility", "boundaryBehavior",
                              "failureBehavior", "outputContract"},
   repoInstructions      |-> {"repositoryInstructions"},
   validation            |-> {"validationEvidence"},
   tests                 |-> {"testsAndEvidence"},
   docs                  |-> {"documentation"},
   deadCode              |-> {"deadCodeAndLayering"},
   delayering            |-> {"deadCodeAndLayering", "implementationMinimalism"},
   types                 |-> {"interfacesAndTypes"},
   generatedDependencies |-> {"generatedDependencies"},
   comments              |-> {"implementationMinimalism"},
   minimalism            |-> {"implementationMinimalism"},
   interfaces            |-> {"interfacesAndTypes", "compatibility"},
   state                 |-> {"stateAndSideEffects", "failureBehavior"},
   policies              |-> {"policyCompliance"}]

RequiredCoverage(a) == UNION {LensCoverage[l] : l \in a.lenses}

Marked(r) == {c \in Check : r.status[c] = "finding"}

\* The refinement of ReviewSchema: findings if and only if a check says so.
Consistent(r) == r.findings = {} <=> Marked(r) = {}

\* Mutant: one answered check is enough for a lens.
AnswersSome(a, r) ==
  \A l \in a.lenses : \E c \in LensCoverage[l] : r.status[c] # "not-applicable"

Answers(a, r) == \A c \in RequiredCoverage(a) : r.status[c] # "not-applicable"

\* Mutant: a finding may be of any lens.
AnyLens(a, r) == \A l \in r.findings : LensCoverage[l] \cap Marked(r) # {}

\* Every finding is of a lens of the assignment, and one of its checks says so.
Belongs(a, r) == \A l \in r.findings : l \in a.lenses /\ LensCoverage[l] \cap Marked(r) # {}

ParseReviewResponse(a, r) ==
  Consistent(r) /\ r.assignment = a.name /\ Answers(a, r) /\ Belongs(a, r)

\* The reviewers this cycle asks.
Asked == SelectReviewAssignments(plan, cycle.number, cycle.affected)

\* What is left to read: the assignments asked, no batch after one that failed,
\* and when all have answered, the final advisor (that what they found was
\* rejected is left open).
Waiting ==
  IF Asked \subseteq DOMAIN responses
  THEN {a \in {VerificationAssignment(plan)} :
          plan.requiresVerification /\ a \notin DOMAIN responses \cup failed}
  ELSE {a \in Asked \ (DOMAIN responses \cup failed) :
          \A b \in failed : BatchOf(a, Asked) = BatchOf(b, Asked)}

\* The answer that passes what it must and leaves the rest alone.
Plain(a) ==
  [assignment |-> a.name, findings |-> {},
   status |-> [c \in Check |-> IF c \in RequiredCoverage(a) THEN "pass"
                                                            ELSE "not-applicable"]]

CycleInit ==
  Init /\ cycle = FirstCycle /\ responses = [a \in {} |-> {}] /\ failed = {} /\ slips = 0

Unread == cycle = FirstCycle /\ DOMAIN responses = {} /\ failed = {}

Evolve == Unread /\ Next /\ UNCHANGED <<cycle, responses, failed, slips>>

\* The change under review is that of an earlier cycle, repaired.
Repaired(affected) ==
  /\ Unread
  /\ sig \in Changes
  /\ cycle' = [number |-> 2, affected |-> affected]
  /\ UNCHANGED <<sig, responses, failed, slips>>

Turn(a) == a \in Waiting /\ Ahead(a, Waiting) = {}

Slip(n) == slips' = slips + n /\ slips' <= MaxSlips

Respond(a, r) ==
  /\ Turn(a) /\ Slip(IF r = Plain(a) THEN 0 ELSE 1)
  /\ IF ParseReviewResponse(a, r)
     THEN responses' = [b \in DOMAIN responses \cup {a} |->
                          IF b = a THEN r ELSE responses[b]] /\ UNCHANGED failed
     ELSE failed' = failed \cup {a} /\ UNCHANGED responses
  /\ UNCHANGED <<sig, cycle>>

\* Its process failed, or what it wrote has not the shape of ReviewSchema.
NoResponse(a) ==
  Turn(a) /\ Slip(1) /\ failed' = failed \cup {a} /\ UNCHANGED <<sig, cycle, responses>>

CycleNext ==
  \/ Evolve
  \/ \E affected \in Repairs : Repaired(affected)
  \/ /\ sig \in Changes
     /\ \E a \in Waiting :
          NoResponse(a) \/ \E r \in Candidates \cup {Plain(a)} : Respond(a, r)

CycleSpec == CycleInit /\ [][CycleNext]_cycleVars
-------------------------------------------------------------------------------
\* The lenses a cycle owes an answer about: all in the first one.
Owed ==
  IF cycle.number = 1 THEN plan.applicable
  ELSE plan.applicable \cap ({"behavior", "validation"} \cup cycle.affected)

(* A cycle all of whose reviewers were let through has left nothing out:    *)
(* each check that a lens it owes needs was answered, with a pass or a      *)
(* finding, by some reviewer, although every reviewer may call what is not  *)
(* of its own lenses not applicable.  The first cycle owes every lens of    *)
(* the change, a later one those its repair was for, behavior and           *)
(* validation.                                                              *)
EveryLensIsAnswered ==
  Asked \subseteq DOMAIN responses =>
    \A l \in Owed : \A c \in LensCoverage[l] :
      \E a \in Asked : responses[a].status[c] # "not-applicable"

(* Two reviewers of a cycle never report of one lens, and so never the same *)
(* fingerprint: what adjudication rejects as a duplicate is a reviewer's    *)
(* own, and no reviewer can make another's finding disappear.               *)
DuplicatesAreOnesOwn ==
  \A a, b \in DOMAIN responses \cap plan.assignments :
    a # b => responses[a].findings \cap responses[b].findings = {}
================================================================================
