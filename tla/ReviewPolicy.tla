----------------------------- MODULE ReviewPolicy -----------------------------
(***************************************************************************)
(* The pure decisions of one Garfield run (extensions/models/garfield.ts): *)
(* which review lenses a change makes applicable, how risky it is, how the *)
(* applicable lenses are clustered into reviewer assignments, which of the *)
(* assignments a later cycle repeats, and what becomes of every finding    *)
(* the reviewers report.  A diff is abstracted to the signals the code     *)
(* extracts from it; a review report to the sequence of its findings.      *)
(***************************************************************************)
EXTENDS Naturals, FiniteSets, Sequences

ReviewLens == {"behavior", "repoInstructions", "validation", "tests", "docs",
               "deadCode", "delayering", "types", "generatedDependencies",
               "comments", "minimalism", "interfaces", "state", "policies"}

MandatoryLens == {"behavior", "repoInstructions", "validation"}

AssignmentName == {"comprehensive", "contract", "implementation", "evidence",
                   "interfaces", "state", "generatedDependencies", "policies",
                   "verification"}

(***************************************************************************)
(* The signals buildReviewPlan reads off the changed paths, the diff text  *)
(* and the repository listing.  "contract" is the third critical signal:   *)
(* an openapi, .proto or migrations/ path.  A type signal needs changed    *)
(* code.  Sizes: at least 9 paths or 60 kB is large, 5 or 30 kB medium.    *)
(***************************************************************************)
Flag == {"code", "test", "docs", "generated", "policyChanged", "interface",
         "state", "type", "removal", "layering", "comment", "policyFiles",
         "contract", "truncated"}

Size == {"small", "medium", "large"}

Signals == {sig \in [flags : SUBSET Flag, size : Size] :
              "type" \in sig.flags => "code" \in sig.flags}

Applicability(flags) ==
  MandatoryLens
    \cup {l \in {"tests"}                 : flags \cap {"code", "test"} # {}}
    \cup {l \in {"docs"}                  : flags \cap {"docs", "interface"} # {}}
    \cup {l \in {"deadCode"}              : "removal" \in flags}
    \cup {l \in {"delayering"}            : "layering" \in flags}
    \cup {l \in {"types"}                 : "type" \in flags}
    \cup {l \in {"generatedDependencies"} : "generated" \in flags}
    \cup {l \in {"comments"}              : "comment" \in flags}
    \cup {l \in {"minimalism"}            : "code" \in flags}
    \cup {l \in {"interfaces"}            : "interface" \in flags}
    \cup {l \in {"state"}                 : "state" \in flags}
    \cup {l \in {"policies"}              : "policyFiles" \in flags}

CriticalSignals(flags) == flags \cap {"generated", "policyChanged", "contract"}

\* At least two critical signals, said without counting.
Critical2(flags) == \E x, y \in CriticalSignals(flags) : x # y

\* Mutant: one critical signal does not raise the risk.
RiskBySize(sig) ==
  IF sig.size = "large" \/ Critical2(sig.flags) \/ "truncated" \in sig.flags
    THEN "complex"
  ELSE IF sig.size = "medium" THEN "medium" ELSE "simple"

Risk(sig) ==
  IF \/ sig.size = "large"
     \/ Critical2(sig.flags)
     \/ "truncated" \in sig.flags
    THEN "complex"
  ELSE IF sig.size = "medium" \/ CriticalSignals(sig.flags) # {}
    THEN "medium"
  ELSE "simple"

ImplementationLens == {"deadCode", "delayering", "types", "comments", "minimalism"}

Cluster(name, lenses) == [name |-> name, lenses |-> lenses]

\* Mutant: the specialists always, and one more for the documents.
SpecialistClusters(risk) ==
  {Cluster("contract", {"behavior"}), Cluster("implementation", ImplementationLens),
   Cluster("evidence", {"repoInstructions", "validation", "tests"}),
   Cluster("comprehensive", {"docs"})} \cup
  {Cluster(l, {l}) : l \in {"interfaces", "state", "generatedDependencies", "policies"}}

Clusters(risk) ==
  CASE risk = "simple" -> {Cluster("comprehensive", ReviewLens)}
    [] risk = "medium" ->
         {Cluster("contract", {"behavior", "interfaces", "state"}),
          Cluster("implementation", ImplementationLens),
          Cluster("evidence", {"repoInstructions", "validation", "tests", "docs",
                               "generatedDependencies", "policies"})}
    [] risk = "complex" ->
         {Cluster("contract", {"behavior"}),
          Cluster("implementation", ImplementationLens),
          Cluster("evidence", {"repoInstructions", "validation", "tests", "docs"}),
          Cluster("interfaces", {"interfaces"}),
          Cluster("state", {"state"}),
          Cluster("generatedDependencies", {"generatedDependencies"}),
          Cluster("policies", {"policies"})}

\* Mutant: an assignment keeps the lenses that do not apply.
UnfilteredAssignments(risk, applicable) ==
  {c \in Clusters(risk) : c.lenses \cap applicable # {}}

\* A cluster becomes an assignment when one of its lenses applies.
Assignments(risk, applicable) ==
  {a \in {Cluster(c.name, c.lenses \cap applicable) : c \in Clusters(risk)} :
     a.lenses # {}}

BuildReviewPlan(sig) ==
  LET applicable == Applicability(sig.flags)
      risk == Risk(sig)
  IN [risk                 |-> risk,
      applicable           |-> applicable,
      assignments          |-> Assignments(risk, applicable),
      requiresVerification |-> risk = "complex" \/ CriticalSignals(sig.flags) # {}]

\* Mutant: the mandatory lenses are not repeated.
AffectedAlone(plan, affected) ==
  {a \in plan.assignments : a.lenses \cap affected # {}}

\* The assignments that hold behavior, validation or an affected lens.
AffectedAssignments(plan, affected) ==
  {a \in plan.assignments :
     a.lenses \cap ({"behavior", "validation"} \cup affected) # {}}

\* Cycle 1 and every simple plan run all the assignments; a later cycle runs
\* the affected ones, or all if there are none.
SelectReviewAssignments(plan, cycle, affected) ==
  LET selected == AffectedAssignments(plan, affected)
  IN IF cycle <= 1 \/ plan.risk = "simple" \/ selected = {}
       THEN plan.assignments
       ELSE selected

VerificationLens == {"behavior", "repoInstructions", "validation", "tests",
                     "interfaces", "state", "generatedDependencies", "policies"}

VerificationAssignment(plan) ==
  Cluster("verification", VerificationLens \cap plan.applicable)

\* The order in which the code pushes assignments, runs and reads them.
Rank(name) ==
  CASE name \in {"comprehensive", "contract"} -> 0
    [] name = "implementation"                -> 1
    [] name = "evidence"                      -> 2
    [] name = "interfaces"                    -> 3
    [] name = "state"                         -> 4
    [] name = "generatedDependencies"         -> 5
    [] name = "policies"                      -> 6
    [] name = "verification"                  -> 7

\* The assignments that run before a in a list made of the assignments S.
Ahead(a, S) == {b \in S : Rank(b.name) < Rank(a.name)}

-------------------------------------------------------------------------------
(***************************************************************************)
(* Findings.  "grounded" says that some evidence of the finding is not     *)
(* "inferred"; the fingerprint folds case and white space of the concern,  *)
(* so concerns here are the folded ones.  A place is a path and a line.    *)
(***************************************************************************)
\* Mutant: the concern is left out of the fingerprint.
FingerprintByPlace(f) == [lens |-> f.lens, path |-> f.path, line |-> f.line]

Fingerprint(f) ==
  [lens |-> f.lens, path |-> f.path, line |-> f.line, concern |-> f.concern]

\* A cycle's records: a function from assignments to the findings reported.
Positions(records) ==
  UNION {{<<a, j>> : j \in DOMAIN records[a]} : a \in DOMAIN records}

FindingAt(records, p) == records[p[1]][p[2]]

Precedes(p, q) ==
  \/ Rank(p[1].name) < Rank(q[1].name)
  \/ p[1] = q[1] /\ p[2] < q[2]

InScope(f, changedPaths) ==
  f.severity = "medium" => f.path \in changedPaths \/ f.cause = "missingOrStale"

\* Mutant: the last report of a fingerprint stands for it.
LastDisposition(records, changedPaths, p) ==
  LET f == FindingAt(records, p) IN
  CASE \E q \in Positions(records) :
         /\ Precedes(p, q)
         /\ Fingerprint(FindingAt(records, q)) = Fingerprint(f)   -> "rejected"
    [] OTHER -> IF f.grounded /\ InScope(f, changedPaths) THEN "accepted"
                ELSE "deferred"

\* seen.add happens before the evidence is looked at: an earlier finding shadows
\* a later one with its fingerprint whatever became of the earlier one.
Disposition(records, changedPaths, p) ==
  LET f == FindingAt(records, p) IN
  CASE \E q \in Positions(records) :
         /\ Precedes(q, p)
         /\ Fingerprint(FindingAt(records, q)) = Fingerprint(f)   -> "rejected"
    [] OTHER -> IF f.grounded /\ InScope(f, changedPaths) THEN "accepted"
                ELSE "deferred"

Accepted(records, changedPaths) ==
  {FindingAt(records, p) : p \in {q \in Positions(records) :
      Disposition(records, changedPaths, q) = "accepted"}}
===============================================================================
