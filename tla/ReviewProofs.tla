------------------------------ MODULE ReviewProofs ------------------------------
(***************************************************************************)
(* What holds of the plan of every change, of every cycle of answers to    *)
(* it, and of every way its findings can be reported and adjudicated.      *)
(***************************************************************************)
EXTENDS ReviewResponse, Adjudication, FiniteSetTheorems, WellFoundedInduction, TLAPS

(* Only lenses of the list apply, and the three mandatory ones always do.  *)
LEMMA ApplicableLenses ==
  ASSUME NEW flags
  PROVE  /\ MandatoryLens \subseteq Applicability(flags)
         /\ Applicability(flags) \subseteq ReviewLens
BY DEF Applicability, MandatoryLens, ReviewLens

LEMMA RiskType ==
  ASSUME NEW s
  PROVE  Risk(s) \in {"simple", "medium", "complex"}
BY DEF Risk

LEMMA ClusterFields ==
  ASSUME NEW name, NEW lenses
  PROVE  Cluster(name, lenses).name = name /\ Cluster(name, lenses).lenses = lenses
BY DEF Cluster

(* The clusters of every risk split the list of lenses.                    *)
SplitsLenses(clusters) ==
  /\ \A l \in ReviewLens : \E c \in clusters : l \in c.lenses
  /\ \A c, d \in clusters : c # d => c.lenses \cap d.lenses = {} /\ c.name # d.name

LEMMA ClustersSplit ==
  ASSUME NEW risk \in {"simple", "medium", "complex"}
  PROVE  SplitsLenses(Clusters(risk))
<1>1. CASE risk = "simple"
  <2>1. Clusters(risk) = {Cluster("comprehensive", ReviewLens)}
    BY <1>1 DEF Clusters
  <2>2. QED
    BY <2>1, ClusterFields DEF SplitsLenses
<1>2. CASE risk = "medium"
  <2> DEFINE A == Cluster("contract", {"behavior", "interfaces", "state"})
             B == Cluster("implementation", ImplementationLens)
             C == Cluster("evidence", {"repoInstructions", "validation", "tests",
                             "docs", "generatedDependencies", "policies"})
  <2>1. Clusters(risk) = {A, B, C}
    BY <1>2 DEF Clusters
  <2>2. /\ A.name = "contract" /\ A.lenses = {"behavior", "interfaces", "state"}
        /\ B.name = "implementation" /\ B.lenses = ImplementationLens
        /\ C.name = "evidence"
        /\ C.lenses = {"repoInstructions", "validation", "tests", "docs",
                       "generatedDependencies", "policies"}
    BY ClusterFields
  <2> HIDE DEF A, B, C
  <2>3. \A l \in ReviewLens : l \in A.lenses \/ l \in B.lenses \/ l \in C.lenses
    BY <2>2 DEF ReviewLens, ImplementationLens
  <2>4. \A c, d \in {A, B, C} : c # d => c.lenses \cap d.lenses = {} /\ c.name # d.name
    BY <2>2 DEF ImplementationLens
  <2>5. QED
    BY <2>1, <2>3, <2>4 DEF SplitsLenses
<1>3. CASE risk = "complex"
  <2> DEFINE A == Cluster("contract", {"behavior"})
             B == Cluster("implementation", ImplementationLens)
             C == Cluster("evidence", {"repoInstructions", "validation", "tests", "docs"})
             D == Cluster("interfaces", {"interfaces"})
             E == Cluster("state", {"state"})
             F == Cluster("generatedDependencies", {"generatedDependencies"})
             G == Cluster("policies", {"policies"})
  <2>1. Clusters(risk) = {A, B, C, D, E, F, G}
    BY <1>3 DEF Clusters
  <2>2. /\ A.name = "contract" /\ A.lenses = {"behavior"}
        /\ B.name = "implementation" /\ B.lenses = ImplementationLens
        /\ C.name = "evidence"
        /\ C.lenses = {"repoInstructions", "validation", "tests", "docs"}
        /\ D.name = "interfaces" /\ D.lenses = {"interfaces"}
        /\ E.name = "state" /\ E.lenses = {"state"}
        /\ F.name = "generatedDependencies" /\ F.lenses = {"generatedDependencies"}
        /\ G.name = "policies" /\ G.lenses = {"policies"}
    BY ClusterFields
  <2> HIDE DEF A, B, C, D, E, F, G
  <2>3. \A l \in ReviewLens : \E c \in {A, B, C, D, E, F, G} : l \in c.lenses
    BY <2>2 DEF ReviewLens, ImplementationLens
  <2>4. \A c, d \in {A, B, C, D, E, F, G} :
           c # d => c.lenses \cap d.lenses = {} /\ c.name # d.name
    BY <2>2 DEF ImplementationLens
  <2>5. QED
    BY <2>1, <2>3, <2>4 DEF SplitsLenses
<1>4. QED
  BY <1>1, <1>2, <1>3

LEMMA AssignmentMembers ==
  ASSUME NEW s
  PROVE  \A a : a \in BuildReviewPlan(s).assignments <=>
           /\ a.lenses # {}
           /\ \E c \in Clusters(Risk(s)) :
                a = Cluster(c.name, c.lenses \cap BuildReviewPlan(s).applicable)
<1> DEFINE p == BuildReviewPlan(s)
<1>1. p.assignments = Assignments(Risk(s), p.applicable)
  BY DEF BuildReviewPlan
<1> HIDE DEF p
<1>2. \A a : a \in p.assignments <=>
        /\ a.lenses # {}
        /\ \E c \in Clusters(Risk(s)) : a = Cluster(c.name, c.lenses \cap p.applicable)
  BY <1>1, Zenon DEF Assignments
<1>3. QED
  BY <1>2 DEF p

(* So do the assignments, for the lenses that apply.                       *)
LEMMA PlanSplits ==
  ASSUME NEW s
  PROVE  /\ \A l \in BuildReviewPlan(s).applicable :
              \E a \in BuildReviewPlan(s).assignments : l \in a.lenses
         /\ \A a, b \in BuildReviewPlan(s).assignments :
              a # b => a.lenses \cap b.lenses = {} /\ a.name # b.name
         /\ \A a \in BuildReviewPlan(s).assignments :
              a.lenses # {} /\ a.lenses \subseteq BuildReviewPlan(s).applicable
<1> DEFINE applicable  == BuildReviewPlan(s).applicable
           assignments == BuildReviewPlan(s).assignments
           clusters    == Clusters(Risk(s))
<1>1. \A a : a \in assignments <=>
        a.lenses # {} /\ \E c \in clusters : a = Cluster(c.name, c.lenses \cap applicable)
  BY AssignmentMembers
<1>2. SplitsLenses(clusters)
  BY RiskType, ClustersSplit
<1>3. applicable \subseteq ReviewLens
  BY ApplicableLenses DEF BuildReviewPlan
<1> HIDE DEF applicable, assignments, clusters
<1>4. ASSUME NEW c \in clusters, c.lenses \cap applicable # {}
      PROVE  Cluster(c.name, c.lenses \cap applicable) \in assignments
  <2>1. Cluster(c.name, c.lenses \cap applicable).lenses # {}
    BY <1>4, ClusterFields
  <2>2. QED
    BY <1>1, <2>1
<1>5. ASSUME NEW a \in assignments
      PROVE  \E c \in clusters :
               /\ a = Cluster(c.name, c.lenses \cap applicable)
               /\ a.name = c.name
               /\ a.lenses = c.lenses \cap applicable
               /\ a.lenses # {}
  <2>1. PICK c \in clusters : /\ a = Cluster(c.name, c.lenses \cap applicable)
                              /\ a.lenses # {}
    BY <1>1
  <2>2. /\ Cluster(c.name, c.lenses \cap applicable).name = c.name
        /\ Cluster(c.name, c.lenses \cap applicable).lenses = c.lenses \cap applicable
    BY ClusterFields
  <2>3. a.name = c.name /\ a.lenses = c.lenses \cap applicable
    BY <2>1, <2>2
  <2>4. QED
    BY <2>1, <2>3
<1>6. \A l \in applicable : \E a \in assignments : l \in a.lenses
  <2> SUFFICES ASSUME NEW l \in applicable
               PROVE  \E a \in assignments : l \in a.lenses
    OBVIOUS
  <2>1. PICK c \in clusters : l \in c.lenses
    BY <1>2, <1>3 DEF SplitsLenses
  <2>2. Cluster(c.name, c.lenses \cap applicable) \in assignments
    BY <1>4, <2>1
  <2>3. l \in Cluster(c.name, c.lenses \cap applicable).lenses
    BY <2>1, ClusterFields
  <2>4. QED
    BY <2>2, <2>3
<1>7. ASSUME NEW a \in assignments, NEW b \in assignments, a # b
      PROVE  a.lenses \cap b.lenses = {} /\ a.name # b.name
  <2>1. PICK c \in clusters : /\ a = Cluster(c.name, c.lenses \cap applicable)
                              /\ a.name = c.name
                              /\ a.lenses = c.lenses \cap applicable
    BY <1>5
  <2>2. PICK d \in clusters : /\ b = Cluster(d.name, d.lenses \cap applicable)
                              /\ b.name = d.name
                              /\ b.lenses = d.lenses \cap applicable
    BY <1>5
  <2>3. c # d
    BY <1>7, <2>1, <2>2
  <2>4. c.lenses \cap d.lenses = {} /\ c.name # d.name
    BY <1>2, <2>3 DEF SplitsLenses
  <2>5. QED
    BY <2>1, <2>2, <2>4
<1>8. \A a \in assignments : a.lenses # {} /\ a.lenses \subseteq applicable
  BY <1>5
<1>9. QED
  BY <1>6, <1>7, <1>8 DEF applicable, assignments

-------------------------------------------------------------------------------
(***************************************************************************)
(* The order of the assignments of one plan.                               *)
(***************************************************************************)
(* "comprehensive" and "contract" share the first rank, but no plan has    *)
(* both: the names of a plan are told apart by their ranks.                *)
LEMMA ClusterRanks ==
  ASSUME NEW risk \in {"simple", "medium", "complex"}
  PROVE  /\ \A c \in Clusters(risk) : Rank(c.name) \in 0..6
         /\ \A c, d \in Clusters(risk) : Rank(c.name) = Rank(d.name) => c.name = d.name
<1>1. CASE risk = "simple"
  <2>1. \A c \in Clusters(risk) : c.name = "comprehensive"
    BY <1>1, ClusterFields DEF Clusters
  <2>2. Rank("comprehensive") = 0
    BY DEF Rank
  <2>3. QED
    BY <2>1, <2>2
<1>2. CASE risk \in {"medium", "complex"}
  <2> DEFINE names == {"contract", "implementation", "evidence", "interfaces", "state",
                       "generatedDependencies", "policies"}
  <2>1. \A c \in Clusters(risk) : c.name \in names
    <3>1. CASE risk = "medium"
      BY <3>1, ClusterFields DEF Clusters
    <3>2. CASE risk = "complex"
      BY <3>2, ClusterFields DEF Clusters
    <3>3. QED
      BY <1>2, <3>1, <3>2
  <2>2. /\ Rank("contract") = 0 /\ Rank("implementation") = 1 /\ Rank("evidence") = 2
        /\ Rank("interfaces") = 3 /\ Rank("state") = 4
        /\ Rank("generatedDependencies") = 5 /\ Rank("policies") = 6
    BY DEF Rank
  <2>3. \A m, n \in names : Rank(m) \in 0..6 /\ (Rank(m) = Rank(n) => m = n)
    BY <2>2
  <2>4. QED
    BY <2>1, <2>3
<1>3. QED
  BY <1>1, <1>2

LEMMA AssignmentRanks ==
  ASSUME NEW s
  PROVE  /\ \A a \in BuildReviewPlan(s).assignments : Rank(a.name) \in 0..6
         /\ \A a, b \in BuildReviewPlan(s).assignments :
              Rank(a.name) = Rank(b.name) => a = b
<1>1. \A a \in BuildReviewPlan(s).assignments :
        \E c \in Clusters(Risk(s)) : a.name = c.name
  <2> SUFFICES ASSUME NEW a \in BuildReviewPlan(s).assignments
               PROVE  \E c \in Clusters(Risk(s)) : a.name = c.name
    OBVIOUS
  <2>1. PICK c \in Clusters(Risk(s)) :
          a = Cluster(c.name, c.lenses \cap BuildReviewPlan(s).applicable)
    BY AssignmentMembers
  <2>2. QED
    BY <2>1, ClusterFields
<1>2. QED
  BY <1>1, RiskType, ClusterRanks, PlanSplits

(* A plan has at least one reviewer, for the mandatory lenses, and at most *)
(* one of each rank.                                                       *)
LEMMA PlanSize ==
  ASSUME NEW s
  PROVE  Cardinality(BuildReviewPlan(s).assignments) \in 1..7
<1> DEFINE S == BuildReviewPlan(s).assignments
           f == [a \in S |-> Rank(a.name)]
<1>1. f \in Injection(S, 0..6)
  BY AssignmentRanks DEF Injection, IsInjective
<1>2. IsFiniteSet(0..6) /\ Cardinality(0..6) = 7
  <2>1. 0 \in Int /\ 6 \in Int /\ ~(0 > 6) /\ 6 - 0 + 1 = 7
    OBVIOUS
  <2>2. QED
    BY <2>1, FS_Interval
<1> HIDE DEF f
<1>3. IsFiniteSet(S) /\ Cardinality(S) <= 7
  BY <1>1, <1>2, FS_Injection DEF ExistsInjection
<1>4. S # {}
  BY PlanSplits, ApplicableLenses DEF BuildReviewPlan, MandatoryLens
<1>5. Cardinality(S) \in Nat /\ Cardinality(S) # 0
  BY <1>3, <1>4, FS_EmptySet, FS_CardinalityType
<1>6. QED
  BY <1>3, <1>5

-------------------------------------------------------------------------------
(***************************************************************************)
(* Plans.                                                                  *)
(***************************************************************************)
(* For every change: each applicable lens has exactly one first reviewer.  *)
THEOREM PartitionHolds == Spec => []LensesPartitioned
<1>1. LensesPartitioned
  BY PlanSplits DEF LensesPartitioned, plan
<1>2. QED
  BY <1>1, PTL

(* For every change and every lens a repair was for, the filter of a later *)
(* cycle finds the reviewers of behavior, of validation and of that lens.  *)
THEOREM RepairsAreCovered == Spec => []LaterCyclesCoverTheRepair
<1>1. LaterCyclesCoverTheRepair
  <2> SUFFICES ASSUME NEW l \in ReviewLens,
                      NEW m \in {"behavior", "validation"} \cup ({l} \cap plan.applicable)
               PROVE  \E a \in AffectedAssignments(plan, {l}) : m \in a.lenses
    BY DEF LaterCyclesCoverTheRepair
  <2>1. m \in plan.applicable /\ m \in {"behavior", "validation"} \cup {l}
    BY ApplicableLenses DEF plan, BuildReviewPlan, MandatoryLens
  <2>2. PICK a \in plan.assignments : m \in a.lenses
    BY <2>1, PlanSplits DEF plan
  <2>3. a \in AffectedAssignments(plan, {l})
    BY <2>1, <2>2 DEF AffectedAssignments
  <2>4. QED
    BY <2>2, <2>3
<1>2. QED
  BY <1>1, PTL

(* For every change: one that must be verified has independent readers.    *)
THEOREM VerifiedAreSplit == Spec => []VerifiedPlansAreSplit
<1>1. VerifiedPlansAreSplit
  <2> SUFFICES ASSUME plan.requiresVerification
               PROVE  /\ \A a \in plan.assignments :
                           ~({"behavior", "validation"} \subseteq a.lenses)
                      /\ {"behavior", "validation"} \subseteq
                           VerificationAssignment(plan).lenses
    BY DEF VerifiedPlansAreSplit
  <2> DEFINE risk == Risk(sig)
  <2>1. risk \in {"medium", "complex"}
    BY DEF plan, BuildReviewPlan, Risk
  <2>2. \A c \in Clusters(risk) : ~({"behavior", "validation"} \subseteq c.lenses)
    <3>1. CASE risk = "medium"
      BY <3>1, ClusterFields DEF Clusters, ImplementationLens
    <3>2. CASE risk = "complex"
      BY <3>2, ClusterFields DEF Clusters, ImplementationLens
    <3>3. QED
      BY <2>1, <3>1, <3>2
  <2>3. \A a \in plan.assignments : \E c \in Clusters(risk) : a.lenses \subseteq c.lenses
    <3> SUFFICES ASSUME NEW a \in plan.assignments
                 PROVE  \E c \in Clusters(risk) : a.lenses \subseteq c.lenses
      OBVIOUS
    <3>1. PICK c \in Clusters(risk) :
            a = Cluster(c.name, c.lenses \cap plan.applicable)
      BY AssignmentMembers DEF plan
    <3>2. a.lenses = c.lenses \cap plan.applicable
      BY <3>1, ClusterFields
    <3>3. QED
      BY <3>2
  <2>4. {"behavior", "validation"} \subseteq plan.applicable
    BY ApplicableLenses DEF plan, BuildReviewPlan, MandatoryLens
  <2>5. VerificationAssignment(plan).lenses = VerificationLens \cap plan.applicable
    BY ClusterFields DEF VerificationAssignment
  <2>6. QED
    BY <2>2, <2>3, <2>4, <2>5 DEF VerificationLens
<1>2. QED
  BY <1>1, PTL

(* For every change: two full cycles fit the default budget, and a plan    *)
(* has a number of assignments that ReviewPlanSchema accepts.              *)
THEOREM BudgetCoversARepair == Spec => []TwoCyclesFitDefaultBudget
<1>1. TwoCyclesFitDefaultBudget
  BY PlanSize DEF TwoCyclesFitDefaultBudget, plan
<1>2. QED
  BY <1>1, PTL

-------------------------------------------------------------------------------
(***************************************************************************)
(* Answers: only what was let through is kept (Checked), and the plan      *)
(* gives every lens one reader.                                            *)
(***************************************************************************)
Checked == \A a \in DOMAIN responses : ParseReviewResponse(a, responses[a])

(* No answer is kept that its assignment does not allow.                        *)
LEMMA CheckedHolds == CycleSpec => []Checked
<1>1. CycleInit => Checked
  BY DEF CycleInit, Checked
<1>2. Checked /\ [CycleNext]_cycleVars => Checked'
  <2> SUFFICES ASSUME Checked, [CycleNext]_cycleVars PROVE Checked'
    OBVIOUS
  <2>1. ASSUME NEW a, NEW r, Respond(a, r) PROVE Checked'
    <3>1. CASE ParseReviewResponse(a, r)
      BY <2>1, <3>1 DEF Respond, Checked, ParseReviewResponse, Consistent, Answers,
                        Belongs, Marked, RequiredCoverage
    <3>2. CASE ~ParseReviewResponse(a, r)
      BY <2>1, <3>2 DEF Respond, Checked, ParseReviewResponse, Consistent, Answers,
                        Belongs, Marked, RequiredCoverage
    <3>3. QED
      BY <3>1, <3>2
  <2>2. ASSUME UNCHANGED responses PROVE Checked'
    BY <2>2 DEF Checked, ParseReviewResponse, Consistent, Answers, Belongs, Marked,
                RequiredCoverage
  <2>3. QED
    BY <2>1, <2>2 DEF CycleNext, Evolve, Repaired, NoResponse, cycleVars
<1>3. QED
  BY <1>1, <1>2, PTL DEF CycleSpec

(* A cycle asks somebody about every lens it owes.                              *)
LEMMA OwedAreAsked ==
  ASSUME NEW l \in Owed
  PROVE  \E a \in Asked : l \in a.lenses
<1>1. l \in plan.applicable
  BY DEF Owed
<1>2. PICK a \in plan.assignments : l \in a.lenses
  BY <1>1, PlanSplits DEF plan
<1>3. CASE cycle.number = 1
  BY <1>2, <1>3 DEF Asked, SelectReviewAssignments
<1>4. CASE cycle.number # 1
  <2>1. a \in AffectedAssignments(plan, cycle.affected)
    BY <1>2, <1>4 DEF Owed, AffectedAssignments
  <2>2. QED
    BY <1>2, <2>1 DEF Asked, SelectReviewAssignments
<1>5. QED
  BY <1>3, <1>4

(* For every change, whatever its repair was for and whatever reviewers answer: *)
(* no check that a lens owed needs is left out of a cycle that is let through.  *)
THEOREM NothingIsLeftOut == CycleSpec => []EveryLensIsAnswered
<1>1. Checked => EveryLensIsAnswered
  <2> SUFFICES ASSUME Checked, Asked \subseteq DOMAIN responses,
                      NEW l \in Owed, NEW c \in LensCoverage[l]
               PROVE  \E a \in Asked : responses[a].status[c] # "not-applicable"
    BY DEF EveryLensIsAnswered
  <2>1. PICK a \in Asked : l \in a.lenses
    BY OwedAreAsked
  <2>2. Answers(a, responses[a])
    BY DEF Checked, ParseReviewResponse
  <2>3. c \in RequiredCoverage(a)
    BY <2>1 DEF RequiredCoverage
  <2>4. QED
    BY <2>2, <2>3 DEF Answers
<1>2. QED
  BY <1>1, CheckedHolds, PTL

(* For every change: no reviewer's finding is another's duplicate.              *)
THEOREM FindingsAreDisjoint == CycleSpec => []DuplicatesAreOnesOwn
<1>1. Checked => DuplicatesAreOnesOwn
  <2> SUFFICES ASSUME Checked,
                      NEW a \in DOMAIN responses \cap plan.assignments,
                      NEW b \in DOMAIN responses \cap plan.assignments, a # b
               PROVE  responses[a].findings \cap responses[b].findings = {}
    BY DEF DuplicatesAreOnesOwn
  <2>1. a.lenses \cap b.lenses = {}
    BY PlanSplits DEF plan
  <2>2. \A d \in {a, b} : responses[d].findings \subseteq d.lenses
    BY DEF Checked, ParseReviewResponse, Belongs
  <2>3. QED
    BY <2>1, <2>2
<1>2. QED
  BY <1>1, CheckedHolds, PTL
-------------------------------------------------------------------------------
(***************************************************************************)
(* Adjudication, of any findings reported on any change.                   *)
(***************************************************************************)
Reported == records \in [Reviewers -> Seq(Pool)]

LEMMA ReportedHolds == ReportSpec => []Reported
<1>1. NothingReported => Reported
  BY DEF NothingReported, Reported
<1>2. Reported /\ [SomethingReported]_records => Reported'
  BY DEF Reported, SomethingReported, Report
<1>3. QED
  BY <1>1, <1>2, PTL DEF ReportSpec

LEMMA PositionMembers ==
  ASSUME NEW r \in [Reviewers -> Seq(Pool)]
  PROVE  \A p : p \in Positions(r) <=>
           \E a \in Reviewers : \E j \in 1..Len(r[a]) : p = <<a, j>>
BY DEF Positions

(* The reports of a cycle are read in one order: of two findings one was   *)
(* read before the other, and not both.                                    *)
LEMMA PositionsOrdered ==
  ASSUME NEW r \in [Reviewers -> Seq(Pool)],
         NEW p \in Positions(r), NEW q \in Positions(r)
  PROVE  /\ p # q => Precedes(p, q) \/ Precedes(q, p)
         /\ ~(Precedes(p, q) /\ Precedes(q, p))
<1>1. PICK a \in Reviewers, i \in Nat : p = <<a, i>>
  BY PositionMembers
<1>2. PICK b \in Reviewers, j \in Nat : q = <<b, j>>
  BY PositionMembers
<1>3. Rank(a.name) \in 0..6 /\ Rank(b.name) \in 0..6 /\ (Rank(a.name) = Rank(b.name) => a = b)
  BY AssignmentRanks DEF Reviewers
<1>4. QED
  BY <1>1, <1>2, <1>3 DEF Precedes

LEMMA SameConcernIsFingerprint ==
  ASSUME NEW f, NEW g
  PROVE  SameConcern(f, g) <=> Fingerprint(f) = Fingerprint(g)
BY DEF SameConcern, Fingerprint

(* Whether an earlier report stands for the finding at p.                  *)
Shadowed(r, p) ==
  \E q \in Positions(r) : Precedes(q, p) /\ SameConcern(FindingAt(r, q), FindingAt(r, p))

LEMMA DispositionOf ==
  ASSUME NEW r, NEW p
  PROVE  Disposition(r, ChangedPaths, p) =
           IF Shadowed(r, p) THEN "rejected"
           ELSE IF Supported(FindingAt(r, p)) THEN "accepted" ELSE "deferred"
BY SameConcernIsFingerprint DEF Disposition, Shadowed, Supported

(* Some report of a set of them was read first.                            *)
LEMMA FirstReport ==
  ASSUME NEW r \in [Reviewers -> Seq(Pool)], NEW P \in SUBSET Positions(r), P # {}
  PROVE  \E q \in P : \A p \in P : ~Precedes(p, q)
<1> DEFINE ranks == {Rank(p[1].name) : p \in P}
<1>1. \A p \in P : p[1] \in Reviewers /\ p[2] \in Nat
  <2> SUFFICES ASSUME NEW p \in P PROVE p[1] \in Reviewers /\ p[2] \in Nat
    OBVIOUS
  <2>1. PICK a \in Reviewers : \E j \in 1..Len(r[a]) : p = <<a, j>>
    BY PositionMembers
  <2>2. QED
    BY <2>1
<1>2. \A a \in Reviewers : Rank(a.name) \in Nat
  BY AssignmentRanks DEF Reviewers
<1>3. \A X \in SUBSET Nat : X # {} => \E x \in X : \A y \in X : ~(y < x)
  <2> SUFFICES ASSUME NEW X \in SUBSET Nat, X # {}
               PROVE  \E x \in X : \A y \in X : ~(y < x)
    OBVIOUS
  <2>1. \E x \in X : \A y \in X : ~(<<y, x>> \in OpToRel(<, Nat))
    BY NatLessThanWellFounded, WFMin
  <2>2. QED
    BY <2>1 DEF OpToRel
<1>4. PICK least \in ranks : \A n \in ranks : ~(n < least)
  <2>1. ranks \in SUBSET Nat /\ ranks # {}
    BY <1>1, <1>2
  <2>2. QED
    BY <1>3, <2>1
<1> DEFINE first == {p \in P : Rank(p[1].name) = least}
           places == {p[2] : p \in first}
<1>5. PICK place \in places : \A n \in places : ~(n < place)
  <2>1. places \in SUBSET Nat /\ places # {}
    BY <1>1, <1>4
  <2>2. QED
    BY <1>3, <2>1
<1>6. PICK q \in first : q[2] = place
  BY <1>5
<1>7. ASSUME NEW p \in P, Precedes(p, q)
      PROVE  FALSE
  <2>1. ~(Rank(p[1].name) < Rank(q[1].name))
    BY <1>4, <1>6
  <2>2. p[1] = q[1] /\ p[2] < q[2]
    BY <1>7, <2>1 DEF Precedes
  <2>3. p \in first
    BY <1>6, <2>2
  <2>4. QED
    BY <1>5, <1>6, <2>2, <2>3
<1>8. QED
  BY <1>6, <1>7

(* Whatever the change and whatever its reviewers report: of the reports   *)
(* of one concern exactly one is judged.                                   *)
THEOREM OneReportStandsForAll == ReportSpec => []OneOfEachConcernIsJudged
<1>1. ASSUME Reported
      PROVE  OneOfEachConcernIsJudged
  <2>1. \A p, q : SameAt(p, q) => SameAt(q, p)
    BY DEF SameAt, SameConcern
  <2>2. \A p, q, s : SameAt(p, q) /\ SameAt(q, s) => SameAt(p, s)
    BY DEF SameAt, SameConcern
  <2>3. \A p : JudgedAt(p) <=> ~Shadowed(records, p)
    BY DispositionOf DEF JudgedAt
  <2> SUFFICES ASSUME NEW p \in Positions(records)
               PROVE  \E q \in Positions(records) :
                        /\ JudgedAt(q) /\ SameAt(p, q)
                        /\ \A s \in Positions(records) :
                             JudgedAt(s) /\ SameAt(p, s) => s = q
    BY DEF OneOfEachConcernIsJudged
  <2> DEFINE same == {s \in Positions(records) : SameAt(p, s)}
  <2>4. p \in same
    BY DEF SameAt, SameConcern
  <2>5. PICK q \in same : \A s \in same : ~Precedes(s, q)
    BY <1>1, <2>4, FirstReport DEF Reported
  <2>6. JudgedAt(q)
    <3> SUFFICES ASSUME NEW s \in Positions(records), Precedes(s, q), SameAt(s, q)
                 PROVE  FALSE
      BY <2>3 DEF Shadowed, SameAt
    <3>1. SameAt(p, s)
      BY <2>1, <2>2, <2>5
    <3>2. QED
      BY <2>5, <3>1
  <2>7. ASSUME NEW s \in Positions(records), JudgedAt(s), SameAt(p, s), s # q
        PROVE  FALSE
    <3>1. SameAt(q, s)
      BY <2>1, <2>2, <2>5, <2>7
    <3>2. ~Precedes(q, s)
      BY <2>3, <2>5, <2>7, <3>1 DEF Shadowed, SameAt
    <3>3. ~Precedes(s, q)
      BY <2>5, <2>7
    <3>4. QED
      BY <1>1, <2>5, <2>7, <3>2, <3>3, PositionsOrdered DEF Reported
  <2>8. QED
    BY <2>5, <2>6, <2>7
<1>2. QED
  BY <1>1, ReportedHolds, PTL

(* Whatever the change: what a later report holds changes nothing for the  *)
(* findings read before it.                                                *)
THEOREM EarlierDispositionsStand == ReportSpec => LaterReportsChangeNothing
<1>1. ASSUME Reported, Reported', SomethingReported,
             NEW p \in Positions(records),
             \A q \in Positions(records') \ Positions(records) : Precedes(p, q)
      PROVE  Disposition(records', ChangedPaths, p) = Disposition(records, ChangedPaths, p)
  <2>1. ASSUME NEW q \in Positions(records)
        PROVE  q \in Positions(records') /\ FindingAt(records', q) = FindingAt(records, q)
    <3>1. PICK a \in Reviewers, j \in Nat : j \in 1..Len(records[a]) /\ q = <<a, j>>
      BY <1>1, PositionMembers DEF Reported
    <3>2. PICK b \in Reviewers, f \in Pool : records' = [records EXCEPT ![b] = Append(@, f)]
      BY <1>1 DEF SomethingReported, Report
    <3>3. j \in 1..Len(records'[a]) /\ records'[a][j] = records[a][j]
      <4>1. CASE a = b
        BY <1>1, <3>1, <3>2, <4>1 DEF Reported
      <4>2. CASE a # b
        BY <1>1, <3>1, <3>2, <4>2 DEF Reported
      <4>3. QED
        BY <4>1, <4>2
    <3>4. QED
      BY <1>1, <3>1, <3>3, PositionMembers DEF Reported, FindingAt
  <2>2. ASSUME NEW q \in Positions(records') \ Positions(records)
        PROVE  ~Precedes(q, p)
    BY <1>1, <2>1, <2>2, PositionsOrdered DEF Reported
  <2>3. Shadowed(records', p) <=> Shadowed(records, p)
    BY <1>1, <2>1, <2>2 DEF Shadowed
  <2>4. QED
    BY <1>1, <2>1, <2>3, DispositionOf
<1>2. Reported /\ Reported' /\ [SomethingReported]_records =>
        [\A p \in Positions(records) :
           (\A q \in Positions(records') \ Positions(records) : Precedes(p, q)) =>
             Disposition(records', ChangedPaths, p) = Disposition(records, ChangedPaths, p)]_records
  BY <1>1
<1>3. QED
  BY <1>2, ReportedHolds, PTL DEF ReportSpec, LaterReportsChangeNothing
=================================================================================
