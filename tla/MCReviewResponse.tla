---------------------------- MODULE MCReviewResponse ----------------------------
(* Every change is planned; a simple, a medium and a complex one are reviewed. *)
(* Beside the plain answers, reviewers give those that differ from some plain  *)
(* one in a single check and hold at most one finding: they leave out, add or  *)
(* mark a check, or answer for another assignment.                             *)
EXTENDS ReviewResponse

SimpleChange  == [flags |-> {"code", "state", "layering"}, size |-> "small"]
MediumChange  == [flags |-> {"code", "interface", "contract"}, size |-> "small"]
ComplexChange == [flags |-> {"code", "generated", "state"}, size |-> "large"]

ThreeChanges == {SimpleChange, MediumChange, ComplexChange}

\* A validation repair, one for a finding, and one for a lens that may be gone.
FewRepairs == {{}, {"minimalism"}, {"interfaces"}}

AskedFor ==
  UNION {LET p == BuildReviewPlan(s) IN p.assignments \cup {VerificationAssignment(p)} :
         s \in ThreeChanges}

NearlyPlain ==
  {[Plain(a) EXCEPT !.status[c] = s, !.findings = f] :
     a \in AskedFor, s \in Status,
     c \in {"compatibility", "failureBehavior", "implementationMinimalism", "documentation"},
     f \in {{}, {"behavior"}, {"minimalism"}, {"interfaces"}}}
================================================================================
