----------------------------- MODULE ReviewPlanning -----------------------------
(***************************************************************************)
(* The plans buildReviewPlan makes while a change evolves: each step adds  *)
(* or removes one signal of the diff, or moves it across a size threshold. *)
(* Every combination of signals is reachable.                              *)
(***************************************************************************)
EXTENDS ReviewPolicy

VARIABLE sig

Init == sig = [flags |-> {}, size |-> "small"]

\* The smallest edit that gains or loses the signal f; a type signal comes and
\* goes with changed code.
Toggle(f) ==
  sig' = [sig EXCEPT !.flags =
            IF f \in @ THEN @ \ (IF f = "code" THEN {"code", "type"} ELSE {f})
            ELSE @ \cup (IF f = "type" THEN {"code", "type"} ELSE {f})]

Resize(s) == s # sig.size /\ sig' = [sig EXCEPT !.size = s]

Next == (\E f \in Flag : Toggle(f)) \/ (\E s \in Size : Resize(s))

Spec == Init /\ [][Next]_sig

TypeOK == sig \in Signals

plan == BuildReviewPlan(sig)

-------------------------------------------------------------------------------
(* Every applicable lens is read by exactly one reviewer of the first        *)
(* cycle, none reads a lens that does not apply, and no two share a name.    *)
LensesPartitioned ==
  /\ \A l \in plan.applicable :
       \E a \in plan.assignments :
         /\ l \in a.lenses
         /\ \A b \in plan.assignments : l \in b.lenses => b = a
  /\ \A a \in plan.assignments : a.lenses # {} /\ a.lenses \subseteq plan.applicable
  /\ \A a, b \in plan.assignments : a.name = b.name => a = b

(* The filter of a later cycle keeps a reviewer of behavior, one of          *)
(* validation and one of the lens a repair was for, if it still applies: the *)
(* fallback to every assignment is never needed.  Lenses that apply only     *)
(* since the repair are not among those it was for, and the filter may leave *)
(* them out.                                                                 *)
LaterCyclesCoverTheRepair ==
  \A l \in ReviewLens :
    \A m \in {"behavior", "validation"} \cup ({l} \cap plan.applicable) :
      \E a \in AffectedAssignments(plan, {l}) : m \in a.lenses

(* A change that must be verified is never left to one pair of eyes: its     *)
(* behavior and its validation are read by different reviewers, and the      *)
(* final advisor reads both again.                                           *)
VerifiedPlansAreSplit ==
  plan.requiresVerification =>
    /\ \A a \in plan.assignments : ~({"behavior", "validation"} \subseteq a.lenses)
    /\ {"behavior", "validation"} \subseteq VerificationAssignment(plan).lenses

(* A plan satisfies ReviewPlanSchema (1 to 8 assignments), and the default   *)
(* maxReviewCalls of 16 pays for two full cycles of it, advisor included, so *)
(* a first repair can always be reviewed.                                    *)
TwoCyclesFitDefaultBudget ==
  LET reviewers == Cardinality(plan.assignments) IN
  /\ reviewers \in 1..8
  /\ 2 * (reviewers + (IF plan.requiresVerification THEN 1 ELSE 0)) <= 16
===============================================================================
