------------------------------ MODULE ReviewBatches ------------------------------
(***************************************************************************)
(* How the assignments of a review are split into batches, and what a      *)
(* whole review comes to, given how each reviewer ends: runReviewAssign-   *)
(* ments of garfield.ts as a function.  ReviewProcesses has its steps.     *)
(***************************************************************************)
EXTENDS ReviewPolicy

CONSTANT MaxConcurrentReviewers

\* Batches of at most maxConcurrentReviewers run one after the other.
BatchOf(a, as) == Cardinality(Ahead(a, as)) \div MaxConcurrentReviewers

\* An outcome says of each assignment how its reviewer ends: "clear" (with a
\* review), "malformed" (with something else), "failed" (its process did not
\* succeed) or "error" (it could not be completed).  The answers of a batch are
\* all read, and the batch after one with a failure does not start.
Processed(as, outcome) ==
  {a \in as : \A b \in as :
     BatchOf(b, as) < BatchOf(a, as) => outcome[b].kind = "clear"}

WithKind(as, outcome, kinds) == {a \in as : outcome[a].kind \in kinds}

\* The processes that are counted, though all are charged: an error leaves none.
Counted(as, outcome) ==
  WithKind(Processed(as, outcome), outcome, {"clear", "failed", "malformed"})

\* The assignment the review fails of, if it fails: the first in their order.
FirstFailure(as, outcome) ==
  {a \in Processed(as, outcome) :
     outcome[a].kind # "clear" /\ \A b \in Ahead(a, as) : outcome[b].kind = "clear"}

\* An abort that a review survives comes when the last process has ended, and
\* finds a reviewer of the last batch that answered and whose schema file is
\* being removed.
LateAbortMissed(as, outcome) ==
  \E a \in Processed(as, outcome) :
    /\ outcome[a].kind # "error"
    /\ \A b \in Processed(as, outcome) : BatchOf(b, as) <= BatchOf(a, as)
==================================================================================
