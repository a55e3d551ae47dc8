----------------------------- MODULE MCAdjudication -----------------------------
(* The two reviewers of a medium plan to whom every lens applies that hold     *)
(* behavior and tests, with findings that agree or differ in each field the    *)
(* fingerprint, the grounds and the scope read.                                *)
EXTENDS Adjudication

EveryLensAtMediumRisk ==
  [flags |-> {"code", "docs", "generated", "interface", "state", "type", "removal",
              "layering", "comment", "policyFiles"}, size |-> "small"]

OnePath == {"a"}

Finding(lens, path, grounded, cause) ==
  [lens |-> lens, path |-> path, line |-> 1, concern |-> "c", severity |-> "medium",
   cause |-> cause, grounded |-> grounded]

FewFindings ==
  UNION {{Finding(l, "a", TRUE, "introduced"), Finding(l, "a", FALSE, "introduced"),
          Finding(l, "b", TRUE, "introduced"), Finding(l, "b", TRUE, "missingOrStale")} :
         l \in {"behavior", "tests"}} \cup
  {[Finding("tests", "a", TRUE, "introduced") EXCEPT !.concern = "d"],
   [Finding("tests", "a", TRUE, "introduced") EXCEPT !.line = 2]}
===============================================================================
