------------------------------ MODULE Adjudication ------------------------------
(***************************************************************************)
(* adjudicateFindings over every way the reviewers of a change can report  *)
(* findings that agree or differ in concern, grounds and scope.  A step    *)
(* appends one finding to one report; a report only holds findings of its  *)
(* assignment's lenses (parseReviewResponse).                              *)
(***************************************************************************)
EXTENDS ReviewPolicy

CONSTANTS
  Change,        \* the signals of the change under review
  ChangedPaths,  \* and its paths
  Pool,          \* the findings there are to report
  MaxReport      \* bound: findings per report

ASSUME AdjudicationAssumption == Change \in Signals /\ MaxReport \in Nat

VARIABLE records

Reviewers == BuildReviewPlan(Change).assignments

NothingReported == records = [a \in Reviewers |-> <<>>]

Report(a, f) ==
  /\ Len(records[a]) < MaxReport
  /\ f.lens \in a.lenses
  /\ records' = [records EXCEPT ![a] = Append(@, f)]

SomethingReported == \E a \in Reviewers, f \in Pool : Report(a, f)

ReportSpec == NothingReported /\ [][SomethingReported]_records

-------------------------------------------------------------------------------
Supported(f) == f.grounded /\ InScope(f, ChangedPaths)

SameConcern(f, g) ==
  f.lens = g.lens /\ f.path = g.path /\ f.line = g.line /\ f.concern = g.concern

AcceptedAt(p) == Disposition(records, ChangedPaths, p) = "accepted"

\* The report at p is not taken for a duplicate.
JudgedAt(p) == Disposition(records, ChangedPaths, p) # "rejected"

SameAt(p, q) == SameConcern(FindingAt(records, p), FindingAt(records, q))

(* However often, by whomever and with whatever grounds one concern of one   *)
(* lens at one place is reported, exactly one of its reports is judged: they *)
(* never all count as duplicates of each other, reports that differ are not  *)
(* taken for duplicates, and one cycle never accepts a concern twice, which  *)
(* would count as a repetition.                                              *)
OneOfEachConcernIsJudged ==
  \A p \in Positions(records) :
    \E q \in Positions(records) :
      /\ JudgedAt(q) /\ SameAt(p, q)
      /\ \A r \in Positions(records) : JudgedAt(r) /\ SameAt(p, r) => r = q

(* Adjudication appends: a report read after a finding never changes what    *)
(* became of that finding.                                                   *)
LaterReportsChangeNothing ==
  [][\A p \in Positions(records) :
       (\A q \in Positions(records') \ Positions(records) : Precedes(p, q)) =>
         Disposition(records', ChangedPaths, p) = Disposition(records, ChangedPaths, p)
    ]_records

(* A supported finding in scope is accepted, in its own report or in another *)
(* one of the same concern.                                                  *)
SupportedIsAccepted ==
  \A p \in Positions(records) :
    Supported(FindingAt(records, p)) =>
      \E q \in Positions(records) : AcceptedAt(q) /\ SameAt(p, q)
===============================================================================
