------------------------------- MODULE RunArchive -------------------------------
(***************************************************************************)
(* What the benchmark promises of the runs a report is made from: a run    *)
(* appears once, as a whole, and never changes afterwards; which records   *)
(* are sound is given by the specification that implements this one.       *)
(***************************************************************************)
CONSTANTS Runs, Records, None

VARIABLE archive

Init == archive = [r \in Runs |-> None]

Publish(r) ==
  /\ archive[r] = None
  /\ archive'[r] \in Records
  /\ archive' = [archive EXCEPT ![r] = archive'[r]]

Next == \E r \in Runs : Publish(r)

Spec == Init /\ [][Next]_archive
=================================================================================
