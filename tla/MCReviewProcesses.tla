---------------------------- MODULE MCReviewProcesses ----------------------------
(* The three reviewers of a change of medium risk, in batches of two. *)
EXTENDS ReviewProcesses

MediumChange == [flags |-> {"code", "interface", "contract"}, size |-> "small"]

Reviewers == BuildReviewPlan(MediumChange).assignments
================================================================================
