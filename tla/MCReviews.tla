------------------------------- MODULE MCReviews -------------------------------
(* The reviewers of changes, in two parts that share no step: what they answer *)
(* about a change that evolves, and what becomes of all they may report about  *)
(* a fixed one.                                                                *)
EXTENDS MCReviewResponse, MCAdjudication

vars == <<cycleVars, records>>

ReviewsInit == CycleInit /\ NothingReported

ReviewsNext ==
  \/ CycleNext /\ NothingReported /\ UNCHANGED records
  \/ SomethingReported /\ CycleInit /\ UNCHANGED cycleVars

ReviewsSpec == ReviewsInit /\ [][ReviewsNext]_vars
================================================================================
