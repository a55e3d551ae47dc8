--------------------------- MODULE MCAppServerSession ---------------------------
(* Two subagents that are alike. *)
EXTENDS AppServerSession, TLC

CONSTANTS child, other

Symmetry == Permutations({child, other})
================================================================================
