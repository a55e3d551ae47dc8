------------------------------- MODULE Calibration -------------------------------
(***************************************************************************)
(* calibrate_events of benchmarking/src/garfield_bench/telemetry.py, the   *)
(* part that both collectors share: the rows of one parent and one child   *)
(* must add up to a ledger kept by somebody else.                          *)
(***************************************************************************)
EXTENDS Naturals

CONSTANT None

Roots(rows, parent) == {t \in rows : parent[t] = None}

Children(rows, parent) == rows \ Roots(rows, parent)

\* Exactly one of each.
OneOfEach(rows, parent) ==
  \E root, child \in rows :
    Roots(rows, parent) = {root} /\ Children(rows, parent) = {child}

\* The rows with what each counted, against the ledger.
Reconciled(rows, parent, counted, ledger) ==
  \E root, child \in rows :
    /\ Roots(rows, parent) = {root} /\ Children(rows, parent) = {child}
    /\ parent[child] = root
    /\ ledger # None
    /\ counted[root] + counted[child] = ledger
================================================================================
