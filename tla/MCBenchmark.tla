------------------------------ MODULE MCBenchmark ------------------------------
(* Two command lines at one runs directory: both may run the pair or the       *)
(* workflow of one case, whose coordinator is replaced half way.               *)
EXTENDS Benchmark, TLC

CONSTANTS p1, p2, c1, b1, b2

PairOrWorkflow == {<<{c1}, Coordinated>>, <<{c1}, {"workflow-garfield"}>>}

Symmetry == Permutations({p1, p2}) \cup Permutations({b1, b2})

=================================================================================
