----------------------------- MODULE MCReporter -----------------------------
(* The controller and its collector client for TLC: metrics are            *)
(* interchangeable.                                                        *)
EXTENDS Reporter, TLC

Symmetry == Permutations(Metric)

=============================================================================
