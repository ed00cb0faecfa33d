-------------------------- MODULE MCInvocationMetrics --------------------------
(* Instances of InvocationMetrics for TLC. *)
EXTENDS InvocationMetrics, TLC

\* Ids are compared for equality and nothing else.
Symmetry == Permutations(Invocations) \cup Permutations(Functions)
===============================================================================
