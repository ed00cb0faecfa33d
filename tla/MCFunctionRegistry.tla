-------------------------- MODULE MCFunctionRegistry --------------------------
(* Instances of FunctionRegistry for TLC. *)
EXTENDS FunctionRegistry, TLC

\* Ids are compared for equality only, and so are the clients.
Symmetry == Permutations(FunctionIds) \cup Permutations(Clients)
===============================================================================
