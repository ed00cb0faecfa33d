-------------------------- MODULE MCLambdaInvocation --------------------------
(* Instances of LambdaInvocation for TLC. *)
EXTENDS LambdaInvocation
===============================================================================
