----------------------------- MODULE MCLambdaStart -----------------------------
(* Instances of LambdaStart for TLC. *)
EXTENDS LambdaStart
===============================================================================
