-------------------------- MODULE MCEphemeralRunner --------------------------
(* Instances of EphemeralRunner for TLC: one server process or two. *)
EXTENDS EphemeralRunner, TLC

CONSTANTS x1, x2, h1, h2

OneHost == x1 :> h1 @@ x2 :> h1
TwoHosts == x1 :> h1 @@ x2 :> h2
===============================================================================
