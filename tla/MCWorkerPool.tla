----------------------------- MODULE MCWorkerPool -----------------------------
(* An instance of WorkerPool for TLC: worker 2 finds its port taken. *)
EXTENDS WorkerPool

MCOccupied == {2}
===============================================================================
