---------------------------- MODULE ExecutionStream ----------------------------
(***************************************************************************)
(* What execute() promises to whoever reads its stream, and all that the   *)
(* lambda subsystem relies on: the stream ends, and until then it tells at *)
(* most one outcome, which may be missing.                                 *)
(***************************************************************************)

CONSTANT Executions

VARIABLES
  phase,    \* per execution: not polled yet, open, ended, or dropped by its reader
  outcome   \* per execution, the outcome told so far

stream == <<phase, outcome>>

-----------------------------------------------------------------------------

Init ==
  /\ phase = [e \in Executions |-> "new"]
  /\ outcome = [e \in Executions |-> "none"]

Open(e) ==
  /\ phase[e] = "new"
  /\ phase' = [phase EXCEPT ![e] = "open"]
  /\ UNCHANGED outcome

\* The code returns or throws, while its console calls may still be to come.
Tell(e) ==
  /\ phase[e] = "open" /\ outcome[e] = "none"
  /\ \E told \in {"returned", "error"} : outcome' = [outcome EXCEPT ![e] = told]
  /\ UNCHANGED phase

\* The end, possibly with an error as the last word and possibly with no
\* outcome told.
Close(e) ==
  /\ phase[e] = "open"
  /\ phase' = [phase EXCEPT ![e] = "ended"]
  /\ \/ UNCHANGED outcome
     \/ outcome[e] = "none" /\ outcome' = [outcome EXCEPT ![e] = "error"]

\* A reader drops its stream; the end of its process drops them all at once.
Drop(S) ==
  /\ S # {} /\ \A e \in S : phase[e] = "open"
  /\ phase' = [e \in Executions |-> IF e \in S THEN "dropped" ELSE phase[e]]
  /\ UNCHANGED outcome

Next ==
  \/ \E e \in Executions : Open(e) \/ Tell(e) \/ Close(e)
  \/ \E S \in SUBSET Executions : Drop(S)

Spec == Init /\ [][Next]_stream

FairSpec == Spec /\ \A e \in Executions : WF_stream(Close(e))

===============================================================================
