----------------------------- MODULE ScriptStore -----------------------------
(***************************************************************************)
(* The calls of the JsExec activation that execute code or keep scripts:   *)
(* store, execute_script, delete_script and list_scripts over the map      *)
(* behind its lock; and execute, eval, execute_with_modules and their      *)
(* like, which bundle libraries or a file first.                           *)
(*                                                                         *)
(* Every call is a stream that does nothing until it is polled.  An        *)
(* operation on the map holds the lock for itself alone, so a call may be  *)
(* overtaken, or dropped by its caller, before it; and between what it did *)
(* to the map and telling it, others may see the map.                      *)
(***************************************************************************)
EXTENDS Naturals, FiniteSets

CONSTANTS
  Calls,      \* calls of the activation, each with a stream of its own
  ScriptIds,  \* the UUIDs that ScriptId::new can draw
  Codes,      \* JavaScript sources
  None        \* no code; as an id, one that was never drawn

ASSUME NoneIsNew == None \notin ScriptIds \cup Codes

VARIABLES
  scripts,  \* ScriptStore.scripts: a set of [id, code]
  used,     \* the ids drawn so far
  phase, outcome,  \* ExecutionStream: the runner's streams
  req       \* per call, where it stands and its locals

Runner == INSTANCE ExecutionStream WITH Executions <- Calls

stream == <<phase, outcome>>
vars == <<scripts, used, phase, outcome, req>>

-----------------------------------------------------------------------------
(* Calls *)

Stored == [id : ScriptIds, code : Codes]

\* execute stands for all methods that are given the code: execute_with_modules, eval,
\* run, evaluate, run_with_modules, run_file.
Methods == {"store", "execute_script", "delete_script", "list_scripts", "execute"}

\* What the last event of a call said, of the events that are its own and not
\* the runner's; "forwarded" is the end of the runner's stream.
Answers == {"none", "stored", "deleted", "listed", "not_found", "not_prepared", "forwarded"}

\* id and code: of the script, once known.  listed: what list_scripts found.
\* stored and deleted: the ids of which that was told before the call began.
Request ==
  [ pc : {"idle", "act", "tell", "run", "done", "gone"}, method : Methods,
    id : ScriptIds \cup {None}, code : Codes \cup {None}, listed : SUBSET ScriptIds,
    stored : SUBSET ScriptIds, deleted : SUBSET ScriptIds, answer : Answers ]

IdleRequest ==
  [ pc |-> "idle", method |-> "execute", id |-> None, code |-> None, listed |-> {},
    stored |-> {}, deleted |-> {}, answer |-> "none" ]

At(c, pc) == req[c].pc = pc
On(c, method) == At(c, "act") /\ req[c].method = method
Answered(c, answer) == req[c].answer = answer

Ids == {s.id : s \in scripts}
ToldOf(answer) == {req[c].id : c \in {d \in Calls : Answered(d, answer)}}
Listed == UNION {req[c].listed : c \in {d \in Calls : Answered(d, "listed")}}

Answer(c, answer) == req' = [req EXCEPT ![c].pc = "done", ![c].answer = answer]

-----------------------------------------------------------------------------
(* Begin, and the scripts *)

\* Bound: every store finds an id not drawn before.
RoomToStore ==
  Cardinality({c \in Calls : req[c].method = "store"}) < Cardinality(ScriptIds)

\* The first poll.  An id comes from a ScriptStored event or a list, or is wrong.
Begin(c) ==
  /\ At(c, "idle")
  /\ \E method \in Methods, id \in ToldOf("stored") \cup Listed \cup {None}, code \in Codes \cup {None} :
       /\ method = "store" => RoomToStore
       /\ code # None <=> method \in {"store", "execute"}
       /\ id # None => method \in {"execute_script", "delete_script"}
       /\ req' = [req EXCEPT ![c] =
            [IdleRequest EXCEPT !.pc = "act", !.method = method, !.id = id, !.code = code,
               !.stored = ToldOf("stored"), !.deleted = ToldOf("deleted")]]
  /\ UNCHANGED <<scripts, used, stream>>

Put(c, id) ==
  /\ scripts' = {s \in scripts : s.id # id} \cup {[id |-> id, code |-> req[c].code]}
  /\ used' = used \cup {id}
  /\ req' = [req EXCEPT ![c].pc = "tell", ![c].id = id]

\* Mutant: ids repeat, as with an id made from the name of the script.
StoreRepeated(c) ==
  /\ On(c, "store")
  /\ \E id \in ScriptIds : Put(c, id)
  /\ UNCHANGED stream

Store(c) ==
  /\ On(c, "store")
  /\ \E id \in ScriptIds \ used : Put(c, id)
  /\ UNCHANGED stream

\* Mutants: the code is not loaded; the return after the error is missing.
LoadNothing(c) ==
  /\ On(c, "execute_script")
  /\ \/ req[c].id \notin Ids /\ Answer(c, "not_found")
     \/ req[c].id \in Ids /\ req' = [req EXCEPT ![c].pc = "run"]
  /\ UNCHANGED <<scripts, used, stream>>

LoadGoesOn(c) ==
  /\ On(c, "execute_script")
  /\ \/ /\ req[c].id \notin Ids
        /\ req' = [req EXCEPT ![c].pc = "run", ![c].answer = "not_found"]
     \/ \E s \in scripts :
          s.id = req[c].id /\ req' = [req EXCEPT ![c].pc = "run", ![c].code = s.code]
  /\ UNCHANGED <<scripts, used, stream>>

\* execute_script takes a clone: what becomes of the script is of no concern to the run.
Load(c) ==
  /\ On(c, "execute_script")
  /\ \/ req[c].id \notin Ids /\ Answer(c, "not_found")
     \/ \E s \in scripts :
          s.id = req[c].id /\ req' = [req EXCEPT ![c].pc = "run", ![c].code = s.code]
  /\ UNCHANGED <<scripts, used, stream>>

\* Mutant: the script is looked up, not removed.
DeleteKept(c) ==
  /\ On(c, "delete_script")
  /\ \/ req[c].id \notin Ids /\ Answer(c, "not_found")
     \/ req[c].id \in Ids /\ req' = [req EXCEPT ![c].pc = "tell"]
  /\ UNCHANGED <<scripts, used, stream>>

Delete(c) ==
  /\ On(c, "delete_script")
  /\ scripts' = {s \in scripts : s.id # req[c].id}
  /\ \/ req[c].id \notin Ids /\ Answer(c, "not_found")
     \/ req[c].id \in Ids /\ req' = [req EXCEPT ![c].pc = "tell"]
  /\ UNCHANGED <<used, stream>>

List(c) ==
  /\ On(c, "list_scripts")
  /\ req' = [req EXCEPT ![c].pc = "tell", ![c].listed = Ids]
  /\ UNCHANGED <<scripts, used, stream>>

\* The event, or the events of a list, after the lock is released.
Tell(c) ==
  /\ At(c, "tell")
  /\ \/ req[c].method = "store" /\ Answer(c, "stored")
     \/ req[c].method = "delete_script" /\ Answer(c, "deleted")
     \/ req[c].method = "list_scripts" /\ Answer(c, "listed")
  /\ UNCHANGED <<scripts, used, stream>>

-----------------------------------------------------------------------------
(* Executing code *)

\* bundle_all_libraries, or reading, checking and bundling the file of run_file; each
\* has its own error, after which the call returns.
Prepare(c) ==
  /\ On(c, "execute")
  /\ \/ req' = [req EXCEPT ![c].pc = "run"]
     \/ Answer(c, "not_prepared")
  /\ UNCHANGED <<scripts, used, stream>>

Execute(c) ==
  /\ At(c, "run")
  /\ Runner!Open(c)
  /\ UNCHANGED <<scripts, used, req>>

Forward(c) ==
  /\ At(c, "run")
  /\ Runner!Tell(c)
  /\ UNCHANGED <<scripts, used, req>>

\* The runner's stream is over, and with it the call's.
ForwardEnd(c) ==
  /\ At(c, "run")
  /\ Runner!Close(c)
  /\ Answer(c, "forwarded")
  /\ UNCHANGED <<scripts, used>>

\* The caller drops the stream at an await: while it waits for the lock, for the
\* bundler, for the next of a list or for the runner, whose stream goes with it.
Drop(c) ==
  /\ \/ At(c, "act") /\ UNCHANGED stream
     \/ At(c, "tell") /\ req[c].method = "list_scripts" /\ UNCHANGED stream
     \/ At(c, "run") /\ Runner!Drop({c})
  /\ req' = [req EXCEPT ![c].pc = "gone"]
  /\ UNCHANGED <<scripts, used>>

-----------------------------------------------------------------------------

Init ==
  /\ scripts = {} /\ used = {}
  /\ Runner!Init
  /\ req = [c \in Calls |-> IdleRequest]

\* The steps of a call that wait for the lock at most.
Step(c) == Store(c) \/ Load(c) \/ Delete(c) \/ List(c) \/ Tell(c) \/ Execute(c)

Next ==
  \E c \in Calls :
    Begin(c) \/ Step(c) \/ Prepare(c) \/ Forward(c) \/ ForwardEnd(c) \/ Drop(c)

Spec == Init /\ [][Next]_vars

-----------------------------------------------------------------------------
(* Properties *)

TypeOK ==
  /\ scripts \subseteq Stored
  /\ used \subseteq ScriptIds
  /\ phase \in [Calls -> {"new", "open", "ended", "dropped"}]
  /\ outcome \in [Calls -> {"none", "returned", "error"}]
  /\ req \in [Calls -> Request]
  /\ \A c \in Calls : At(c, "run") => req[c].code \in Codes

Removed(c, id) ==
  /\ req[c].method = "delete_script" /\ req[c].id = id
  /\ At(c, "tell") \/ Answered(c, "deleted")

\* A script is reported deleted by one call only, however its deletions race: to
\* two that both were told so, one of them has deleted nothing.
DeletedOnce ==
  \A c, d \in Calls : \A id \in ScriptIds : Removed(c, id) /\ Removed(d, id) => c = d

\* A stored script that the call did not find was removed; one that was reported
\* deleted before the call began is neither run nor listed.
FoundInTime ==
  \A c \in Calls :
    /\ Answered(c, "not_found") /\ req[c].id \in req[c].stored =>
         \E d \in Calls : Removed(d, req[c].id)
    /\ req[c].method = "execute_script" /\ req[c].code # None => req[c].id \notin req[c].deleted
    /\ req[c].method = "list_scripts" /\ (At(c, "tell") \/ At(c, "done")) =>
         /\ req[c].listed \cap req[c].deleted = {}
         /\ \A id \in req[c].stored \ req[c].listed : \E d \in Calls : Removed(d, id)

\* execute_script runs the code that was stored under the id, whatever was stored or
\* deleted since it was loaded.
RunsStored ==
  \A c, d \in Calls :
    /\ req[c].method = "execute_script" /\ req[c].code # None
    /\ req[d].method = "store" /\ req[d].id = req[c].id
    => req[c].code = req[d].code

\* What makes these inductive.  A call's fields follow from where it stands.
Shape ==
  \A c \in Calls :
    /\ At(c, "idle") => req[c] = IdleRequest
    /\ At(c, "act") =>
         /\ req[c].method \in {"store", "execute"} => req[c].code \in Codes
         /\ req[c].method \in {"store", "list_scripts"} => req[c].id = None
         /\ req[c].method = "execute_script" => req[c].code = None
    /\ At(c, "tell") =>
         /\ req[c].method \in {"store", "delete_script", "list_scripts"}
         /\ req[c].method \in {"store", "delete_script"} => req[c].id \in ScriptIds
    /\ At(c, "run") => req[c].method \in {"execute_script", "execute"}
    /\ req[c].method = "execute_script" /\ req[c].code # None => req[c].id \in ScriptIds
    /\ ~Answered(c, "none") => At(c, "done")
    /\ Answered(c, "stored") => req[c].method = "store" /\ req[c].id \in ScriptIds
    /\ Answered(c, "deleted") => req[c].method = "delete_script" /\ req[c].id \in ScriptIds

\* The runner's stream of a call stands where the call stands.
RunnerShape ==
  \A c \in Calls :
    /\ phase[c] = "new" => outcome[c] = "none"
    /\ phase[c] # "new" => req[c].method \in {"execute_script", "execute"}
    /\ phase[c] = "open" => At(c, "run")
    /\ At(c, "run") => phase[c] \in {"new", "open"}
    /\ phase[c] # "new" => At(c, "run") \/ At(c, "gone") \/ Answered(c, "forwarded")

\* Every id in sight was drawn.
UsedIds ==
  /\ Ids \subseteq used
  /\ \A c \in Calls :
       /\ req[c].id # None => req[c].id \in used
       /\ req[c].listed \cup req[c].stored \cup req[c].deleted \subseteq used

\* A drawn id is in the map or one call removed it.
Accounted ==
  \A id \in used : id \in Ids \/ \E c \in Calls : Removed(c, id)

RemovedIsGone ==
  \A c \in Calls : \A id \in Ids : ~Removed(c, id)

DeletedWasRemoved ==
  \A c \in Calls : \A id \in req[c].deleted : \E d \in Calls : Removed(d, id)

CodeAsStored ==
  \A s \in scripts : \A d \in Calls :
    req[d].method = "store" /\ req[d].id = s.id => req[d].code = s.code

IInv ==
  /\ TypeOK /\ Shape /\ RunnerShape /\ UsedIds /\ Accounted /\ RemovedIsGone
  /\ DeletedWasRemoved /\ CodeAsStored /\ DeletedOnce /\ FoundInTime /\ RunsStored

\* The stream of a call that executes code, with the errors of its own before the runner's.
Executing(c) == req[c].method \in {"execute", "execute_script"}

CallPhase(c) ==
  CASE ~Executing(c) \/ At(c, "idle") -> "new"
    [] Executing(c) /\ At(c, "done") -> "ended"
    [] Executing(c) /\ At(c, "gone") -> "dropped"
    [] OTHER -> "open"

CallOutcome(c) ==
  IF outcome[c] = "none" /\ Executing(c) /\ req[c].answer \in {"not_found", "not_prepared"}
  THEN "error" ELSE outcome[c]

CallStream == INSTANCE ExecutionStream WITH
  Executions <- Calls,
  phase <- [c \in Calls |-> CallPhase(c)],
  outcome <- [c \in Calls |-> CallOutcome(c)]

\* What the runner's stream promises holds of the call's stream too: bundling and
\* the script store add an error that is the only outcome and the end, or nothing.
ImplementsStream == CallStream!Spec

===============================================================================
