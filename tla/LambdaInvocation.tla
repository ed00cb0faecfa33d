--------------------------- MODULE LambdaInvocation ---------------------------
(***************************************************************************)
(* Invoking a function: FunctionInvoker (requests answered by one response *)
(* and recorded in the table invocations) and LambdaExec::invoke (requests *)
(* answered by a stream of events), on top of the registry and of the      *)
(* runner's execution stream.                                              *)
(*                                                                         *)
(* An invocation reads the registry statement by statement while other     *)
(* calls update, publish, repoint and delete; its code then runs for as    *)
(* long as it likes; only after that does it write its record.             *)
(***************************************************************************)
EXTENDS FunctionRegistry

CONSTANT Invocations  \* invocations, each with an InvocationId of its own

ASSUME InvocationAssumption == None \notin FunctionIds

VARIABLES
  phase, outcome,  \* ExecutionStream
  metrics,   \* config.enable_metrics
  inv,       \* per invocation, where it stands and its locals
  records    \* table invocations

Stream == INSTANCE ExecutionStream WITH Executions <- Invocations

registry == vars
stream == <<phase, outcome>>
invocationVars == <<registry, stream, metrics, inv, records>>

-----------------------------------------------------------------------------
(* Requests and answers *)

\* LambdaExec::invoke parses the same three kinds and then makes no use of what
\* it parsed: its requests are all treated alike, and stand here under the first.
Kinds == {"RequestResponse", "Event", "DryRun"}
Apis == {"invoker", "exec"}

\* What the caller got: nothing yet; a LambdaError; a dry run's response; an
\* Event's response; a response or completion that tells a result, an error, or
\* neither of them.
Answers == {"none", "refused", "valid", "accepted", "success", "failure", "silent"}

Invocation ==
  [ pc : {"idle", "get_alias", "get_version", "get_function", "run", "record", "done", "gone"},
    api : Apis, kind : Kinds, alias : Aliases \cup {None}, id : FunctionIds \cup {None},
    version : Nat, config : Config \cup {None}, answer : Answers ]

IdleInvocation ==
  [ pc |-> "idle", api |-> "invoker", kind |-> "RequestResponse", alias |-> None, id |-> None,
    version |-> 0, config |-> None, answer |-> "none" ]

Record == [inv : Invocations, id : FunctionIds, version : Nat, success : BOOLEAN]

Stands(v, pc) == inv[v].pc = pc
\* Done: it ran its course.  Gone: its future was dropped before.
InFlight(v) == inv[v].pc \notin {"idle", "done", "gone"}

\* An Event's task goes on after its caller was answered.
Background(v) == inv[v].answer = "accepted"

Refuse(v) == inv' = [inv EXCEPT ![v].pc = "done", ![v].answer = "refused"]

\* The response of an Event is on its way before its task starts to run; a dry
\* run has got this far and is over.
Dispatch(v, i) ==
  inv' = [inv EXCEPT ![v] =
    CASE i.api = "exec" \/ i.kind = "RequestResponse" -> [i EXCEPT !.pc = "run"]
      [] i.api = "invoker" /\ i.kind = "Event" -> [i EXCEPT !.pc = "run", !.answer = "accepted"]
      [] i.api = "invoker" /\ i.kind = "DryRun" -> [i EXCEPT !.pc = "done", !.answer = "valid"]]

-----------------------------------------------------------------------------
(* Resolving the reference and loading the function *)

\* get_function or get_function_by_name.
Invoke(v) ==
  /\ Stands(v, "idle")
  /\ \E api \in Apis, kind \in Kinds :
       /\ api = "exec" => kind = "RequestResponse"
       /\ \/ inv' = [inv EXCEPT ![v] =
               [IdleInvocation EXCEPT !.pc = "done", !.api = api, !.kind = kind, !.answer = "refused"]]
          \/ \E f \in functions :
               LET i == [IdleInvocation EXCEPT !.api = api, !.kind = kind, !.id = f.id]
               IN  \/ \E a \in Aliases :                      \* name:alias
                        inv' = [inv EXCEPT ![v] =
                          [i EXCEPT !.pc = "get_alias", !.alias = a,
                                    !.config = IF api = "exec" THEN f.config ELSE None]]
                   \/ IF api = "exec"                         \* name or id: $LATEST
                      THEN Dispatch(v, [i EXCEPT !.config = f.config])
                      ELSE inv' = [inv EXCEPT ![v] = [i EXCEPT !.pc = "get_function"]]
  /\ UNCHANGED <<registry, stream, metrics, records>>

GetAlias(v) ==
  /\ Stands(v, "get_alias")
  /\ \/ ~AliasExists(inv[v].id, inv[v].alias) /\ Refuse(v)
     \/ \E r \in aliases :
          /\ r.id = inv[v].id /\ r.alias = inv[v].alias
          /\ inv' = [inv EXCEPT ![v].pc = "get_version", ![v].version = r.version]
  /\ UNCHANGED <<registry, stream, metrics, records>>

\* The invoker takes the whole snapshot of the version; LambdaExec::invoke takes
\* its code and keeps what it read with the function before.
VersionConfig(i, r) ==
  IF i.api = "exec" THEN [code |-> r.config.code, handler |-> i.config.handler] ELSE r.config

GetVersion(v) ==
  /\ Stands(v, "get_version")
  /\ \/ ~VersionExists(inv[v].id, inv[v].version) /\ Refuse(v)
     \/ \E r \in versions :
          /\ r.id = inv[v].id /\ r.version = inv[v].version
          /\ LET i == [inv[v] EXCEPT !.config = VersionConfig(inv[v], r)]
             IN  IF i.api = "exec" THEN Dispatch(v, i)
                 ELSE inv' = [inv EXCEPT ![v] = [i EXCEPT !.pc = "get_function"]]
  /\ UNCHANGED <<registry, stream, metrics, records>>

\* Mutants: $LATEST is not loaded; a version runs with the configuration of $LATEST.
GetFunctionUnloaded(v) ==
  /\ Stands(v, "get_function")
  /\ \/ ~Exists(inv[v].id) /\ Refuse(v)
     \/ \E f \in functions : f.id = inv[v].id /\ Dispatch(v, inv[v])
  /\ UNCHANGED <<registry, stream, metrics, records>>

GetFunctionLatest(v) ==
  /\ Stands(v, "get_function")
  /\ \/ ~Exists(inv[v].id) /\ Refuse(v)
     \/ \E f \in functions : f.id = inv[v].id /\ Dispatch(v, [inv[v] EXCEPT !.config = f.config])
  /\ UNCHANGED <<registry, stream, metrics, records>>

\* The last read of the invoker: all of $LATEST, or the name to go with a version.
GetFunction(v) ==
  /\ Stands(v, "get_function")
  /\ \/ ~Exists(inv[v].id) /\ Refuse(v)
     \/ \E f \in functions :
          /\ f.id = inv[v].id
          /\ Dispatch(v, [inv[v] EXCEPT !.config = IF inv[v].version = 0 THEN f.config ELSE @])
  /\ UNCHANGED <<registry, stream, metrics, records>>

-----------------------------------------------------------------------------
(* Running the code *)

Execute(v) ==
  /\ Stands(v, "run")
  /\ Stream!Open(v)
  /\ UNCHANGED <<registry, metrics, inv, records>>

TellOutcome(v) == Stream!Tell(v) /\ UNCHANGED <<registry, metrics, inv, records>>

CloseStream(v) == Stream!Close(v) /\ UNCHANGED <<registry, metrics, inv, records>>

\* `success` starts out true and an Error event clears it: a stream that ends
\* without an outcome counts as a success.
Success(v) == outcome[v] # "error"

\* What the response tells: the result of the Result event, the error of the Error
\* event, or nothing of either, which then goes under the label of a success.
Verdict(v) ==
  CASE outcome[v] = "returned" -> "success"
    [] outcome[v] = "error" -> "failure"
    [] outcome[v] = "none" -> "silent"

\* The invocation is over; an Event's caller has had its answer.
Conclude(v, answer) ==
  inv' = [inv EXCEPT ![v].pc = "done", ![v].answer = IF @ = "accepted" THEN @ ELSE answer]

\* Mutant: the loop ends with the first outcome.
CollectEarly(v) ==
  /\ Stands(v, "run") /\ outcome[v] # "none"
  /\ IF inv[v].api = "invoker" /\ metrics
     THEN inv' = [inv EXCEPT ![v].pc = "record"]
     ELSE Conclude(v, Verdict(v))
  /\ UNCHANGED <<registry, stream, metrics, records>>

\* The stream has ended: the completion event, the response, or the record first.
Collect(v) ==
  /\ Stands(v, "run") /\ phase[v] = "ended"
  /\ IF inv[v].api = "invoker" /\ metrics
     THEN inv' = [inv EXCEPT ![v].pc = "record"]
     ELSE Conclude(v, Verdict(v))
  /\ UNCHANGED <<registry, stream, metrics, records>>

Row(v) == [inv |-> v, id |-> inv[v].id, version |-> inv[v].version, success |-> Success(v)]

\* Mutants: the error of the INSERT is dropped for both kinds; the INSERT is
\* tried again until it succeeds.
RecordInvocationUnchecked(v) ==
  /\ Stands(v, "record")
  /\ Conclude(v, Verdict(v))
  /\ UNCHANGED <<registry, stream, metrics, records>>

RecordInvocationRetry(v) ==
  /\ Stands(v, "record")
  /\ IF Exists(inv[v].id)
     THEN records' = records \cup {Row(v)} /\ Conclude(v, Verdict(v))
     ELSE UNCHANGED <<inv, records>>
  /\ UNCHANGED <<registry, stream, metrics>>

\* INSERT INTO invocations, rejected by the foreign key when the function is
\* gone.  An Event's task ignores that; a caller who waits gets the error in
\* place of the result.
RecordInvocation(v) ==
  /\ Stands(v, "record")
  /\ IF Exists(inv[v].id)
     THEN records' = records \cup {Row(v)} /\ Conclude(v, Verdict(v))
     ELSE UNCHANGED records /\ Conclude(v, "refused")
  /\ UNCHANGED <<registry, stream, metrics>>

-----------------------------------------------------------------------------
(* The surroundings *)

\* The invocation's future is dropped, and with it the stream.
Vanish(S) ==
  /\ inv' = [v \in Invocations |-> IF v \in S THEN [inv[v] EXCEPT !.pc = "gone"] ELSE inv[v]]
  /\ phase' = [v \in Invocations |-> IF v \in S /\ phase[v] = "open" THEN "dropped" ELSE phase[v]]
  /\ UNCHANGED outcome

\* The caller gives up.  An Event's task has no caller any more.
GiveUp(v) ==
  /\ InFlight(v) /\ ~Background(v)
  /\ Vanish({v})
  /\ UNCHANGED <<registry, metrics, records>>

\* The process restarts: what was in flight is gone, the tables stay.
ProcessRestart ==
  /\ (\E v \in Invocations : InFlight(v)) \/ (\E c \in Clients : ~Idle(c))
  /\ Vanish({v \in Invocations : InFlight(v)})
  /\ LoseCalls
  /\ UNCHANGED <<metrics, records>>

\* Records go with their function.
Cascade == records' = {r \in records : \E f \in functions' : f.id = r.id}

RegistryStep ==
  /\ CallStep
  /\ Cascade
  /\ UNCHANGED <<stream, metrics, inv>>

-----------------------------------------------------------------------------

InvocationInit ==
  /\ Init /\ Stream!Init
  /\ metrics \in BOOLEAN
  /\ inv = [v \in Invocations |-> IdleInvocation]
  /\ records = {}

\* An invocation in flight goes on.
Advance(v) ==
  \/ GetAlias(v) \/ GetVersion(v) \/ GetFunction(v)
  \/ Execute(v) \/ Collect(v) \/ RecordInvocation(v)

InvocationNext ==
  \/ \E v \in Invocations : Invoke(v) \/ Advance(v) \/ TellOutcome(v) \/ CloseStream(v) \/ GiveUp(v)
  \/ ProcessRestart
  \/ RegistryStep

InvocationSpec == InvocationInit /\ [][InvocationNext]_invocationVars

\* The runtime polls what can run, and an open stream closes: ExecutionStream.
InvocationFairSpec ==
  /\ InvocationSpec
  /\ \A v \in Invocations : WF_invocationVars(Advance(v)) /\ WF_invocationVars(CloseStream(v))

-----------------------------------------------------------------------------
(* Properties *)

InvocationTypeOK ==
  /\ metrics \in BOOLEAN
  /\ inv \in [Invocations -> Invocation]
  /\ \A v \in Invocations : inv[v].pc \in {"run", "record"} => inv[v].config \in Config
  /\ records \subseteq Record
  /\ phase \in [Invocations -> {"new", "open", "ended", "dropped"}]
  /\ outcome \in [Invocations -> {"none", "returned", "error"}]

\* What runs for "name:alias" is the snapshot that was published: whatever was
\* updated, published or repointed between the reads, code and handler belong
\* to the version the invocation names, as long as that version exists.
RunsSnapshot(v) ==
  inv[v].pc \in {"run", "record"} /\ inv[v].version # 0 =>
    \A r \in versions : r.id = inv[v].id /\ r.version = inv[v].version => inv[v].config = r.config

InvokerRunsSnapshot == \A v \in Invocations : inv[v].api = "invoker" => RunsSnapshot(v)

\* A caller who waited until the code had run is told what the stream told: a
\* result or an error, and only when the stream has ended.  It is denied that answer
\* only when its function was deleted meanwhile.  A run without an outcome (the
\* client's 30 seconds were over, the line was lost) is answered by neither: what
\* its caller should learn is left out of this property.
TellsRun(v) ==
  /\ inv[v].answer = "success" => phase[v] = "ended" /\ outcome[v] = "returned"
  /\ inv[v].answer = "failure" => phase[v] = "ended" /\ outcome[v] = "error"
  /\ inv[v].answer = "silent" => phase[v] = "ended" /\ outcome[v] = "none"
  /\ inv[v].answer = "refused" /\ phase[v] = "ended" => ~Exists(inv[v].id)

AnswerTellsRun == \A v \in Invocations : TellsRun(v)

\* With metrics on, a run of the invoker that came to its end is on record, with the
\* verdict of its stream if that told one, an Event's run no less than one that was
\* waited for, unless its function was deleted.
RunsRecorded ==
  \A v \in Invocations :
    Stands(v, "done") /\ phase[v] = "ended" /\ inv[v].api = "invoker" /\ metrics =>
      \/ \E r \in records :
           r.inv = v /\ (outcome[v] # "none" => (r.success <=> outcome[v] = "returned"))
      \/ ~Exists(inv[v].id)

\* What makes these inductive, next to the registry's own invariant.  The fields
\* and the stream of an invocation follow from where it stands.
Shape(v) ==
  /\ Stands(v, "idle") => inv[v] = IdleInvocation
  /\ inv[v].pc \in {"get_alias", "get_version", "get_function"} => inv[v].answer = "none"
  /\ inv[v].pc \in {"run", "record"} => inv[v].answer \in {"none", "accepted"}
  /\ inv[v].id # None => inv[v].id \in used
  /\ inv[v].pc \in {"get_alias", "get_version", "get_function", "run", "record"} => inv[v].id # None
  /\ inv[v].pc \in {"get_alias", "get_version"} /\ inv[v].api = "exec" => inv[v].config \in Config
  /\ Stands(v, "get_function") => inv[v].api = "invoker"
  /\ Stands(v, "get_function") /\ inv[v].version # 0 => inv[v].config \in Config
  /\ Stands(v, "record") => phase[v] = "ended" /\ inv[v].api = "invoker" /\ metrics
  /\ phase[v] = "open" => Stands(v, "run")
  /\ phase[v] = "ended" => inv[v].pc \in {"run", "record", "done", "gone"}

\* Once read, a version keeps its configuration and goes only with its function.
HoldsSnapshot(v) ==
  inv[v].api = "invoker" /\ inv[v].version # 0 /\ inv[v].pc \in {"get_function", "run", "record"} =>
    /\ VersionExists(inv[v].id, inv[v].version) \/ ~Exists(inv[v].id)
    /\ \A r \in versions : r.id = inv[v].id /\ r.version = inv[v].version => inv[v].config = r.config

\* The record of a run goes with its function only.
OnRecord(v) ==
  Stands(v, "done") /\ phase[v] = "ended" /\ inv[v].api = "invoker" /\ metrics =>
    \/ \E r \in records : r.inv = v /\ r.id = inv[v].id /\ (r.success <=> outcome[v] # "error")
    \/ ~Exists(inv[v].id)

InvocationInv ==
  /\ IInv /\ InvocationTypeOK
  /\ \A v \in Invocations : Shape(v) /\ TellsRun(v) /\ HoldsSnapshot(v) /\ OnRecord(v)

\* Every invocation comes to its end, whatever happens to its function.
InvocationEnds == \A v \in Invocations : InFlight(v) ~> ~InFlight(v)

\* A version is a snapshot of "handler name, environment variables, timeout at
\* publish time": LambdaExec::invoke runs a version with those.
ExecRunsSnapshot == \A v \in Invocations : inv[v].api = "exec" => RunsSnapshot(v)

===============================================================================
