--------------------------- MODULE EphemeralRunner ---------------------------
(***************************************************************************)
(* runner::execute: one workerd process per execution, found through its   *)
(* TCP port only.                                                          *)
(*                                                                         *)
(* Each execution draws a port from a counter of its server process, embeds *)
(* the user's code in a worker, spawns workerd, polls GET /health until    *)
(* something on the port answers 200, posts /run and passes on the lines   *)
(* of the reply until it ends.  One action is the code between two awaits. *)
(* Several server processes may run on one machine: the ports are shared,  *)
(* the counters are not.  A server process may end without warning; the    *)
(* one that is started in its place is another member of Hosts, whose      *)
(* counter starts anew.                                                    *)
(***************************************************************************)
EXTENDS Naturals, Sequences

CONSTANTS
  Executions,   \* calls of execute()
  Hosts,        \* server processes on the machine
  HostOf,       \* the server process an execution runs in
  Ports,        \* number of ports: the counter counts modulo Ports
  FirstPort,    \* where every counter starts
  MaxAttempts,  \* config.health_check_attempts
  MaxConsole,   \* bound: console lines per run of the user's code
  None          \* absent value

ASSUME RunnerAssumption ==
  /\ HostOf \in [Executions -> Hosts]
  /\ Ports \in Nat \ {0} /\ FirstPort \in 0 .. Ports - 1
  /\ MaxAttempts \in Nat \ {0} /\ MaxConsole \in Nat
  /\ None \notin Executions

VARIABLES
  counter,   \* per host, PORT_COUNTER
  pc,        \* per execution, where execute() stands
  port,      \* per execution, the port it drew
  attempt,   \* per execution, health checks that failed
  child,     \* per execution, its workerd process
  server,    \* per execution, whose workerd took its POST /run
  script,    \* per execution, the run of the code that POST started
  events     \* per execution, the events its caller was given

vars == <<counter, pc, port, attempt, child, server, script, events>>

Event == [kind : {"console", "returned", "error"}, of : Executions]
Returned(e) == [kind |-> "returned", of |-> e]
Error(e) == [kind |-> "error", of |-> e]
Console(e) == [kind |-> "console", of |-> e]

\* Done: it ran its course.  Dropped: by its caller.  Lost: with its server process.
Over(e) == pc[e] \in {"done", "dropped", "lost"}

\* A server process that ended leaves at least one execution behind.
Up(h) == \A e \in Executions : HostOf[e] = h => pc[e] # "lost"

\* The workerd that listens on a port.
Listens(f, p) == child[f] = "listening" /\ port[f] = p
Listener(p) == {f \in Executions : Listens(f, p)}

-----------------------------------------------------------------------------
(* The end of execute(): the child is dropped, which sends it a signal (kill_on_drop). *)

Finish(e, how, seen) ==
  /\ pc' = [pc EXCEPT ![e] = how]
  /\ events' = [events EXCEPT ![e] = @ \o seen]
  /\ UNCHANGED child

\* The signal takes effect.  Until it does, workerd goes on: it may even bind its
\* port now.
Die(e) ==
  /\ pc[e] \in {"done", "dropped"} /\ child[e] \in {"starting", "listening"}
  /\ child' = [child EXCEPT ![e] = "exited"]
  /\ UNCHANGED <<counter, pc, port, attempt, server, script, events>>

\* The runner's own Error event, then return.
Fail(e) == Finish(e, "done", <<Error(e)>>)

-----------------------------------------------------------------------------
(* Before the worker runs *)

\* Mutants: the counter does not wrap; the port is loaded and the counter stored
\* back unchanged.
AllocatePortUnwrapped(e) ==
  /\ pc[e] = "new" /\ Up(HostOf[e])
  /\ port' = [port EXCEPT ![e] = counter[HostOf[e]]]
  /\ counter' = [counter EXCEPT ![HostOf[e]] = @ + 1]
  /\ pc' = [pc EXCEPT ![e] = "setup"]
  /\ UNCHANGED <<attempt, child, server, script, events>>

AllocatePortStale(e) ==
  /\ pc[e] = "new" /\ Up(HostOf[e])
  /\ port' = [port EXCEPT ![e] = counter[HostOf[e]]]
  /\ pc' = [pc EXCEPT ![e] = "setup"]
  /\ UNCHANGED <<counter, attempt, child, server, script, events>>

\* fetch_add on an AtomicU16.
AllocatePort(e) ==
  /\ pc[e] = "new" /\ Up(HostOf[e])
  /\ port' = [port EXCEPT ![e] = counter[HostOf[e]]]
  /\ counter' = [counter EXCEPT ![HostOf[e]] = (@ + 1) % Ports]
  /\ pc' = [pc EXCEPT ![e] = "setup"]
  /\ UNCHANGED <<attempt, child, server, script, events>>

\* Temporary directory, modules, worker.js, config, spawn: any of it may fail.
Setup(e) ==
  /\ pc[e] = "setup"
  /\ \/ Fail(e)
     \/ /\ child' = [child EXCEPT ![e] = "starting"]
        /\ pc' = [pc EXCEPT ![e] = "check"]
        /\ UNCHANGED events
  /\ UNCHANGED <<counter, port, attempt, server, script>>

\* workerd binds the port unless another workerd has it.
Bind(e) ==
  /\ child[e] = "starting"
  /\ child' = [child EXCEPT ![e] = IF Listener(port[e]) = {} THEN "listening" ELSE "exited"]
  /\ UNCHANGED <<counter, pc, port, attempt, server, script, events>>

\* workerd rejects the code, may not bind the port (privileged, taken by some
\* other program), or crashes.
Exit(e) ==
  /\ child[e] \in {"starting", "listening"}
  /\ child' = [child EXCEPT ![e] = "exited"]
  /\ UNCHANGED <<counter, pc, port, attempt, server, script, events>>

\* try_wait, at the start of each attempt.
CheckExit(e) ==
  /\ pc[e] = "check"
  /\ IF child[e] = "exited"
     THEN Fail(e)
     ELSE pc' = [pc EXCEPT ![e] = "health"] /\ UNCHANGED <<child, events>>
  /\ UNCHANGED <<counter, port, attempt, server, script>>

\* Mutants of the last failed attempt: its error is not yielded; it is yielded
\* but the return is missing.
FailedAttemptSilent(e) ==
  /\ attempt' = [attempt EXCEPT ![e] = @ + 1]
  /\ IF attempt'[e] = MaxAttempts
     THEN Finish(e, "done", <<>>)
     ELSE pc' = [pc EXCEPT ![e] = "check"] /\ UNCHANGED <<child, events>>

FailedAttemptNoReturn(e) ==
  /\ attempt' = [attempt EXCEPT ![e] = @ + 1]
  /\ pc' = [pc EXCEPT ![e] = IF attempt'[e] = MaxAttempts THEN "post" ELSE "check"]
  /\ events' = [events EXCEPT ![e] = IF attempt'[e] = MaxAttempts THEN @ \o <<Error(e)>> ELSE @]
  /\ UNCHANGED child

\* Sleep and try again, or "failed to start within timeout".
FailedAttempt(e) ==
  /\ attempt' = [attempt EXCEPT ![e] = @ + 1]
  /\ IF attempt'[e] = MaxAttempts
     THEN Fail(e)
     ELSE pc' = [pc EXCEPT ![e] = "check"] /\ UNCHANGED <<child, events>>

\* GET /health, answered by whichever workerd listens on the port, if it answers
\* in time.
HealthCheck(e) ==
  /\ pc[e] = "health"
  /\ \/ /\ Listener(port[e]) # {}
        /\ pc' = [pc EXCEPT ![e] = "post"]
        /\ UNCHANGED <<attempt, child, events>>
     \/ FailedAttempt(e)
  /\ UNCHANGED <<counter, port, server, script>>

-----------------------------------------------------------------------------
(* The run *)

\* POST /run, to whichever workerd listens now; an error when nobody does, or
\* not in time, or not with success.
Post(e) ==
  /\ pc[e] = "post"
  /\ \/ Fail(e) /\ UNCHANGED <<server, script>>
     \/ \E f \in Listener(port[e]) :
          /\ server' = [server EXCEPT ![e] = f]
          /\ script' = [script EXCEPT ![e] = "running"]
          /\ pc' = [pc EXCEPT ![e] = "stream"]
          /\ UNCHANGED <<child, events>>
  /\ UNCHANGED <<counter, port, attempt>>

\* The worker that runs for e, and the code embedded in it.
Alive(e) == pc[e] = "stream" /\ child[server[e]] = "listening"

\* A console call, also one the code did not await and that runs when its
\* result is already written.
EmitConsole(e) ==
  /\ Alive(e) /\ script[e] \in {"running", "finished"}
  /\ Len(SelectSeq(events[e], LAMBDA v : v.kind = "console")) < MaxConsole
  /\ events' = [events EXCEPT ![e] = Append(@, Console(server[e]))]
  /\ UNCHANGED <<counter, pc, port, attempt, child, server, script>>

\* executeUserCode writes the result or the error.  The line is lost when the
\* host cannot parse it (a result JSON omits, an error whose message is no
\* string) and is not written when what was thrown is null or undefined.
\*
\* Assumption on the user's code: it has the wrapper's `writer` in its scope and
\* writes no line of its own to it.  Nothing in the code enforces that.
EmitOutcome(e) ==
  /\ Alive(e) /\ script[e] = "running"
  /\ script' = [script EXCEPT ![e] = "finished"]
  /\ \E line \in {<<Returned(server[e])>>, <<Error(server[e])>>, <<>>} :
       events' = [events EXCEPT ![e] = @ \o line]
  /\ UNCHANGED <<counter, pc, port, attempt, child, server>>

\* The worker closes the stream, and with it the execution is over.
CloseStream(e) ==
  /\ Alive(e) /\ script[e] = "finished"
  /\ Finish(e, "done", <<>>)
  /\ script' = [script EXCEPT ![e] = "closed"]
  /\ UNCHANGED <<counter, port, attempt, server>>

\* Reading the stream fails: the worker is gone, or the client's 30 seconds are
\* over.  The loop breaks; no event tells.
BreakStream(e) ==
  /\ pc[e] = "stream"
  /\ Finish(e, "done", <<>>)
  /\ script' = [script EXCEPT ![e] = "closed"]
  /\ UNCHANGED <<counter, port, attempt, server>>

\* The caller drops the stream.
Drop(e) ==
  /\ ~Over(e) /\ pc[e] # "new"
  /\ Finish(e, "dropped", <<>>)
  /\ script' = [script EXCEPT ![e] = IF @ = "none" THEN "none" ELSE "closed"]
  /\ UNCHANGED <<counter, port, attempt, server>>

\* The server process ends in the middle of executions (a crash, SIGKILL): nothing
\* is dropped, nobody signals the workerds, and they stay on their ports.
Crash(h) ==
  LET inFlight == {e \in Executions : HostOf[e] = h /\ pc[e] # "new" /\ ~Over(e)}
  IN  /\ inFlight # {}
      /\ pc' = [e \in Executions |-> IF e \in inFlight THEN "lost" ELSE pc[e]]
      /\ script' = [e \in Executions |->
                      IF e \in inFlight /\ script[e] # "none" THEN "closed" ELSE script[e]]
      /\ UNCHANGED <<counter, port, attempt, child, server, events>>

-----------------------------------------------------------------------------

Init ==
  /\ counter = [h \in Hosts |-> FirstPort]
  /\ pc = [e \in Executions |-> "new"]
  /\ port = [e \in Executions |-> FirstPort]
  /\ attempt = [e \in Executions |-> 0]
  /\ child = [e \in Executions |-> "none"]
  /\ server = [e \in Executions |-> None]
  /\ script = [e \in Executions |-> "none"]
  /\ events = [e \in Executions |-> <<>>]

Advance(e) == Setup(e) \/ CheckExit(e) \/ HealthCheck(e) \/ Post(e) \/ CloseStream(e) \/ BreakStream(e)

Next ==
  \/ \E e \in Executions :
       \/ AllocatePort(e) \/ Advance(e) \/ Drop(e)
       \/ Bind(e) \/ Exit(e) \/ Die(e) \/ EmitConsole(e) \/ EmitOutcome(e)
  \/ \E h \in Hosts : Crash(h)

Spec == Init /\ [][Next]_vars

\* The caller keeps polling the stream and every request of the client times
\* out; nothing is assumed of workerd or of the user's code.
FairSpec == Spec /\ \A e \in Executions : WF_vars(Advance(e))

-----------------------------------------------------------------------------
(* Properties *)

TypeOK ==
  /\ counter \in [Hosts -> 0 .. Ports - 1]
  /\ pc \in [Executions -> {"new", "setup", "check", "health", "post", "stream", "done", "dropped", "lost"}]
  /\ port \in [Executions -> 0 .. Ports - 1]
  /\ attempt \in [Executions -> 0 .. MaxAttempts]
  /\ child \in [Executions -> {"none", "starting", "listening", "exited"}]
  /\ server \in [Executions -> Executions \cup {None}]
  /\ script \in [Executions -> {"none", "running", "finished", "closed"}]
  /\ events \in [Executions -> Seq(Event)]

\* "Each execution is completely independent", "Atomic counter prevents port
\* conflicts": the code that runs for an execution is its own, although the
\* worker is looked for at a port and whoever is there answers.
OwnWorker == \A e \in Executions : server[e] \in {None, e}

\* An execution that ends before a worker took its code says so: its one event is
\* an error, whichever of the early returns it left by.
FailureReported ==
  \A e \in Executions : pc[e] = "done" /\ server[e] = None => events[e] = <<Error(e)>>

\* The caller is told at most one outcome.
OneOutcome ==
  \A e \in Executions :
    \A i, j \in 1 .. Len(events[e]) :
      events[e][i].kind # "console" /\ events[e][j].kind # "console" => i = j

\* What makes these inductive: the run starts with nothing told, and while the
\* code has no outcome only console lines were passed on.
Shape ==
  \A e \in Executions :
    /\ pc[e] \in {"new", "setup"} => child[e] = "none"
    /\ pc[e] \in {"new", "setup", "check", "health"} => attempt[e] < MaxAttempts
    /\ pc[e] \in {"new", "setup", "check", "health", "post"} =>
         server[e] = None /\ script[e] = "none" /\ events[e] = <<>>
    /\ pc[e] = "stream" => server[e] \in Executions /\ script[e] \in {"running", "finished"}
    /\ script[e] = "running" => \A i \in 1 .. Len(events[e]) : events[e][i].kind = "console"

IInv == TypeOK /\ Shape /\ FailureReported /\ OneOutcome

\* The abstract view: all a reader can rely on is ExecutionStream.
Told(e, kind) == \E i \in 1 .. Len(events[e]) : events[e][i].kind = kind

StreamPhase(e) ==
  IF pc[e] = "new" THEN "new"
  ELSE IF pc[e] = "done" THEN "ended"
  ELSE IF Over(e) THEN "dropped" ELSE "open"

StreamOutcome(e) ==
  IF Told(e, "returned") THEN "returned" ELSE IF Told(e, "error") THEN "error" ELSE "none"

Stream == INSTANCE ExecutionStream WITH
  phase <- [e \in Executions |-> StreamPhase(e)],
  outcome <- [e \in Executions |-> StreamOutcome(e)]

\* execute() implements ExecutionStream, its promise to end included: the code
\* that ran into a timeout, a dead worker or an early return neither adds a
\* second outcome nor leaves the stream open.
ImplementsStream == Stream!FairSpec

===============================================================================
