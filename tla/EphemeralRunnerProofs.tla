------------------------ MODULE EphemeralRunnerProofs ------------------------
(***************************************************************************)
(* Proofs about EphemeralRunner, for every number of executions, hosts and *)
(* ports.  What a host promises of its own executions needs no assumption; *)
(* that an execution reaches its own workerd is proved for the executions  *)
(* of one host until its port counter wraps.                               *)
(***************************************************************************)
EXTENDS EphemeralRunner, FiniteSetTheorems, TLAPS

USE RunnerAssumption

-----------------------------------------------------------------------------
(* What an execution tells *)

\* The events of an execution and their kinds.
LEMMA EventType ==
  ASSUME NEW e \in Executions
  PROVE  Returned(e) \in Event /\ Error(e) \in Event /\ Console(e) \in Event
BY DEF Returned, Error, Console, Event

\* One more event behind those of a list.
LEMMA OneMore ==
  ASSUME NEW s \in Seq(Event), NEW v \in Event
  PROVE  /\ s \o <<v>> \in Seq(Event) /\ Append(s, v) = s \o <<v>>
         /\ Len(s \o <<v>>) = Len(s) + 1
         /\ \A i \in 1 .. Len(s) : (s \o <<v>>)[i] = s[i]
         /\ (s \o <<v>>)[Len(s) + 1] = v
OBVIOUS

\* Everything the invariant says of an execution depends on that execution only.
Same(f) ==
  /\ pc'[f] = pc[f] /\ child'[f] = child[f] /\ server'[f] = server[f]
  /\ script'[f] = script[f] /\ events'[f] = events[f] /\ attempt'[f] = attempt[f]

LEMMA OnlyOne ==
  ASSUME IInv, TypeOK', NEW e \in Executions, \A f \in Executions \ {e} : Same(f),
         pc'[e] \in {"new", "setup"} => child'[e] = "none",
         pc'[e] \in {"new", "setup", "check", "health"} => attempt'[e] < MaxAttempts,
         pc'[e] \in {"new", "setup", "check", "health", "post"} =>
           server'[e] = None /\ script'[e] = "none" /\ events'[e] = <<>>,
         pc'[e] = "stream" => server'[e] \in Executions /\ script'[e] \in {"running", "finished"},
         script'[e] = "running" => \A i \in 1 .. Len(events'[e]) : events'[e][i].kind = "console",
         pc'[e] = "done" /\ server'[e] = None => events'[e] = <<Error(e)>>,
         \A i, j \in 1 .. Len(events'[e]) :
           events'[e][i].kind # "console" /\ events'[e][j].kind # "console" => i = j
  PROVE  IInv'
<1> USE DEF IInv, Same
<1>1. Shape'
  BY DEF Shape
<1>2. FailureReported'
  BY DEF FailureReported
<1>3. OneOutcome'
  BY DEF OneOutcome
<1>. QED
  BY <1>1, <1>2, <1>3

\* Leaving execute() with the runner's own error, before any event.
LEMMA FailKeeps ==
  ASSUME IInv, NEW e \in Executions, Fail(e),
         pc[e] \in {"setup", "check", "health", "post"},
         attempt' \in [Executions -> 0 .. MaxAttempts],
         \A f \in Executions \ {e} : attempt'[f] = attempt[f],
         UNCHANGED <<counter, port, server, script>>
  PROVE  IInv'
<1>1. /\ pc' = [pc EXCEPT ![e] = "done"] /\ events' = [events EXCEPT ![e] = events[e] \o <<Error(e)>>]
      /\ child' = child
  BY DEF Fail, Finish
<1>2. events[e] = <<>> /\ server[e] = None /\ script[e] = "none"
  BY DEF IInv, Shape
<1>3. Error(e) \in Event
  BY EventType
<1>4. <<>> \o <<Error(e)>> = <<Error(e)>> /\ <<Error(e)>> \in Seq(Event) /\ Len(<<Error(e)>>) = 1
  BY <1>3
<1>5. events' \in [Executions -> Seq(Event)]
  BY <1>1, <1>2, <1>4 DEF IInv, TypeOK
<1>6. TypeOK'
  BY <1>1, <1>5 DEF IInv, TypeOK
<1>7. \A f \in Executions \ {e} : Same(f)
  BY <1>1 DEF IInv, TypeOK, Same
<1>8. /\ events'[e] = <<Error(e)>> /\ Len(events'[e]) = 1
      /\ script'[e] = "none" /\ pc'[e] = "done"
  BY <1>1, <1>2, <1>4 DEF IInv, TypeOK
<1>9. \A i, j \in 1 .. Len(events'[e]) :
        events'[e][i].kind # "console" /\ events'[e][j].kind # "console" => i = j
  BY <1>8
<1>. QED
  BY <1>6, <1>7, <1>8, <1>9, OnlyOne

\* Leaving execute() with nothing more to say.
LEMMA FinishKeeps ==
  ASSUME IInv, NEW e \in Executions, NEW how \in {"done", "dropped"}, Finish(e, how, <<>>),
         how = "done" => pc[e] = "stream",
         NEW s \in {"none", "closed"}, script' = [script EXCEPT ![e] = s],
         UNCHANGED <<counter, port, attempt, server>>
  PROVE  IInv'
<1>1. events[e] \in Seq(Event)
  BY DEF IInv, TypeOK
<1>2. events[e] \o <<>> = events[e]
  BY <1>1
<1>3. pc' = [pc EXCEPT ![e] = how] /\ events' = [events EXCEPT ![e] = events[e]] /\ child' = child
  BY <1>2 DEF Finish
<1>4. TypeOK'
  BY <1>3 DEF IInv, TypeOK
<1>5. \A f \in Executions \ {e} : Same(f)
  BY <1>3 DEF IInv, TypeOK, Same
<1>6. /\ events'[e] = events[e] /\ pc'[e] = how /\ script'[e] = s /\ server'[e] = server[e]
  BY <1>3 DEF IInv, TypeOK
<1>7. how = "done" => server'[e] # None
  BY DEF IInv, Shape
<1>8. \A i, j \in 1 .. Len(events'[e]) :
        events'[e][i].kind # "console" /\ events'[e][j].kind # "console" => i = j
  BY <1>6 DEF IInv, OneOutcome
<1>. QED
  BY <1>4, <1>5, <1>6, <1>7, <1>8, OnlyOne

\* A step that tells nothing and does not end the execution.
LEMMA QuietKeeps ==
  ASSUME IInv, TypeOK', NEW e \in Executions, UNCHANGED events, \A f \in Executions \ {e} : Same(f),
         pc'[e] # "done" \/ UNCHANGED <<pc, server>>,
         pc'[e] \in {"new", "setup"} => child'[e] = "none",
         pc'[e] \in {"new", "setup", "check", "health"} => attempt'[e] < MaxAttempts,
         pc'[e] \in {"new", "setup", "check", "health", "post"} =>
           server'[e] = None /\ script'[e] = "none" /\ events[e] = <<>>,
         pc'[e] = "stream" => server'[e] \in Executions /\ script'[e] \in {"running", "finished"},
         script'[e] = "running" => script[e] = "running" \/ events[e] = <<>>
  PROVE  IInv'
<1>1. script'[e] = "running" => \A i \in 1 .. Len(events'[e]) : events'[e][i].kind = "console"
  BY DEF IInv, Shape
<1>2. pc'[e] = "done" /\ server'[e] = None => events'[e] = <<Error(e)>>
  BY DEF IInv, FailureReported
<1>3. \A i, j \in 1 .. Len(events'[e]) :
        events'[e][i].kind # "console" /\ events'[e][j].kind # "console" => i = j
  BY DEF IInv, OneOutcome
<1>. QED
  BY <1>1, <1>2, <1>3, OnlyOne

\* The code writes one more line, its outcome only while it has none.
LEMMA TellKeeps ==
  ASSUME IInv, NEW e \in Executions, pc[e] = "stream", NEW v \in Event,
         events' = [events EXCEPT ![e] = events[e] \o <<v>>],
         NEW s \in {"running", "finished"}, script' = [script EXCEPT ![e] = s],
         \/ v.kind = "console" /\ s = script[e]
         \/ script[e] = "running" /\ s = "finished",
         UNCHANGED <<counter, pc, port, attempt, child, server>>
  PROVE  IInv'
<1>1. events[e] \in Seq(Event) /\ Len(events[e]) \in Nat
  BY DEF IInv, TypeOK
<1>2. /\ events[e] \o <<v>> \in Seq(Event)
      /\ Len(events[e] \o <<v>>) = Len(events[e]) + 1
      /\ \A i \in 1 .. Len(events[e]) : (events[e] \o <<v>>)[i] = events[e][i]
      /\ (events[e] \o <<v>>)[Len(events[e]) + 1] = v
  BY <1>1, OneMore
<1>3. TypeOK'
  BY <1>2 DEF IInv, TypeOK
<1>4. \A f \in Executions \ {e} : Same(f)
  BY DEF IInv, TypeOK, Same
<1> DEFINE n == Len(events[e])
           told == events'[e]
<1>5. /\ Len(told) = n + 1 /\ told[n + 1] = v
      /\ \A i \in 1 .. n : told[i] = events[e][i]
  BY <1>2 DEF IInv, TypeOK
<1>6. script'[e] = s /\ pc'[e] = "stream" /\ server'[e] \in Executions
  BY DEF IInv, TypeOK, Shape
<1>7. script[e] = "running" => \A i \in 1 .. n : events[e][i].kind = "console"
  BY DEF IInv, Shape
<1>8. \A i, j \in 1 .. n : events[e][i].kind # "console" /\ events[e][j].kind # "console" => i = j
  BY DEF IInv, OneOutcome
<1> HIDE DEF n, told
<1>9. s = "running" => \A i \in 1 .. Len(told) : told[i].kind = "console"
  BY <1>1, <1>5, <1>7 DEF n
<1>10. \A i, j \in 1 .. Len(told) : told[i].kind # "console" /\ told[j].kind # "console" => i = j
  <2>1. n \in Nat /\ \A i \in 1 .. n + 1 : i \in 1 .. n \/ i = n + 1
    BY <1>1 DEF n
  <2>2. CASE v.kind = "console"
    BY <1>5, <1>8, <2>1, <2>2
  <2>3. CASE script[e] = "running"
    <3>1. \A i \in 1 .. n : told[i].kind = "console"
      BY <1>5, <1>7, <2>3
    <3>. QED
      BY <1>5, <2>1, <3>1
  <2>. QED
    BY <2>2, <2>3
<1>. QED
  BY <1>3, <1>4, <1>6, <1>9, <1>10, OnlyOne DEF told

LEMMA InitInvariant == Init => IInv
<1> SUFFICES ASSUME Init PROVE IInv
  OBVIOUS
<1>1. <<>> \in Seq(Event) /\ Len(<<>>) = 0
  OBVIOUS
<1>2. TypeOK
  BY <1>1 DEF Init, TypeOK
<1>3. \A e \in Executions : /\ pc[e] = "new" /\ child[e] = "none" /\ server[e] = None
                           /\ script[e] = "none" /\ events[e] = <<>> /\ attempt[e] = 0
  BY DEF Init
<1>4. Shape
  <2>1. 0 < MaxAttempts
    OBVIOUS
  <2>. QED
    BY <1>3, <2>1 DEF Shape
<1>5. FailureReported
  BY <1>3 DEF FailureReported
<1>6. OneOutcome
  BY <1>1, <1>3 DEF OneOutcome
<1>. QED
  BY <1>2, <1>4, <1>5, <1>6 DEF IInv

LEMMA InvariantStep == IInv /\ [Next]_vars => IInv'
<1> SUFFICES ASSUME IInv, [Next]_vars PROVE IInv'
  OBVIOUS
<1> USE DEF IInv, TypeOK
<1>1. ASSUME NEW e \in Executions, AllocatePort(e)
      PROVE  IInv'
  <2>1. TypeOK' /\ UNCHANGED events /\ \A f \in Executions \ {e} : Same(f)
    BY <1>1 DEF AllocatePort, Same
  <2>2. pc'[e] = "setup" /\ attempt'[e] < MaxAttempts /\ child'[e] = "none" /\ server'[e] = None
        /\ script'[e] = "none" /\ events[e] = <<>>
    BY <1>1 DEF AllocatePort, Shape
  <2>. QED
    BY <2>1, <2>2, QuietKeeps
<1>2. ASSUME NEW e \in Executions, Setup(e)
      PROVE  IInv'
  <2>1. CASE Fail(e)
    BY <1>2, <2>1, FailKeeps DEF Setup
  <2>2. CASE /\ child' = [child EXCEPT ![e] = "starting"]
             /\ pc' = [pc EXCEPT ![e] = "check"] /\ UNCHANGED events
    <3>1. TypeOK' /\ UNCHANGED events /\ \A f \in Executions \ {e} : Same(f)
      BY <1>2, <2>2 DEF Setup, Same
    <3>2. pc'[e] = "check" /\ attempt'[e] < MaxAttempts /\ server'[e] = None
          /\ script'[e] = "none" /\ events[e] = <<>>
      BY <1>2, <2>2 DEF Setup, Shape
    <3>. QED
      BY <3>1, <3>2, QuietKeeps
  <2>. QED
    BY <1>2, <2>1, <2>2 DEF Setup
<1>3. ASSUME NEW e \in Executions, Bind(e) \/ Exit(e) \/ Die(e)
      PROVE  IInv'
  <2>1. TypeOK' /\ UNCHANGED <<events, pc, server, script>> /\ \A f \in Executions \ {e} : Same(f)
    BY <1>3 DEF Bind, Exit, Die, Same
  <2>2. pc[e] \notin {"new", "setup"} /\ UNCHANGED attempt
    BY <1>3 DEF Bind, Exit, Die, Shape
  <2>. QED
    BY <2>1, <2>2, QuietKeeps DEF Shape
<1>4. ASSUME NEW e \in Executions, CheckExit(e)
      PROVE  IInv'
  <2>1. CASE child[e] = "exited"
    BY <1>4, <2>1, FailKeeps DEF CheckExit
  <2>2. CASE child[e] # "exited"
    <3>1. TypeOK' /\ UNCHANGED events /\ \A f \in Executions \ {e} : Same(f)
      BY <1>4, <2>2 DEF CheckExit, Same
    <3>2. pc'[e] = "health" /\ attempt'[e] < MaxAttempts /\ server'[e] = None
          /\ script'[e] = "none" /\ events[e] = <<>>
      BY <1>4, <2>2 DEF CheckExit, Shape
    <3>. QED
      BY <3>1, <3>2, QuietKeeps
  <2>. QED
    BY <2>1, <2>2
<1>5. ASSUME NEW e \in Executions, HealthCheck(e)
      PROVE  IInv'
  <2>1. CASE pc' = [pc EXCEPT ![e] = "post"] /\ UNCHANGED <<attempt, child, events>>
    <3>1. TypeOK' /\ UNCHANGED events /\ \A f \in Executions \ {e} : Same(f)
      BY <1>5, <2>1 DEF HealthCheck, Same
    <3>2. pc'[e] = "post" /\ server'[e] = None /\ script'[e] = "none" /\ events[e] = <<>>
      BY <1>5, <2>1 DEF HealthCheck, Shape
    <3>. QED
      BY <3>1, <3>2, QuietKeeps
  <2>2. CASE FailedAttempt(e) /\ attempt[e] + 1 = MaxAttempts
    <3>1. attempt' = [attempt EXCEPT ![e] = MaxAttempts] /\ Fail(e)
      BY <2>2 DEF FailedAttempt
    <3>2. attempt' \in [Executions -> 0 .. MaxAttempts]
          /\ \A f \in Executions \ {e} : attempt'[f] = attempt[f]
      BY <3>1
    <3>. QED
      BY <1>5, <3>1, <3>2, FailKeeps DEF HealthCheck
  <2>3. CASE FailedAttempt(e) /\ attempt[e] + 1 # MaxAttempts
    <3>1. pc[e] = "health" /\ attempt' = [attempt EXCEPT ![e] = attempt[e] + 1]
      BY <1>5, <2>3 DEF HealthCheck, FailedAttempt
    <3>2. attempt'[e] = attempt[e] + 1 /\ attempt'[e] < MaxAttempts
      <4>1. attempt[e] < MaxAttempts
        BY <3>1 DEF Shape
      <4>. QED
        BY <2>3, <3>1, <4>1
    <3>3. /\ pc' = [pc EXCEPT ![e] = "check"]
          /\ UNCHANGED <<child, events, counter, port, server, script>>
      BY <1>5, <2>3, <3>2 DEF HealthCheck, FailedAttempt
    <3>4. TypeOK' /\ \A f \in Executions \ {e} : Same(f)
      BY <3>1, <3>2, <3>3 DEF Same
    <3>5. pc'[e] = "check" /\ server'[e] = None /\ script'[e] = "none" /\ events[e] = <<>>
      BY <3>1, <3>3 DEF Shape
    <3>. QED
      BY <3>2, <3>3, <3>4, <3>5, QuietKeeps
  <2>. QED
    BY <1>5, <2>1, <2>2, <2>3 DEF HealthCheck
<1>6. ASSUME NEW e \in Executions, Post(e)
      PROVE  IInv'
  <2>1. CASE Fail(e) /\ UNCHANGED <<server, script>>
    BY <1>6, <2>1, FailKeeps DEF Post
  <2>2. ASSUME NEW f \in Executions, server' = [server EXCEPT ![e] = f],
               script' = [script EXCEPT ![e] = "running"], pc' = [pc EXCEPT ![e] = "stream"],
               UNCHANGED <<child, events>>
        PROVE  IInv'
    <3>1. TypeOK' /\ UNCHANGED events /\ \A g \in Executions \ {e} : Same(g)
      BY <1>6, <2>2 DEF Post, Same
    <3>2. pc'[e] = "stream" /\ server'[e] \in Executions /\ script'[e] = "running" /\ events[e] = <<>>
      BY <1>6, <2>2 DEF Post, Shape
    <3>. QED
      BY <3>1, <3>2, QuietKeeps
  <2>. QED
    BY <1>6, <2>1, <2>2 DEF Post, Listener
<1>7. ASSUME NEW e \in Executions, EmitConsole(e)
      PROVE  IInv'
  <2>1. pc[e] = "stream" /\ server[e] \in Executions /\ script[e] \in {"running", "finished"}
    BY <1>7 DEF EmitConsole, Alive, Shape
  <2>2. /\ Console(server[e]) \in Event /\ Console(server[e]).kind = "console"
        /\ script' = [script EXCEPT ![e] = script[e]]
        /\ Append(events[e], Console(server[e])) = events[e] \o <<Console(server[e])>>
    BY <1>7, <2>1, EventType, OneMore DEF EmitConsole, Console
  <2>3. events' = [events EXCEPT ![e] = events[e] \o <<Console(server[e])>>]
    BY <1>7, <2>2 DEF EmitConsole
  <2>. QED
    BY <1>7, <2>1, <2>2, <2>3, TellKeeps DEF EmitConsole
<1>8. ASSUME NEW e \in Executions, EmitOutcome(e)
      PROVE  IInv'
  <2>1. pc[e] = "stream" /\ server[e] \in Executions /\ script[e] = "running"
    BY <1>8 DEF EmitOutcome, Alive, Shape
  <2>2. Returned(server[e]) \in Event /\ Error(server[e]) \in Event
    BY <2>1, EventType
  <2>3. ASSUME NEW v \in Event, events' = [events EXCEPT ![e] = events[e] \o <<v>>]
        PROVE  IInv'
    BY <1>8, <2>1, <2>3, TellKeeps DEF EmitOutcome
  <2>4. CASE events' = [events EXCEPT ![e] = events[e] \o <<>>]
    <3>1. events[e] \o <<>> = events[e]
      OBVIOUS
    <3>2. TypeOK' /\ UNCHANGED events /\ \A f \in Executions \ {e} : Same(f)
      BY <1>8, <2>4, <3>1 DEF EmitOutcome, Same
    <3>3. pc'[e] = "stream" /\ server'[e] \in Executions /\ script'[e] = "finished"
      BY <1>8, <2>1 DEF EmitOutcome
    <3>. QED
      BY <3>2, <3>3, QuietKeeps
  <2>. QED
    BY <1>8, <2>2, <2>3, <2>4 DEF EmitOutcome
<1>9. ASSUME NEW e \in Executions, CloseStream(e) \/ BreakStream(e)
      PROVE  IInv'
  BY <1>9, FinishKeeps DEF CloseStream, BreakStream, Alive
<1>10. ASSUME NEW e \in Executions, Drop(e)
       PROVE  IInv'
  <2>1. CASE script[e] = "none"
    BY <1>10, <2>1, FinishKeeps DEF Drop
  <2>2. CASE script[e] # "none"
    BY <1>10, <2>2, FinishKeeps DEF Drop
  <2>. QED
    BY <2>1, <2>2
<1>11. CASE UNCHANGED vars
  <2>1. TypeOK' /\ Shape'
    BY <1>11 DEF vars, Shape
  <2>2. FailureReported'
    BY <1>11 DEF vars, FailureReported
  <2>3. OneOutcome'
    BY <1>11 DEF vars, OneOutcome
  <2>. QED
    BY <2>1, <2>2, <2>3
<1>12. ASSUME NEW h \in Hosts, Crash(h)
       PROVE  IInv'
  <2>1. PICK S \in SUBSET Executions :
          /\ pc' = [e \in Executions |-> IF e \in S THEN "lost" ELSE pc[e]]
          /\ script' = [e \in Executions |->
                          IF e \in S /\ script[e] # "none" THEN "closed" ELSE script[e]]
    BY <1>12 DEF Crash
  <2>2. UNCHANGED <<counter, port, attempt, child, server, events>>
    BY <1>12 DEF Crash
  <2>3. \A e \in Executions :
          \/ pc'[e] = pc[e] /\ script'[e] = script[e]
          \/ pc'[e] = "lost" /\ script'[e] \in {"none", "closed"}
    BY <2>1
  <2>4. TypeOK'
    <3>1. \A e \in Executions : /\ pc'[e] = pc[e] \/ pc'[e] = "lost"
                                /\ script'[e] \in {"none", "running", "finished", "closed"}
      BY <2>3
    <3>. QED
      BY <2>1, <2>2, <3>1
  <2>5. Shape'
    BY <2>2, <2>3 DEF Shape
  <2>6. FailureReported'
    BY <2>2, <2>3 DEF FailureReported
  <2>7. OneOutcome'
    BY <2>2 DEF OneOutcome
  <2>. QED
    BY <2>4, <2>5, <2>6, <2>7
<1>. QED
  BY <1>1, <1>2, <1>3, <1>4, <1>5, <1>6, <1>7, <1>8, <1>9, <1>10, <1>11, <1>12 DEF Next, Advance

-----------------------------------------------------------------------------
(* Whose workerd answers *)

\* The executions that drew a port.  On one host, before the counter wraps, the
\* ports drawn are the numbers below the counter, each drawn once.
Allocated == {e \in Executions : pc[e] # "new"}

OneHostNoWrap ==
  /\ IsFiniteSet(Executions)
  /\ FirstPort + Cardinality(Executions) < Ports
  /\ \A e, f \in Executions : HostOf[e] = HostOf[f]

PortsApart ==
  /\ \A e \in Executions : counter[HostOf[e]] = FirstPort + Cardinality(Allocated)
  /\ \A e \in Allocated : port[e] < FirstPort + Cardinality(Allocated)
  /\ \A e, f \in Allocated : port[e] = port[f] => e = f

LEMMA SmallModulo ==
  ASSUME NEW x \in Nat, NEW y \in Nat, x < y
  PROVE  x % y = x
OBVIOUS

LEMMA AllocateApart ==
  ASSUME OneHostNoWrap, IInv, PortsApart, NEW e \in Executions, AllocatePort(e)
  PROVE  PortsApart'
<1> USE DEF IInv, TypeOK
<1> DEFINE n == Cardinality(Allocated)
<1>1. /\ Allocated \subseteq Executions /\ e \notin Allocated /\ Allocated' = Allocated \cup {e}
      /\ port' = [port EXCEPT ![e] = counter[HostOf[e]]]
      /\ counter' = [counter EXCEPT ![HostOf[e]] = (counter[HostOf[e]] + 1) % Ports]
  BY DEF AllocatePort, Allocated
<1>2. IsFiniteSet(Allocated) /\ n \in Nat /\ Cardinality(Executions) \in Nat
  BY <1>1, FS_Subset, FS_CardinalityType DEF OneHostNoWrap
<1>3. Cardinality(Allocated') = n + 1
  BY <1>1, <1>2, FS_AddElement
<1>4. n + 1 <= Cardinality(Executions)
  <2>1. Allocated' \subseteq Executions
    BY <1>1
  <2>. QED
    BY <1>3, <2>1, FS_Subset DEF OneHostNoWrap
<1>5. counter[HostOf[e]] = FirstPort + n /\ FirstPort + n + 1 < Ports
  BY <1>2, <1>4 DEF PortsApart, OneHostNoWrap
<1>6. (FirstPort + n + 1) % Ports = FirstPort + n + 1
  BY <1>2, <1>5, SmallModulo
<1> HIDE DEF n
<1>7. \A f \in Executions : counter'[HostOf[f]] = FirstPort + n + 1
  BY <1>1, <1>2, <1>5, <1>6 DEF OneHostNoWrap
<1>8. \A f \in Allocated : port'[f] = port[f] /\ port[f] < FirstPort + n
  BY <1>1 DEF PortsApart, n
<1>9. port'[e] = FirstPort + n
  BY <1>1, <1>5
<1>10. \A f \in Allocated' : port'[f] < FirstPort + n + 1
  BY <1>1, <1>2, <1>8, <1>9
<1>11. \A f, g \in Allocated' : port'[f] = port'[g] => f = g
  <2>1. \A f \in Allocated : port'[f] # port'[e]
    BY <1>1, <1>2, <1>8, <1>9
  <2>. QED
    BY <1>1, <1>8, <2>1 DEF PortsApart
<1>. QED
  BY <1>2, <1>3, <1>7, <1>10, <1>11 DEF PortsApart

LEMMA IsolationStep ==
  ASSUME OneHostNoWrap, IInv, PortsApart, OwnWorker, [Next]_vars
  PROVE  PortsApart' /\ OwnWorker'
<1> USE DEF IInv, TypeOK
<1>1. ASSUME NEW e \in Executions, AllocatePort(e)
      PROVE  PortsApart' /\ OwnWorker'
  BY <1>1, AllocateApart DEF AllocatePort, OwnWorker
<1>2. ASSUME UNCHANGED <<counter, port>>, Allocated' = Allocated
      PROVE  PortsApart'
  BY <1>2 DEF PortsApart
<1>3. ASSUME NEW e \in Executions, Post(e)
      PROVE  PortsApart' /\ OwnWorker'
  <2>1. UNCHANGED <<counter, port>> /\ Allocated' = Allocated
    BY <1>3 DEF Post, Fail, Finish, Allocated
  <2>2. \A f \in Listener(port[e]) : f = e
    <3> SUFFICES ASSUME NEW f \in Executions, Listens(f, port[e]) PROVE f = e
      BY DEF Listener
    <3>1. f \in Allocated /\ e \in Allocated /\ port[f] = port[e]
      BY <1>3 DEF Listens, Post, Allocated, Shape
    <3>. QED
      BY <3>1 DEF PortsApart
  <2>3. server' = server \/ server' = [server EXCEPT ![e] = e]
    BY <1>3, <2>2 DEF Post
  <2>4. OwnWorker'
    BY <2>3 DEF OwnWorker
  <2>. QED
    BY <1>2, <2>1, <2>4
<1>4. ASSUME NEW e \in Executions,
             \/ Setup(e) \/ CheckExit(e) \/ HealthCheck(e) \/ CloseStream(e) \/ BreakStream(e)
             \/ Bind(e) \/ Exit(e) \/ Die(e) \/ EmitConsole(e) \/ EmitOutcome(e) \/ Drop(e)
      PROVE  PortsApart' /\ OwnWorker'
  <2>1. UNCHANGED <<counter, port, server>>
    BY <1>4 DEF Setup, CheckExit, HealthCheck, CloseStream, BreakStream, Bind, Exit, Die,
       EmitConsole, EmitOutcome, Drop
  <2>2. Allocated' = Allocated
    <3>1. \E how \in {"check", "health", "post", "done", "dropped"} :
            pc' = pc \/ (pc' = [pc EXCEPT ![e] = how] /\ pc[e] # "new")
      BY <1>4 DEF Setup, CheckExit, HealthCheck, FailedAttempt, CloseStream, BreakStream, Bind, Exit,
         Die, EmitConsole, EmitOutcome, Drop, Fail, Finish, Alive, Over
    <3>. QED
      BY <3>1 DEF Allocated
  <2>. QED
    BY <1>2, <2>1, <2>2 DEF OwnWorker
<1>5. CASE UNCHANGED vars
  BY <1>2, <1>5 DEF vars, Allocated, OwnWorker
<1>6. ASSUME NEW h \in Hosts, Crash(h)
      PROVE  PortsApart' /\ OwnWorker'
  <2>1. UNCHANGED <<counter, port, server>> /\ \A e \in Executions : pc'[e] = "new" <=> pc[e] = "new"
    BY <1>6 DEF Crash
  <2>2. Allocated' = Allocated
    BY <2>1 DEF Allocated
  <2>. QED
    BY <1>2, <2>1, <2>2 DEF OwnWorker
<1>. QED
  BY <1>1, <1>3, <1>4, <1>5, <1>6 DEF Next, Advance

-----------------------------------------------------------------------------
(* Theorems *)

\* The inductive invariant holds in every reachable state.
THEOREM Invariance == Spec => []IInv
BY InitInvariant, InvariantStep, PTL DEF Spec

\* Type correctness of the executions.
THEOREM TypeCorrect == Spec => []TypeOK
<1>1. IInv => TypeOK
  BY DEF IInv
<1>. QED
  BY <1>1, Invariance, PTL

\* No early return is silent.
THEOREM FailuresAreReported == Spec => []FailureReported
<1>1. IInv => FailureReported
  BY DEF IInv
<1>. QED
  BY <1>1, Invariance, PTL

\* No execution has two outcomes, whatever fails after the first.
THEOREM OneOutcomeOnly == Spec => []OneOutcome
<1>1. IInv => OneOutcome
  BY DEF IInv
<1>. QED
  BY <1>1, Invariance, PTL

\* While a single host draws fewer ports than its counter has left, an execution
\* runs in its own workerd: what "unique port" needs to be true.
THEOREM Isolation == OneHostNoWrap => (Spec => []OwnWorker)
<1> SUFFICES ASSUME OneHostNoWrap PROVE Spec => []OwnWorker
  OBVIOUS
<1>1. Init => PortsApart /\ OwnWorker
  <2> SUFFICES ASSUME Init PROVE PortsApart /\ OwnWorker
    OBVIOUS
  <2>1. Allocated = {} /\ Cardinality({}) = 0
    BY FS_EmptySet DEF Init, Allocated
  <2>. QED
    BY <2>1 DEF Init, PortsApart, OwnWorker
<1>2. IInv /\ PortsApart /\ OwnWorker /\ [Next]_vars => PortsApart' /\ OwnWorker'
  BY IsolationStep
<1>. QED
  BY <1>1, <1>2, Invariance, PTL DEF Spec

-----------------------------------------------------------------------------
(* Refinement: an execution is an ExecutionStream *)

\* Without a word there is no outcome; one more word adds its kind and no other.
LEMMA ToldNothing ==
  ASSUME NEW e \in Executions, \A i \in 1 .. Len(events[e]) : events[e][i].kind = "console"
  PROVE  StreamOutcome(e) = "none"
BY DEF StreamOutcome, Told

LEMMA ToldMore ==
  ASSUME NEW e \in Executions, events[e] \in Seq(Event), NEW v \in Event,
         events'[e] = events[e] \o <<v>>
  PROVE  \A kind : Told(e, kind)' <=> Told(e, kind) \/ v.kind = kind
<1>1. /\ Len(events'[e]) = Len(events[e]) + 1 /\ Len(events[e]) \in Nat
      /\ \A i \in 1 .. Len(events[e]) : events'[e][i] = events[e][i]
      /\ events'[e][Len(events[e]) + 1] = v
  BY OneMore
<1> DEFINE n == Len(events[e])
           told == events'[e]
           before == events[e]
<1>2. /\ Len(told) = n + 1 /\ n \in Nat /\ told[n + 1] = v
      /\ \A i \in 1 .. n : told[i] = before[i]
  BY <1>1
<1> HIDE DEF n, told, before
<1>3. \A i : i \in 1 .. n + 1 <=> i \in 1 .. n \/ i = n + 1
  BY <1>2
<1>4. \A kind : (\E i \in 1 .. Len(told) : told[i].kind = kind)
                  <=> (\E i \in 1 .. n : before[i].kind = kind) \/ v.kind = kind
  BY <1>2, <1>3
<1>. QED
  BY <1>4 DEF Told, told, n, before

\* A step in which one execution makes a move of the abstract stream, or none, is a
\* step of the abstract streams.
LEMMA MoveMaps ==
  ASSUME NEW e \in Executions,
         \A f \in Executions \ {e} :
           StreamPhase(f)' = StreamPhase(f) /\ StreamOutcome(f)' = StreamOutcome(f),
         \/ StreamPhase(e)' = StreamPhase(e) /\ StreamOutcome(e)' = StreamOutcome(e)
         \/ /\ StreamPhase(e) = "new" /\ StreamPhase(e)' = "open"
            /\ StreamOutcome(e)' = StreamOutcome(e)
         \/ /\ StreamPhase(e) = "open" /\ StreamPhase(e)' = "open"
            /\ StreamOutcome(e) = "none" /\ StreamOutcome(e)' \in {"returned", "error"}
         \/ /\ StreamPhase(e) = "open" /\ StreamPhase(e)' = "ended"
            /\ \/ StreamOutcome(e)' = StreamOutcome(e)
               \/ StreamOutcome(e) = "none" /\ StreamOutcome(e)' = "error"
         \/ /\ StreamPhase(e) = "open" /\ StreamPhase(e)' = "dropped"
            /\ StreamOutcome(e)' = StreamOutcome(e)
  PROVE  [Stream!Next]_(Stream!stream)
<1> DEFINE P == [f \in Executions |-> StreamPhase(f)]
           O == [f \in Executions |-> StreamOutcome(f)]
<1>1. /\ P' = [P EXCEPT ![e] = StreamPhase(e)']
      /\ O' = [O EXCEPT ![e] = StreamOutcome(e)']
      /\ P[e] = StreamPhase(e) /\ O[e] = StreamOutcome(e)
  OBVIOUS
<1>2. /\ StreamPhase(e)' = StreamPhase(e) => P' = P
      /\ StreamOutcome(e)' = StreamOutcome(e) => O' = O
  OBVIOUS
<1>3. P \in [Executions -> {"new", "open", "ended", "dropped"}]
  BY DEF StreamPhase
<1> HIDE DEF P, O
<1>4. CASE StreamPhase(e) = "open" /\ StreamPhase(e)' = "dropped" /\ StreamOutcome(e)' = StreamOutcome(e)
  <2>1. P' = [f \in Executions |-> IF f \in {e} THEN "dropped" ELSE P[f]]
    BY <1>1, <1>3, <1>4
  <2>2. P[e] = "open" /\ O' = O /\ {e} \in SUBSET Executions
    BY <1>1, <1>2, <1>4
  <2>. QED
    BY <2>1, <2>2 DEF P, O, Stream!Next, Stream!Drop
<1>. QED
  BY <1>1, <1>2, <1>4 DEF P, O, Stream!Next, Stream!stream, Stream!Open, Stream!Tell, Stream!Close

\* No execution has been polled.
LEMMA InitMaps == Init => Stream!Init
<1>. SUFFICES ASSUME Init PROVE Stream!Init
  OBVIOUS
<1>1. ASSUME NEW e \in Executions
      PROVE  StreamPhase(e) = "new" /\ StreamOutcome(e) = "none"
  <2>1. pc[e] = "new" /\ Len(events[e]) = 0
    BY DEF Init
  <2>2. StreamOutcome(e) = "none"
    BY <2>1, ToldNothing
  <2>. QED
    BY <2>1, <2>2 DEF StreamPhase
<1>. QED
  BY <1>1 DEF Stream!Init

\* Leaving execute() closes the stream, with the runner's error only where nothing
\* was told before.
LEMMA FailMaps ==
  ASSUME IInv, NEW e \in Executions, Fail(e), pc[e] \in {"setup", "check", "health", "post"}
  PROVE  StreamOutcome(e) = "none" /\ StreamOutcome(e)' = "error" /\ pc'[e] = "done"
<1>1. events[e] = <<>> /\ events[e] \in Seq(Event)
  BY DEF IInv, Shape, TypeOK
<1>2. events'[e] = events[e] \o <<Error(e)>> /\ pc'[e] = "done"
  BY DEF Fail, Finish, IInv, TypeOK
<1>3. Error(e) \in Event /\ Error(e).kind = "error"
  BY EventType DEF Error
<1>4. Len(<<>>) = 0
  OBVIOUS
<1>5. \A kind : ~Told(e, kind)
  BY <1>1, <1>4 DEF Told
<1>6. \A kind : Told(e, kind)' <=> Told(e, kind) \/ Error(e).kind = kind
  BY <1>1, <1>2, <1>3, ToldMore
<1>. QED
  BY <1>2, <1>3, <1>5, <1>6 DEF StreamOutcome

LEMMA FinishMaps ==
  ASSUME IInv, NEW e \in Executions, NEW how, Finish(e, how, <<>>)
  PROVE  StreamOutcome(e)' = StreamOutcome(e) /\ pc'[e] = how
<1>1. events[e] \o <<>> = events[e]
  BY DEF IInv, TypeOK
<1>2. events'[e] = events[e] /\ pc'[e] = how
  BY <1>1 DEF Finish, IInv, TypeOK
<1>. QED
  BY <1>2 DEF StreamOutcome, Told

\* Every step maps to a step of the abstract streams or changes nothing of them.
LEMMA StepMaps == IInv /\ [Next]_vars => [Stream!Next]_(Stream!stream)
<1>. SUFFICES ASSUME IInv, [Next]_vars PROVE [Stream!Next]_(Stream!stream)
  OBVIOUS
<1>1. CASE UNCHANGED vars
  BY <1>1 DEF vars, Stream!stream, StreamPhase, Over, StreamOutcome, Told
<1>2. ASSUME NEW e \in Executions,
             \/ AllocatePort(e) \/ Advance(e) \/ Drop(e)
             \/ Bind(e) \/ Exit(e) \/ Die(e) \/ EmitConsole(e) \/ EmitOutcome(e)
      PROVE  [Stream!Next]_(Stream!stream)
  <2>1. \A f \in Executions \ {e} : pc'[f] = pc[f] /\ events'[f] = events[f]
    BY <1>2
    DEF AllocatePort, Advance, Setup, CheckExit, HealthCheck, FailedAttempt, Post, CloseStream,
        BreakStream, Bind, Exit, Die, EmitConsole, EmitOutcome, Drop, Fail, Finish, IInv, TypeOK
  <2>2. \A f \in Executions \ {e} :
          StreamPhase(f)' = StreamPhase(f) /\ StreamOutcome(f)' = StreamOutcome(f)
    BY <2>1 DEF StreamPhase, Over, StreamOutcome, Told
  <2>3. events' = events => StreamOutcome(e)' = StreamOutcome(e)
    BY DEF StreamOutcome, Told
  <2>4. events[e] \in Seq(Event) /\ pc'[e] = pc'[e]
    BY DEF IInv, TypeOK
  <2>5. CASE AllocatePort(e)
    <3>1. pc[e] = "new" /\ pc'[e] = "setup" /\ events' = events
      BY <2>5 DEF AllocatePort, IInv, TypeOK
    <3>. QED
      BY <2>2, <2>3, <3>1, MoveMaps DEF StreamPhase, Over
  <2>6. CASE Bind(e) \/ Exit(e) \/ Die(e)
    <3>1. pc' = pc /\ events' = events
      BY <2>6 DEF Bind, Exit, Die
    <3>. QED
      BY <2>2, <2>3, <3>1, MoveMaps DEF StreamPhase, Over
  <2>7. CASE Setup(e) \/ CheckExit(e) \/ HealthCheck(e) \/ Post(e)
    <3>1. pc[e] \in {"setup", "check", "health", "post"}
      BY <2>7 DEF Setup, CheckExit, HealthCheck, Post
    <3>2. \/ Fail(e)
          \/ pc'[e] \in {"check", "health", "post", "stream"} /\ events' = events
      BY <2>7 DEF Setup, CheckExit, HealthCheck, FailedAttempt, Post, IInv, TypeOK
    <3>3. CASE Fail(e)
      BY <2>2, <3>1, <3>3, FailMaps, MoveMaps DEF StreamPhase, Over
    <3>. QED
      BY <2>2, <2>3, <3>1, <3>2, <3>3, MoveMaps DEF StreamPhase, Over
  <2>8. CASE CloseStream(e) \/ BreakStream(e)
    <3>1. pc[e] = "stream" /\ Finish(e, "done", <<>>)
      BY <2>8 DEF CloseStream, BreakStream, Alive
    <3>. QED
      BY <2>2, <3>1, FinishMaps, MoveMaps DEF StreamPhase, Over
  <2>9. CASE EmitConsole(e)
    <3>1. pc' = pc /\ pc[e] = "stream" /\ server[e] \in Executions
          /\ events'[e] = Append(events[e], Console(server[e]))
      BY <2>9 DEF EmitConsole, Alive, IInv, TypeOK, Shape
    <3>2. Console(server[e]) \in Event /\ Console(server[e]).kind = "console"
      BY <3>1, EventType DEF Console
    <3>3. events'[e] = events[e] \o <<Console(server[e])>>
      BY <2>4, <3>1, <3>2, OneMore
    <3>4. \A kind : Told(e, kind)' <=> Told(e, kind) \/ "console" = kind
      BY <2>4, <3>2, <3>3, ToldMore
    <3>5. StreamOutcome(e)' = StreamOutcome(e)
      BY <3>4 DEF StreamOutcome
    <3>. QED
      BY <2>2, <3>1, <3>5, MoveMaps DEF StreamPhase, Over
  <2>10. CASE EmitOutcome(e)
    <3>1. pc' = pc /\ pc[e] = "stream" /\ script[e] = "running" /\ server[e] \in Executions
      BY <2>10 DEF EmitOutcome, Alive, IInv, Shape
    <3>2. StreamOutcome(e) = "none" /\ \A kind \in {"returned", "error"} : ~Told(e, kind)
      <4>1. \A i \in 1 .. Len(events[e]) : events[e][i].kind = "console"
        BY <3>1 DEF IInv, Shape
      <4>. QED
        BY <4>1, ToldNothing DEF Told
    <3>3. PICK line \in {<<Returned(server[e])>>, <<Error(server[e])>>, <<>>} :
            events'[e] = events[e] \o line
      BY <2>10 DEF EmitOutcome, IInv, TypeOK
    <3>4. CASE line = <<>>
      <4>1. events'[e] = events[e]
        BY <2>4, <3>3, <3>4
      <4>2. StreamOutcome(e)' = StreamOutcome(e)
        BY <4>1 DEF StreamOutcome, Told
      <4>. QED
        BY <2>2, <3>1, <4>2, MoveMaps DEF StreamPhase, Over
    <3>5. ASSUME NEW v \in {Returned(server[e]), Error(server[e])}, line = <<v>>
          PROVE  [Stream!Next]_(Stream!stream)
      <4>1. v \in Event /\ v.kind \in {"returned", "error"}
        <5>1. Returned(server[e]).kind = "returned" /\ Error(server[e]).kind = "error"
          BY DEF Returned, Error
        <5>2. Returned(server[e]) \in Event /\ Error(server[e]) \in Event
          BY <3>1, EventType
        <5>. QED
          BY <3>5, <5>1, <5>2
      <4>2. \A kind : Told(e, kind)' <=> Told(e, kind) \/ v.kind = kind
        BY <2>4, <3>3, <3>5, <4>1, ToldMore
      <4>3. StreamOutcome(e)' \in {"returned", "error"}
        BY <4>1, <4>2 DEF StreamOutcome
      <4>. QED
        BY <2>2, <3>1, <3>2, <4>3, MoveMaps DEF StreamPhase, Over
    <3>. QED
      BY <3>3, <3>4, <3>5
  <2>11. CASE Drop(e)
    <3>1. pc[e] \notin {"new", "done", "dropped", "lost"} /\ Finish(e, "dropped", <<>>)
      BY <2>11 DEF Drop, Over
    <3>. QED
      BY <2>2, <3>1, FinishMaps, MoveMaps DEF StreamPhase, Over
  <2>. QED
    BY <1>2, <2>5, <2>6, <2>7, <2>8, <2>9, <2>10, <2>11 DEF Advance
<1>3. ASSUME NEW h \in Hosts, Crash(h)
      PROVE  [Stream!Next]_(Stream!stream)
  <2> DEFINE P == [f \in Executions |-> StreamPhase(f)]
             O == [f \in Executions |-> StreamOutcome(f)]
  <2>1. PICK S \in SUBSET Executions :
          /\ S # {} /\ \A f \in S : pc[f] \notin {"new", "done", "dropped", "lost"}
          /\ pc' = [f \in Executions |-> IF f \in S THEN "lost" ELSE pc[f]]
          /\ events' = events
    <3> DEFINE S == {f \in Executions : HostOf[f] = h /\ pc[f] # "new" /\ ~Over(f)}
    <3>1. S # {} /\ events' = events /\ pc' = [f \in Executions |-> IF f \in S THEN "lost" ELSE pc[f]]
      BY <1>3 DEF Crash
    <3>2. \A f \in S : pc[f] \notin {"new", "done", "dropped", "lost"}
      BY DEF Over
    <3>. QED
      BY <3>1, <3>2
  <2>2. \A f \in Executions : StreamPhase(f)' = IF f \in S THEN "dropped" ELSE StreamPhase(f)
    BY <2>1 DEF StreamPhase, Over
  <2>3. \A f \in Executions : StreamOutcome(f)' = StreamOutcome(f)
    BY <2>1 DEF StreamOutcome, Told
  <2>4. \A f \in S : P[f] = "open"
    BY <2>1 DEF StreamPhase, Over
  <2>5. P' = [f \in Executions |-> IF f \in S THEN "dropped" ELSE P[f]] /\ O' = O
    BY <2>2, <2>3
  <2>. QED
    BY <2>1, <2>4, <2>5 DEF Stream!Next, Stream!Drop
<1>. QED
  BY <1>1, <1>2, <1>3 DEF Next

\* execute() promises its caller what ExecutionStream says: one outcome at most, and
\* nothing after the end.  That the end comes is left to the runs.
THEOREM RefinesStream == Spec => Stream!Spec
BY InitMaps, StepMaps, Invariance, PTL DEF Spec, Stream!Spec

===============================================================================
