--------------------------- MODULE LambdaStartProofs ---------------------------
(***************************************************************************)
(* Proofs about LambdaStart, for any number of servers, functions and      *)
(* faults: every start that succeeds leaves the tables complete, and no    *)
(* start harms what an earlier one stored.                                 *)
(***************************************************************************)
EXTENDS LambdaStart, TLAPS

\* The database of a pool is one of the databases, and the file of a server on
\* file.
LEMMA DatabaseType ==
  \A s \in Servers, pool \in Pools :
    /\ Database(s, pool) \in Databases
    /\ s \notin InMemory => Database(s, pool) = File
BY DEF Database, Databases

LEMMA FileIsNoPool == \A s \in Servers : File \notin {s} \X Pools
BY StartAssumption DEF Pools

\* The statements create the objects, one each.
LEMMA StatementsType == \A i \in 1 .. Last : Statements[i] \in Object
<1>1. \A t \in Tables : <<"table", t>> \in Object /\ <<"indexes", t>> \in Object
  BY DEF Object
<1>. QED
  BY <1>1 DEF Statements, Last, Tables

LEMMA StatementsCover == \A o \in Object : \E i \in 1 .. Last : Statements[i] = o
<1>1. SUFFICES ASSUME NEW k \in {"table", "indexes"}, NEW t \in Tables
               PROVE  \E i \in 1 .. Last : Statements[i] = <<k, t>>
  BY DEF Object
<1>2. CASE k = "table"
  <2>1. /\ Statements[1] = <<"table", "functions">>
        /\ Statements[3] = <<"table", "function_versions">>
        /\ Statements[5] = <<"table", "function_aliases">>
        /\ Statements[7] = <<"table", "invocations">>
    BY DEF Statements
  <2>. QED
    BY <1>2, <2>1 DEF Tables, Last
<1>3. CASE k = "indexes"
  <2>1. /\ Statements[2] = <<"indexes", "functions">>
        /\ Statements[4] = <<"indexes", "function_versions">>
        /\ Statements[6] = <<"indexes", "function_aliases">>
        /\ Statements[8] = <<"indexes", "invocations">>
    BY DEF Statements
  <2>. QED
    BY <1>3, <2>1 DEF Tables, Last
<1>. QED
  BY <1>2, <1>3

\* A database whose statements are all done has every table and index.
LEMMA DoneIsComplete ==
  ASSUME TypeOK, NEW s \in Servers, Done(s, Last)
  PROVE  schema[Database(s, "main")] = Object
<1>1. schema[Database(s, "main")] \subseteq Object
  BY DatabaseType DEF TypeOK, Pools
<1>. QED
  BY <1>1, StatementsCover DEF Done

-----------------------------------------------------------------------------
(* Steps *)

\* A server that goes down is off, and takes nothing from the file or from the
\* databases of others.
LEMMA DownKeeps ==
  ASSUME IInv, NEW s \in Servers, NEW how \in Outcomes, GoDown(s, how), faults' \in 0 .. MaxFaults
  PROVE  IInv'
<1>1. TypeOK'
  <2>1. schema' \in [Databases -> SUBSET Object] /\ rows' \in [Databases -> SUBSET Functions]
    BY DEF IInv, TypeOK, GoDown, Emptied
  <2>. QED
    BY <2>1 DEF IInv, TypeOK, GoDown
<1>2. \A t \in Servers \ {s} : schema'[Database(t, "main")] = schema[Database(t, "main")]
  BY DatabaseType, FileIsNoPool DEF GoDown, Emptied, Database, Pools
<1>3. Progress'
  BY <1>2 DEF IInv, TypeOK, Progress, Done, GoDown, Database
<1>4. rows'[File] = rows[File]
  BY FileIsNoPool DEF GoDown, Emptied, Databases
<1>5. StoredSurvives'
  BY <1>4 DEF IInv, StoredSurvives, GoDown
<1>. QED
  BY <1>1, <1>3, <1>5 DEF IInv

\* A fault is counted within its bound.
LEMMA FaultType == TypeOK /\ Fault => faults' \in 0 .. MaxFaults
BY StartAssumption DEF TypeOK, Fault

LEMMA StartKeeps ==
  ASSUME IInv, NEW s \in Servers, Start(s)
  PROVE  IInv'
<1>1. TypeOK'
  <2>1. step' \in [Servers -> 1 .. Last + 1] /\ outcome' \in [Servers -> Outcomes]
    <3>1. 1 \in 1 .. Last + 1 /\ "none" \in Outcomes
      BY DEF Last, Outcomes
    <3>. QED
      BY <3>1 DEF IInv, TypeOK, Start
  <2>2. pc' \in [Servers -> {"off", "connect", "migrate", "registry", "ready"}]
    BY DEF IInv, TypeOK, Start
  <2>. QED
    BY <2>1, <2>2 DEF IInv, TypeOK, Start
<1>2. Progress' /\ StoredSurvives'
  BY DEF IInv, TypeOK, Start, Progress, Done, Database, StoredSurvives
<1>. QED
  BY <1>1, <1>2 DEF IInv

LEMMA ConnectKeeps ==
  ASSUME IInv, NEW s \in Servers, Connect(s)
  PROVE  IInv'
<1>1. CASE pc' = [pc EXCEPT ![s] = "migrate"]
           /\ UNCHANGED <<step, outcome, present, schema, rows, stored, faults>>
  <2>1. TypeOK' /\ StoredSurvives'
    BY <1>1 DEF IInv, TypeOK, StoredSurvives
  <2>2. step[s] = 1 /\ 1 \in 1 .. Last /\ \A i \in 1 .. 1 - 1 : FALSE
    BY DEF IInv, Progress, Connect, Last
  <2>3. Progress'
    BY <1>1, <2>2 DEF IInv, TypeOK, Progress, Done, Database
  <2>. QED
    BY <2>1, <2>3 DEF IInv
<1>2. CASE GoDown(s, "unreachable") /\ (faults' = faults \/ Fault)
  BY <1>2, DownKeeps, FaultType DEF IInv, TypeOK, Outcomes
<1>. QED
  BY <1>1, <1>2 DEF Connect

\* A statement adds to the database of its server and takes nothing away.
LEMMA MigrateKeeps ==
  ASSUME IInv, NEW s \in Servers, Migrate(s)
  PROVE  IInv'
<1> DEFINE d == Database(s, "main")
           st == Statements[step[s]]
<1>1. pc[s] = "migrate" /\ step[s] \in 1 .. Last /\ d \in Databases /\ st \in Object
  BY DatabaseType, StatementsType DEF IInv, Progress, Migrate, Pools
<1>2. CASE /\ Create(st, d)
           /\ step' = [step EXCEPT ![s] = @ + 1]
           /\ pc' = [pc EXCEPT ![s] = IF step[s] = Last THEN "registry" ELSE "migrate"]
           /\ UNCHANGED <<outcome, present, stored, faults>>
  <2>1. schema' = [schema EXCEPT ![d] = @ \cup {st}] /\ rows' = rows
    BY <1>2 DEF Create
  <2>2. schema' \in [Databases -> SUBSET Object]
    BY <1>1, <2>1 DEF IInv, TypeOK
  <2>3. step'[s] = step[s] + 1 /\ step' \in [Servers -> 1 .. Last + 1]
    BY <1>1, <1>2 DEF IInv, TypeOK, Last
  <2>4. TypeOK'
    BY <1>2, <2>1, <2>2, <2>3 DEF IInv, TypeOK
  <2>5. \A e \in Databases : schema[e] \subseteq schema'[e]
    BY <2>1 DEF IInv, TypeOK
  <2>6. \A t \in Servers : \A n \in Nat : Done(t, n) => Done(t, n)'
    BY <2>5, DatabaseType DEF Done, Pools, Database
  <2>7. PICK n \in 1 .. Last : n = step[s]
    BY <1>1
  <2>8. step'[s] = n + 1 /\ Done(s, n)'
    <3>1. Done(s, n - 1)'
      BY <1>1, <2>6, <2>7 DEF IInv, Progress, Last
    <3>2. Statements[n] \in schema'[Database(s, "main")]
      BY <1>1, <2>1, <2>7 DEF IInv, TypeOK
    <3>3. \A i \in 1 .. n : i = n \/ i \in 1 .. n - 1
      BY DEF Last
    <3>. QED
      BY <2>3, <2>7, <3>1, <3>2, <3>3 DEF Done, Database
  <2>9. Progress'
    <3>1. ASSUME NEW t \in Servers \ {s}
          PROVE  /\ pc'[t] = "connect" => step'[t] = 1
                 /\ pc'[t] = "migrate" => step'[t] \in 1 .. Last /\ Done(t, step[t] - 1)'
                 /\ pc'[t] \in {"registry", "ready"} => Done(t, Last)'
      <4>1. pc'[t] = pc[t] /\ step'[t] = step[t]
        BY <1>2 DEF IInv, TypeOK
      <4>2. PICK m \in 1 .. Last + 1 : m = step[t]
        BY DEF IInv, TypeOK
      <4>3. m - 1 \in Nat /\ Last \in Nat
        BY DEF Last
      <4>4. pc[t] = "migrate" => Done(t, m - 1)'
        BY <2>6, <4>2, <4>3 DEF IInv, Progress
      <4>5. pc[t] \in {"registry", "ready"} => Done(t, Last)'
        BY <2>6, <4>3 DEF IInv, Progress
      <4>. QED
        BY <4>1, <4>2, <4>4, <4>5 DEF IInv, Progress
    <3>2. /\ pc'[s] = "migrate" => step'[s] \in 1 .. Last /\ Done(s, step[s] - 1)'
          /\ pc'[s] \in {"registry", "ready"} => Done(s, Last)'
          /\ pc'[s] # "connect"
      <4>1. pc'[s] = IF n = Last THEN "registry" ELSE "migrate"
        BY <1>2, <2>7 DEF IInv, TypeOK
      <4>2. n # Last => n + 1 \in 1 .. Last
        BY DEF Last
      <4>3. n + 1 - 1 = n
        BY DEF Last
      <4>. QED
        BY <2>8, <4>1, <4>2, <4>3
    <3>. QED
      BY <3>1, <3>2 DEF Progress
  <2>10. StoredSurvives'
    BY <1>2, <2>1 DEF IInv, StoredSurvives
  <2>. QED
    BY <2>4, <2>9, <2>10 DEF IInv
<1>3. CASE GoDown(s, "no such table") /\ faults' = faults
  BY <1>3, DownKeeps DEF IInv, TypeOK, Outcomes
<1>4. CASE GoDown(s, "database error") /\ Fault
  BY <1>4, DownKeeps, FaultType DEF IInv, TypeOK, Outcomes
<1>. QED
  BY <1>2, <1>3, <1>4 DEF Migrate

LEMMA OpenRegistryKeeps ==
  ASSUME IInv, NEW s \in Servers, OpenRegistry(s)
  PROVE  IInv'
<1>1. CASE /\ pc' = [pc EXCEPT ![s] = "ready"]
           /\ outcome' = [outcome EXCEPT ![s] = "ready"]
           /\ UNCHANGED <<step, present, schema, rows, stored, faults>>
  <2>1. TypeOK' /\ StoredSurvives'
    BY <1>1 DEF IInv, TypeOK, StoredSurvives, Outcomes
  <2>2. Progress'
    BY <1>1 DEF IInv, TypeOK, OpenRegistry, Progress, Done, Database
  <2>. QED
    BY <2>1, <2>2 DEF IInv
<1>2. CASE GoDown(s, "database error") /\ Fault
  BY <1>2, DownKeeps, FaultType DEF IInv, TypeOK, Outcomes
<1>. QED
  BY <1>1, <1>2 DEF OpenRegistry

LEMMA CrashKeeps ==
  ASSUME IInv, NEW s \in Servers, Crash(s)
  PROVE  IInv'
BY DownKeeps, FaultType DEF Crash, IInv, Outcomes

LEMMA CreateFunctionKeeps ==
  ASSUME IInv, NEW s \in Servers, CreateFunction(s)
  PROVE  IInv'
<1> DEFINE d == Database(s, "registry")
<1>1. PICK f \in Functions \ rows[d] :
        /\ rows' = [rows EXCEPT ![d] = @ \cup {f}]
        /\ stored' = IF d = File THEN stored \cup {f} ELSE stored
  BY DEF CreateFunction
<1>2. UNCHANGED <<pc, step, outcome, present, schema, faults>>
  BY DEF CreateFunction
<1>3. d \in Databases /\ File \in Databases
  BY DatabaseType DEF Pools, Databases
<1>4. TypeOK'
  BY <1>1, <1>2, <1>3 DEF IInv, TypeOK
<1>5. Progress'
  BY <1>2 DEF IInv, Progress, Done, Database
<1>6. StoredSurvives'
  BY <1>1, <1>3 DEF IInv, TypeOK, StoredSurvives
<1>. QED
  BY <1>4, <1>5, <1>6 DEF IInv

LEMMA InitKeeps == Init => IInv
BY StartAssumption DEF Init, IInv, TypeOK, Progress, StoredSurvives, Outcomes, Last, Databases

LEMMA NextKeeps == IInv /\ [Next]_vars => IInv'
<1>. SUFFICES ASSUME IInv, [Next]_vars PROVE IInv'
  OBVIOUS
<1>1. CASE UNCHANGED vars
  BY <1>1 DEF vars, IInv, TypeOK, Progress, Done, Database, StoredSurvives
<1>2. CASE CreateFile
  BY <1>2 DEF CreateFile, IInv, TypeOK, Progress, Done, Database, StoredSurvives
<1>3. ASSUME NEW s \in Servers, Start(s) \/ Initialize(s) \/ Crash(s) \/ CreateFunction(s)
      PROVE  IInv'
  BY <1>3, StartKeeps, ConnectKeeps, MigrateKeeps, OpenRegistryKeeps, CrashKeeps, CreateFunctionKeeps
     DEF Initialize
<1>. QED
  BY <1>1, <1>2, <1>3 DEF Next

LEMMA Invariance == Spec => []IInv
BY InitKeeps, NextKeeps, PTL DEF Spec

-----------------------------------------------------------------------------
(* Theorems *)

\* Databases, servers and their outcomes keep their types.
THEOREM TypeCorrect == Spec => []TypeOK
<1>1. IInv => TypeOK
  BY DEF IInv
<1>. QED
  BY <1>1, Invariance, PTL

\* With every server on the file, initialize returns Ok only when both of its
\* pools see all tables and indexes: run_migrations may be cut off anywhere and
\* run by several servers at once.
THEOREM ReadyIsUsable == ASSUME InMemory = {} PROVE Spec => []ReadyToUse
<1>1. ASSUME InMemory = {} PROVE IInv => ReadyToUse
  <2>. SUFFICES ASSUME IInv, NEW s \in Servers, NEW pool \in Pools, pc[s] = "ready"
                PROVE  schema[Database(s, pool)] = Object
    BY DEF ReadyToUse
  <2>1. Database(s, pool) = Database(s, "main")
    BY <1>1 DEF Database
  <2>2. Done(s, Last)
    BY DEF IInv, Progress
  <2>. QED
    BY <2>1, <2>2, DoneIsComplete DEF IInv
<1>. QED
  BY <1>1, Invariance, PTL

\* A function created in the file is never lost to a restart or to the
\* migrations of another start.
THEOREM NothingStoredIsLost == Spec => []StoredSurvives
<1>1. IInv => StoredSurvives
  BY DEF IInv
<1>. QED
  BY <1>1, Invariance, PTL

===============================================================================
