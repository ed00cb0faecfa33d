------------------------------ MODULE LambdaStart ------------------------------
(***************************************************************************)
(* LambdaSystem::initialize: one connection pool on which the migrations    *)
(* run and the metrics are written, and a second one for the registry.     *)
(* Server processes start, fail, crash and start again, several of them on  *)
(* one database file; what a statement did before a crash stays.           *)
(*                                                                         *)
(* Each of the four migrations is a table and the indexes on it, the       *)
(* indexes of a file taken as one.  SQLite commits every statement on its  *)
(* own.  To sqlx a file is one database for all who open it and must exist, *)
(* while every pool on "sqlite::memory:" has a database of its own.        *)
(***************************************************************************)
EXTENDS Naturals

CONSTANTS
  Servers,    \* server processes
  InMemory,   \* those configured with LambdaConfig::in_memory
  Functions,  \* functions callers create
  File,       \* the database file
  MaxFaults   \* bound: crashes and failing statements

ASSUME StartAssumption ==
  /\ InMemory \subseteq Servers
  /\ File \notin Servers \X {"main", "registry"}
  /\ MaxFaults \in Nat

VARIABLES
  pc,        \* per server: off, connect, migrate, registry, ready
  step,      \* per server, the statement of the migrations it executes next
  outcome,   \* per server, how its last start went
  present,   \* whether the file exists
  schema,    \* per database, its tables and indexes
  rows,      \* per database, the rows of functions
  stored,    \* history: functions whose creation in the file succeeded
  faults     \* history: faults so far

vars == <<pc, step, outcome, present, schema, rows, stored, faults>>

Pools == {"main", "registry"}
Databases == {File} \cup (Servers \X Pools)

\* The database a pool of a server talks to.
Database(s, pool) == IF s \in InMemory THEN <<s, pool>> ELSE File

-----------------------------------------------------------------------------
(* The migrations *)

Tables == {"functions", "function_versions", "function_aliases", "invocations"}
Object == {"table", "indexes"} \X Tables

\* Mutant: the indexes of a file come before its table.
StatementsIndexFirst ==
  << <<"indexes", "functions">>, <<"table", "functions">>,
     <<"table", "function_versions">>, <<"indexes", "function_versions">>,
     <<"table", "function_aliases">>, <<"indexes", "function_aliases">>,
     <<"table", "invocations">>, <<"indexes", "invocations">> >>

Statements ==
  << <<"table", "functions">>, <<"indexes", "functions">>,
     <<"table", "function_versions">>, <<"indexes", "function_versions">>,
     <<"table", "function_aliases">>, <<"indexes", "function_aliases">>,
     <<"table", "invocations">>, <<"indexes", "invocations">> >>

Last == 8

\* An index needs its table; a foreign key is not looked at before rows come in.
Applies(st, d) == st[1] = "indexes" => <<"table", st[2]>> \in schema[d]

\* Mutant: DROP TABLE IF EXISTS before CREATE TABLE.
CreateAfresh(st, d) ==
  /\ schema' = [schema EXCEPT ![d] = @ \cup {st}]
  /\ rows' = [rows EXCEPT ![d] = IF st = <<"table", "functions">> THEN {} ELSE @]

\* CREATE ... IF NOT EXISTS.
Create(st, d) ==
  /\ schema' = [schema EXCEPT ![d] = @ \cup {st}]
  /\ UNCHANGED rows

-----------------------------------------------------------------------------
(* initialize *)

\* A server that is gone takes its in-memory databases along.
Emptied(db, s) == [d \in Databases |-> IF d \in {s} \X Pools THEN {} ELSE db[d]]

\* initialize returns Err, or its process ends.
GoDown(s, how) ==
  /\ pc' = [pc EXCEPT ![s] = "off"]
  /\ outcome' = [outcome EXCEPT ![s] = how]
  /\ schema' = Emptied(schema, s)
  /\ rows' = Emptied(rows, s)
  /\ UNCHANGED <<step, present, stored>>

Fault == faults < MaxFaults /\ faults' = faults + 1

\* Mutant: counted from zero.
StartAtZero(s) ==
  /\ pc[s] = "off"
  /\ pc' = [pc EXCEPT ![s] = "connect"]
  /\ step' = [step EXCEPT ![s] = 0]
  /\ outcome' = [outcome EXCEPT ![s] = "none"]
  /\ UNCHANGED <<present, schema, rows, stored, faults>>

Start(s) ==
  /\ pc[s] = "off"
  /\ pc' = [pc EXCEPT ![s] = "connect"]
  /\ step' = [step EXCEPT ![s] = 1]
  /\ outcome' = [outcome EXCEPT ![s] = "none"]
  /\ UNCHANGED <<present, schema, rows, stored, faults>>

\* SqlitePool::connect opens a first connection; it does not create a file.
Reachable(s) == present \/ s \in InMemory

Connect(s) ==
  /\ pc[s] = "connect"
  /\ \/ IF Reachable(s)
        THEN /\ pc' = [pc EXCEPT ![s] = "migrate"]
             /\ UNCHANGED <<step, outcome, present, schema, rows, stored, faults>>
        ELSE GoDown(s, "unreachable") /\ UNCHANGED faults
     \/ Fault /\ GoDown(s, "unreachable")

\* Mutant: an error of a migration is only logged.
MigrateIgnoring(s) ==
  LET d == Database(s, "main")
      st == Statements[step[s]]
  IN  /\ pc[s] = "migrate"
      /\ step' = [step EXCEPT ![s] = @ + 1]
      /\ pc' = [pc EXCEPT ![s] = IF step[s] = Last THEN "registry" ELSE "migrate"]
      /\ \/ Applies(st, d) /\ Create(st, d) /\ UNCHANGED faults
         \/ Fault /\ UNCHANGED <<schema, rows>>
      /\ UNCHANGED <<outcome, present, stored>>

\* One statement of run_migrations.  It fails when its index has no table, when
\* another process holds the file's lock too long, or when the disk does.
Migrate(s) ==
  LET d == Database(s, "main")
      st == Statements[step[s]]
  IN  /\ pc[s] = "migrate"
      /\ \/ IF Applies(st, d)
            THEN /\ Create(st, d)
                 /\ step' = [step EXCEPT ![s] = @ + 1]
                 /\ pc' = [pc EXCEPT ![s] = IF step[s] = Last THEN "registry" ELSE "migrate"]
                 /\ UNCHANGED <<outcome, present, stored, faults>>
            ELSE GoDown(s, "no such table") /\ UNCHANGED faults
         \/ Fault /\ GoDown(s, "database error")

\* FunctionRegistry::new connects to the same URL; the rest of initialize only
\* builds values.
OpenRegistry(s) ==
  /\ pc[s] = "registry"
  /\ \/ /\ pc' = [pc EXCEPT ![s] = "ready"]
        /\ outcome' = [outcome EXCEPT ![s] = "ready"]
        /\ UNCHANGED <<step, present, schema, rows, stored, faults>>
     \/ Fault /\ GoDown(s, "database error")

-----------------------------------------------------------------------------
(* Around it *)

Crash(s) == pc[s] # "off" /\ Fault /\ GoDown(s, "crashed")

\* Somebody creates the empty file.
CreateFile ==
  /\ ~present /\ present' = TRUE
  /\ UNCHANGED <<pc, step, outcome, schema, rows, stored, faults>>

\* create_function, for the registry's calls: INSERT INTO functions.
CreateFunction(s) ==
  LET d == Database(s, "registry")
  IN  /\ pc[s] = "ready" /\ <<"table", "functions">> \in schema[d]
      /\ \E f \in Functions \ rows[d] :
           /\ rows' = [rows EXCEPT ![d] = @ \cup {f}]
           /\ stored' = IF d = File THEN stored \cup {f} ELSE stored
      /\ UNCHANGED <<pc, step, outcome, present, schema, faults>>

-----------------------------------------------------------------------------

Init ==
  /\ pc = [s \in Servers |-> "off"]
  /\ step = [s \in Servers |-> 1]
  /\ outcome = [s \in Servers |-> "none"]
  /\ present \in BOOLEAN
  /\ schema = [d \in Databases |-> {}]
  /\ rows = [d \in Databases |-> {}]
  /\ stored = {} /\ faults = 0

Initialize(s) == Connect(s) \/ Migrate(s) \/ OpenRegistry(s)

Next ==
  \/ CreateFile
  \/ \E s \in Servers : Start(s) \/ Initialize(s) \/ Crash(s) \/ CreateFunction(s)

Spec == Init /\ [][Next]_vars

\* The future of initialize is polled to its end.
FairSpec == Spec /\ \A s \in Servers : WF_vars(Initialize(s))

-----------------------------------------------------------------------------
(* Properties *)

Outcomes == {"none", "ready", "unreachable", "no such table", "database error", "crashed"}

TypeOK ==
  /\ pc \in [Servers -> {"off", "connect", "migrate", "registry", "ready"}]
  /\ step \in [Servers -> 1 .. Last + 1]
  /\ outcome \in [Servers -> Outcomes]
  /\ present \in BOOLEAN
  /\ schema \in [Databases -> SUBSET Object]
  /\ rows \in [Databases -> SUBSET Functions]
  /\ stored \subseteq Functions
  /\ faults \in 0 .. MaxFaults

\* "Initialized LambdaSystem ready to use": once initialize returns Ok, every
\* table is there for both pools, whatever crashed halfway before or starts at
\* the same time.
ReadyToUse ==
  \A s \in Servers, pool \in Pools : pc[s] = "ready" => schema[Database(s, pool)] = Object

\* A function that was created stays through every restart and every further run
\* of the migrations.
StoredSurvives == stored \subseteq rows[File]

\* What makes these inductive: the statements behind a server's step are done in
\* the database it migrates, and nobody else undoes one.
Done(s, n) == \A i \in 1 .. n : Statements[i] \in schema[Database(s, "main")]

Progress ==
  \A s \in Servers :
    /\ pc[s] = "connect" => step[s] = 1
    /\ pc[s] = "migrate" => step[s] \in 1 .. Last /\ Done(s, step[s] - 1)
    /\ pc[s] \in {"registry", "ready"} => Done(s, Last)

IInv == TypeOK /\ Progress /\ StoredSurvives

\* "All migrations are idempotent": whatever earlier starts left behind when they
\* failed or crashed, and whatever concurrent ones do meanwhile, a start that
\* finds the file and meets no further fault makes the system ready.
Recovers ==
  \A s \in Servers : pc[s] = "connect" /\ present /\ faults = MaxFaults ~> pc[s] = "ready"

===============================================================================
