------------------------- MODULE LambdaInvocationProofs -------------------------
(***************************************************************************)
(* Proofs about FunctionRegistry, for every number of functions, aliases,  *)
(* concurrent calls and versions, and about LambdaInvocation, which adds   *)
(* any number of invocations to it.  The invocations' invariant rests on   *)
(* the registry's, whose lemmas are cited where an invocation has read     *)
(* from tables that other calls go on to change.                           *)
(***************************************************************************)
EXTENDS LambdaInvocation, SequenceTheorems, TLAPS

USE BoundAssumption, InvocationAssumption

-----------------------------------------------------------------------------
(* How one step may change the tables *)

\* An idle call is a call.
LEMMA IdleCallType == IdleCall \in Call /\ IdleCall.pc = "idle"
BY DEF IdleCall, Call, Statements, Results

\* A restart touches no table, and leaves no call where it was but those that
\* were idle.
LEMMA RestartStep ==
  ASSUME TypeOK, Restart
  PROVE  /\ UNCHANGED <<functions, versions, aliases, used, tables>>
         /\ call' \in [Clients -> Call]
         /\ \A c \in Clients : call'[c] = call[c] \/ call'[c] = IdleCall
BY IdleCallType DEF Restart, LoseCalls, tables, TypeOK

\* Only create_function adds a function, under a fresh id; update_function
\* replaces a row by one of the same id and name; delete_function removes rows.
LEMMA FunctionsStep ==
  ASSUME TypeOK, UsedIds, CallShape, [Next]_vars
  PROVE  /\ used \subseteq used'
         /\ \A i \in used : Exists(i)' => Exists(i)
         /\ \A f \in functions' : f.id \in used'
         /\ functions' \subseteq FunctionRow
<1>1. ASSUME NEW c \in Clients, CreateFunction(c)
      PROVE  /\ used \subseteq used'
             /\ \A i \in used : Exists(i)' => Exists(i)
             /\ \A f \in functions' : f.id \in used'
             /\ functions' \subseteq FunctionRow
  BY <1>1 DEF CreateFunction, TypeOK, UsedIds, Exists, FunctionRow, tables
<1>2. ASSUME NEW c \in Clients, DeleteFunction(c)
      PROVE  /\ used \subseteq used'
             /\ \A i \in used : Exists(i)' => Exists(i)
             /\ \A f \in functions' : f.id \in used'
             /\ functions' \subseteq FunctionRow
  BY <1>2 DEF DeleteFunction, TypeOK, UsedIds, Exists
<1>3. ASSUME NEW c \in Clients, UpdateWrite(c)
      PROVE  /\ used \subseteq used'
             /\ \A i \in used : Exists(i)' => Exists(i)
             /\ \A f \in functions' : f.id \in used'
             /\ functions' \subseteq FunctionRow
  <2>1. call[c].config \in Config
    BY <1>3 DEF UpdateWrite, CallShape, At
  <2>. QED
    BY <1>3, <2>1 DEF UpdateWrite, TypeOK, UsedIds, Exists, FunctionRow
<1>4. UNCHANGED <<functions, used>> =>
             /\ used \subseteq used'
             /\ \A i \in used : Exists(i)' => Exists(i)
             /\ \A f \in functions' : f.id \in used'
             /\ functions' \subseteq FunctionRow
  BY DEF TypeOK, UsedIds, Exists
<1>5. ASSUME NEW c \in Clients, Start(c) \/ Step(c) \/ Abandon(c),
             ~CreateFunction(c), ~DeleteFunction(c), ~UpdateWrite(c)
      PROVE  UNCHANGED <<functions, used>>
  BY <1>5 DEF Start, Step, Abandon, UpdateSelect, PublishSelect, UpsertAlias, AliasCall, Resolve,
       PublishMax, PublishInsert, UpsertCheckFunction, UpsertCheckVersion,
       UpdateAliasCheckVersion, UpdateAliasSelect, UpdateAliasWrite, CreateAliasCheckVersion,
       CreateAliasInsert, ResolveVersion, CheckVersion, tables
<1>. QED
  BY <1>1, <1>2, <1>3, <1>4, <1>5, RestartStep DEF Next, CallStep, vars

\* The version table changes in two ways: publish_version adds the one row its
\* call computed, unless a constraint rejects it, and delete_function removes
\* all rows of one function together with the function.
LEMMA VersionsStep ==
  ASSUME TypeOK, UsedIds, CallShape, [Next]_vars
  PROVE  /\ versions' \subseteq VersionRow
         /\ \A r \in versions : r \in versions' \/ ~Exists(r.id)'
         /\ \A r \in versions' \ versions :
              /\ Exists(r.id) /\ Exists(r.id)' /\ ~VersionExists(r.id, r.version)
              /\ \E c \in Clients : /\ At(c, "publish_insert")
                                    /\ r.id = call[c].id /\ r.version = call[c].version
              /\ versions' = versions \cup {r}
         /\ \A r \in versions' : r \in versions /\ Exists(r.id) => Exists(r.id)'
<1> DEFINE Goal ==
         /\ versions' \subseteq VersionRow
         /\ \A r \in versions : r \in versions' \/ ~Exists(r.id)'
         /\ \A r \in versions' \ versions :
              /\ Exists(r.id) /\ Exists(r.id)' /\ ~VersionExists(r.id, r.version)
              /\ \E c \in Clients : /\ At(c, "publish_insert")
                                    /\ r.id = call[c].id /\ r.version = call[c].version
              /\ versions' = versions \cup {r}
         /\ \A r \in versions' : r \in versions /\ Exists(r.id) => Exists(r.id)'
<1>1. ASSUME NEW c \in Clients, PublishInsert(c)
      PROVE  Goal
  <2>1. CASE InsertRejected(call[c].id, call[c].version)
    BY <1>1, <2>1 DEF PublishInsert, TypeOK, Exists
  <2>2. CASE ~InsertRejected(call[c].id, call[c].version)
    <3> DEFINE new == [id |-> call[c].id, version |-> call[c].version, config |-> call[c].config]
    <3>1. new \in VersionRow
      BY <1>1 DEF PublishInsert, TypeOK, UsedIds, CallShape, VersionRow, At, Idle, Call
    <3>2. versions' = versions \cup {new} /\ functions' = functions
      BY <1>1, <2>2 DEF PublishInsert
    <3>3. Exists(new.id) /\ ~VersionExists(new.id, new.version)
      BY <2>2 DEF InsertRejected
    <3>4. At(c, "publish_insert")
      BY <1>1 DEF PublishInsert
    <3>. QED
      BY <3>1, <3>2, <3>3, <3>4 DEF TypeOK, Exists
  <2>. QED
    BY <2>1, <2>2
<1>2. ASSUME NEW c \in Clients, DeleteFunction(c)
      PROVE  Goal
  BY <1>2 DEF DeleteFunction, TypeOK, Exists
<1>3. ASSUME NEW c \in Clients, CreateFunction(c)
      PROVE  Goal
  BY <1>3 DEF CreateFunction, TypeOK, Exists, tables
<1>4. ASSUME NEW c \in Clients, UpdateWrite(c)
      PROVE  Goal
  <2>1. \A f \in functions : \E g \in functions' : g.id = f.id
    <3>. SUFFICES ASSUME NEW f \in functions PROVE \E g \in functions' : g.id = f.id
      OBVIOUS
    <3> DEFINE g == IF f.id = call[c].id THEN [f EXCEPT !.config = call[c].config] ELSE f
    <3>1. g \in functions'
      BY <1>4 DEF UpdateWrite
    <3>2. g.id = f.id
      BY DEF TypeOK, FunctionRow
    <3>. QED
      BY <3>1, <3>2
  <2>. QED
    BY <1>4, <2>1 DEF UpdateWrite, TypeOK, Exists
<1>5. UNCHANGED <<functions, versions>> => Goal
  BY DEF TypeOK, Exists
<1>6. ASSUME NEW c \in Clients, Start(c) \/ Step(c) \/ Abandon(c),
             ~CreateFunction(c), ~DeleteFunction(c), ~UpdateWrite(c), ~PublishInsert(c)
      PROVE  UNCHANGED <<functions, versions>>
  BY <1>6 DEF Start, Step, Abandon, UpdateSelect, PublishSelect, UpsertAlias, AliasCall, Resolve,
       PublishMax, UpsertCheckFunction, UpsertCheckVersion,
       UpdateAliasCheckVersion, UpdateAliasSelect, UpdateAliasWrite, CreateAliasCheckVersion,
       CreateAliasInsert, ResolveVersion, CheckVersion, tables
<1>. QED
  BY <1>1, <1>2, <1>3, <1>4, <1>5, <1>6, RestartStep DEF Next, CallStep, vars

\* The alias table changes in three ways: create_alias adds a row for an alias
\* that has none, update_alias moves a row, both to a version that exists, and
\* delete_function removes the rows of the function it deletes.
LEMMA AliasesStep ==
  ASSUME TypeOK, UsedIds, CallShape, [Next]_vars
  PROVE  /\ aliases' \subseteq AliasRow
         /\ \A r \in aliases : AliasExists(r.id, r.alias)' \/ ~Exists(r.id)'
         /\ \A r \in aliases' \ aliases : VersionExists(r.id, r.version) /\ versions' = versions
         /\ \A r \in aliases' : r \in aliases => versions' = versions \/ Exists(r.id)' \/ ~Exists(r.id)
         /\ (\A r, s \in aliases : r.id = s.id /\ r.alias = s.alias => r = s)
              => (\A r, s \in aliases' : r.id = s.id /\ r.alias = s.alias => r = s)
<1> DEFINE Goal ==
         /\ aliases' \subseteq AliasRow
         /\ \A r \in aliases : AliasExists(r.id, r.alias)' \/ ~Exists(r.id)'
         /\ \A r \in aliases' \ aliases : VersionExists(r.id, r.version) /\ versions' = versions
         /\ \A r \in aliases' : r \in aliases => versions' = versions \/ Exists(r.id)' \/ ~Exists(r.id)
         /\ (\A r, s \in aliases : r.id = s.id /\ r.alias = s.alias => r = s)
              => (\A r, s \in aliases' : r.id = s.id /\ r.alias = s.alias => r = s)
<1>1. ASSUME NEW c \in Clients, UpdateAliasWrite(c)
      PROVE  Goal
  <2> DEFINE dangling == AliasExists(call[c].id, call[c].alias)
                           /\ ~VersionExists(call[c].id, call[c].version)
             move(r) == IF r.id = call[c].id /\ r.alias = call[c].alias
                        THEN [r EXCEPT !.version = call[c].version] ELSE r
  <2>0. UNCHANGED <<functions, versions>>
    BY <1>1 DEF UpdateAliasWrite
  <2>1. CASE dangling
    BY <1>1, <2>1, <2>0 DEF UpdateAliasWrite, TypeOK, AliasExists
  <2>2. CASE ~dangling
    <3>1. aliases' = {move(r) : r \in aliases}
      BY <1>1, <2>2 DEF UpdateAliasWrite
    <3>2. call[c].version \in Nat
      BY DEF TypeOK, Call
    <3>3. \A r \in aliases : move(r) \in AliasRow /\ move(r).id = r.id /\ move(r).alias = r.alias
      BY <3>2 DEF TypeOK, AliasRow
    <3>4. ASSUME NEW r \in aliases, move(r) # r
          PROVE  VersionExists(move(r).id, move(r).version)
      <4>1. r.id = call[c].id /\ r.alias = call[c].alias
        BY <3>4
      <4>2. VersionExists(call[c].id, call[c].version)
        BY <4>1, <2>2 DEF AliasExists
      <4>3. move(r).id = call[c].id /\ move(r).version = call[c].version
        BY <4>1, <3>2 DEF TypeOK, AliasRow
      <4>. QED
        BY <4>2, <4>3
    <3>5. \A r \in aliases' : \E s \in aliases : r = move(s)
      BY <3>1
    <3> HIDE DEF move
    <3>6. aliases' \subseteq AliasRow
      BY <3>5, <3>3
    <3>7. ASSUME NEW r \in aliases
          PROVE  AliasExists(r.id, r.alias)'
      <4>1. move(r) \in aliases'
        BY <3>1
      <4>. QED
        BY <4>1, <3>3 DEF AliasExists
    <3>8. \A r \in aliases' \ aliases : VersionExists(r.id, r.version)
      BY <3>5, <3>4
    <3>9. ASSUME \A r, s \in aliases : r.id = s.id /\ r.alias = s.alias => r = s,
                 NEW r \in aliases', NEW s \in aliases', r.id = s.id, r.alias = s.alias
          PROVE  r = s
      <4>1. PICK r0 \in aliases, s0 \in aliases : r = move(r0) /\ s = move(s0)
        BY <3>5, <3>9
      <4>2. r0 = s0
        BY <4>1, <3>3, <3>9
      <4>. QED
        BY <4>1, <4>2
    <3>. QED
      BY <2>0, <3>6, <3>7, <3>8, <3>9
  <2>. QED
    BY <2>1, <2>2
<1>2. ASSUME NEW c \in Clients, CreateAliasInsert(c)
      PROVE  Goal
  <2>0. UNCHANGED <<functions, versions>>
    BY <1>2 DEF CreateAliasInsert
  <2>1. CASE aliases' = aliases
    BY <2>0, <2>1 DEF TypeOK, AliasExists
  <2>2. CASE aliases' # aliases
    <3> DEFINE new == [id |-> call[c].id, alias |-> call[c].alias, version |-> call[c].version]
    <3>1. /\ aliases' = aliases \cup {new}
          /\ ~AliasExists(new.id, new.alias) /\ VersionExists(new.id, new.version)
      BY <1>2, <2>2 DEF CreateAliasInsert
    <3>2. new \in AliasRow
      BY <1>2 DEF CreateAliasInsert, TypeOK, UsedIds, CallShape, AliasRow, At, Idle, Call
    <3>. QED
      BY <2>0, <3>1, <3>2 DEF TypeOK, AliasExists
  <2>. QED
    BY <2>1, <2>2
<1>3. ASSUME NEW c \in Clients, DeleteFunction(c)
      PROVE  Goal
  BY <1>3 DEF DeleteFunction, TypeOK, Exists, AliasExists
<1>4. UNCHANGED <<versions, aliases>> => Goal
  BY DEF TypeOK, AliasExists
<1>5. ASSUME NEW c \in Clients, PublishInsert(c)
      PROVE  Goal
  BY <1>5 DEF PublishInsert, TypeOK, AliasExists, Exists
<1>6. ASSUME NEW c \in Clients, Start(c) \/ Step(c) \/ Abandon(c),
             ~DeleteFunction(c), ~PublishInsert(c), ~UpdateAliasWrite(c), ~CreateAliasInsert(c)
      PROVE  UNCHANGED <<versions, aliases>>
  BY <1>6 DEF Start, Step, Abandon, CreateFunction, UpdateSelect, UpdateWrite, PublishSelect,
       UpsertAlias, AliasCall, Resolve, PublishMax, UpsertCheckFunction, UpsertCheckVersion,
       UpdateAliasCheckVersion, UpdateAliasSelect, CreateAliasCheckVersion, ResolveVersion,
       CheckVersion, tables
<1>. QED
  BY <1>1, <1>2, <1>3, <1>4, <1>5, <1>6, RestartStep DEF Next, CallStep, vars

-----------------------------------------------------------------------------
(* How one step may change the calls *)


\* A call never carries more or less than its statement binds, and the id it
\* carries has been drawn.
LEMMA CallsStep ==
  ASSUME TypeOK, UsedIds, CallShape, [Next]_vars
  PROVE  /\ call' \in [Clients -> Call]
         /\ CallShape'
         /\ \A c \in Clients : ~Idle(c)' => call'[c].id \in used'
<1> USE IdleCallType
<1> DEFINE Good(r) ==
      /\ r \in Call
      /\ r.pc # "idle" => r.id \in used
      /\ r.pc \in {"update_write", "publish_max", "publish_insert"} => r.config \in Config
      /\ r.pc \in {"upsert_function", "upsert_version", "update_alias_version", "update_alias_select",
                   "update_alias_write", "create_alias_version", "create_alias_insert"}
           => r.alias \in Aliases
      /\ r.pc = "publish_insert" => r.version # 0
<1>0. \A c \in Clients : Good(call[c])
  BY DEF TypeOK, UsedIds, CallShape, Idle, At
<1> DEFINE Becomes(c) == \E r : Good(r) /\ call' = [call EXCEPT ![c] = r]
<1>1. ASSUME NEW c \in Clients, NEW res \in Results, Return(c, res)
      PROVE  Becomes(c)
  <2> DEFINE r == [IdleCall EXCEPT !.result = res]
  <2>1. Good(r)
    BY DEF IdleCall, Call, Statements, Results
  <2>. QED
    BY <1>1, <2>1 DEF Return
<1>2. ASSUME NEW c \in Clients, NEW pc \in Statements, Proceed(c, pc), ~Idle(c),
             pc \notin {"update_write", "publish_max", "publish_insert"},
             call[c].pc \in {"upsert_function", "upsert_version", "update_alias_version",
                             "update_alias_select", "create_alias_version"}
      PROVE  Becomes(c)
  <2> DEFINE r == [call[c] EXCEPT !.pc = pc]
  <2>1. Good(r)
    BY <1>0, <1>2 DEF Idle, Call, Statements
  <2>. QED
    BY <1>2, <2>1 DEF Proceed
<1>3. ASSUME NEW c \in Clients, Start(c)
      PROVE  Becomes(c)
  <2>1. CASE CreateFunction(c) \/ DeleteFunction(c)
    BY <1>1, <2>1 DEF CreateFunction, DeleteFunction, Results
  <2>2. CASE UpdateSelect(c)
    <3>1. CASE Return(c, "FunctionNotFound")
      BY <1>1, <3>1 DEF Results
    <3>2. CASE ~Return(c, "FunctionNotFound")
      <4>0. PICK i \in used :
              \E f \in functions, sets \in SUBSET {"code", "handler"}, g \in Config :
                /\ f.id = i
                /\ call' = [call EXCEPT ![c] =
                     [IdleCall EXCEPT !.pc = "update_write", !.id = i, !.sets = sets,
                        !.config = Merge(f.config, sets, g.code, g.handler)]]
        BY <2>2, <3>2, Zenon DEF UpdateSelect
      <4>1. PICK f \in functions, sets \in SUBSET {"code", "handler"}, g \in Config :
              call' = [call EXCEPT ![c] =
                 [IdleCall EXCEPT !.pc = "update_write", !.id = i, !.sets = sets,
                    !.config = Merge(f.config, sets, g.code, g.handler)]]
        BY <4>0, Zenon
      <4>2. Merge(f.config, sets, g.code, g.handler) \in Config
        BY DEF Merge, Config, TypeOK, FunctionRow
      <4> DEFINE r == [IdleCall EXCEPT !.pc = "update_write", !.id = i, !.sets = sets,
                         !.config = Merge(f.config, sets, g.code, g.handler)]
      <4>3. Good(r)
        <5> HIDE DEF Merge
        <5>. QED
          BY <4>2 DEF IdleCall, Call, Statements, TypeOK, Results
      <4>. QED
        BY <4>1, <4>3
    <3>. QED
      BY <3>1, <3>2
  <2>3. CASE PublishSelect(c)
    <3>1. CASE Return(c, "FunctionNotFound")
      BY <1>1, <3>1 DEF Results
    <3>2. CASE ~Return(c, "FunctionNotFound")
      <4>1. PICK i \in used, f \in functions :
              call' = [call EXCEPT ![c] =
                 [IdleCall EXCEPT !.pc = "publish_max", !.id = i, !.config = f.config]]
        BY <2>3, <3>2 DEF PublishSelect
      <4> DEFINE r == [IdleCall EXCEPT !.pc = "publish_max", !.id = i, !.config = f.config]
      <4>2. Good(r)
        BY DEF IdleCall, Call, Statements, TypeOK, Results, FunctionRow
      <4>. QED
        BY <4>1, <4>2
    <3>. QED
      BY <3>1, <3>2
  <2>4. CASE UpsertAlias(c)
    <3>1. CASE \E res \in Results : Return(c, res)
      BY <1>1, <3>1
    <3>2. CASE ~\E res \in Results : Return(c, res)
      <4>0. PICK i \in used, a \in Aliases :
              \/ \E v \in 1 .. MaxVersion : UpsertTo(c, i, a, v)
              \/ \E b \in aliases : UpsertTo(c, i, a, b.version)
        <5>1. "InvalidHandler" \in Results /\ "AliasNotFound" \in Results
          BY DEF Results
        <5>. QED
          BY <2>4, <3>2, <5>1, Zenon DEF UpsertAlias
      <4>1. PICK v \in Nat : UpsertTo(c, i, a, v)
        <5>1. \A b \in aliases : b.version \in Nat
          BY DEF TypeOK, AliasRow
        <5>2. 1 .. MaxVersion \subseteq Nat
          OBVIOUS
        <5>. QED
          BY <4>0, <5>1, <5>2
      <4> DEFINE r == [IdleCall EXCEPT !.pc = "upsert_function", !.id = i, !.alias = a,
                         !.version = v, !.upsert = TRUE]
      <4>2. Good(r)
        BY DEF IdleCall, Call, Statements, TypeOK, Results
      <4>. QED
        BY <4>1, <4>2 DEF UpsertTo
    <3>. QED
      BY <3>1, <3>2
  <2>5. CASE AliasCall(c)
    <3>1. CASE Return(c, "NotAVersion")
      BY <1>1, <3>1 DEF Results
    <3>2. CASE ~Return(c, "NotAVersion")
      <4>1. PICK i \in used, a \in Aliases, v \in 1 .. MaxVersion,
                 pc \in {"update_alias_version", "create_alias_version"} :
              call' = [call EXCEPT ![c] =
                 [IdleCall EXCEPT !.pc = pc, !.id = i, !.alias = a, !.version = v]]
        BY <2>5, <3>2 DEF AliasCall
      <4> DEFINE r == [IdleCall EXCEPT !.pc = pc, !.id = i, !.alias = a, !.version = v]
      <4>0. v \in Nat
        OBVIOUS
      <4>2. Good(r)
        BY <4>0 DEF IdleCall, Call, Statements, TypeOK, Results
      <4>. QED
        BY <4>1, <4>2
    <3>. QED
      BY <3>1, <3>2
  <2>6. CASE Resolve(c)
    <3>1. CASE \E res \in Results : Return(c, res)
      BY <1>1, <3>1
    <3>2. CASE ~\E res \in Results : Return(c, res)
      <4>1. PICK i \in used, a \in aliases :
              call' = [call EXCEPT ![c] =
                 [IdleCall EXCEPT !.pc = "resolve_version", !.id = i, !.version = a.version]]
        BY <2>6, <3>2 DEF Resolve, Results
      <4> DEFINE r == [IdleCall EXCEPT !.pc = "resolve_version", !.id = i, !.version = a.version]
      <4>2. Good(r)
        BY DEF IdleCall, Call, Statements, TypeOK, Results, AliasRow
      <4>. QED
        BY <4>1, <4>2
    <3>. QED
      BY <3>1, <3>2
  <2>. QED
    BY <1>3, <2>1, <2>2, <2>3, <2>4, <2>5, <2>6 DEF Start
<1>4. ASSUME NEW c \in Clients, Step(c)
      PROVE  Becomes(c)
  <2>1. CASE \E res \in Results : Return(c, res)
    BY <1>1, <2>1
  <2>2. CASE PublishMax(c)
    <3>1. PICK n \in 0 .. MaxVersion :
            call' = [call EXCEPT ![c].pc = "publish_insert", ![c].version = n + 1]
      BY <2>2 DEF PublishMax
    <3> DEFINE r == [call[c] EXCEPT !.pc = "publish_insert", !.version = n + 1]
    <3>2. n + 1 \in Nat /\ n + 1 # 0 /\ call[c].pc = "publish_max"
      BY <2>2 DEF PublishMax, At
    <3>3. r \in Call
      BY <1>0, <3>2 DEF Call, Statements
    <3>4. Good(r)
      BY <1>0, <3>2, <3>3 DEF Call
    <3>. QED
      BY <3>1, <3>4
  <2>3. CASE ~PublishMax(c) /\ ~\E res \in Results : Return(c, res)
    <3>1. PICK pc \in {"upsert_version", "update_alias_version", "update_alias_select",
                       "update_alias_write", "create_alias_version", "create_alias_insert"} :
            Proceed(c, pc)
      BY <1>4, <2>3 DEF Step, UpdateWrite, PublishInsert, UpsertCheckFunction, UpsertCheckVersion,
           UpdateAliasCheckVersion, UpdateAliasSelect, UpdateAliasWrite, CreateAliasCheckVersion,
           CreateAliasInsert, ResolveVersion, CheckVersion, Results
    <3>2. call[c].pc \in {"upsert_function", "upsert_version", "update_alias_version",
                          "update_alias_select", "create_alias_version"}
      BY <1>4, <2>3 DEF Step, UpdateWrite, PublishInsert, UpsertCheckFunction, UpsertCheckVersion,
           UpdateAliasCheckVersion, UpdateAliasSelect, UpdateAliasWrite, CreateAliasCheckVersion,
           CreateAliasInsert, ResolveVersion, CheckVersion, Results, At
    <3>. QED
      BY <1>2, <3>1, <3>2 DEF Statements, Idle
  <2>. QED
    BY <2>1, <2>2, <2>3
<1>5. ASSUME NEW c \in Clients, Abandon(c)
      PROVE  Becomes(c)
  <2>1. Good(IdleCall)
    OBVIOUS
  <2>. QED
    BY <1>5, <2>1 DEF Abandon
<1>6. \A c \in Clients : Good(call'[c]) 
  <2>1. CASE UNCHANGED vars
    BY <2>1, <1>0 DEF vars
  <2>2. CASE Next
    <3>1. Good(IdleCall)
      BY DEF IdleCall
    <3> HIDE DEF Good
    <3>2. CASE Restart
      BY <1>0, <3>1, <3>2, RestartStep
    <3>3. ASSUME NEW c \in Clients, Becomes(c)
          PROVE  \A d \in Clients : Good(call'[d])
      BY <1>0, <3>3 DEF TypeOK
    <3>. QED
      BY <2>2, <1>3, <1>4, <1>5, <3>2, <3>3 DEF Next, CallStep
  <2>. QED
    BY <2>1, <2>2
<1>7. DOMAIN call' = Clients /\ call' = [c \in Clients |-> call'[c]]
  <2>1. CASE UNCHANGED vars
    BY <2>1 DEF vars, TypeOK
  <2>2. CASE Next
    BY <2>2, <1>3, <1>4, <1>5, RestartStep DEF Next, CallStep, TypeOK
  <2>. QED
    BY <2>1, <2>2
<1>8. used \subseteq used'
  BY FunctionsStep
<1>. QED
  BY <1>6, <1>7, <1>8 DEF CallShape, Idle, At

\* A step of one call leaves the locals of every other call alone.
LEMMA OneCallSteps ==
  ASSUME TypeOK, NEW d \in Clients, Start(d) \/ Step(d) \/ Abandon(d), NEW c \in Clients, c # d
  PROVE  call'[c] = call[c]
<1> USE DEF TypeOK, Return, Proceed
<1>1. CASE Start(d)
  BY <1>1 DEF Start, CreateFunction, DeleteFunction, UpdateSelect, PublishSelect, UpsertAlias,
       UpsertTo, AliasCall, Resolve
<1>2. CASE Step(d)
  BY <1>2 DEF Step, UpdateWrite, PublishMax, PublishInsert, UpsertCheckFunction, UpsertCheckVersion,
       UpdateAliasCheckVersion, UpdateAliasSelect, UpdateAliasWrite, CreateAliasCheckVersion,
       CreateAliasInsert, ResolveVersion, CheckVersion
<1>3. CASE Abandon(d)
  BY <1>3 DEF Abandon
<1>. QED
  BY <1>1, <1>2, <1>3

\* Where the first statement of a call leaves it.
LEMMA StartLands ==
  ASSUME TypeOK, NEW c \in Clients, Start(c)
  PROVE  \/ call'[c].pc \in {"idle", "update_write", "publish_max", "upsert_function"}
         \/ /\ call'[c].pc \in {"update_alias_version", "create_alias_version"}
            /\ ~call'[c].upsert
         \/ /\ UNCHANGED tables
            /\ call'[c].pc = "resolve_version"
            /\ \E r \in aliases : call'[c].id = r.id /\ call'[c].version = r.version
<1> DEFINE Goal ==
         \/ call'[c].pc \in {"idle", "update_write", "publish_max", "upsert_function"}
         \/ /\ call'[c].pc \in {"update_alias_version", "create_alias_version"}
            /\ ~call'[c].upsert
         \/ /\ UNCHANGED tables
            /\ call'[c].pc = "resolve_version"
            /\ \E r \in aliases : call'[c].id = r.id /\ call'[c].version = r.version
<1>1. ASSUME NEW res, Return(c, res)
      PROVE  Goal
  BY <1>1 DEF Return, TypeOK, IdleCall
<1>2. CASE CreateFunction(c) \/ DeleteFunction(c)
  <2>1. \E res : Return(c, res)
    BY <1>2 DEF CreateFunction, DeleteFunction
  <2>. QED
    BY <2>1, <1>1
<1>3. CASE UpdateSelect(c) \/ PublishSelect(c)
  <2>1. CASE \E res : Return(c, res)
    BY <2>1, <1>1
  <2>2. CASE ~\E res : Return(c, res)
    <3>1. CASE UpdateSelect(c)
      <4>1. \E i, sets, g : call' = [call EXCEPT ![c] =
              [IdleCall EXCEPT !.pc = "update_write", !.id = i, !.sets = sets, !.config = g]]
        BY <2>2, <3>1, Zenon DEF UpdateSelect
      <4>. QED
        BY <4>1 DEF TypeOK, IdleCall
    <3>2. CASE PublishSelect(c)
      <4>1. \E i, g : call' = [call EXCEPT ![c] =
              [IdleCall EXCEPT !.pc = "publish_max", !.id = i, !.config = g]]
        BY <2>2, <3>2, Zenon DEF PublishSelect
      <4>. QED
        BY <4>1 DEF TypeOK, IdleCall
    <3>. QED
      BY <1>3, <3>1, <3>2
  <2>. QED
    BY <2>1, <2>2
<1>4. CASE UpsertAlias(c)
  <2>1. CASE \E res : Return(c, res)
    BY <2>1, <1>1
  <2>2. CASE ~\E res : Return(c, res)
    <3>1. \E i, a, v : UpsertTo(c, i, a, v)
      BY <1>4, <2>2, Zenon DEF UpsertAlias
    <3>. QED
      BY <3>1 DEF UpsertTo, TypeOK, IdleCall
  <2>. QED
    BY <2>1, <2>2
<1>5. CASE AliasCall(c)
  <2>1. CASE \E res : Return(c, res)
    BY <2>1, <1>1
  <2>2. CASE ~\E res : Return(c, res)
    BY <1>5, <2>2 DEF AliasCall, TypeOK, IdleCall
  <2>. QED
    BY <2>1, <2>2
<1>6. CASE Resolve(c)
  <2>1. CASE \E res : Return(c, res)
    BY <2>1, <1>1
  <2>2. CASE ~\E res : Return(c, res)
    <3>1. PICK i \in used, a \in Aliases, r \in aliases :
            /\ r.id = i
            /\ call' = [call EXCEPT ![c] =
                 [IdleCall EXCEPT !.pc = "resolve_version", !.id = i, !.version = r.version]]
      BY <1>6, <2>2, Zenon DEF Resolve
    <3>2. /\ call'[c].pc = "resolve_version"
          /\ call'[c].id = r.id /\ call'[c].version = r.version
      BY <3>1 DEF TypeOK, IdleCall
    <3>. QED
      BY <1>6, <3>2 DEF Resolve
  <2>. QED
    BY <2>1, <2>2
<1>. QED
  BY <1>2, <1>3, <1>4, <1>5, <1>6 DEF Start

\* Where a call that is about to insert a version comes from.
LEMMA ReachInsert ==
  ASSUME TypeOK, [Next]_vars, NEW c \in Clients, At(c, "publish_insert")'
  PROVE  \/ call'[c] = call[c]
         \/ /\ UNCHANGED tables
            /\ call'[c].version - 1 \in Nat
            /\ IsMaxVersion(call'[c].id, call'[c].version - 1)
<1>1. CASE UNCHANGED vars
  BY <1>1 DEF vars
<1>2. ASSUME NEW d \in Clients, Start(d) \/ Step(d) \/ Abandon(d), call'[c] # call[c]
      PROVE  /\ UNCHANGED tables
             /\ call'[c].version - 1 \in Nat
             /\ IsMaxVersion(call'[c].id, call'[c].version - 1)
  <2>1. c = d
    BY <1>2, OneCallSteps
  <2>2. PublishMax(c)
    <3>1. call'[c].pc = "publish_insert"
      BY DEF At
    <3> USE DEF TypeOK, Return, Proceed, IdleCall
    <3>2. ~Start(c)
      BY <3>1, StartLands
    <3>3. ~Abandon(c)
      BY <3>1 DEF Abandon
    <3>4. Step(c)
      BY <1>2, <2>1, <3>2, <3>3
    <3>. QED
      BY <3>1, <3>4 DEF Step, UpdateWrite, PublishInsert, UpsertCheckFunction, UpsertCheckVersion,
       UpdateAliasCheckVersion, UpdateAliasSelect, UpdateAliasWrite, CreateAliasCheckVersion,
       CreateAliasInsert, ResolveVersion, CheckVersion, Call
  <2>3. PICK n \in 0 .. MaxVersion :
          /\ IsMaxVersion(call[c].id, n)
          /\ call' = [call EXCEPT ![c].pc = "publish_insert", ![c].version = n + 1]
    BY <2>2 DEF PublishMax
  <2>4. call'[c].id = call[c].id /\ call'[c].version = n + 1
    BY <2>3 DEF TypeOK, Call
  <2>. QED
    BY <2>2, <2>3, <2>4 DEF PublishMax
<1>3. ASSUME Restart
      PROVE  call'[c] = call[c]
  BY <1>3, RestartStep DEF At, IdleCall
<1>. QED
  BY <1>1, <1>2, <1>3 DEF Next, CallStep

\* Where a call that relies on a version comes from: it relied on it before,
\* or it has just read that version, or an alias that points to it.
LEMMA ReachHold ==
  ASSUME TypeOK, ReferentialIntegrity, [Next]_vars, NEW c \in Clients, HoldsVersion(c)'
  PROVE  \/ /\ HoldsVersion(c)
            /\ call'[c].id = call[c].id /\ call'[c].version = call[c].version
         \/ /\ UNCHANGED tables
            /\ VersionExists(call'[c].id, call'[c].version)
<1> USE DEF HoldsVersion
<1>1. CASE call'[c] = call[c]
  BY <1>1
<1>2. ASSUME call'[c] # call[c], Start(c)
      PROVE  UNCHANGED tables /\ VersionExists(call'[c].id, call'[c].version)
  BY <1>2, StartLands DEF ReferentialIntegrity
<1>3. ASSUME call'[c] # call[c], Step(c)
      PROVE  \/ /\ HoldsVersion(c)
                /\ call'[c].id = call[c].id /\ call'[c].version = call[c].version
             \/ /\ UNCHANGED tables
                /\ VersionExists(call'[c].id, call'[c].version)
  <2> USE DEF TypeOK, Call, Return, Proceed, IdleCall, At
  <2>1. CASE UpsertCheckVersion(c) \/ UpdateAliasCheckVersion(c) \/ CreateAliasCheckVersion(c)
    BY <2>1 DEF UpsertCheckVersion, UpdateAliasCheckVersion, CreateAliasCheckVersion, CheckVersion
  <2>2. CASE UpdateAliasSelect(c)
    BY <2>2 DEF UpdateAliasSelect
  <2>3. CASE PublishMax(c) \/ UpsertCheckFunction(c)
    BY <2>3 DEF PublishMax, UpsertCheckFunction
  <2>4. CASE UpdateWrite(c) \/ PublishInsert(c) \/ UpdateAliasWrite(c) \/ CreateAliasInsert(c)
               \/ ResolveVersion(c)
    BY <2>4 DEF UpdateWrite, PublishInsert, UpdateAliasWrite, CreateAliasInsert, ResolveVersion
  <2>. QED
    BY <1>3, <2>1, <2>2, <2>3, <2>4 DEF Step
<1>4. ASSUME Abandon(c)
      PROVE  FALSE
  BY <1>4 DEF Abandon, TypeOK, IdleCall
<1>5. ASSUME call'[c] # call[c], Restart
      PROVE  FALSE
  BY <1>5, RestartStep DEF IdleCall
<1>. QED
  BY <1>1, <1>2, <1>3, <1>4, <1>5, OneCallSteps DEF Next, CallStep, vars

\* Where a call that is about to update an alias comes from.
LEMMA ReachAliasWrite ==
  ASSUME TypeOK, [Next]_vars, NEW c \in Clients, At(c, "update_alias_write")'
  PROVE  \/ call'[c] = call[c]
         \/ UNCHANGED tables /\ AliasExists(call'[c].id, call'[c].alias)
<1> USE DEF TypeOK, Call, Return, Proceed, IdleCall, At
<1>1. ASSUME Start(c)
      PROVE  FALSE
  BY <1>1, StartLands
<1>2. ASSUME Step(c)
      PROVE  UNCHANGED tables /\ AliasExists(call'[c].id, call'[c].alias)
  <2>1. UpdateAliasSelect(c)
    BY <1>2 DEF Step, UpdateWrite, PublishMax, PublishInsert, UpsertCheckFunction, UpsertCheckVersion,
       UpdateAliasCheckVersion, UpdateAliasWrite, CreateAliasCheckVersion,
       CreateAliasInsert, ResolveVersion, CheckVersion
  <2>. QED
    BY <2>1 DEF UpdateAliasSelect
<1>3. ASSUME Abandon(c)
      PROVE  FALSE
  BY <1>3 DEF Abandon
<1>. QED
  BY <1>1, <1>2, <1>3, OneCallSteps, RestartStep DEF Next, CallStep, vars

-----------------------------------------------------------------------------
(* The inductive invariant *)

LEMMA InitInvariant == Init => IInv
BY IdleCallType DEF Init, IInv, TypeOK, UsedIds, CallShape, KeysUnique, ReferentialIntegrity,
     VersionsContiguous, NextNumberFits, VerifiedVersionStays, ReadAliasStays, HoldsVersion,
     Idle, At

\* The primary keys and the UNIQUE name hold although every call decides on
\* rows it read before its last await.
LEMMA KeysStep ==
  ASSUME IInv, [Next]_vars
  PROVE  KeysUnique'
<1> USE DEF IInv
<1>1. \A f, g \in functions' : f.name = g.name \/ f.id = g.id => f = g
  <2> DEFINE Goal == \A f, g \in functions' : f.name = g.name \/ f.id = g.id => f = g
  <2>1. ASSUME NEW c \in Clients, CreateFunction(c)
        PROVE  Goal
    BY <2>1 DEF CreateFunction, KeysUnique, NameTaken, UsedIds, tables
  <2>2. ASSUME NEW c \in Clients, DeleteFunction(c)
        PROVE  Goal
    BY <2>2 DEF DeleteFunction, KeysUnique
  <2>3. ASSUME NEW c \in Clients, UpdateWrite(c)
        PROVE  Goal
    <3> DEFINE set(f) == IF f.id = call[c].id THEN [f EXCEPT !.config = call[c].config] ELSE f
    <3>1. functions' = {set(f) : f \in functions}
      BY <2>3 DEF UpdateWrite
    <3>2. \A f \in functions : set(f).id = f.id /\ set(f).name = f.name
      BY DEF TypeOK, FunctionRow
    <3> HIDE DEF set
    <3>3. \A f \in functions' : \E g \in functions : f = set(g)
      BY <3>1
    <3>. QED
      BY <3>2, <3>3 DEF KeysUnique
  <2>4. functions' = functions => Goal
    BY DEF KeysUnique
  <2>5. ASSUME NEW c \in Clients, Start(c) \/ Step(c) \/ Abandon(c),
               ~CreateFunction(c), ~DeleteFunction(c), ~UpdateWrite(c)
        PROVE  functions' = functions
    BY <2>5 DEF Start, Step, Abandon, UpdateSelect, PublishSelect, UpsertAlias, AliasCall, Resolve,
         PublishMax, PublishInsert, UpsertCheckFunction, UpsertCheckVersion,
         UpdateAliasCheckVersion, UpdateAliasSelect, UpdateAliasWrite, CreateAliasCheckVersion,
         CreateAliasInsert, ResolveVersion, CheckVersion, tables
  <2>. QED
    BY <2>1, <2>2, <2>3, <2>4, <2>5, RestartStep DEF Next, CallStep, vars
<1>2. \A r, s \in versions' : r.id = s.id /\ r.version = s.version => r = s
  BY VersionsStep DEF KeysUnique, VersionExists
<1>3. \A r, s \in aliases' : r.id = s.id /\ r.alias = s.alias => r = s
  BY AliasesStep DEF KeysUnique
<1>. QED
  BY <1>1, <1>2, <1>3 DEF KeysUnique

\* No step leaves a version without its function or an alias without its version.
LEMMA IntegrityStep ==
  ASSUME IInv, [Next]_vars
  PROVE  ReferentialIntegrity'
<1> USE DEF IInv
<1>1. \A r \in versions' : Exists(r.id)'
  BY VersionsStep DEF ReferentialIntegrity
<1>2. ASSUME NEW r \in aliases'
      PROVE  VersionExists(r.id, r.version)'
  <2>1. CASE r \notin aliases
    BY <2>1, AliasesStep DEF VersionExists
  <2>2. CASE r \in aliases
    <3>1. PICK w \in versions : w.id = r.id /\ w.version = r.version
      BY <2>2 DEF ReferentialIntegrity, VersionExists
    <3>2. Exists(r.id)
      BY <3>1 DEF ReferentialIntegrity
    <3>3. versions' = versions \/ Exists(r.id)'
      BY <2>2, <3>2, AliasesStep
    <3>4. w \in versions'
      BY <3>1, <3>3, VersionsStep
    <3>. QED
      BY <3>1, <3>4 DEF VersionExists
  <2>. QED
    BY <2>1, <2>2
<1>. QED
  BY <1>1, <1>2 DEF ReferentialIntegrity

\* A number inserted by one statement after another computed it leaves no gap.
LEMMA ContiguousStep ==
  ASSUME IInv, [Next]_vars
  PROVE  VersionsContiguous'
<1> USE DEF IInv
<1>1. SUFFICES ASSUME NEW r \in versions', NEW k \in 1 .. r.version
               PROVE  VersionExists(r.id, k)'
  BY DEF VersionsContiguous
<1>2. r \in VersionRow
  BY VersionsStep
<1>3. CASE r \in versions
  <2>1. PICK w \in versions : w.id = r.id /\ w.version = k
    BY <1>3 DEF VersionsContiguous, VersionExists
  <2>2. Exists(r.id)'
    BY <1>3, VersionsStep DEF ReferentialIntegrity
  <2>3. w \in versions'
    BY <2>1, <2>2, VersionsStep
  <2>. QED
    BY <2>1, <2>3 DEF VersionExists
<1>4. CASE r \notin versions
  <2>1. CASE k = r.version
    BY <2>1 DEF VersionExists
  <2>2. CASE k # r.version
    <3>1. PICK c \in Clients : At(c, "publish_insert") /\ r.id = call[c].id /\ r.version = call[c].version
      BY <1>4, VersionsStep
    <3>2. k \in 1 .. call[c].version - 1
      BY <2>2, <3>1, <1>2 DEF VersionRow
    <3>3. VersionExists(r.id, k)
      BY <1>4, <3>1, <3>2, VersionsStep DEF NextNumberFits
    <3>4. versions' = versions \cup {r}
      BY <1>4, VersionsStep
    <3>. QED
      BY <3>3, <3>4 DEF VersionExists
  <2>. QED
    BY <2>1, <2>2
<1>. QED
  BY <1>3, <1>4

\* A version or alias row of a function that still exists after a step is still there.
LEMMA RowsStay ==
  ASSUME IInv, [Next]_vars, NEW i \in used, Exists(i)'
  PROVE  /\ Exists(i)
         /\ \A v : VersionExists(i, v) => VersionExists(i, v)'
         /\ \A a : AliasExists(i, a) => AliasExists(i, a)'
<1> USE DEF IInv
<1>1. Exists(i)
  BY FunctionsStep
<1>2. ASSUME NEW v, VersionExists(i, v)
      PROVE  VersionExists(i, v)'
  <2>1. PICK w \in versions : w.id = i /\ w.version = v
    BY <1>2 DEF VersionExists
  <2>2. w \in versions'
    BY <2>1, VersionsStep
  <2>. QED
    BY <2>1, <2>2 DEF VersionExists
<1>3. ASSUME NEW a, AliasExists(i, a)
      PROVE  AliasExists(i, a)'
  <2>1. PICK w \in aliases : w.id = i /\ w.alias = a
    BY <1>3 DEF AliasExists
  <2>2. AliasExists(w.id, w.alias)'
    BY <2>1, AliasesStep
  <2>. QED
    BY <2>1, <2>2
<1>. QED
  BY <1>1, <1>2, <1>3

\* What a call has read remains true until it uses it, unless its function is deleted.
LEMMA ReadsStay ==
  ASSUME IInv, [Next]_vars
  PROVE  NextNumberFits' /\ VerifiedVersionStays' /\ ReadAliasStays'
<1> USE DEF IInv
<1>0. /\ call' \in [Clients -> Call]
      /\ \A c \in Clients : ~Idle(c)' => call'[c].id \in used'
  BY CallsStep
<1>1. NextNumberFits'
  <2>1. SUFFICES ASSUME NEW c \in Clients, At(c, "publish_insert")', Exists(call[c].id)',
                        NEW k \in (1 .. call[c].version - 1)'
                 PROVE  VersionExists(call[c].id, k)'
    BY DEF NextNumberFits
  <2> DEFINE i == call'[c].id
             n == call'[c].version - 1
  <2>2. (\E f \in functions' : f.id = i) /\ k \in 1 .. n
    BY <2>1 DEF Exists
  <2>3. SUFFICES \E r \in versions' : r.id = i /\ r.version = k
    BY DEF VersionExists
  <2>4. CASE call'[c] = call[c]
    <3>1. At(c, "publish_insert") /\ i = call[c].id /\ n = call[c].version - 1 /\ i \in used
      BY <2>1, <2>4 DEF At, Idle, UsedIds
    <3>2. Exists(i)
      BY <2>2, <3>1, RowsStay DEF Exists
    <3>3. VersionExists(i, k)
      BY <2>2, <3>1, <3>2 DEF NextNumberFits
    <3>. QED
      BY <2>2, <3>1, <3>2, <3>3, RowsStay DEF Exists, VersionExists
  <2>5. CASE call'[c] # call[c]
    <3>1. UNCHANGED tables /\ n \in Nat /\ IsMaxVersion(i, n)
      BY <2>1, <2>5, ReachInsert
    <3>2. n \in Numbers(i)
      BY <2>2, <3>1 DEF IsMaxVersion
    <3>3. PICK r \in versions : r.id = i /\ r.version = n
      BY <3>2 DEF Numbers
    <3>4. VersionExists(i, k)
      BY <2>2, <3>1, <3>3 DEF VersionsContiguous
    <3>. QED
      BY <3>1, <3>4 DEF VersionExists, tables
  <2>. QED
    BY <2>4, <2>5
<1>2. VerifiedVersionStays'
  <2>1. SUFFICES ASSUME NEW c \in Clients, HoldsVersion(c)', Exists(call[c].id)'
                 PROVE  VersionExists(call[c].id, call[c].version)'
    BY DEF VerifiedVersionStays
  <2> DEFINE i == call'[c].id
             n == call'[c].version
  <2>2. \E f \in functions' : f.id = i
    BY <2>1 DEF Exists
  <2>3. SUFFICES \E r \in versions' : r.id = i /\ r.version = n
    BY DEF VersionExists
  <2>4. CASE HoldsVersion(c) /\ i = call[c].id /\ n = call[c].version
    <3>1. i \in used
      BY <2>4 DEF HoldsVersion, Idle, UsedIds
    <3>2. Exists(i)
      BY <2>2, <3>1, RowsStay DEF Exists
    <3>3. VersionExists(i, n)
      BY <2>4, <3>2 DEF VerifiedVersionStays
    <3>. QED
      BY <2>2, <3>1, <3>2, <3>3, RowsStay DEF Exists, VersionExists
  <2>5. CASE UNCHANGED tables /\ VersionExists(i, n)
    BY <2>5 DEF VersionExists, tables
  <2>. QED
    BY <2>1, <2>4, <2>5, ReachHold
<1>3. ReadAliasStays'
  <2>1. SUFFICES ASSUME NEW c \in Clients, At(c, "update_alias_write")', Exists(call[c].id)'
                 PROVE  AliasExists(call[c].id, call[c].alias)'
    BY DEF ReadAliasStays
  <2> DEFINE i == call'[c].id
             a == call'[c].alias
  <2>2. \E f \in functions' : f.id = i
    BY <2>1 DEF Exists
  <2>3. SUFFICES \E r \in aliases' : r.id = i /\ r.alias = a
    BY DEF AliasExists
  <2>4. CASE call'[c] = call[c]
    <3>1. At(c, "update_alias_write") /\ i = call[c].id /\ a = call[c].alias /\ i \in used
      BY <2>1, <2>4 DEF At, Idle, UsedIds
    <3>2. Exists(i)
      BY <2>2, <3>1, RowsStay DEF Exists
    <3>3. AliasExists(i, a)
      BY <3>1, <3>2 DEF ReadAliasStays
    <3>. QED
      BY <2>2, <3>1, <3>2, <3>3, RowsStay DEF Exists, AliasExists
  <2>5. CASE UNCHANGED tables /\ AliasExists(i, a)
    BY <2>5 DEF AliasExists, tables
  <2>. QED
    BY <2>1, <2>4, <2>5, ReachAliasWrite
<1>. QED
  BY <1>1, <1>2, <1>3

LEMMA InvariantStep == IInv /\ [Next]_vars => IInv'
<1> SUFFICES ASSUME IInv, [Next]_vars PROVE IInv'
  OBVIOUS
<1>1. TypeOK /\ UsedIds /\ CallShape
  BY DEF IInv
<1>2. used' \subseteq FunctionIds
  <2>1. CASE \E c \in Clients : CreateFunction(c)
    BY <1>1, <2>1 DEF CreateFunction, TypeOK
  <2>2. CASE ~\E c \in Clients : CreateFunction(c)
    <3>1. ASSUME NEW c \in Clients, Start(c) \/ Step(c) \/ Abandon(c), ~CreateFunction(c)
          PROVE  used' = used
      BY <3>1 DEF Start, Step, Abandon, DeleteFunction, UpdateSelect, UpdateWrite, PublishSelect,
           UpsertAlias, AliasCall, Resolve, PublishMax, PublishInsert, UpsertCheckFunction,
           UpsertCheckVersion, UpdateAliasCheckVersion, UpdateAliasSelect, UpdateAliasWrite,
           CreateAliasCheckVersion, CreateAliasInsert, ResolveVersion, CheckVersion
    <3>. QED
      BY <1>1, <2>2, <3>1, RestartStep DEF Next, CallStep, vars, TypeOK
  <2>. QED
    BY <2>1, <2>2
<1>3. TypeOK'
  BY <1>1, <1>2, FunctionsStep, VersionsStep, AliasesStep, CallsStep DEF TypeOK
<1>4. UsedIds' /\ CallShape'
  BY <1>1, FunctionsStep, CallsStep DEF UsedIds
<1>. QED
  BY <1>3, <1>4, KeysStep, IntegrityStep, ContiguousStep, ReadsStay DEF IInv

\* A step that ends one of the two alias writes with success is that write, and
\* it stores the row.
LEMMA WriteLands ==
  ASSUME IInv, [Next]_vars, NEW c \in Clients, Exists(call[c].id),
         call[c].pc \in {"update_alias_write", "create_alias_insert"},
         call'[c].pc = "idle", call'[c].result = "ok"
  PROVE  Written(c) \in aliases'
<1>1. TypeOK /\ ReadAliasStays
  BY DEF IInv
<1>2. call'[c] # call[c]
  OBVIOUS
<1>3. Start(c) \/ Step(c) \/ Abandon(c)
  <2>1. ~Restart
    BY <1>1, <1>2, RestartStep DEF IdleCall
  <2>. QED
    BY <1>1, <1>2, <2>1, OneCallSteps DEF Next, CallStep, vars
<1>4. ~Abandon(c)
  BY <1>1 DEF Abandon, TypeOK, IdleCall
<1>5. ~Start(c)
  BY DEF Start, Idle, CreateFunction, DeleteFunction, UpdateSelect, PublishSelect, UpsertAlias,
         AliasCall, Resolve
<1>6. UpdateAliasWrite(c) \/ CreateAliasInsert(c)
  BY <1>3, <1>4, <1>5 DEF Step, At, UpdateWrite, PublishMax, PublishInsert, UpsertCheckFunction,
     UpsertCheckVersion, UpdateAliasCheckVersion, UpdateAliasSelect, CreateAliasCheckVersion,
     ResolveVersion, CheckVersion
<1>7. CASE UpdateAliasWrite(c)
  <2>1. ~(/\ AliasExists(call[c].id, call[c].alias)
          /\ ~VersionExists(call[c].id, call[c].version))
    BY <1>1, <1>7 DEF UpdateAliasWrite, Return, TypeOK, IdleCall
  <2>2. aliases' = {IF r.id = call[c].id /\ r.alias = call[c].alias
                    THEN [r EXCEPT !.version = call[c].version] ELSE r : r \in aliases}
    BY <1>7, <2>1, Zenon DEF UpdateAliasWrite
  <2>3. PICK r \in aliases : r.id = call[c].id /\ r.alias = call[c].alias
    BY <1>1, <1>7 DEF UpdateAliasWrite, ReadAliasStays, AliasExists
  <2>4. [r EXCEPT !.version = call[c].version] = Written(c)
    BY <1>1, <2>3 DEF TypeOK, AliasRow, Written
  <2>. QED
    BY <2>2, <2>3, <2>4
<1>8. CASE CreateAliasInsert(c)
  <2>1. ~AliasExists(call[c].id, call[c].alias) /\ VersionExists(call[c].id, call[c].version)
    BY <1>1, <1>8 DEF CreateAliasInsert, Return, TypeOK, IdleCall
  <2>. QED
    BY <1>8, <2>1 DEF CreateAliasInsert, Written
<1>. QED
  BY <1>6, <1>7, <1>8

-----------------------------------------------------------------------------
(* Theorems about the registry *)

\* The inductive invariant holds in every reachable state.
THEOREM RegistryInvariance == Spec => []IInv
BY InitInvariant, InvariantStep, PTL DEF Spec

\* Type correctness of the registry's tables and of the calls in flight.
THEOREM TypeCorrect == Spec => []TypeOK
<1>1. IInv => TypeOK
  BY DEF IInv
<1>. QED
  BY <1>1, RegistryInvariance, PTL

\* However many calls interleave, names and primary keys stay unique.
THEOREM KeysAreUnique == Spec => []KeysUnique
<1>1. IInv => KeysUnique
  BY DEF IInv
<1>. QED
  BY <1>1, RegistryInvariance, PTL

\* No delete, wherever it falls between the statements of another call, leaves
\* a version without its function or an alias without its version.
THEOREM Integrity == Spec => []ReferentialIntegrity
<1>1. IInv => ReferentialIntegrity
  BY DEF IInv
<1>. QED
  BY <1>1, RegistryInvariance, PTL

\* The version numbers of every function are 1 .. n.
THEOREM NoVersionGap == Spec => []VersionsContiguous
<1>1. IInv => VersionsContiguous
  BY DEF IInv
<1>. QED
  BY <1>1, RegistryInvariance, PTL

\* A version once verified stays as long as its function does.
THEOREM VerifiedVersions == Spec => []VerifiedVersionStays
<1>1. IInv => VerifiedVersionStays
  BY DEF IInv
<1>. QED
  BY <1>1, RegistryInvariance, PTL

\* A published version is never modified, and goes only with its function.
THEOREM Immutability == Spec => PublishedImmutable
<1>1. IInv /\ [Next]_vars =>
        [\A r \in versions : r \in versions' \/ ~\E f \in functions' : f.id = r.id]_vars
  BY VersionsStep DEF IInv, Exists
<1>. QED
  BY <1>1, RegistryInvariance, PTL DEF PublishedImmutable, Spec

\* An alias write that reports success for a living function has stored its row,
\* although no statement looks at the number of rows it hit.
THEOREM AliasWrites == Spec => AliasWriteTakesEffect
<1> DEFINE Effect ==
      \A c \in Clients :
        /\ call[c].pc \in {"update_alias_write", "create_alias_insert"}
        /\ call'[c].pc = "idle" /\ call'[c].result = "ok"
        /\ Exists(call[c].id)
        => Written(c) \in aliases'
<1>1. IInv /\ [Next]_vars => [Effect]_vars
  BY WriteLands
<1>. QED
  BY <1>1, RegistryInvariance, PTL DEF AliasWriteTakesEffect, Spec

-----------------------------------------------------------------------------
(* The tables as a catalogue *)

\* With unique keys, what the catalogue keeps under a key is what the one row of
\* that key says.
LEMMA ReadFunctions ==
  ASSUME NEW F, \A f, g \in F : f.name = g.name \/ f.id = g.id => f = g, NEW f \in F
  PROVE  (CHOOSE g \in F : g.id = f.id) = f
OBVIOUS

LEMMA ReadVersions ==
  ASSUME NEW T, \A r, s \in T : r.id = s.id /\ r.version = s.version => r = s,
         NEW r \in T, NEW i, NEW v, r.id = i, r.version = v
  PROVE  (CHOOSE s \in T : s.id = i /\ s.version = v) = r
OBVIOUS

LEMMA ReadAliases ==
  ASSUME NEW T, \A r, s \in T : r.id = s.id /\ r.alias = s.alias => r = s,
         NEW r \in T, NEW i, NEW a, r.id = i, r.alias = a
  PROVE  (CHOOSE s \in T : s.id = i /\ s.alias = a) = r
OBVIOUS

LEMMA SameFunction ==
  ASSUME NEW f, NEW g, f = [x \in DOMAIN f |-> f[x]], g = [x \in DOMAIN g |-> g[x]],
         DOMAIN f = DOMAIN g, \A x \in DOMAIN f : f[x] = g[x]
  PROVE  f = g
OBVIOUS

\* A function whose row and whose versions and aliases a step leaves alone keeps
\* its place in the catalogue.
LEMMA PublishedStays ==
  ASSUME KeysUnique, KeysUnique', NEW i,
         \A r : r.id = i => (r \in versions <=> r \in versions')
  PROVE  Published(i)' = Published(i)
<1>1. Numbers(i)' = Numbers(i)
  BY DEF Numbers
<1>2. ASSUME NEW v \in Numbers(i)
      PROVE  Published(i)[v] = Published(i)'[v]
  <2>1. PICK r \in versions : r.id = i /\ r.version = v
    BY DEF Numbers
  <2>2. r \in versions'
    BY <2>1
  <2>3. Published(i)[v] = r.config
    BY <2>1, ReadVersions DEF KeysUnique, Published
  <2>4. (CHOOSE s \in versions' : s.id = i /\ s.version = v) = r
    BY <2>1, <2>2, ReadVersions DEF KeysUnique
  <2>5. Published(i)'[v] = r.config
    BY <1>1, <2>4 DEF Published
  <2>. QED
    BY <2>3, <2>5
<1>3. /\ DOMAIN Published(i) = Numbers(i) /\ DOMAIN Published(i)' = Numbers(i)
      /\ Published(i) = [v \in Numbers(i) |-> Published(i)[v]]
      /\ Published(i)' = [v \in Numbers(i) |-> Published(i)'[v]]
  BY <1>1 DEF Published
<1>. QED
  BY <1>2, <1>3, SameFunction

LEMMA PointersStay ==
  ASSUME KeysUnique, KeysUnique', NEW i,
         \A r : r.id = i => (r \in aliases <=> r \in aliases')
  PROVE  Pointers(i)' = Pointers(i)
<1>1. AliasNames(i)' = AliasNames(i)
  BY DEF AliasNames
<1>2. ASSUME NEW a \in AliasNames(i)
      PROVE  Pointers(i)[a] = Pointers(i)'[a]
  <2>1. PICK r \in aliases : r.id = i /\ r.alias = a
    BY DEF AliasNames
  <2>2. r \in aliases'
    BY <2>1
  <2>3. Pointers(i)[a] = r.version
    BY <2>1, ReadAliases DEF KeysUnique, Pointers
  <2>4. (CHOOSE s \in aliases' : s.id = i /\ s.alias = a) = r
    BY <2>1, <2>2, ReadAliases DEF KeysUnique
  <2>5. Pointers(i)'[a] = r.version
    BY <1>1, <2>4 DEF Pointers
  <2>. QED
    BY <2>3, <2>5
<1>3. /\ DOMAIN Pointers(i) = AliasNames(i) /\ DOMAIN Pointers(i)' = AliasNames(i)
      /\ Pointers(i) = [a \in AliasNames(i) |-> Pointers(i)[a]]
      /\ Pointers(i)' = [a \in AliasNames(i) |-> Pointers(i)'[a]]
  BY <1>1 DEF Pointers
<1>. QED
  BY <1>2, <1>3, SameFunction

LEMMA FunctionStays ==
  ASSUME KeysUnique, KeysUnique', NEW f \in functions, f \in functions'
  PROVE  FunctionOf(f.id) = f /\ FunctionOf(f.id)' = f
BY ReadFunctions DEF KeysUnique, FunctionOf

\* The version that publish_version stores comes next in the list of its function.
LEMMA NumbersBefore ==
  ASSUME IInv, NEW c \in Clients, At(c, "publish_insert"), Exists(call[c].id),
         ~VersionExists(call[c].id, call[c].version)
  PROVE  Numbers(call[c].id) = 1 .. call[c].version - 1
<1> DEFINE i == call[c].id
           n == call[c].version
<1>1. n \in Nat \ {0}
  BY DEF IInv, TypeOK, CallShape, Call
<1>2. \A k \in 1 .. n - 1 : k \in Numbers(i)
  BY DEF IInv, NextNumberFits, VersionExists, Numbers
<1>3. ASSUME NEW k \in Numbers(i)
      PROVE  k \in 1 .. n - 1
  <2>1. PICK r \in versions : r.id = i /\ r.version = k
    BY DEF Numbers
  <2>2. k \in Nat \ {0}
    BY <2>1 DEF IInv, TypeOK, VersionRow
  <2>3. ~(n \in 1 .. k)
    BY <2>1 DEF IInv, VersionsContiguous
  <2>. QED
    BY <1>1, <2>2, <2>3
<1>. QED
  BY <1>2, <1>3

LEMMA PublishedGrows ==
  ASSUME TypeOK, KeysUnique, KeysUnique', NEW i, NEW n \in Nat \ {0}, NEW g \in Config,
         Numbers(i) = 1 .. n - 1,
         versions' = versions \cup {[id |-> i, version |-> n, config |-> g]}
  PROVE  Published(i)' = Append(Published(i), g)
<1> DEFINE row == [id |-> i, version |-> n, config |-> g]
           before == Published(i)
           after == Published(i)'
<1>1. Numbers(i)' = 1 .. n
  <2>1. ASSUME NEW k \in Numbers(i)'
        PROVE  k \in Numbers(i) \/ k = n
    BY DEF Numbers
  <2>2. row \in versions' /\ row.id = i /\ row.version = n
    OBVIOUS
  <2>3. n \in Numbers(i)'
    BY <2>2 DEF Numbers
  <2>4. ASSUME NEW k \in Numbers(i)
        PROVE  k \in Numbers(i)'
    BY DEF Numbers
  <2>5. ASSUME NEW k
        PROVE  k \in Numbers(i)' <=> k \in 1 .. n
    <3>1. k \in 1 .. n <=> k \in 1 .. n - 1 \/ k = n
      OBVIOUS
    <3>. QED
      BY <3>1, <2>1, <2>3, <2>4
  <2>. QED
    BY <2>5
<1>2. \A k \in 1 .. n - 1 : before[k] \in Config /\ after[k] = before[k]
  <2>. SUFFICES ASSUME NEW k \in 1 .. n - 1
                PROVE  before[k] \in Config /\ after[k] = before[k]
    OBVIOUS
  <2>1. PICK r \in versions : r.id = i /\ r.version = k
    BY DEF Numbers
  <2>2. before[k] = r.config
    BY <2>1, ReadVersions DEF Published, KeysUnique
  <2>3. after[k] = r.config
    <3>1. (CHOOSE s \in versions' : s.id = i /\ s.version = k) = r
      BY <2>1, ReadVersions DEF KeysUnique
    <3>2. k \in Numbers(i)'
      BY <1>1
    <3>. QED
      BY <3>1, <3>2 DEF Published
  <2>4. r.config \in Config
    BY <2>1 DEF TypeOK, VersionRow
  <2>. QED
    BY <2>2, <2>3, <2>4
<1>3. after[n] = g
  <2>1. (CHOOSE s \in versions' : s.id = i /\ s.version = n) = row
    BY ReadVersions DEF KeysUnique
  <2>2. n \in Numbers(i)'
    BY <1>1
  <2>3. row.config = g
    OBVIOUS
  <2> HIDE DEF row
  <2>. QED
    BY <2>1, <2>2, <2>3 DEF Published
<1>4. /\ DOMAIN before = 1 .. n - 1 /\ before = [k \in 1 .. n - 1 |-> before[k]]
      /\ DOMAIN after = 1 .. n /\ after = [k \in 1 .. n |-> after[k]]
  BY <1>1 DEF Published
<1> HIDE DEF before, after
<1>5. before \in [1 .. n - 1 -> Config] /\ after \in [1 .. n -> Config]
  <2>1. \A k \in 1 .. n : k = n \/ k \in 1 .. n - 1
    OBVIOUS
  <2>. QED
    BY <1>2, <1>3, <1>4, <2>1
<1>6. before \in Seq(Config) /\ after \in Seq(Config)
  BY <1>5, SeqDef
<1>7. Len(before) = n - 1 /\ Len(after) = n
  BY <1>4, <1>6, LenProperties
<1>8. /\ Append(before, g) \in Seq(Config) /\ Len(Append(before, g)) = n
      /\ \A k \in 1 .. n - 1 : Append(before, g)[k] = before[k]
      /\ Append(before, g)[n] = g
  BY <1>6, <1>7, AppendProperties
<1>9. after = Append(before, g)
  BY <1>2, <1>3, <1>6, <1>7, <1>8, SeqEqual
<1>. QED
  BY <1>9 DEF before, after

-----------------------------------------------------------------------------
(* Each step changes the catalogue as promised, or not at all *)

\* What the keys say before and after a step of any kind.
LEMMA KeysBothWays ==
  ASSUME IInv, [Next]_vars
  PROVE  KeysUnique /\ KeysUnique'
BY InvariantStep DEF IInv

LEMMA CatalogueStays ==
  ASSUME UNCHANGED tables
  PROVE  UNCHANGED CatalogueOf
<1>1. Living' = Living
  BY DEF tables, Living
<1>2. ASSUME NEW j
      PROVE  Entry(j)' = Entry(j)
  BY DEF tables, Entry, FunctionOf, Published, Pointers, Numbers, AliasNames
<1>. QED
  BY <1>1, <1>2 DEF CatalogueOf

\* A function none of whose rows a step touches keeps its entry.
LEMMA EntryStays ==
  ASSUME KeysUnique, KeysUnique', NEW j \in Living,
         \A r : r.id = j => /\ r \in functions <=> r \in functions'
                            /\ r \in versions <=> r \in versions'
                            /\ r \in aliases <=> r \in aliases'
  PROVE  Entry(j)' = Entry(j)
<1>1. PICK f \in functions : f.id = j
  BY DEF Living
<1>2. FunctionOf(j) = f /\ FunctionOf(j)' = f
  BY <1>1, FunctionStays
<1>3. Published(j)' = Published(j) /\ Pointers(j)' = Pointers(j)
  BY PublishedStays, PointersStay
<1>. QED
  BY <1>2, <1>3 DEF Entry

\* A step that changes the rows of one function puts its new entry in the catalogue.
LEMMA PutPromised ==
  ASSUME KeysUnique, KeysUnique', NEW i, NEW e, Entry(i)' = e,
         Living' = Living \cup {i}, used' = used \cup {i},
         \A r : r.id # i => /\ r \in functions <=> r \in functions'
                            /\ r \in versions <=> r \in versions'
                            /\ r \in aliases <=> r \in aliases'
  PROVE  Promised!Put(i, e)
<1>1. \A j \in Living : j # i => Entry(j)' = Entry(j)
  BY EntryStays
<1>2. CatalogueOf' = [j \in Living \cup {i} |-> IF j = i THEN e ELSE CatalogueOf[j]]
  BY <1>1 DEF CatalogueOf
<1>3. DOMAIN CatalogueOf = Living
  BY DEF CatalogueOf
<1>. QED
  BY <1>2, <1>3 DEF Promised!Put, Promised!Live

\* create_function: a fresh id has no versions and no aliases yet.
LEMMA CreatePromised ==
  ASSUME IInv, [Next]_vars, NEW c \in Clients, CreateFunction(c)
  PROVE  Promised!Create \/ UNCHANGED <<CatalogueOf, used>>
<1>1. CASE UNCHANGED <<tables, used>>
  BY <1>1, CatalogueStays
<1>2. CASE ~UNCHANGED <<tables, used>>
  <2>1. PICK i \in FunctionIds \ used, n \in Names, g \in Config :
          /\ ~NameTaken(n)
          /\ functions' = functions \cup {[id |-> i, name |-> n, config |-> g]}
          /\ used' = used \cup {i}
          /\ UNCHANGED <<versions, aliases>>
    BY <1>2, Zenon DEF CreateFunction
  <2> DEFINE new == [id |-> i, name |-> n, config |-> g]
             blank == [name |-> n, latest |-> g, published |-> <<>>, aliases |-> <<>>]
  <2>2. KeysUnique /\ KeysUnique'
    BY KeysBothWays
  <2>3. new \in functions' /\ new.id = i /\ new.name = n /\ new.config = g
    BY <2>1
  <2>4. Living' = Living \cup {i}
    <3>1. \A j : j \in Living' <=> j \in Living \cup {i}
      BY <2>1, <2>3 DEF Living
    <3>. QED
      BY <3>1
  <2>5. Entry(i)' = blank
    <3>1. FunctionOf(i)' = new
      <4> HIDE DEF new
      <4>1. (CHOOSE f \in functions' : f.id = new.id) = new
        BY <2>2, <2>3, ReadFunctions DEF KeysUnique
      <4>. QED
        BY <2>3, <4>1 DEF FunctionOf
    <3>2. \A r \in versions' : r.id # i
      BY <2>1 DEF IInv, UsedIds, ReferentialIntegrity, Exists
    <3>3. \A r \in aliases' : r.id # i
      BY <2>1 DEF IInv, UsedIds, ReferentialIntegrity, VersionExists, Exists
    <3>4. Published(i)' = <<>>
      BY <3>2 DEF Published, Numbers
    <3>5. Pointers(i)' = <<>>
      BY <3>3 DEF Pointers, AliasNames
    <3> HIDE DEF new
    <3>. QED
      BY <2>3, <3>1, <3>4, <3>5 DEF Entry
  <2>6. \A j \in DOMAIN CatalogueOf : CatalogueOf[j].name # n
    <3>1. ASSUME NEW j \in Living
          PROVE  CatalogueOf[j].name # n
      <4>1. PICK f \in functions : f.id = j
        BY DEF Living
      <4>2. FunctionOf(j) = f
        BY <4>1, <2>2, ReadFunctions DEF KeysUnique, FunctionOf
      <4>. QED
        BY <4>1, <4>2, <2>1 DEF NameTaken, CatalogueOf, Entry
    <3>. QED
      BY <3>1 DEF CatalogueOf
  <2>7. \A r : r.id # i => /\ r \in functions <=> r \in functions'
                           /\ r \in versions <=> r \in versions'
                           /\ r \in aliases <=> r \in aliases'
    BY <2>1
  <2>8. Promised!Put(i, blank)
    BY <2>1, <2>2, <2>4, <2>5, <2>7, PutPromised
  <2>. QED
    BY <2>1, <2>6, <2>8 DEF Promised!Create, Promised!Live
<1>. QED
  BY <1>1, <1>2

\* delete_function: the cascades take the versions and aliases of that function
\* and of no other.
LEMMA DeletePromised ==
  ASSUME IInv, [Next]_vars, NEW c \in Clients, DeleteFunction(c)
  PROVE  Promised!Delete \/ UNCHANGED <<CatalogueOf, used>>
<1>1. PICK i \in used :
        /\ functions' = {f \in functions : f.id # i}
        /\ versions' = {r \in versions : r.id # i}
        /\ aliases' = {r \in aliases : r.id # i}
  BY DEF DeleteFunction
<1>2. used' = used
  BY DEF DeleteFunction
<1>3. KeysUnique /\ KeysUnique'
  BY KeysBothWays
<1>4. Living' = Living \ {i}
  BY <1>1 DEF Living
<1>5. \A j \in Living \ {i} : Entry(j)' = Entry(j)
  BY <1>1, <1>3, EntryStays
<1>6. CatalogueOf' = [j \in Living \ {i} |-> CatalogueOf[j]]
  BY <1>4, <1>5 DEF CatalogueOf
<1>7. DOMAIN CatalogueOf = Living /\ CatalogueOf = [j \in Living |-> CatalogueOf[j]]
  BY DEF CatalogueOf
<1>8. CASE i \in Living
  BY <1>2, <1>6, <1>7, <1>8 DEF Promised!Delete, Promised!Live
<1>9. CASE i \notin Living
  <2>1. Living \ {i} = Living
    BY <1>9
  <2>. QED
    BY <1>2, <1>6, <1>7, <2>1
<1>. QED
  BY <1>8, <1>9

\* update_function changes the current configuration of one function; the UPDATE
\* of a row that is gone changes nothing.
LEMMA UpdatePromised ==
  ASSUME IInv, [Next]_vars, NEW c \in Clients, UpdateWrite(c)
  PROVE  Promised!Update \/ UNCHANGED <<CatalogueOf, used>>
<1>0. PICK i, g : i = call[c].id /\ g = call[c].config
  OBVIOUS
<1> DEFINE set(f) == IF f.id = i THEN [f EXCEPT !.config = g] ELSE f
<1>1. functions' = {set(f) : f \in functions} /\ UNCHANGED <<versions, aliases, used>>
  BY <1>0 DEF UpdateWrite
<1>2. \A f \in functions : f.id # i => set(f) = f
  OBVIOUS
<1>3. \A f \in functions : f.id = i => set(f) = [f EXCEPT !.config = g]
  OBVIOUS
<1>4. \A f \in functions : set(f).id = f.id
  BY DEF IInv, TypeOK, FunctionRow
<1>5. g \in Config /\ i \in used
  BY <1>0 DEF UpdateWrite, IInv, CallShape, UsedIds, At, Idle
<1> HIDE DEF set
<1>6. \A r : r \in functions' <=> \E f \in functions : r = set(f)
  BY <1>1
<1>7. CASE i \notin Living
  <2>1. \A f \in functions : set(f) = f
    BY <1>2, <1>7 DEF Living
  <2>2. functions' = functions
    BY <1>6, <2>1
  <2>. QED
    BY <1>1, <2>2, CatalogueStays DEF tables
<1>8. CASE i \in Living
  <2>1. PICK f \in functions : f.id = i
    BY <1>8 DEF Living
  <2>2. KeysUnique /\ KeysUnique'
    BY KeysBothWays
  <2> DEFINE new == set(f)
  <2>3. new \in functions' /\ new.id = i /\ new.name = f.name /\ new.config = g
    <3>1. new = [f EXCEPT !.config = g]
      BY <1>3, <2>1
    <3>. QED
      BY <1>4, <1>6, <2>1, <3>1 DEF IInv, TypeOK, FunctionRow
  <2>4. Living' = Living \cup {i}
    <3>1. \A j : j \in Living' <=> j \in Living
      BY <1>4, <1>6 DEF Living
    <3>. QED
      BY <1>8, <3>1
  <2>5. Entry(i)' = [Entry(i) EXCEPT !.latest = g]
    <3> HIDE DEF new
    <3>1. (CHOOSE h \in functions' : h.id = new.id) = new
      BY <2>2, <2>3, ReadFunctions DEF KeysUnique
    <3>2. FunctionOf(i)' = new
      BY <2>3, <3>1 DEF FunctionOf
    <3>3. FunctionOf(i) = f
      BY <2>1, <2>2, ReadFunctions DEF KeysUnique, FunctionOf
    <3>4. Published(i)' = Published(i) /\ Pointers(i)' = Pointers(i)
      BY <1>1, <2>2, PublishedStays, PointersStay
    <3>. QED
      BY <2>3, <3>2, <3>3, <3>4 DEF Entry
  <2>6. \A r : r.id # i => /\ r \in functions <=> r \in functions'
                           /\ r \in versions <=> r \in versions'
                           /\ r \in aliases <=> r \in aliases'
    BY <1>1, <1>2, <1>4, <1>6
  <2>7. used' = used \cup {i}
    BY <1>1, <1>5
  <2>8. Promised!Put(i, [Entry(i) EXCEPT !.latest = g])
    BY <2>2, <2>4, <2>5, <2>6, <2>7, PutPromised
  <2>9. DOMAIN CatalogueOf = Living /\ CatalogueOf[i] = Entry(i)
    BY <1>8 DEF CatalogueOf
  <2>. QED
    BY <1>5, <1>8, <2>8, <2>9 DEF Promised!Update, Promised!Live
<1>. QED
  BY <1>7, <1>8

\* publish_version stores what it read under the next number, or a constraint
\* rejects the row.
LEMMA PublishPromised ==
  ASSUME IInv, [Next]_vars, NEW c \in Clients, PublishInsert(c)
  PROVE  Promised!Publish \/ UNCHANGED <<CatalogueOf, used>>
<1>0. PICK i, n, g : /\ i = call[c].id /\ n = call[c].version /\ g = call[c].config
                     /\ At(c, "publish_insert") /\ UNCHANGED <<functions, aliases, used>>
  BY DEF PublishInsert
<1>1. CASE InsertRejected(i, n)
  <2>1. UNCHANGED <<tables, used>>
    BY <1>1, <1>0 DEF PublishInsert, tables
  <2>. QED
    BY <2>1, CatalogueStays
<1>2. CASE ~InsertRejected(i, n)
  <2>1. versions' = versions \cup {[id |-> i, version |-> n, config |-> g]}
    BY <1>0, <1>2 DEF PublishInsert
  <2>2. KeysUnique /\ KeysUnique'
    BY KeysBothWays
  <2>3. Exists(i) /\ ~VersionExists(i, n)
    BY <1>2 DEF InsertRejected
  <2>4. n \in Nat \ {0} /\ g \in Config /\ i \in used
    BY <1>0 DEF IInv, TypeOK, CallShape, UsedIds, Call, At, Idle
  <2>5. Numbers(i) = 1 .. n - 1
    BY <1>0, <2>3, NumbersBefore
  <2>6. Published(i)' = Append(Published(i), g)
    BY <2>1, <2>2, <2>4, <2>5, PublishedGrows DEF IInv
  <2>7. Entry(i)' = [Entry(i) EXCEPT !.published = Append(Published(i), g)]
    <3>1. PICK f \in functions : f.id = i
      BY <2>3 DEF Exists
    <3>2. FunctionOf(i)' = FunctionOf(i)
      BY <1>0, <2>2, <3>1, FunctionStays
    <3>3. Pointers(i)' = Pointers(i)
      BY <1>0, <2>2, PointersStay
    <3>4. PICK p : p = Append(Published(i), g)
      OBVIOUS
    <3>5. Published(i)' = p
      BY <2>6, <3>4
    <3>6. Entry(i)' = [Entry(i) EXCEPT !.published = p]
      BY <3>2, <3>3, <3>5 DEF Entry
    <3>. QED
      BY <3>4, <3>6
  <2>8. i \in Living /\ Living' = Living \cup {i} /\ used' = used \cup {i}
    BY <1>0, <2>3, <2>4 DEF Exists, Living
  <2>9. \A r : r.id # i => /\ r \in functions <=> r \in functions'
                           /\ r \in versions <=> r \in versions'
                           /\ r \in aliases <=> r \in aliases'
    BY <1>0, <2>1
  <2>10. Promised!Put(i, [Entry(i) EXCEPT !.published = Append(Published(i), g)])
    BY <2>2, <2>7, <2>8, <2>9, PutPromised
  <2>11. /\ DOMAIN CatalogueOf = Living /\ CatalogueOf[i] = Entry(i)
         /\ CatalogueOf[i].published = Published(i)
    BY <2>8 DEF CatalogueOf, Entry
  <2>. QED
    BY <2>4, <2>8, <2>10, <2>11 DEF Promised!Publish, Promised!Live
<1>. QED
  BY <1>1, <1>2

\* An alias that is written points to the version the call was asked for, and the
\* other aliases of the function stay where they were.
LEMMA PointersMove ==
  ASSUME KeysUnique, KeysUnique', NEW i, NEW a, NEW v,
         NEW new \in aliases', new.id = i, new.alias = a, new.version = v,
         \A r : ~(r.id = i /\ r.alias = a) => (r \in aliases <=> r \in aliases')
  PROVE  Pointers(i)' = Promised!Pointed(Pointers(i), a, v)
<1> DEFINE before == Pointers(i)
           after == Pointers(i)'
           moved == Promised!Pointed(before, a, v)
<1>1. AliasNames(i)' = AliasNames(i) \cup {a}
  <2>1. a \in AliasNames(i)'
    BY DEF AliasNames
  <2>2. ASSUME NEW b, b # a
        PROVE  b \in AliasNames(i)' <=> b \in AliasNames(i)
    BY <2>2 DEF AliasNames
  <2>. QED
    BY <2>1, <2>2
<1>2. ASSUME NEW b \in AliasNames(i), b # a
      PROVE  after[b] = before[b]
  <2>1. PICK r \in aliases : r.id = i /\ r.alias = b
    BY DEF AliasNames
  <2>2. r \in aliases'
    BY <1>2, <2>1
  <2>3. before[b] = r.version
    BY <2>1, ReadAliases DEF KeysUnique, Pointers
  <2>4. (CHOOSE s \in aliases' : s.id = i /\ s.alias = b) = r
    BY <2>1, <2>2, ReadAliases DEF KeysUnique
  <2>5. after[b] = r.version
    BY <1>1, <2>4 DEF Pointers
  <2>. QED
    BY <2>3, <2>5
<1>3. after[a] = v
  <2>1. (CHOOSE s \in aliases' : s.id = i /\ s.alias = a) = new
    BY ReadAliases DEF KeysUnique
  <2>. QED
    BY <1>1, <2>1 DEF Pointers
<1>4. /\ DOMAIN before = AliasNames(i)
      /\ DOMAIN after = AliasNames(i) \cup {a}
      /\ after = [b \in AliasNames(i) \cup {a} |-> after[b]]
  BY <1>1 DEF Pointers
<1>5. moved = [b \in AliasNames(i) \cup {a} |-> IF b = a THEN v ELSE before[b]]
  BY <1>4 DEF Promised!Pointed
<1> HIDE DEF before, after, moved
<1>6. after = moved
  BY <1>2, <1>3, <1>4, <1>5
<1>. QED
  BY <1>6 DEF before, after, moved

\* The step of the catalogue when an alias of a function is written.
LEMMA PointPromised ==
  ASSUME IInv, KeysUnique', UNCHANGED <<functions, versions, used>>,
         NEW i \in used, NEW a \in Aliases, NEW v, VersionExists(i, v),
         NEW new \in aliases', new.id = i, new.alias = a, new.version = v,
         \A r : ~(r.id = i /\ r.alias = a) => (r \in aliases <=> r \in aliases')
  PROVE  Promised!Point
<1> DEFINE pointers == Promised!Pointed(Pointers(i), a, v)
<1>1. KeysUnique
  BY DEF IInv
<1>2. PICK f \in functions : f.id = i
  BY DEF IInv, ReferentialIntegrity, VersionExists, Exists
<1>3. Pointers(i)' = pointers
  BY <1>1, PointersMove
<1>4. FunctionOf(i)' = FunctionOf(i)
  BY <1>1, <1>2, FunctionStays
<1>5. Published(i)' = Published(i)
  BY <1>1, PublishedStays
<1>6. Entry(i)' = [Entry(i) EXCEPT !.aliases = pointers]
  BY <1>3, <1>4, <1>5 DEF Entry
<1>7. i \in Living /\ Living' = Living \cup {i} /\ used' = used \cup {i}
  BY <1>2 DEF Living
<1>8. Promised!Put(i, [Entry(i) EXCEPT !.aliases = pointers])
  BY <1>1, <1>6, <1>7, PutPromised
<1>9. v \in Numbers(i)
  BY DEF VersionExists, Numbers
<1>10. /\ DOMAIN CatalogueOf = Living /\ CatalogueOf[i] = Entry(i)
       /\ CatalogueOf[i].aliases = Pointers(i) /\ v \in DOMAIN CatalogueOf[i].published
  BY <1>7, <1>9 DEF CatalogueOf, Entry, Published
<1>. QED
  BY <1>7, <1>8, <1>10 DEF Promised!Point, Promised!Live

\* update_alias moves an alias to a version that exists, or changes nothing: the
\* alias is gone, or the foreign key rejects the row.
LEMMA AliasWritePromised ==
  ASSUME IInv, [Next]_vars, NEW c \in Clients, UpdateAliasWrite(c)
  PROVE  Promised!Point \/ UNCHANGED <<CatalogueOf, used>>
<1>0. PICK i, a, v : /\ i = call[c].id /\ a = call[c].alias /\ v = call[c].version
                     /\ At(c, "update_alias_write") /\ UNCHANGED <<functions, versions, used>>
  BY DEF UpdateAliasWrite
<1> DEFINE move(r) == IF r.id = i /\ r.alias = a THEN [r EXCEPT !.version = v] ELSE r
<1>1. CASE aliases' = aliases
  BY <1>0, <1>1, CatalogueStays DEF tables
<1>2. CASE aliases' # aliases
  <2>1. aliases' = {move(r) : r \in aliases} /\ (AliasExists(i, a) => VersionExists(i, v))
    BY <1>0, <1>2 DEF UpdateAliasWrite
  <2>2. \A r \in aliases : r.id = i /\ r.alias = a => move(r) = [r EXCEPT !.version = v]
    OBVIOUS
  <2>3. \A r \in aliases : ~(r.id = i /\ r.alias = a) => move(r) = r
    OBVIOUS
  <2> HIDE DEF move
  <2>4. \A r : r \in aliases' <=> \E s \in aliases : r = move(s)
    BY <2>1
  <2>5. AliasExists(i, a)
    <3>1. CASE ~AliasExists(i, a)
      <4>1. \A r \in aliases : move(r) = r
        BY <2>3, <3>1 DEF AliasExists
      <4>2. aliases' = aliases
        BY <2>4, <4>1
      <4>. QED
        BY <1>2, <4>2
    <3>. QED
      BY <3>1
  <2>6. PICK r \in aliases : r.id = i /\ r.alias = a
    BY <2>5 DEF AliasExists
  <2> DEFINE new == move(r)
  <2>7. new \in aliases' /\ new.id = i /\ new.alias = a /\ new.version = v
    <3>1. r \in AliasRow
      BY DEF IInv, TypeOK
    <3>2. new = [r EXCEPT !.version = v]
      BY <2>2, <2>6
    <3>. QED
      BY <2>4, <2>6, <3>1, <3>2 DEF AliasRow
  <2>8. \A s \in aliases : move(s).id = s.id /\ move(s).alias = s.alias
    <3>1. \A s \in aliases : s \in AliasRow
      BY DEF IInv, TypeOK
    <3>2. \A s \in AliasRow : [s EXCEPT !.version = v].id = s.id /\ [s EXCEPT !.version = v].alias = s.alias
      BY DEF AliasRow
    <3>. QED
      BY <2>2, <2>3, <3>1, <3>2
  <2>9. \A s : ~(s.id = i /\ s.alias = a) => (s \in aliases <=> s \in aliases')
    BY <2>3, <2>4, <2>8
  <2>10. i \in used /\ a \in Aliases
    BY <1>0 DEF IInv, UsedIds, CallShape, At, Idle
  <2>11. KeysUnique'
    BY KeysBothWays
  <2> HIDE DEF new
  <2>. QED
    BY <1>0, <2>1, <2>5, <2>7, <2>9, <2>10, <2>11, PointPromised
<1>. QED
  BY <1>1, <1>2

\* create_alias adds an alias that points to a version that exists, or a constraint
\* rejects the row.
LEMMA AliasInsertPromised ==
  ASSUME IInv, [Next]_vars, NEW c \in Clients, CreateAliasInsert(c)
  PROVE  Promised!Point \/ UNCHANGED <<CatalogueOf, used>>
<1>0. PICK i, a, v : /\ i = call[c].id /\ a = call[c].alias /\ v = call[c].version
                     /\ At(c, "create_alias_insert") /\ UNCHANGED <<functions, versions, used>>
  BY DEF CreateAliasInsert
<1>1. CASE aliases' = aliases
  BY <1>0, <1>1, CatalogueStays DEF tables
<1>2. CASE aliases' # aliases
  <2> DEFINE new == [id |-> i, alias |-> a, version |-> v]
  <2>1. aliases' = aliases \cup {new} /\ VersionExists(i, v)
    BY <1>0, <1>2 DEF CreateAliasInsert
  <2>2. new \in aliases' /\ new.id = i /\ new.alias = a /\ new.version = v
    BY <2>1
  <2>3. \A s : ~(s.id = i /\ s.alias = a) => (s \in aliases <=> s \in aliases')
    BY <2>1
  <2>4. i \in used /\ a \in Aliases
    BY <1>0 DEF IInv, UsedIds, CallShape, At, Idle
  <2>5. KeysUnique'
    BY KeysBothWays
  <2> HIDE DEF new
  <2>. QED
    BY <1>0, <2>1, <2>2, <2>3, <2>4, <2>5, PointPromised
<1>. QED
  BY <1>1, <1>2

LEMMA CatalogueStep == IInv /\ [Next]_vars => [Promised!Next]_(<<CatalogueOf, used>>)
<1> SUFFICES ASSUME IInv, [Next]_vars PROVE [Promised!Next]_(<<CatalogueOf, used>>)
  OBVIOUS
<1>1. ASSUME NEW c \in Clients, Start(c) \/ Step(c) \/ Abandon(c)
      PROVE  Promised!Next \/ UNCHANGED <<CatalogueOf, used>>
  <2>1. CASE CreateFunction(c)
    BY <2>1, CreatePromised DEF Promised!Next
  <2>2. CASE DeleteFunction(c)
    BY <2>2, DeletePromised DEF Promised!Next
  <2>3. CASE UpdateWrite(c)
    BY <2>3, UpdatePromised DEF Promised!Next
  <2>4. CASE PublishInsert(c)
    BY <2>4, PublishPromised DEF Promised!Next
  <2>5. CASE UpdateAliasWrite(c)
    BY <2>5, AliasWritePromised DEF Promised!Next
  <2>6. CASE CreateAliasInsert(c)
    BY <2>6, AliasInsertPromised DEF Promised!Next
  <2>7. CASE ~(\/ CreateFunction(c) \/ DeleteFunction(c) \/ UpdateWrite(c) \/ PublishInsert(c)
               \/ UpdateAliasWrite(c) \/ CreateAliasInsert(c))
    <3>1. UNCHANGED <<tables, used>>
      BY <1>1, <2>7 DEF Start, Step, Abandon, UpdateSelect, PublishSelect, UpsertAlias, AliasCall,
         Resolve, PublishMax, UpsertCheckFunction, UpsertCheckVersion, UpdateAliasCheckVersion,
         UpdateAliasSelect, CreateAliasCheckVersion, ResolveVersion, CheckVersion, tables
    <3>. QED
      BY <3>1, CatalogueStays
  <2>. QED
    BY <2>1, <2>2, <2>3, <2>4, <2>5, <2>6, <2>7
<1>2. CASE Restart
  BY <1>2, RestartStep, CatalogueStays DEF IInv
<1>3. CASE UNCHANGED vars
  BY <1>3, CatalogueStays DEF vars, tables
<1>. QED
  BY <1>1, <1>2, <1>3 DEF Next, CallStep

\* The registry is the catalogue it promises to be: however the statements of its
\* calls interleave, and wherever a call is given up, rejected or lost, each step is
\* one whole change of the catalogue or none.
THEOREM RegistryIsACatalogue == Spec => ImplementsCatalogue
<1>1. Init => Promised!Init
  <2>. SUFFICES ASSUME Init PROVE Promised!Init
    OBVIOUS
  <2>1. Living = {} /\ used = {}
    BY DEF Init, Living
  <2>. QED
    BY <2>1 DEF Promised!Init, CatalogueOf
<1>2. IInv /\ [Next]_vars => [Promised!Next]_(<<CatalogueOf, used>>)
  BY CatalogueStep
<1>. QED
  BY <1>1, <1>2, RegistryInvariance, PTL DEF Spec, Promised!Spec, ImplementsCatalogue

-----------------------------------------------------------------------------
(* The registry under the invocations *)

\* A restart is a step of the registry, or nothing if no call was in flight.
LEMMA LoseCallsStep ==
  ASSUME TypeOK, LoseCalls
  PROVE  [Next]_vars
<1>1. CASE \E c \in Clients : ~Idle(c)
  BY <1>1 DEF Next, Restart
<1>2. CASE \A c \in Clients : Idle(c)
  BY <1>2 DEF LoseCalls, TypeOK, tables, vars
<1>. QED
  BY <1>1, <1>2

\* What a registry step may do to what an invocation has read: a function that is
\* gone stays gone, a version goes with its function only, and a row is added
\* under no number that exists and to no function that does not.
LEMMA RegistryMoves ==
  ASSUME IInv, [Next]_vars, NEW i \in used, NEW n \in Nat
  PROVE  /\ i \in used'
         /\ ~Exists(i) => ~Exists(i)'
         /\ VersionExists(i, n) => VersionExists(i, n)' \/ ~Exists(i)'
         /\ \A r \in versions' : r.id = i /\ r.version = n /\ r \notin versions =>
              Exists(i) /\ ~VersionExists(i, n)
<1>1. TypeOK /\ UsedIds /\ CallShape
  BY DEF IInv
<1>2. i \in used' /\ (Exists(i)' => Exists(i))
  BY <1>1, FunctionsStep
<1>3. ASSUME VersionExists(i, n), Exists(i)'
      PROVE  VersionExists(i, n)'
  <2>1. PICK r \in versions : r.id = i /\ r.version = n
    BY <1>3 DEF VersionExists
  <2>2. r \in versions' \/ ~Exists(r.id)'
    BY <1>1, VersionsStep
  <2>3. r \in versions'
    BY <1>3, <2>1, <2>2 DEF Exists
  <2>. QED
    BY <2>1, <2>3 DEF VersionExists
<1>4. ASSUME NEW r \in versions', r.id = i, r.version = n, r \notin versions
      PROVE  Exists(i) /\ ~VersionExists(i, n)
  BY <1>1, <1>4, VersionsStep
<1>. QED
  BY <1>2, <1>3, <1>4

-----------------------------------------------------------------------------
(* Steps of an invocation *)

\* A function has an id of the registry's, and its configuration a type.
LEMMA FunctionFacts ==
  ASSUME IInv, NEW f \in functions
  PROVE  f.id \in used /\ f.id \in FunctionIds /\ f.id # None /\ f.config \in Config
BY DEF IInv, TypeOK, UsedIds, FunctionRow

LEMMA VersionFacts ==
  ASSUME IInv, NEW r \in versions
  PROVE  r.version \in Nat /\ r.version # 0 /\ r.config \in Config
BY DEF IInv, TypeOK, VersionRow

\* An invocation that moves to i leaves the others as they were.
LEMMA MoveKeeps ==
  ASSUME InvocationInv, NEW v \in Invocations, NEW i \in Invocation,
         inv' = [inv EXCEPT ![v] = i],
         UNCHANGED <<registry, stream, metrics>>,
         records \subseteq records', records' \subseteq Record,
         i.pc \in {"run", "record"} => i.config \in Config,
         Shape(v)', TellsRun(v)', HoldsSnapshot(v)', OnRecord(v)'
  PROVE  InvocationInv'
<1>1. inv'[v] = i /\ \A w \in Invocations \ {v} : inv'[w] = inv[w]
  BY DEF InvocationInv, InvocationTypeOK
<1>2. InvocationTypeOK'
  BY <1>1 DEF InvocationInv, InvocationTypeOK, stream
<1>3. IInv'
  BY InvariantStep DEF InvocationInv, registry
<1>4. ASSUME NEW w \in Invocations \ {v}
      PROVE  Shape(w)' /\ TellsRun(w)' /\ HoldsSnapshot(w)' /\ OnRecord(w)'
  <2>1. Shape(w) /\ TellsRun(w) /\ HoldsSnapshot(w) /\ OnRecord(w) /\ inv'[w] = inv[w]
    BY <1>1 DEF InvocationInv
  <2>2. Shape(w)' /\ TellsRun(w)'
    BY <2>1 DEF Shape, TellsRun, Stands, registry, vars, stream, Exists
  <2>3. HoldsSnapshot(w)'
    BY <2>1 DEF HoldsSnapshot, registry, vars, Exists, VersionExists
  <2>4. OnRecord(w)'
    BY <2>1 DEF OnRecord, Stands, registry, vars, stream, Exists
  <2>. QED
    BY <2>2, <2>3, <2>4
<1>. QED
  BY <1>2, <1>3, <1>4 DEF InvocationInv

\* A refusal, of an invocation that has not run.
LEMMA RefuseKeeps ==
  ASSUME InvocationInv, NEW v \in Invocations, Refuse(v),
         inv[v].pc \in {"get_alias", "get_version", "get_function"},
         UNCHANGED <<registry, stream, metrics, records>>
  PROVE  InvocationInv'
<1> DEFINE i == [inv[v] EXCEPT !.pc = "done", !.answer = "refused"]
<1>1. inv[v] \in Invocation /\ Shape(v)
  BY DEF InvocationInv, InvocationTypeOK
<1>2. /\ i \in Invocation /\ i.pc = "done" /\ i.answer = "refused"
      /\ i.id = inv[v].id /\ i.api = inv[v].api
  BY <1>1 DEF Invocation, Answers
<1>3. inv' = [inv EXCEPT ![v] = i] /\ inv'[v] = i
  BY DEF Refuse, InvocationInv, InvocationTypeOK
<1>4. phase'[v] \notin {"open", "ended"} /\ used' = used
  BY <1>1 DEF Shape, Stands, stream, registry, vars
<1> HIDE DEF i
<1>5. Shape(v)' /\ TellsRun(v)' /\ HoldsSnapshot(v)' /\ OnRecord(v)'
  BY <1>1, <1>2, <1>3, <1>4 DEF Shape, TellsRun, HoldsSnapshot, OnRecord, Stands
<1>. QED
  BY <1>2, <1>3, <1>5, MoveKeeps DEF InvocationInv, InvocationTypeOK

\* The code is about to run, or a dry run is over.
LEMMA DispatchKeeps ==
  ASSUME InvocationInv, NEW v \in Invocations, NEW j \in Invocation, Dispatch(v, j),
         inv[v].pc \in {"idle", "get_version", "get_function"},
         UNCHANGED <<registry, stream, metrics, records>>,
         j.config \in Config, j.answer = "none", j.id \in used, j.id # None,
         j.api = "invoker" /\ j.version # 0 =>
           /\ VersionExists(j.id, j.version) \/ ~Exists(j.id)
           /\ \A r \in versions : r.id = j.id /\ r.version = j.version => j.config = r.config
  PROVE  InvocationInv'
<1>1. PICK pc \in {"run", "done"}, a \in {"none", "accepted", "valid"} :
        /\ inv' = [inv EXCEPT ![v] = [j EXCEPT !.pc = pc, !.answer = a]]
        /\ pc = "run" => a \in {"none", "accepted"}
        /\ pc = "done" => a = "valid"
  <2>1. j.api \in Apis /\ j.kind \in Kinds
    BY DEF Invocation
  <2>2. [j EXCEPT !.pc = "run"] = [j EXCEPT !.pc = "run", !.answer = "none"]
    BY DEF Invocation
  <2>3. CASE j.api = "exec" \/ j.kind = "RequestResponse"
    BY <2>2, <2>3 DEF Dispatch
  <2>4. CASE j.api = "invoker" /\ j.kind = "Event"
    BY <2>4 DEF Dispatch
  <2>5. CASE j.api = "invoker" /\ j.kind = "DryRun"
    BY <2>5 DEF Dispatch
  <2>. QED
    BY <2>1, <2>3, <2>4, <2>5 DEF Apis, Kinds
<1> DEFINE i == [j EXCEPT !.pc = pc, !.answer = a]
<1>2. /\ i \in Invocation /\ i.pc = pc /\ i.answer = a
      /\ i.id = j.id /\ i.api = j.api /\ i.version = j.version /\ i.config = j.config
  BY DEF Invocation, Answers
<1>3. inv' = [inv EXCEPT ![v] = i] /\ inv'[v] = i
  BY <1>1 DEF InvocationInv, InvocationTypeOK
<1>4. phase'[v] \notin {"open", "ended"}
  BY DEF InvocationInv, Shape, Stands, stream
<1> HIDE DEF i
<1>5. Shape(v)' /\ TellsRun(v)'
  BY <1>1, <1>2, <1>3, <1>4 DEF Shape, TellsRun, Stands, registry, vars
<1>6. HoldsSnapshot(v)' /\ OnRecord(v)'
  BY <1>2, <1>3, <1>4
     DEF HoldsSnapshot, OnRecord, Stands, registry, vars, Exists, VersionExists
<1>. QED
  BY <1>2, <1>3, <1>5, <1>6, MoveKeeps DEF InvocationInv, InvocationTypeOK

LEMMA InvokeKeeps ==
  ASSUME InvocationInv, NEW v \in Invocations, Invoke(v)
  PROVE  InvocationInv'
<1>1. PICK api \in Apis, kind \in Kinds :
        \/ inv' = [inv EXCEPT ![v] =
             [IdleInvocation EXCEPT !.pc = "done", !.api = api, !.kind = kind, !.answer = "refused"]]
        \/ \E f \in functions :
             LET i == [IdleInvocation EXCEPT !.api = api, !.kind = kind, !.id = f.id]
             IN  \/ \E a \in Aliases :
                      inv' = [inv EXCEPT ![v] =
                        [i EXCEPT !.pc = "get_alias", !.alias = a,
                                  !.config = IF api = "exec" THEN f.config ELSE None]]
                 \/ IF api = "exec"
                    THEN Dispatch(v, [i EXCEPT !.config = f.config])
                    ELSE inv' = [inv EXCEPT ![v] = [i EXCEPT !.pc = "get_function"]]
  BY Zenon DEF Invoke
<1>2. /\ Stands(v, "idle") /\ UNCHANGED <<registry, stream, metrics, records>>
      /\ IInv /\ Shape(v) /\ records \subseteq Record
      /\ phase'[v] \notin {"open", "ended"} /\ used' = used
  BY DEF Invoke, InvocationInv, InvocationTypeOK, Shape, Stands, stream, registry, vars
<1> DEFINE Fresh(i) ==
      /\ i \in Invocation /\ i.version = 0
      /\ i.id # None => i.id \in used
      /\ \/ i.pc = "done" /\ i.answer = "refused"
         \/ /\ i.pc = "get_alias" /\ i.answer = "none" /\ i.id # None
            /\ i.api = "exec" => i.config \in Config
         \/ i.pc = "get_function" /\ i.answer = "none" /\ i.id # None /\ i.api = "invoker"
<1>3. ASSUME NEW i, Fresh(i), inv' = [inv EXCEPT ![v] = i]
      PROVE  InvocationInv'
  <2>1. inv'[v] = i
    BY <1>3 DEF InvocationInv, InvocationTypeOK
  <2>2. Shape(v)' /\ TellsRun(v)' /\ HoldsSnapshot(v)' /\ OnRecord(v)'
    BY <1>2, <1>3, <2>1 DEF Shape, TellsRun, HoldsSnapshot, OnRecord, Stands
  <2>. QED
    BY <1>2, <1>3, <2>2, MoveKeeps
<1>4. CASE inv' = [inv EXCEPT ![v] =
             [IdleInvocation EXCEPT !.pc = "done", !.api = api, !.kind = kind, !.answer = "refused"]]
  <2> DEFINE i ==
        [IdleInvocation EXCEPT !.pc = "done", !.api = api, !.kind = kind, !.answer = "refused"]
  <2>1. Fresh(i)
    BY DEF IdleInvocation, Invocation, Answers
  <2>. QED
    BY <1>3, <1>4, <2>1
<1>5. ASSUME NEW f \in functions, NEW a \in Aliases,
             inv' = [inv EXCEPT ![v] =
               [[IdleInvocation EXCEPT !.api = api, !.kind = kind, !.id = f.id] EXCEPT
                  !.pc = "get_alias", !.alias = a,
                  !.config = IF api = "exec" THEN f.config ELSE None]]
      PROVE  InvocationInv'
  <2> DEFINE i ==
        [[IdleInvocation EXCEPT !.api = api, !.kind = kind, !.id = f.id] EXCEPT
           !.pc = "get_alias", !.alias = a, !.config = IF api = "exec" THEN f.config ELSE None]
  <2>1. Fresh(i)
    BY <1>2, FunctionFacts DEF IdleInvocation, Invocation, Answers
  <2>. QED
    BY <1>3, <1>5, <2>1
<1>6. ASSUME NEW f \in functions, api # "exec",
             inv' = [inv EXCEPT ![v] =
               [[IdleInvocation EXCEPT !.api = api, !.kind = kind, !.id = f.id] EXCEPT
                  !.pc = "get_function"]]
      PROVE  InvocationInv'
  <2> DEFINE i ==
        [[IdleInvocation EXCEPT !.api = api, !.kind = kind, !.id = f.id] EXCEPT
           !.pc = "get_function"]
  <2>1. Fresh(i)
    BY <1>2, <1>6, FunctionFacts DEF IdleInvocation, Invocation, Answers, Apis
  <2>. QED
    BY <1>3, <1>6, <2>1
<1>7. ASSUME NEW f \in functions, api = "exec",
             Dispatch(v, [[IdleInvocation EXCEPT !.api = api, !.kind = kind, !.id = f.id] EXCEPT
                            !.config = f.config])
      PROVE  InvocationInv'
  <2> DEFINE j ==
        [[IdleInvocation EXCEPT !.api = api, !.kind = kind, !.id = f.id] EXCEPT
           !.config = f.config]
  <2>1. /\ j \in Invocation /\ j.config \in Config /\ j.answer = "none"
        /\ j.id \in used /\ j.id # None /\ j.version = 0
    BY <1>2, FunctionFacts DEF IdleInvocation, Invocation, Answers
  <2>. QED
    BY <1>2, <1>7, <2>1, DispatchKeeps DEF Stands
<1>. QED
  BY <1>1, <1>4, <1>5, <1>6, <1>7

LEMMA GetAliasKeeps ==
  ASSUME InvocationInv, NEW v \in Invocations, GetAlias(v)
  PROVE  InvocationInv'
<1>1. /\ inv[v] \in Invocation /\ Shape(v) /\ Stands(v, "get_alias") /\ records \subseteq Record
      /\ UNCHANGED <<registry, stream, metrics, records>>
  BY DEF GetAlias, InvocationInv, InvocationTypeOK
<1>2. CASE Refuse(v)
  BY <1>1, <1>2, RefuseKeeps DEF Stands
<1>3. ASSUME NEW r \in aliases,
             inv' = [inv EXCEPT ![v].pc = "get_version", ![v].version = r.version]
      PROVE  InvocationInv'
  <2> DEFINE i == [inv[v] EXCEPT !.pc = "get_version", !.version = r.version]
  <2>1. r.version \in Nat
    BY DEF InvocationInv, IInv, TypeOK, AliasRow
  <2>2. /\ i \in Invocation /\ i.pc = "get_version" /\ i.id = inv[v].id /\ i.api = inv[v].api
        /\ i.config = inv[v].config /\ i.answer = inv[v].answer
    BY <1>1, <2>1 DEF Invocation
  <2>3. inv' = [inv EXCEPT ![v] = i] /\ inv'[v] = i
    BY <1>3 DEF InvocationInv, InvocationTypeOK
  <2> HIDE DEF i
  <2>4. phase'[v] \notin {"open", "ended"} /\ used' = used
    BY <1>1 DEF Shape, Stands, stream, registry, vars
  <2>5. Shape(v)' /\ TellsRun(v)' /\ HoldsSnapshot(v)' /\ OnRecord(v)'
    BY <1>1, <2>2, <2>3, <2>4 DEF Shape, TellsRun, HoldsSnapshot, OnRecord, Stands
  <2>. QED
    BY <1>1, <2>2, <2>3, <2>5, MoveKeeps
<1>. QED
  BY <1>2, <1>3 DEF GetAlias

\* The row that was read is the only one of its number, so an invocation of the
\* invoker holds what every row of its number says.
LEMMA GetVersionKeeps ==
  ASSUME InvocationInv, NEW v \in Invocations, GetVersion(v)
  PROVE  InvocationInv'
<1>1. /\ inv[v] \in Invocation /\ Shape(v) /\ Stands(v, "get_version") /\ records \subseteq Record
      /\ UNCHANGED <<registry, stream, metrics, records>> /\ IInv
  BY DEF GetVersion, InvocationInv, InvocationTypeOK
<1>2. CASE Refuse(v)
  BY <1>1, <1>2, RefuseKeeps DEF Stands
<1>3. ASSUME NEW r \in versions, r.id = inv[v].id, r.version = inv[v].version,
             LET i == [inv[v] EXCEPT !.config = VersionConfig(inv[v], r)]
             IN  IF i.api = "exec" THEN Dispatch(v, i)
                 ELSE inv' = [inv EXCEPT ![v] = [i EXCEPT !.pc = "get_function"]]
      PROVE  InvocationInv'
  <2> DEFINE j == [inv[v] EXCEPT !.config = VersionConfig(inv[v], r)]
  <2>1. r.config \in Config /\ r.version # 0
    BY <1>1, VersionFacts
  <2>2. VersionConfig(inv[v], r) \in Config
    BY <1>1, <2>1 DEF VersionConfig, Config, Shape, Stands
  <2>3. /\ j \in Invocation /\ j.config \in Config /\ j.answer = "none"
        /\ j.id \in used /\ j.id # None /\ j.id = inv[v].id /\ j.version = inv[v].version
        /\ j.api = inv[v].api /\ j.config = VersionConfig(inv[v], r)
    BY <1>1, <2>2 DEF Invocation, Shape, Stands
  <2>4. VersionExists(j.id, j.version)
    BY <1>3, <2>3 DEF VersionExists
  <2>5. \A q \in versions : q.id = j.id /\ q.version = j.version => q = r
    BY <1>1, <1>3, <2>3 DEF IInv, KeysUnique
  <2>6. CASE j.api = "exec"
    <3>1. Dispatch(v, j)
      BY <1>3, <2>6
    <3> HIDE DEF j
    <3>. QED
      BY <1>1, <2>3, <2>6, <3>1, DispatchKeeps DEF Stands
  <2>7. CASE j.api # "exec"
    <3> DEFINE i == [j EXCEPT !.pc = "get_function"]
    <3>1. inv' = [inv EXCEPT ![v] = i]
      BY <1>3, <2>7
    <3>2. j.api = "invoker" /\ j.config = r.config
      BY <2>3, <2>7 DEF Invocation, Apis, VersionConfig
    <3> HIDE DEF j
    <3>3. /\ i \in Invocation /\ i.pc = "get_function" /\ i.answer = "none" /\ i.api = "invoker"
          /\ i.id = j.id /\ i.version = j.version /\ i.config = r.config
      BY <2>3, <3>2 DEF Invocation
    <3>4. inv'[v] = i
      BY <3>1 DEF InvocationInv, InvocationTypeOK
    <3>5. phase'[v] \notin {"open", "ended"} /\ used' = used /\ versions' = versions
      BY <1>1 DEF Shape, Stands, stream, registry, vars
    <3> HIDE DEF i
    <3>6. Shape(v)' /\ TellsRun(v)' /\ OnRecord(v)'
      BY <2>1, <2>3, <3>3, <3>4, <3>5 DEF Shape, TellsRun, OnRecord, Stands
    <3>7. HoldsSnapshot(v)'
      BY <2>4, <2>5, <3>3, <3>4, <3>5 DEF HoldsSnapshot, VersionExists
    <3>. QED
      BY <1>1, <3>1, <3>3, <3>6, <3>7, MoveKeeps
  <2>. QED
    BY <2>6, <2>7
<1>. QED
  BY <1>2, <1>3 DEF GetVersion

LEMMA GetFunctionKeeps ==
  ASSUME InvocationInv, NEW v \in Invocations, GetFunction(v)
  PROVE  InvocationInv'
<1>1. /\ inv[v] \in Invocation /\ Shape(v) /\ HoldsSnapshot(v) /\ Stands(v, "get_function")
      /\ UNCHANGED <<registry, stream, metrics, records>> /\ IInv
  BY DEF GetFunction, InvocationInv, InvocationTypeOK
<1>2. CASE Refuse(v)
  BY <1>1, <1>2, RefuseKeeps DEF Stands
<1>3. ASSUME NEW f \in functions,
             Dispatch(v, [inv[v] EXCEPT !.config = IF inv[v].version = 0 THEN f.config ELSE @])
      PROVE  InvocationInv'
  <2> DEFINE j == [inv[v] EXCEPT !.config = IF inv[v].version = 0 THEN f.config ELSE @]
  <2>1. f.config \in Config
    BY <1>1, FunctionFacts
  <2>2. /\ j \in Invocation /\ j.config \in Config /\ j.answer = "none"
        /\ j.id \in used /\ j.id # None /\ j.id = inv[v].id /\ j.version = inv[v].version
        /\ j.api = inv[v].api
        /\ j.version # 0 => j.config = inv[v].config
    BY <1>1, <2>1 DEF Invocation, Shape, Stands
  <2>3. Dispatch(v, j)
    BY <1>3
  <2> HIDE DEF j
  <2>. QED
    BY <1>1, <2>2, <2>3, DispatchKeeps DEF Stands, HoldsSnapshot
<1>. QED
  BY <1>2, <1>3 DEF GetFunction

\* The verdict is that of the outcome.
LEMMA VerdictTells ==
  ASSUME InvocationInv, NEW v \in Invocations
  PROVE  \/ outcome[v] = "returned" /\ Verdict(v) = "success"
         \/ outcome[v] = "error" /\ Verdict(v) = "failure"
         \/ outcome[v] = "none" /\ Verdict(v) = "silent"
<1>1. outcome[v] \in {"none", "returned", "error"}
  BY DEF InvocationInv, InvocationTypeOK
<1>. QED
  BY <1>1 DEF Verdict

\* The record is about to be written, or the caller is told.
LEMMA CollectKeeps ==
  ASSUME InvocationInv, NEW v \in Invocations, Collect(v)
  PROVE  InvocationInv'
<1> DEFINE old == inv[v]
           told == IF old.answer = "accepted" THEN old.answer ELSE Verdict(v)
           i == IF old.api = "invoker" /\ metrics THEN [old EXCEPT !.pc = "record"]
                ELSE [old EXCEPT !.pc = "done", !.answer = told]
<1>1. /\ old \in Invocation /\ Shape(v) /\ HoldsSnapshot(v) /\ Stands(v, "run")
      /\ records \subseteq Record /\ old.config \in Config /\ phase[v] = "ended"
      /\ UNCHANGED <<registry, stream, metrics, records>>
  BY DEF Collect, InvocationInv, InvocationTypeOK, Stands
<1>2. inv' = [inv EXCEPT ![v] = i] /\ inv'[v] = i
  BY DEF Collect, Conclude, InvocationInv, InvocationTypeOK
<1>3. /\ i \in Invocation /\ i.id = old.id /\ i.api = old.api /\ i.version = old.version
      /\ i.config = old.config
      /\ \/ i.pc = "record" /\ i.api = "invoker" /\ metrics /\ i.answer = old.answer
         \/ /\ i.pc = "done" /\ ~(i.api = "invoker" /\ metrics)
            /\ i.answer = IF old.answer = "accepted" THEN "accepted" ELSE Verdict(v)
  BY <1>1, VerdictTells DEF Invocation, Answers
<1> HIDE DEF i, old
<1>4. old.answer \in {"none", "accepted"} /\ old.id # None /\ old.id \in used
  BY <1>1 DEF Shape, Stands, old
<1>5. phase' = phase /\ outcome' = outcome /\ used' = used
  BY <1>1 DEF stream, registry, vars
<1>6. Shape(v)'
  BY <1>1, <1>2, <1>3, <1>4, <1>5 DEF Shape, Stands
<1>7. TellsRun(v)'
  BY <1>1, <1>2, <1>3, <1>4, <1>5, VerdictTells DEF TellsRun
<1>8. HoldsSnapshot(v)'
  BY <1>1, <1>2, <1>3
     DEF HoldsSnapshot, Stands, old, registry, vars, Exists, VersionExists
<1>9. OnRecord(v)'
  BY <1>1, <1>2, <1>3 DEF OnRecord, Stands
<1>. QED
  BY <1>1, <1>2, <1>3, <1>6, <1>7, <1>8, <1>9, MoveKeeps

LEMMA RecordKeeps ==
  ASSUME InvocationInv, NEW v \in Invocations, RecordInvocation(v)
  PROVE  InvocationInv'
<1> DEFINE old == inv[v]
           i == [old EXCEPT !.pc = "done",
                            !.answer = IF @ = "accepted" THEN @
                                       ELSE IF Exists(old.id) THEN Verdict(v)
                                       ELSE "refused"]
<1>1. /\ old \in Invocation /\ Shape(v) /\ Stands(v, "record") /\ records \subseteq Record
      /\ UNCHANGED <<registry, stream, metrics>>
  BY DEF RecordInvocation, InvocationInv, InvocationTypeOK
<1>2. inv' = [inv EXCEPT ![v] = i] /\ inv'[v] = i
  BY DEF RecordInvocation, Conclude, InvocationInv, InvocationTypeOK
<1>3. /\ Exists(old.id) => records' = records \cup {Row(v)}
      /\ ~Exists(old.id) => records' = records
  BY DEF RecordInvocation
<1>4. /\ old.id # None /\ old.id \in used /\ old.answer \in {"none", "accepted"}
      /\ phase[v] = "ended"
  BY <1>1 DEF Shape, Stands
<1>5. Row(v) \in Record
  BY <1>1, <1>4 DEF Invocation, Record, Row, Success
<1>6. /\ i \in Invocation /\ i.pc = "done" /\ i.id = old.id /\ i.api = old.api
      /\ i.answer = IF old.answer = "accepted" THEN "accepted"
                    ELSE IF Exists(old.id) THEN Verdict(v) ELSE "refused"
  BY <1>1, VerdictTells DEF Invocation, Answers
<1>7. Row(v).inv = v /\ Row(v).id = old.id /\ (Row(v).success <=> outcome[v] # "error")
  BY DEF Row, Success
<1> HIDE DEF i, old
<1>8. phase' = phase /\ outcome' = outcome /\ used' = used /\ functions' = functions
  BY <1>1 DEF stream, registry, vars
<1>9. Shape(v)'
  BY <1>2, <1>4, <1>6, <1>8 DEF Shape, Stands
<1>10. TellsRun(v)'
  BY <1>2, <1>4, <1>6, <1>8, VerdictTells DEF TellsRun, Exists
<1>11. HoldsSnapshot(v)'
  BY <1>2, <1>6 DEF HoldsSnapshot
<1>12. OnRecord(v)'
  BY <1>2, <1>3, <1>6, <1>7, <1>8 DEF OnRecord, Exists
<1>. QED
  BY <1>1, <1>2, <1>3, <1>5, <1>6, <1>9, <1>10, <1>11, <1>12, MoveKeeps

-----------------------------------------------------------------------------
(* Steps of the stream and of the surroundings *)

\* The stream of one invocation moves while its code runs.
LEMMA StreamKeeps ==
  ASSUME InvocationInv, NEW v \in Invocations, UNCHANGED <<registry, metrics, inv, records>>,
         Stands(v, "run"), phase[v] # "ended",
         NEW p \in {"new", "open", "ended", "dropped"}, phase' = [phase EXCEPT ![v] = p],
         NEW o \in {"none", "returned", "error"}, outcome' = [outcome EXCEPT ![v] = o]
  PROVE  InvocationInv'
<1>1. InvocationTypeOK'
  BY DEF InvocationInv, InvocationTypeOK
<1>2. IInv'
  BY InvariantStep DEF InvocationInv, registry
<1>3. ASSUME NEW w \in Invocations
      PROVE  Shape(w)' /\ TellsRun(w)' /\ HoldsSnapshot(w)' /\ OnRecord(w)'
  <2>1. Shape(w) /\ TellsRun(w) /\ HoldsSnapshot(w) /\ OnRecord(w)
    BY DEF InvocationInv
  <2>2. HoldsSnapshot(w)'
    BY <2>1 DEF HoldsSnapshot, registry, vars, Exists, VersionExists
  <2>3. CASE w = v
    <3>1. inv[v].answer \in {"none", "accepted"} /\ inv[v].pc = "run"
      BY <2>1, <2>3 DEF Shape, Stands
    <3>2. Shape(v)'
      BY <2>1, <2>3, <3>1 DEF Shape, Stands, registry, vars
    <3>3. TellsRun(v)' /\ OnRecord(v)'
      BY <3>1 DEF TellsRun, OnRecord, Stands
    <3>. QED
      BY <2>2, <2>3, <3>2, <3>3
  <2>4. CASE w # v
    <3>1. phase'[w] = phase[w] /\ outcome'[w] = outcome[w]
      BY <2>4 DEF InvocationInv, InvocationTypeOK
    <3>. QED
      BY <2>1, <2>2, <3>1 DEF Shape, TellsRun, OnRecord, Stands, registry, vars, Exists
  <2>. QED
    BY <2>3, <2>4
<1>. QED
  BY <1>1, <1>2, <1>3 DEF InvocationInv

LEMMA StreamStepKeeps ==
  ASSUME InvocationInv, NEW v \in Invocations, Execute(v) \/ TellOutcome(v) \/ CloseStream(v)
  PROVE  InvocationInv'
<1>1. /\ phase = [phase EXCEPT ![v] = phase[v]] /\ outcome = [outcome EXCEPT ![v] = outcome[v]]
      /\ phase[v] \in {"new", "open", "ended", "dropped"}
      /\ outcome[v] \in {"none", "returned", "error"}
  BY DEF InvocationInv, InvocationTypeOK
<1>2. phase[v] = "open" => Stands(v, "run")
  BY DEF InvocationInv, Shape
<1>3. CASE Execute(v)
  <2>1. Stands(v, "run") /\ phase[v] = "new" /\ UNCHANGED <<registry, metrics, inv, records>>
    BY <1>3 DEF Execute, Stream!Open
  <2>2. phase' = [phase EXCEPT ![v] = "open"] /\ outcome' = outcome
    BY <1>3 DEF Execute, Stream!Open
  <2>. QED
    BY <1>1, <2>1, <2>2, StreamKeeps
<1>4. CASE TellOutcome(v)
  <2>1. PICK o \in {"returned", "error"} : outcome' = [outcome EXCEPT ![v] = o]
    BY <1>4 DEF TellOutcome, Stream!Tell
  <2>. QED
    BY <1>1, <1>2, <1>4, <2>1, StreamKeeps DEF TellOutcome, Stream!Tell
<1>5. CASE CloseStream(v)
  BY <1>1, <1>2, <1>5, StreamKeeps DEF CloseStream, Stream!Close
<1>. QED
  BY <1>3, <1>4, <1>5

\* Invocations that vanish leave nothing but their records.
LEMMA VanishKeeps ==
  ASSUME InvocationInv, NEW S \in SUBSET Invocations, \A v \in S : InFlight(v), Vanish(S),
         UNCHANGED <<tables, used, metrics, records>>, IInv'
  PROVE  InvocationInv'
<1>1. /\ inv' = [v \in Invocations |-> IF v \in S THEN [inv[v] EXCEPT !.pc = "gone"] ELSE inv[v]]
      /\ phase' = [v \in Invocations |->
                     IF v \in S /\ phase[v] = "open" THEN "dropped" ELSE phase[v]]
      /\ outcome' = outcome
  BY DEF Vanish
<1>2. \A v \in Invocations : inv[v] \in Invocation
  BY DEF InvocationInv, InvocationTypeOK
<1>3. \A v \in S : /\ inv'[v] \in Invocation /\ inv'[v].pc = "gone"
                   /\ inv'[v].answer = inv[v].answer /\ inv'[v].id = inv[v].id
  BY <1>1, <1>2 DEF Invocation
<1>4. \A v \in Invocations \ S : inv'[v] = inv[v] /\ phase'[v] = phase[v]
  BY <1>1
<1>5. InvocationTypeOK'
  <2>1. inv' \in [Invocations -> Invocation]
    BY <1>1, <1>2, <1>3, <1>4
  <2>2. \A v \in Invocations :
          inv'[v].pc \in {"run", "record"} => inv'[v].config \in Config
    BY <1>3, <1>4 DEF InvocationInv, InvocationTypeOK
  <2>3. phase' \in [Invocations -> {"new", "open", "ended", "dropped"}]
    BY <1>1 DEF InvocationInv, InvocationTypeOK
  <2>. QED
    BY <1>1, <2>1, <2>2, <2>3 DEF InvocationInv, InvocationTypeOK
<1>6. ASSUME NEW v \in Invocations
      PROVE  Shape(v)' /\ TellsRun(v)' /\ HoldsSnapshot(v)' /\ OnRecord(v)'
  <2>1. Shape(v) /\ TellsRun(v) /\ HoldsSnapshot(v) /\ OnRecord(v)
    BY DEF InvocationInv
  <2>2. CASE v \in S
    <3>1. inv[v].pc \notin {"idle", "done", "gone"}
      BY <2>2 DEF InFlight
    <3>2. inv[v].answer \in {"none", "accepted"}
      BY <1>2, <2>1, <3>1 DEF Shape, Invocation
    <3>3. phase'[v] # "open"
      BY <1>1, <2>2
    <3>4. phase[v] # "open" => phase'[v] = phase[v]
      BY <1>1
    <3>5. Shape(v)'
      BY <1>3, <2>1, <2>2, <3>3 DEF Shape, Stands
    <3>6. TellsRun(v)' /\ HoldsSnapshot(v)' /\ OnRecord(v)'
      BY <1>3, <2>2, <3>2 DEF TellsRun, HoldsSnapshot, OnRecord, Stands
    <3>. QED
      BY <3>5, <3>6
  <2>3. CASE v \notin S
    <3>1. inv'[v] = inv[v] /\ phase'[v] = phase[v] /\ outcome'[v] = outcome[v]
      BY <1>1, <1>4, <2>3
    <3>2. Shape(v)' /\ TellsRun(v)' /\ OnRecord(v)'
      BY <2>1, <3>1 DEF Shape, TellsRun, OnRecord, Stands, Exists, tables
    <3>3. HoldsSnapshot(v)'
      BY <2>1, <3>1 DEF HoldsSnapshot, Exists, VersionExists, tables
    <3>. QED
      BY <3>2, <3>3
  <2>. QED
    BY <2>2, <2>3
<1>. QED
  BY <1>5, <1>6 DEF InvocationInv

LEMMA GiveUpKeeps ==
  ASSUME InvocationInv, NEW v \in Invocations, GiveUp(v)
  PROVE  InvocationInv'
<1>1. IInv'
  BY InvariantStep DEF GiveUp, InvocationInv, registry
<1>2. InFlight(v) /\ Vanish({v}) /\ UNCHANGED <<tables, used, metrics, records>>
  BY DEF GiveUp, registry, vars, tables
<1>. QED
  BY <1>1, <1>2, VanishKeeps

LEMMA RestartKeeps ==
  ASSUME InvocationInv, ProcessRestart
  PROVE  InvocationInv'
<1>1. IInv'
  BY LoseCallsStep, InvariantStep DEF ProcessRestart, InvocationInv, IInv
<1>2. PICK S \in SUBSET Invocations : S = {v \in Invocations : InFlight(v)}
  OBVIOUS
<1>. QED
  BY <1>1, <1>2, VanishKeeps DEF ProcessRestart, LoseCalls

\* The registry takes from an invocation its function with versions and records,
\* or nothing.
LEMMA RegistryStepKeeps ==
  ASSUME InvocationInv, RegistryStep
  PROVE  InvocationInv'
<1>1. IInv /\ [Next]_vars /\ UNCHANGED <<stream, metrics, inv>>
  BY DEF RegistryStep, InvocationInv, Next
<1>2. IInv'
  BY <1>1, InvariantStep
<1>3. records' = {r \in records : \E f \in functions' : f.id = r.id}
  BY DEF RegistryStep, Cascade
<1>4. InvocationTypeOK'
  BY <1>1, <1>3 DEF InvocationInv, InvocationTypeOK, stream
<1>5. ASSUME NEW v \in Invocations
      PROVE  Shape(v)' /\ TellsRun(v)' /\ HoldsSnapshot(v)' /\ OnRecord(v)'
  <2>1. /\ Shape(v) /\ TellsRun(v) /\ HoldsSnapshot(v) /\ OnRecord(v) /\ inv[v] \in Invocation
        /\ inv' = inv /\ phase' = phase /\ outcome' = outcome /\ metrics' = metrics
    BY <1>1 DEF InvocationInv, InvocationTypeOK, stream
  <2>2. CASE inv[v].id = None
    <3>1. /\ inv[v].pc \notin {"get_alias", "get_version", "get_function", "run", "record"}
      BY <2>1, <2>2 DEF Shape
    <3>2. ~Exists(None)'
      BY <1>2, FunctionFacts DEF IInv, TypeOK, FunctionRow, Exists
    <3>. QED
      BY <2>1, <2>2, <3>1, <3>2 DEF Shape, TellsRun, HoldsSnapshot, OnRecord, Stands
  <2>3. CASE inv[v].id # None
    <3>1. PICK i \in used : i = inv[v].id
      BY <2>1, <2>3 DEF Shape
    <3>2. PICK n \in Nat : n = inv[v].version
      BY <2>1 DEF Invocation
    <3>3. /\ i \in used'
          /\ ~Exists(i) => ~Exists(i)'
          /\ VersionExists(i, n) => VersionExists(i, n)' \/ ~Exists(i)'
          /\ \A r \in versions' : r.id = i /\ r.version = n /\ r \notin versions =>
               Exists(i) /\ ~VersionExists(i, n)
      BY <1>1, RegistryMoves
    <3>4. Shape(v)' /\ TellsRun(v)'
      BY <2>1, <3>1, <3>3 DEF Shape, TellsRun, Stands
    <3>5. HoldsSnapshot(v)'
      BY <2>1, <3>1, <3>2, <3>3 DEF HoldsSnapshot
    <3>6. OnRecord(v)'
      BY <1>3, <2>1, <3>1, <3>3 DEF OnRecord, Stands, Exists
    <3>. QED
      BY <3>4, <3>5, <3>6
  <2>. QED
    BY <2>2, <2>3
<1>. QED
  BY <1>2, <1>4, <1>5 DEF InvocationInv

-----------------------------------------------------------------------------
(* The inductive invariant *)

LEMMA InvocationInitKeeps == InvocationInit => InvocationInv
<1>. SUFFICES ASSUME InvocationInit PROVE InvocationInv
  OBVIOUS
<1>1. IInv
  BY InitInvariant DEF InvocationInit
<1>2. IdleInvocation \in Invocation /\ IdleInvocation.pc = "idle"
  BY DEF IdleInvocation, Invocation, Apis, Kinds, Answers
<1>3. InvocationTypeOK
  BY <1>2 DEF InvocationInit, Stream!Init, InvocationTypeOK
<1>4. ASSUME NEW v \in Invocations
      PROVE  Shape(v) /\ TellsRun(v) /\ HoldsSnapshot(v) /\ OnRecord(v)
  BY DEF InvocationInit, Stream!Init, IdleInvocation, Shape, TellsRun, HoldsSnapshot, OnRecord, Stands
<1>. QED
  BY <1>1, <1>3, <1>4 DEF InvocationInv

LEMMA StutterKeeps == InvocationInv /\ UNCHANGED invocationVars => InvocationInv'
<1>. SUFFICES ASSUME InvocationInv, UNCHANGED invocationVars PROVE InvocationInv'
  OBVIOUS
<1>1. InvocationTypeOK' /\ IInv'
  BY InvariantStep DEF invocationVars, registry, stream, InvocationInv, InvocationTypeOK
<1>2. ASSUME NEW v \in Invocations
      PROVE  Shape(v)' /\ TellsRun(v)' /\ HoldsSnapshot(v)' /\ OnRecord(v)'
  BY DEF invocationVars, registry, vars, stream, InvocationInv, Shape, TellsRun, HoldsSnapshot, OnRecord, Stands, Exists,
         VersionExists
<1>. QED
  BY <1>1, <1>2 DEF InvocationInv

LEMMA NextKeeps == InvocationInv /\ [InvocationNext]_invocationVars => InvocationInv'
<1>. SUFFICES ASSUME InvocationInv, [InvocationNext]_invocationVars PROVE InvocationInv'
  OBVIOUS
<1>1. CASE UNCHANGED invocationVars
  BY <1>1, StutterKeeps
<1>2. ASSUME NEW v \in Invocations,
             Invoke(v) \/ Advance(v) \/ TellOutcome(v) \/ CloseStream(v) \/ GiveUp(v)
      PROVE  InvocationInv'
  BY <1>2, InvokeKeeps, GetAliasKeeps, GetVersionKeeps, GetFunctionKeeps, CollectKeeps,
     RecordKeeps, StreamStepKeeps, GiveUpKeeps
  DEF Advance
<1>. QED
  BY <1>1, <1>2, RestartKeeps, RegistryStepKeeps DEF InvocationNext

LEMMA InvocationInvariance == InvocationSpec => []InvocationInv
BY InvocationInitKeeps, NextKeeps, PTL DEF InvocationSpec

-----------------------------------------------------------------------------
(* Theorems about the invocations *)

\* Invocations, their streams and the table invocations keep their types.
THEOREM InvocationTypeCorrect == InvocationSpec => []InvocationTypeOK
<1>1. InvocationInv => InvocationTypeOK
  BY DEF InvocationInv
<1>. QED
  BY <1>1, InvocationInvariance, PTL

\* However the registry moves between its three reads, and while the code runs,
\* the invoker runs a version with what was published under its number.
THEOREM RunsThePublished == InvocationSpec => []InvokerRunsSnapshot
<1>1. InvocationInv => InvokerRunsSnapshot
  BY DEF InvocationInv, InvokerRunsSnapshot, RunsSnapshot, HoldsSnapshot
<1>. QED
  BY <1>1, InvocationInvariance, PTL

\* The answer to a caller who waited tells the outcome the stream told; only the
\* deletion of the function takes it away.  Nothing is claimed of a stream that ended
\* without an outcome.
THEOREM AnswersAreTrue == InvocationSpec => []AnswerTellsRun
<1>1. InvocationInv => AnswerTellsRun
  BY DEF InvocationInv, AnswerTellsRun
<1>. QED
  BY <1>1, InvocationInvariance, PTL

\* A run of the invoker that came to its end is on record as long as its function
\* exists, with the verdict of its stream if that told one.
THEOREM RunsAreRecorded == InvocationSpec => []RunsRecorded
<1>1. InvocationInv => RunsRecorded
  <2> SUFFICES ASSUME InvocationInv, NEW v \in Invocations, Stands(v, "done"), phase[v] = "ended",
                      inv[v].api = "invoker", metrics, Exists(inv[v].id)
               PROVE  \E r \in records :
                        r.inv = v /\ (outcome[v] # "none" => (r.success <=> outcome[v] = "returned"))
    BY DEF RunsRecorded
  <2>1. outcome[v] \in {"none", "returned", "error"}
    BY DEF InvocationInv, InvocationTypeOK
  <2>2. PICK r \in records : r.inv = v /\ (r.success <=> outcome[v] # "error")
    BY DEF InvocationInv, OnRecord
  <2>. QED
    BY <2>1, <2>2
<1>. QED
  BY <1>1, InvocationInvariance, PTL

\* Invoking functions gives the registry no step it does not have by itself: the
\* invocations read its tables only, and a restart that ends them ends its calls.
\* So what is proved of the registry holds with any number of invocations on it.
THEOREM InvocationsKeepRegistry == InvocationSpec => Spec
<1>1. InvocationInit => Init
  BY DEF InvocationInit
<1>2. InvocationInv /\ [InvocationNext]_invocationVars => [Next]_vars
  <2> SUFFICES ASSUME InvocationInv, [InvocationNext]_invocationVars
               PROVE  [Next]_vars
    OBVIOUS
  <2>1. CASE ProcessRestart
    BY <2>1, LoseCallsStep DEF ProcessRestart, InvocationInv, IInv
  <2>2. CASE RegistryStep
    BY <2>2 DEF RegistryStep, Next
  <2>3. ASSUME NEW v \in Invocations,
               Invoke(v) \/ Advance(v) \/ TellOutcome(v) \/ CloseStream(v) \/ GiveUp(v)
        PROVE  UNCHANGED vars
    BY <2>3 DEF registry, Invoke, Advance, GetAlias, GetVersion, GetFunction, Execute, Collect,
       RecordInvocation, TellOutcome, CloseStream, GiveUp
  <2>4. UNCHANGED invocationVars => UNCHANGED vars
    BY DEF invocationVars, registry
  <2>. QED
    BY <2>1, <2>2, <2>3, <2>4 DEF InvocationNext
<1>. QED
  BY <1>1, <1>2, InvocationInvariance, PTL DEF InvocationSpec, Spec

\* In particular a version that an invocation runs is the one that was published,
\* for good.
COROLLARY InvocationsKeepVersions == InvocationSpec => PublishedImmutable /\ []VersionsContiguous
BY InvocationsKeepRegistry, Immutability, NoVersionGap

\* And the registry promises its catalogue to those who invoke functions as well.
COROLLARY InvocationsKeepCatalogue == InvocationSpec => ImplementsCatalogue
BY InvocationsKeepRegistry, RegistryIsACatalogue

================================================================================
