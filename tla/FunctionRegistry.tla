--------------------------- MODULE FunctionRegistry ---------------------------
(***************************************************************************)
(* The function registry of the lambda subsystem: the SQLite tables        *)
(* functions, function_versions and function_aliases, and the async calls  *)
(* of FunctionRegistry and Versioning that read and write them.            *)
(*                                                                         *)
(* Every call is a sequence of SQL statements with an await after each, so *)
(* two calls interleave between statements.  One action is one statement   *)
(* together with the code that runs until the next await; a single         *)
(* statement is atomic (SQLite's own guarantee).  No call opens a          *)
(* transaction.                                                            *)
(*                                                                         *)
(* A configuration [code, handler] stands for everything a version         *)
(* snapshots: `code` for the code and its hash, `handler` for the columns  *)
(* an update may set on their own (handler, environment, timeout, memory). *)
(***************************************************************************)
EXTENDS Naturals, FiniteSets

CONSTANTS
  FunctionIds,  \* ids FunctionId::new may draw (UUID v4: never the same twice)
  Names,        \* valid function names
  Aliases,      \* alias names
  Codes,        \* function sources
  Handlers,     \* values of the other configuration columns
  Clients,      \* concurrent calls into the registry
  MaxVersion,   \* bound: a function is published at most this many times
  None          \* absent value

ASSUME BoundAssumption == MaxVersion \in Nat

VARIABLES
  functions,    \* table functions: the mutable $LATEST rows
  versions,     \* table function_versions
  aliases,      \* table function_aliases
  used,         \* ids already drawn
  call          \* per client, the call it is in and that call's locals

tables == <<functions, versions, aliases>>
vars == <<functions, versions, aliases, used, call>>

-----------------------------------------------------------------------------
(* Rows and calls *)

Config == [code : Codes, handler : Handlers]
FunctionRow == [id : FunctionIds, name : Names, config : Config]
VersionRow == [id : FunctionIds, version : Nat \ {0}, config : Config]
AliasRow == [id : FunctionIds, alias : Aliases, version : Nat]

\* Where a call stands: the statement it executes next.
Statements ==
  { "update_write",
    "publish_max", "publish_insert",
    "upsert_function", "upsert_version",
    "update_alias_version", "update_alias_select", "update_alias_write",
    "create_alias_version", "create_alias_insert",
    "resolve_version" }

\* Ok, or the LambdaError variant the call returned.  "AlreadyExists" is the
\* Internal error create_alias makes of a UNIQUE violation.
Results ==
  { "none", "ok", "FunctionNotFound", "VersionNotFound", "AliasNotFound",
    "NameAlreadyExists", "InvalidHandler", "NotAVersion", "AlreadyExists", "Database" }

\* `upsert` tells update_alias as called by upsert_alias from a direct call;
\* `sets` is the set of columns an UpdateFunctionRequest carries.
Call ==
  [ pc : Statements \cup {"idle"}, id : FunctionIds \cup {None},
    alias : Aliases \cup {None}, version : Nat, config : Config \cup {None},
    sets : SUBSET {"code", "handler"}, upsert : BOOLEAN, result : Results ]

IdleCall ==
  [ pc |-> "idle", id |-> None, alias |-> None, version |-> 0, config |-> None,
    sets |-> {}, upsert |-> FALSE, result |-> "none" ]

Idle(c) == call[c].pc = "idle"
At(c, pc) == call[c].pc = pc

\* The call ends with `result`.
Return(c, result) == call' = [call EXCEPT ![c] = [IdleCall EXCEPT !.result = result]]

\* The call goes on to statement `pc`.
Proceed(c, pc) == call' = [call EXCEPT ![c].pc = pc]

-----------------------------------------------------------------------------
(* What a statement sees *)

Exists(i) == \E f \in functions : f.id = i
NameTaken(n) == \E f \in functions : f.name = n
VersionExists(i, v) == \E r \in versions : r.id = i /\ r.version = v
AliasExists(i, a) == \E r \in aliases : r.id = i /\ r.alias = a
Numbers(i) == {r.version : r \in {s \in versions : s.id = i}}

\* SELECT MAX(version): the largest number, 0 standing for SQL's NULL.
IsMaxVersion(i, n) ==
  /\ \A v \in Numbers(i) : v <= n
  /\ n \in Numbers(i) \/ (n = 0 /\ Numbers(i) = {})

\* Bound: a publish starts only while every publish in flight has a number left.
PublishesOf(i) == {c \in Clients : call[c].id = i /\ call[c].pc \in {"publish_max", "publish_insert"}}
RoomToPublish(i) == Cardinality(Numbers(i)) + Cardinality(PublishesOf(i)) < MaxVersion

-----------------------------------------------------------------------------
(* create_function, delete_function *)

\* INSERT INTO functions with a fresh id; the UNIQUE constraint on the name.
CreateFunction(c) ==
  /\ Idle(c)
  /\ \E i \in FunctionIds \ used, n \in Names, g \in Config :
       IF NameTaken(n)
       THEN Return(c, "NameAlreadyExists") /\ UNCHANGED <<tables, used>>
       ELSE /\ functions' = functions \cup {[id |-> i, name |-> n, config |-> g]}
            /\ used' = used \cup {i}
            /\ Return(c, "ok")
            /\ UNCHANGED <<versions, aliases>>

\* DELETE FROM functions, and the cascades of both foreign keys.
DeleteFunction(c) ==
  /\ Idle(c)
  /\ \E i \in used :
       /\ functions' = {f \in functions : f.id # i}
       /\ versions' = {r \in versions : r.id # i}
       /\ aliases' = {r \in aliases : r.id # i}
       /\ Return(c, IF Exists(i) THEN "ok" ELSE "FunctionNotFound")
  /\ UNCHANGED used

-----------------------------------------------------------------------------
(* update_function: SELECT the row, merge the request into it, UPDATE all    *)
(* columns WHERE id = ?.  The number of rows the UPDATE hit is not looked at.*)

Merge(g, sets, code, handler) ==
  [ code |-> IF "code" \in sets THEN code ELSE g.code,
    handler |-> IF "handler" \in sets THEN handler ELSE g.handler ]

UpdateSelect(c) ==
  /\ Idle(c)
  /\ \E i \in used :
       \/ /\ ~Exists(i)
          /\ Return(c, "FunctionNotFound")
       \/ \E f \in functions, sets \in SUBSET {"code", "handler"}, g \in Config :
            /\ f.id = i
            /\ call' = [call EXCEPT ![c] =
                 [IdleCall EXCEPT !.pc = "update_write", !.id = i, !.sets = sets,
                    !.config = Merge(f.config, sets, g.code, g.handler)]]
  /\ UNCHANGED <<tables, used>>

\* Mutant: INSERT OR REPLACE, which deletes the row it replaces, with the cascades.
UpdateWriteReplaces(c) ==
  /\ At(c, "update_write")
  /\ functions' = {IF f.id = call[c].id THEN [f EXCEPT !.config = call[c].config] ELSE f :
                     f \in functions}
  /\ versions' = {r \in versions : r.id # call[c].id}
  /\ aliases' = {r \in aliases : r.id # call[c].id}
  /\ Return(c, "ok")
  /\ UNCHANGED used

UpdateWrite(c) ==
  /\ At(c, "update_write")
  /\ functions' = {IF f.id = call[c].id THEN [f EXCEPT !.config = call[c].config] ELSE f :
                     f \in functions}
  /\ Return(c, "ok")
  /\ UNCHANGED <<versions, aliases, used>>

-----------------------------------------------------------------------------
(* publish_version: SELECT the row, SELECT MAX(version), INSERT the snapshot *)
(* under the next number.                                                    *)

PublishSelect(c) ==
  /\ Idle(c)
  /\ \E i \in used :
       \/ /\ ~Exists(i)
          /\ Return(c, "FunctionNotFound")
       \/ \E f \in functions :
            /\ f.id = i /\ RoomToPublish(i)
            /\ call' = [call EXCEPT ![c] =
                 [IdleCall EXCEPT !.pc = "publish_max", !.id = i, !.config = f.config]]
  /\ UNCHANGED <<tables, used>>

\* Mutant: the + 1 is missing.
PublishMaxNoIncrement(c) ==
  /\ At(c, "publish_max")
  /\ \E n \in 0 .. MaxVersion :
       /\ IsMaxVersion(call[c].id, n)
       /\ call' = [call EXCEPT ![c].pc = "publish_insert", ![c].version = n]
  /\ UNCHANGED <<tables, used>>

PublishMax(c) ==
  /\ At(c, "publish_max")
  /\ \E n \in 0 .. MaxVersion :
       /\ IsMaxVersion(call[c].id, n)
       /\ call' = [call EXCEPT ![c].pc = "publish_insert", ![c].version = n + 1]
  /\ UNCHANGED <<tables, used>>

\* Mutant: the table has no foreign key.
InsertRejectedNoForeignKey(i, v) == VersionExists(i, v)

\* PRIMARY KEY (function_id, version), FOREIGN KEY function_id.
InsertRejected(i, v) == VersionExists(i, v) \/ ~Exists(i)

\* Mutant: INSERT OR REPLACE.
PublishInsertOrReplace(c) ==
  LET i == call[c].id
      v == call[c].version
  IN  /\ At(c, "publish_insert")
      /\ IF ~Exists(i)
         THEN Return(c, "Database") /\ UNCHANGED versions
         ELSE /\ versions' = {r \in versions : r.id # i \/ r.version # v}
                             \cup {[id |-> i, version |-> v, config |-> call[c].config]}
              /\ Return(c, "ok")
      /\ UNCHANGED <<functions, aliases, used>>

PublishInsert(c) ==
  LET i == call[c].id
      v == call[c].version
  IN  /\ At(c, "publish_insert")
      /\ IF InsertRejected(i, v)
         THEN Return(c, "Database") /\ UNCHANGED versions
         ELSE /\ versions' = versions \cup {[id |-> i, version |-> v, config |-> call[c].config]}
              /\ Return(c, "ok")
      /\ UNCHANGED <<functions, aliases, used>>

-----------------------------------------------------------------------------
(* Versioning::upsert_alias: resolve the reference, check function and       *)
(* version, then update_alias and, if that finds no alias, create_alias.     *)

UpsertTo(c, i, a, v) ==
  call' = [call EXCEPT ![c] =
    [IdleCall EXCEPT !.pc = "upsert_function", !.id = i, !.alias = a, !.version = v, !.upsert = TRUE]]

UpsertAlias(c) ==
  /\ Idle(c)
  /\ \E i \in used, a \in Aliases :
       \/ Return(c, "InvalidHandler")                        \* $LATEST
       \/ \E v \in 1 .. MaxVersion : UpsertTo(c, i, a, v)    \* a number
       \/ \E b \in Aliases :                                 \* an alias: get_alias
            \/ ~AliasExists(i, b) /\ Return(c, "AliasNotFound")
            \/ \E r \in aliases : r.id = i /\ r.alias = b /\ UpsertTo(c, i, a, r.version)
  /\ UNCHANGED <<tables, used>>

UpsertCheckFunction(c) ==
  /\ At(c, "upsert_function")
  /\ IF Exists(call[c].id) THEN Proceed(c, "upsert_version") ELSE Return(c, "FunctionNotFound")
  /\ UNCHANGED <<tables, used>>

\* Mutant: the version is not checked.
CheckVersionSkipped(c, here, next) ==
  At(c, here) /\ Proceed(c, next) /\ UNCHANGED <<tables, used>>

\* get_version, or the end of the call.
CheckVersion(c, here, next) ==
  /\ At(c, here)
  /\ IF VersionExists(call[c].id, call[c].version)
     THEN Proceed(c, next)
     ELSE Return(c, "VersionNotFound")
  /\ UNCHANGED <<tables, used>>

UpsertCheckVersion(c) == CheckVersion(c, "upsert_version", "update_alias_version")

\* create_alias and update_alias called directly refuse any reference that is
\* not a version number.
AliasCall(c) ==
  /\ Idle(c)
  /\ \/ Return(c, "NotAVersion")
     \/ \E i \in used, a \in Aliases, v \in 1 .. MaxVersion,
           pc \in {"update_alias_version", "create_alias_version"} :
          call' = [call EXCEPT ![c] =
            [IdleCall EXCEPT !.pc = pc, !.id = i, !.alias = a, !.version = v]]
  /\ UNCHANGED <<tables, used>>

UpdateAliasCheckVersion(c) == CheckVersion(c, "update_alias_version", "update_alias_select")

\* Mutant: a missing alias is overlooked.
UpdateAliasSelectUnchecked(c) ==
  At(c, "update_alias_select") /\ Proceed(c, "update_alias_write") /\ UNCHANGED <<tables, used>>

UpdateAliasSelect(c) ==
  /\ At(c, "update_alias_select")
  /\ IF AliasExists(call[c].id, call[c].alias) THEN Proceed(c, "update_alias_write")
     ELSE IF call[c].upsert THEN Proceed(c, "create_alias_version")
     ELSE Return(c, "AliasNotFound")
  /\ UNCHANGED <<tables, used>>

\* UPDATE ... WHERE function_id = ? AND alias = ?, the foreign key checked on
\* the rows it hits; the number of rows is not looked at.
UpdateAliasWrite(c) ==
  LET hit(r) == r.id = call[c].id /\ r.alias = call[c].alias
      dangling == AliasExists(call[c].id, call[c].alias)
                    /\ ~VersionExists(call[c].id, call[c].version)
  IN  /\ At(c, "update_alias_write")
      /\ IF dangling
         THEN UNCHANGED aliases
         ELSE aliases' = {IF hit(r) THEN [r EXCEPT !.version = call[c].version] ELSE r :
                            r \in aliases}
      /\ Return(c, IF dangling THEN "Database" ELSE "ok")
      /\ UNCHANGED <<functions, versions, used>>

CreateAliasCheckVersion(c) == CheckVersion(c, "create_alias_version", "create_alias_insert")

\* PRIMARY KEY (function_id, alias), FOREIGN KEY (function_id, version).
CreateAliasInsert(c) ==
  LET i == call[c].id
      a == call[c].alias
      v == call[c].version
  IN  /\ At(c, "create_alias_insert")
      /\ IF AliasExists(i, a) THEN Return(c, "AlreadyExists") /\ UNCHANGED aliases
         ELSE IF ~VersionExists(i, v) THEN Return(c, "Database") /\ UNCHANGED aliases
         ELSE /\ aliases' = aliases \cup {[id |-> i, alias |-> a, version |-> v]}
              /\ Return(c, "ok")
      /\ UNCHANGED <<functions, versions, used>>

-----------------------------------------------------------------------------
(* resolve_version: $LATEST and a number take one SELECT, an alias takes two *)

Resolve(c) ==
  /\ Idle(c)
  /\ \E i \in used :
       \/ Return(c, IF Exists(i) THEN "ok" ELSE "FunctionNotFound")
       \/ \E v \in 1 .. MaxVersion :
            Return(c, IF VersionExists(i, v) THEN "ok" ELSE "VersionNotFound")
       \/ \E a \in Aliases :
            \/ ~AliasExists(i, a) /\ Return(c, "AliasNotFound")
            \/ \E r \in aliases :
                 /\ r.id = i /\ r.alias = a
                 /\ call' = [call EXCEPT ![c] =
                      [IdleCall EXCEPT !.pc = "resolve_version", !.id = i, !.version = r.version]]
  /\ UNCHANGED <<tables, used>>

ResolveVersion(c) ==
  /\ At(c, "resolve_version")
  /\ Return(c, IF VersionExists(call[c].id, call[c].version) THEN "ok" ELSE "VersionNotFound")
  /\ UNCHANGED <<tables, used>>

-----------------------------------------------------------------------------

Init ==
  /\ functions = {} /\ versions = {} /\ aliases = {}
  /\ used = {}
  /\ call = [c \in Clients |-> IdleCall]

\* A new call arrives.
Start(c) ==
  \/ CreateFunction(c) \/ DeleteFunction(c) \/ UpdateSelect(c) \/ PublishSelect(c)
  \/ UpsertAlias(c) \/ AliasCall(c) \/ Resolve(c)

\* A call in flight executes its next statement.
Step(c) ==
  \/ UpdateWrite(c) \/ PublishMax(c) \/ PublishInsert(c)
  \/ UpsertCheckFunction(c) \/ UpsertCheckVersion(c)
  \/ UpdateAliasCheckVersion(c) \/ UpdateAliasSelect(c) \/ UpdateAliasWrite(c)
  \/ CreateAliasCheckVersion(c) \/ CreateAliasInsert(c)
  \/ ResolveVersion(c)

\* The future of a call is dropped at an await: its subscriber is gone.  What its
\* statements wrote stays.
Abandon(c) ==
  /\ ~Idle(c)
  /\ call' = [call EXCEPT ![c] = IdleCall]
  /\ UNCHANGED <<tables, used>>

CallStep == \E c \in Clients : Start(c) \/ Step(c) \/ Abandon(c)

\* The process restarts: no call in flight survives, and every table does.
LoseCalls ==
  /\ call' = [c \in Clients |-> IF Idle(c) THEN call[c] ELSE IdleCall]
  /\ UNCHANGED <<tables, used>>

Restart == (\E c \in Clients : ~Idle(c)) /\ LoseCalls

Next == CallStep \/ Restart

Spec == Init /\ [][Next]_vars

-----------------------------------------------------------------------------
(* Properties *)

TypeOK ==
  /\ functions \subseteq FunctionRow
  /\ versions \subseteq VersionRow
  /\ aliases \subseteq AliasRow
  /\ used \subseteq FunctionIds
  /\ call \in [Clients -> Call]

\* However calls interleave, a name and an id denote one function, and a
\* function has one row per version number and one row per alias: neither two
\* publishes that computed the same number nor two upserts of one alias both
\* store their row.
KeysUnique ==
  /\ \A f, g \in functions : f.name = g.name \/ f.id = g.id => f = g
  /\ \A r, s \in versions : r.id = s.id /\ r.version = s.version => r = s
  /\ \A r, s \in aliases : r.id = s.id /\ r.alias = s.alias => r = s

\* A delete that runs between the statements of a publish or an upsert leaves
\* nothing behind: every version belongs to a function, every alias points to
\* an existing version of its own function.
ReferentialIntegrity ==
  /\ \A r \in versions : Exists(r.id)
  /\ \A r \in aliases : VersionExists(r.id, r.version)

\* The numbers of a function are 1 .. n without a gap, although the number is
\* computed by one statement (MAX + 1) and stored by a later one.
VersionsContiguous ==
  \A r \in versions : \A k \in 1 .. r.version : VersionExists(r.id, k)

\* A call that has passed its version check, or followed an alias, and then
\* lost the database to other calls still finds that version as long as the
\* function lives: the check-then-write of update_alias and create_alias and
\* the two reads of resolve_version cannot be invalidated but by a delete.
HoldsVersion(c) ==
  \/ call[c].pc \in {"update_alias_select", "update_alias_write", "create_alias_insert",
                     "resolve_version"}
  \/ call[c].pc \in {"update_alias_version", "create_alias_version"} /\ call[c].upsert

VerifiedVersionStays ==
  \A c \in Clients :
    HoldsVersion(c) /\ Exists(call[c].id) => VersionExists(call[c].id, call[c].version)

\* What makes the above inductive: ids are never drawn twice, a call carries the
\* arguments its next statement binds, the number a publish is about to store
\* still continues the numbers that exist, and an alias update_alias has read
\* is still there.
UsedIds ==
  /\ \A f \in functions : f.id \in used
  /\ \A c \in Clients : ~Idle(c) => call[c].id \in used

CallShape ==
  \A c \in Clients :
    /\ call[c].pc \in {"update_write", "publish_max", "publish_insert"} => call[c].config \in Config
    /\ call[c].pc \in {"upsert_function", "upsert_version", "update_alias_version", "update_alias_select",
                       "update_alias_write", "create_alias_version", "create_alias_insert"}
         => call[c].alias \in Aliases
    /\ At(c, "publish_insert") => call[c].version # 0

NextNumberFits ==
  \A c \in Clients :
    At(c, "publish_insert") /\ Exists(call[c].id) =>
      \A k \in 1 .. call[c].version - 1 : VersionExists(call[c].id, k)

ReadAliasStays ==
  \A c \in Clients :
    At(c, "update_alias_write") /\ Exists(call[c].id) => AliasExists(call[c].id, call[c].alias)

IInv ==
  /\ TypeOK /\ UsedIds /\ CallShape
  /\ KeysUnique /\ ReferentialIntegrity /\ VersionsContiguous
  /\ NextNumberFits /\ VerifiedVersionStays /\ ReadAliasStays

\* "Once published, a version cannot be modified": a version row never changes
\* and disappears only with its function.
PublishedImmutable ==
  [][\A r \in versions : r \in versions' \/ ~\E f \in functions' : f.id = r.id]_vars

\* update_alias ignores how many rows its UPDATE hit.  Even so, when it or
\* create_alias reports success for a function that still exists, the alias now
\* points to the version the call was asked for.
Written(c) == [id |-> call[c].id, alias |-> call[c].alias, version |-> call[c].version]

AliasWriteTakesEffect ==
  [][\A c \in Clients :
       /\ call[c].pc \in {"update_alias_write", "create_alias_insert"}
       /\ call'[c].pc = "idle" /\ call'[c].result = "ok"
       /\ Exists(call[c].id)
       => Written(c) \in aliases']_vars

-----------------------------------------------------------------------------
(* The tables as a catalogue: per function its row, its versions by their    *)
(* numbers and its aliases by their names.                                   *)

FunctionOf(i) == CHOOSE f \in functions : f.id = i

Published(i) ==
  [v \in Numbers(i) |-> (CHOOSE r \in versions : r.id = i /\ r.version = v).config]

AliasNames(i) == {r.alias : r \in {s \in aliases : s.id = i}}
Pointers(i) ==
  [a \in AliasNames(i) |-> (CHOOSE r \in aliases : r.id = i /\ r.alias = a).version]

Entry(i) ==
  [ name |-> FunctionOf(i).name, latest |-> FunctionOf(i).config,
    published |-> Published(i), aliases |-> Pointers(i) ]

Living == {f.id : f \in functions}
CatalogueOf == [i \in Living |-> Entry(i)]

Promised == INSTANCE Catalogue WITH
  Ids <- FunctionIds, Configs <- Config, catalogue <- CatalogueOf, drawn <- used

\* Calls that run statement by statement between those of others, that are given up
\* or lost halfway, or that fail, change the catalogue in one step or leave it: each
\* version that is published comes next in its list and stays, an alias points into
\* the list, an update touches nothing but the current configuration, and a deleted
\* function takes all of it along and never comes back.
ImplementsCatalogue == Promised!Spec

===============================================================================
