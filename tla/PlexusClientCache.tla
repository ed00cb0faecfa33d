--------------------------- MODULE PlexusClientCache ---------------------------
(***************************************************************************)
(* get_plexus_client_bundle as plexus_env calls it: ask the backend for    *)
(* the hash of its schema, look for a cached bundle under that hash, and   *)
(* otherwise fetch the schema (the IR), generate a bundle from it and      *)
(* write it to the file of the hash.                                       *)
(*                                                                         *)
(* The backend may change its schema at any time, other requests do the    *)
(* same at the same time, and the file is written in place: truncated,     *)
(* then filled piece by piece.  One backend; its files never meet those of *)
(* another.  The tools are deterministic, so a bundle stands for its IR.   *)
(***************************************************************************)

CONSTANTS
  Requests,   \* calls of plexus_env
  Hashes,     \* the schemas the backend may have, each with a hash of its own
  None        \* not a hash, not a file

VARIABLES
  schema,   \* the backend's schema at present
  file,     \* cache_path(backend, hash), per hash, None if missing
  req,      \* per request, where it stands and its locals
  seen,     \* history: the schemas the backend had since the request began
  torn,     \* history: hashes whose file some write left unfinished
  slipped   \* history: hashes whose file was opened for the bundle of another IR

vars == <<schema, file, req, seen, torn, slipped>>

-----------------------------------------------------------------------------

\* A file's content in two pieces; a piece never written reads as nothing.
Bundle == [head : Hashes \cup {None}, tail : Hashes \cup {None}]
Whole(h) == [head |-> h, tail |-> h]
Empty == [head |-> None, tail |-> None]

ASSUME NoneAssumption == None \notin Hashes /\ None \notin Bundle

Pcs == {"idle", "get_hash", "lookup", "read", "generate_ir", "build", "put_open", "put_head",
        "put_tail", "hit", "generated", "failed", "gone"}

\* `bundle` is the one the worker gets as its module `plexus`.
Request == [pc : Pcs, hash : Hashes \cup {None}, ir : Hashes \cup {None}, bundle : Bundle]

IdleRequest == [pc |-> "idle", hash |-> None, ir |-> None, bundle |-> Empty]

At(r, pc) == req[r].pc = pc
Answered(r) == req[r].pc \in {"hit", "generated", "failed", "gone"}

\* In the middle of fs::write.
Writing(r) == req[r].pc \in {"put_head", "put_tail"}

\* Suspended at an await: get() and put() have none.
Suspended(r) == req[r].pc \in {"get_hash", "generate_ir", "build"}

\* PlexusEnvError: some tool failed, or the IR could not be read.
Fail(r) ==
  /\ req' = [req EXCEPT ![r].pc = "failed"]
  /\ UNCHANGED <<schema, file, seen, torn, slipped>>

-----------------------------------------------------------------------------
(* A request *)

\* discover_tools() finds the three binaries.
Start(r) ==
  /\ At(r, "idle")
  /\ \/ /\ req' = [req EXCEPT ![r].pc = "get_hash"]
        /\ seen' = [seen EXCEPT ![r] = {schema}]
        /\ UNCHANGED <<schema, file, torn, slipped>>
     \/ Fail(r)

\* Mutant: an empty answer is taken for a hash.
GetBackendHashUnchecked(r) ==
  /\ At(r, "get_hash")
  /\ \/ /\ \E h \in {schema, None} : req' = [req EXCEPT ![r].pc = "lookup", ![r].hash = h]
        /\ UNCHANGED <<schema, file, seen, torn, slipped>>
     \/ Fail(r)

\* `synapse <backend> hash` runs and its answer is awaited.
GetBackendHash(r) ==
  /\ At(r, "get_hash")
  /\ \/ /\ req' = [req EXCEPT ![r].pc = "lookup", ![r].hash = schema]
        /\ UNCHANGED <<schema, file, seen, torn, slipped>>
     \/ Fail(r)

\* read_to_string, while others may be writing the file: what is at its start, and
\* later the rest.  Whatever was read is a hit; a read error or bytes that are no
\* text make a miss like a missing file.
Lookup(r) ==
  /\ At(r, "lookup")
  /\ \/ /\ file[req[r].hash] # None
        /\ req' = [req EXCEPT ![r].pc = "read", ![r].bundle.head = file[req[r].hash].head]
     \/ req' = [req EXCEPT ![r].pc = "generate_ir"]
  /\ UNCHANGED <<schema, file, seen, torn, slipped>>

ReadRest(r) ==
  /\ At(r, "read")
  /\ \/ req' = [req EXCEPT ![r].pc = "hit", ![r].bundle.tail = file[req[r].hash].tail]
     \/ req' = [req EXCEPT ![r].pc = "generate_ir", ![r].bundle = Empty]
  /\ UNCHANGED <<schema, file, seen, torn, slipped>>

\* A hash other than the one looked up is only warned about.
GenerateIr(r) ==
  /\ At(r, "generate_ir")
  /\ \/ /\ req' = [req EXCEPT ![r].pc = "build", ![r].ir = schema]
        /\ UNCHANGED <<schema, file, seen, torn, slipped>>
     \/ Fail(r)

\* hub-codegen in a directory of the request's own, then esbuild.
Build(r) ==
  /\ At(r, "build")
  /\ \/ /\ req' = [req EXCEPT ![r].pc = "put_open", ![r].bundle = Whole(req[r].ir)]
        /\ UNCHANGED <<schema, file, seen, torn, slipped>>
     \/ Fail(r)

-----------------------------------------------------------------------------
(* put(): create_dir_all and fs::write, whose error is only warned about *)

PutOpen(r) ==
  /\ At(r, "put_open")
  /\ \/ /\ req' = [req EXCEPT ![r].pc = "put_head"]
        /\ file' = [file EXCEPT ![req[r].hash] = Empty]
        /\ slipped' = IF req[r].ir = req[r].hash THEN slipped ELSE slipped \cup {req[r].hash}
     \/ /\ req' = [req EXCEPT ![r].pc = "generated"]
        /\ UNCHANGED <<file, slipped>>
  /\ UNCHANGED <<schema, seen, torn>>

\* The write fails, on a full disk say, and what is written stays.
PutFails(r) ==
  /\ Writing(r)
  /\ req' = [req EXCEPT ![r].pc = "generated"]
  /\ torn' = torn \cup {req[r].hash}
  /\ UNCHANGED <<schema, file, seen, slipped>>

PutHead(r) ==
  /\ At(r, "put_head")
  /\ req' = [req EXCEPT ![r].pc = "put_tail"]
  /\ file' = [file EXCEPT ![req[r].hash].head = req[r].bundle.head]
  /\ UNCHANGED <<schema, seen, torn, slipped>>

\* Mutants: one write() call is taken for the whole; the answer is read back
\* from the file.
PutTailShort(r) ==
  /\ At(r, "put_tail")
  /\ req' = [req EXCEPT ![r].pc = "generated"]
  /\ UNCHANGED <<schema, file, seen, torn, slipped>>

PutTailReadBack(r) ==
  /\ At(r, "put_tail")
  /\ file' = [file EXCEPT ![req[r].hash].tail = req[r].bundle.tail]
  /\ req' = [req EXCEPT ![r].pc = "generated", ![r].bundle = file'[req[r].hash]]
  /\ UNCHANGED <<schema, seen, torn, slipped>>

PutTail(r) ==
  /\ At(r, "put_tail")
  /\ file' = [file EXCEPT ![req[r].hash].tail = req[r].bundle.tail]
  /\ req' = [req EXCEPT ![r].pc = "generated"]
  /\ UNCHANGED <<schema, seen, torn, slipped>>

-----------------------------------------------------------------------------
(* The surroundings *)

\* The backend is redeployed.
ChangeSchema ==
  /\ \E h \in Hashes \ {schema} : schema' = h
  /\ seen' = [r \in Requests |-> IF At(r, "idle") \/ Answered(r) THEN seen[r]
                                 ELSE seen[r] \cup {schema'}]
  /\ UNCHANGED <<file, req, torn, slipped>>

\* The caller drops the stream.
Abandon(r) ==
  /\ Suspended(r)
  /\ req' = [req EXCEPT ![r].pc = "gone"]
  /\ UNCHANGED <<schema, file, seen, torn, slipped>>

\* The process dies, in the middle of writes if it so happens; files stay.
Restart ==
  /\ \E r \in Requests : ~At(r, "idle") /\ ~Answered(r)
  /\ req' = [r \in Requests |-> IF At(r, "idle") \/ Answered(r) THEN req[r]
                                ELSE [req[r] EXCEPT !.pc = "gone"]]
  /\ torn' = torn \cup {req[r].hash : r \in {w \in Requests : Writing(w)}}
  /\ UNCHANGED <<schema, file, seen, slipped>>

-----------------------------------------------------------------------------

Init ==
  /\ schema \in Hashes
  /\ file = [h \in Hashes |-> None]
  /\ req = [r \in Requests |-> IdleRequest]
  /\ seen = [r \in Requests |-> {}]
  /\ torn = {} /\ slipped = {}

Next ==
  \/ \E r \in Requests :
       \/ Start(r) \/ GetBackendHash(r) \/ Lookup(r) \/ ReadRest(r) \/ GenerateIr(r) \/ Build(r)
       \/ PutOpen(r) \/ PutFails(r) \/ PutHead(r) \/ PutTail(r)
       \/ Abandon(r)
  \/ ChangeSchema
  \/ Restart

Spec == Init /\ [][Next]_vars

-----------------------------------------------------------------------------
(* Properties *)

TypeOK ==
  /\ schema \in Hashes
  /\ file \in [Hashes -> Bundle \cup {None}]
  /\ req \in [Requests -> Request]
  /\ \A r \in Requests : req[r].pc \notin {"idle", "get_hash", "failed", "gone"} => req[r].hash \in Hashes
  /\ seen \in [Requests -> SUBSET Hashes]
  /\ torn \subseteq Hashes /\ slipped \subseteq Hashes

\* A request that generated its bundle runs with a whole bundle of a schema the
\* backend had while the request was under way, whoever else wrote the same
\* cache file at the same time, and whether or not the file could be written.
GeneratedIsCurrent ==
  \A r \in Requests :
    At(r, "generated") => \E h \in seen[r] : req[r].bundle = Whole(h)

\* Writers of one file that overlap in any order leave it whole and of its
\* hash, unless one of them was cut off or found that the schema had changed
\* since it asked for the hash.
CacheExact ==
  \A h \in Hashes :
    \/ file[h] \in {None, Whole(h)}
    \/ h \in torn \cup slipped
    \/ \E r \in Requests : Writing(r) /\ req[r].hash = h

\* Why: a piece that is missing from a file is one that a writer has yet to
\* write; writers who truncate each other's work write it again themselves.
PiecesToCome ==
  \A h \in Hashes \ (torn \cup slipped) :
    file[h] \in Bundle =>
      /\ file[h].head = h \/ \E r \in Requests : At(r, "put_head") /\ req[r].hash = h
      /\ file[h].tail = h \/ \E r \in Requests : Writing(r) /\ req[r].hash = h

FileOpened ==
  \A r \in Requests : Writing(r) \/ At(r, "read") => file[req[r].hash] \in Bundle

\* What a request carries from its IR to its answer.
CarriesIr ==
  \A r \in Requests :
    /\ ~At(r, "idle") /\ ~Answered(r) => schema \in seen[r]
    /\ req[r].pc \in {"build", "put_open", "put_head", "put_tail", "generated"} =>
         req[r].ir \in seen[r]
    /\ req[r].pc \in {"put_open", "put_head", "put_tail", "generated"} =>
         req[r].bundle = Whole(req[r].ir)
    /\ Writing(r) /\ req[r].ir # req[r].hash => req[r].hash \in slipped

IInv == TypeOK /\ FileOpened /\ PiecesToCome /\ CarriesIr

===============================================================================
