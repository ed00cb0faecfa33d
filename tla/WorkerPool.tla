------------------------------ MODULE WorkerPool ------------------------------
(***************************************************************************)
(* The pool of workerd processes: PoolManager, WorkerGuard and the part of *)
(* Worker they use.                                                        *)
(*                                                                         *)
(* A semaphore with one permit per worker admits callers; a caller that    *)
(* has a permit looks for an idle worker by trying the busy flag of each   *)
(* worker in turn, while other threads take and free workers.  Permits and *)
(* flags are separate: what ties them together is only the order in which  *)
(* a call takes both and a dropped guard gives both back.                  *)
(*                                                                         *)
(* The semaphore is tokio's: waiters are served first come first served, a *)
(* returned permit goes straight to the longest waiting caller, and a      *)
(* caller that is cancelled leaves the queue or hands its permit on.       *)
(***************************************************************************)
EXTENDS Naturals, FiniteSets

CONSTANTS
  Callers,      \* tasks that acquire a worker
  Size,         \* config.size
  Occupied,     \* workers whose port another server already listens on
  MaxAttempts   \* config.health_check_attempts

Workers == 1 .. Size

ASSUME PoolAssumption ==
  /\ IsFiniteSet(Callers)
  /\ Size \in Nat
  /\ Occupied \subseteq Workers
  /\ MaxAttempts \in Nat \ {0}

VARIABLES
  pool,      \* PoolManager::new: "starting", then "up" or "failed"
  spawned,   \* workers pushed so far
  attempt,   \* failed health checks of the worker being spawned
  proc,      \* per worker, its child process
  stopping,  \* the worker shutdown() kills next, 0 outside of shutdown
  permits,   \* free permits of the semaphore
  busy,      \* per worker, its busy flag
  pc,        \* per caller, where it is in acquire() or with its guard
  at,        \* per caller, the worker it tries next or holds
  ahead      \* per caller, who was queued for a permit before it

processes == <<pool, spawned, attempt, proc, stopping>>
admission == <<permits, busy, pc, at, ahead>>
vars == <<pool, spawned, attempt, proc, stopping, permits, busy, pc, at, ahead>>

-----------------------------------------------------------------------------
(* new: spawn the workers one after the other *)

Spawn ==
  /\ pool = "starting" /\ spawned < Size
  /\ proc[spawned + 1] = "none"
  /\ proc' = [proc EXCEPT ![spawned + 1] = "starting"]
  /\ UNCHANGED <<pool, spawned, attempt, stopping, admission>>

\* workerd binds its port, or cannot.
Listen(w) ==
  /\ proc[w] = "starting"
  /\ proc' = [proc EXCEPT ![w] = IF w \in Occupied THEN "exited" ELSE "listening"]
  /\ UNCHANGED <<pool, spawned, attempt, stopping, admission>>

Crash(w) ==
  /\ proc[w] \in {"starting", "listening"}
  /\ proc' = [proc EXCEPT ![w] = "exited"]
  /\ UNCHANGED <<pool, spawned, attempt, stopping, admission>>

\* new() returns an error; dropping the workers kills their processes.
FailStartup ==
  /\ pool' = "failed"
  /\ proc' = [w \in Workers |-> IF proc[w] = "none" THEN "none" ELSE "exited"]
  /\ UNCHANGED <<spawned, attempt>>

\* Whoever listens on the port answers the health check.  The exit of the
\* child is looked at only after a check that failed.
HealthCheck ==
  LET w == spawned + 1
      answers == proc[w] = "listening" \/ w \in Occupied
  IN  /\ pool = "starting" /\ spawned < Size /\ proc[w] # "none"
      /\ \/ /\ answers
            /\ spawned' = w /\ attempt' = 0
            /\ UNCHANGED <<pool, proc>>
         \/ IF proc[w] = "exited" \/ attempt + 1 = MaxAttempts
            THEN FailStartup
            ELSE attempt' = attempt + 1 /\ UNCHANGED <<pool, spawned, proc>>
      /\ UNCHANGED <<stopping, admission>>

Ready ==
  /\ pool = "starting" /\ spawned = Size
  /\ pool' = "up"
  /\ UNCHANGED <<spawned, attempt, proc, stopping, admission>>

\* shutdown: kill the workers in order.  The semaphore stays open.
BeginShutdown ==
  /\ pool = "up" /\ stopping = 0 /\ Size > 0
  /\ stopping' = 1
  /\ UNCHANGED <<pool, spawned, attempt, proc, admission>>

KillNext ==
  /\ stopping # 0
  /\ proc' = [proc EXCEPT ![stopping] = "exited"]
  /\ stopping' = IF stopping = Size THEN 0 ELSE stopping + 1
  /\ UNCHANGED <<pool, spawned, attempt, admission>>

-----------------------------------------------------------------------------
(* The semaphore *)

Queued == {c \in Callers : pc[c] = "queued"}

\* Those who own a permit, and those who own a worker.
PermitHolders == {c \in Callers : pc[c] \in {"permit", "scan", "failed", "held", "release"}}
Guards == {c \in Callers : pc[c] = "held"}

\* c returns its permit and leaves: the longest waiting caller gets it.
ReturnPermit(c) ==
  IF Queued = {}
  THEN /\ permits' = permits + 1
       /\ pc' = [pc EXCEPT ![c] = "out"]
       /\ UNCHANGED ahead
  ELSE \E d \in Queued :
         /\ ahead[d] = {}
         /\ pc' = [pc EXCEPT ![c] = "out", ![d] = "permit"]
         /\ ahead' = [e \in Callers |-> ahead[e] \ {d}]
         /\ UNCHANGED permits

-----------------------------------------------------------------------------
(* acquire *)

\* Mutant: the permit is dropped at once instead of moving into the guard.
AcquirePermitForgotten(c) ==
  /\ pool = "up" /\ pc[c] = "out"
  /\ IF permits > 0
     THEN pc' = [pc EXCEPT ![c] = "permit"] /\ UNCHANGED <<permits, ahead>>
     ELSE /\ pc' = [pc EXCEPT ![c] = "queued"]
          /\ ahead' = [ahead EXCEPT ![c] = Queued]
          /\ UNCHANGED permits
  /\ UNCHANGED <<processes, busy, at>>

Acquire(c) ==
  /\ pool = "up" /\ pc[c] = "out"
  /\ IF permits > 0
     THEN /\ permits' = permits - 1
          /\ pc' = [pc EXCEPT ![c] = "permit"]
          /\ UNCHANGED ahead
     ELSE /\ pc' = [pc EXCEPT ![c] = "queued"]
          /\ ahead' = [ahead EXCEPT ![c] = Queued]
          /\ UNCHANGED permits
  /\ UNCHANGED <<processes, busy, at>>

\* The caller is cancelled at one of the two awaits of acquire().
CancelQueued(c) ==
  /\ pc[c] = "queued"
  /\ pc' = [pc EXCEPT ![c] = "out"]
  /\ ahead' = [[e \in Callers |-> ahead[e] \ {c}] EXCEPT ![c] = {}]
  /\ UNCHANGED <<processes, permits, busy, at>>

CancelGranted(c) ==
  /\ pc[c] = "permit"
  /\ ReturnPermit(c)
  /\ UNCHANGED <<processes, busy, at>>

\* Mutant: the flag is swapped in and its old value not looked at.
TryAcquireUnchecked(c) ==
  /\ pc[c] \in {"permit", "scan"}
  /\ busy' = [busy EXCEPT ![at[c]] = TRUE]
  /\ pc' = [pc EXCEPT ![c] = "held"]
  /\ UNCHANGED <<processes, permits, at, ahead>>

\* find_map over the workers: compare-and-exchange on the flag of the next one,
\* and the error "this is a bug" at the end of the list.
TryAcquire(c) ==
  /\ pc[c] \in {"permit", "scan"}
  /\ IF at[c] > Size
     THEN pc' = [pc EXCEPT ![c] = "failed"] /\ UNCHANGED <<at, busy>>
     ELSE IF busy[at[c]]
     THEN /\ at' = [at EXCEPT ![c] = @ + 1]
          /\ pc' = [pc EXCEPT ![c] = "scan"]
          /\ UNCHANGED busy
     ELSE /\ busy' = [busy EXCEPT ![at[c]] = TRUE]
          /\ pc' = [pc EXCEPT ![c] = "held"]
          /\ UNCHANGED at
  /\ UNCHANGED <<processes, permits, ahead>>

-----------------------------------------------------------------------------
(* WorkerGuard: drop() frees the worker, then the fields are dropped, the    *)
(* permit among them.                                                        *)

\* Mutant: drop() does not release the worker.
DropGuardUnreleased(c) ==
  /\ pc[c] = "held"
  /\ at' = [at EXCEPT ![c] = 1]
  /\ pc' = [pc EXCEPT ![c] = "release"]
  /\ UNCHANGED <<processes, permits, busy, ahead>>

DropGuard(c) ==
  /\ pc[c] = "held"
  /\ busy' = [busy EXCEPT ![at[c]] = FALSE]
  /\ at' = [at EXCEPT ![c] = 1]
  /\ pc' = [pc EXCEPT ![c] = "release"]
  /\ UNCHANGED <<processes, permits, ahead>>

\* Mutant: the permit is forgotten.
DropPermitForgotten(c) ==
  /\ pc[c] \in {"release", "failed"}
  /\ pc' = [pc EXCEPT ![c] = "out"]
  /\ at' = [at EXCEPT ![c] = 1]
  /\ UNCHANGED <<processes, permits, busy, ahead>>

\* Also the end of an acquire() that found no worker.
DropPermit(c) ==
  /\ pc[c] \in {"release", "failed"}
  /\ ReturnPermit(c)
  /\ at' = [at EXCEPT ![c] = 1]
  /\ UNCHANGED <<processes, busy>>

-----------------------------------------------------------------------------

Init ==
  /\ pool = "starting" /\ spawned = 0 /\ attempt = 0 /\ stopping = 0
  /\ proc = [w \in Workers |-> "none"]
  /\ permits = Size
  /\ busy = [w \in Workers |-> FALSE]
  /\ pc = [c \in Callers |-> "out"]
  /\ at = [c \in Callers |-> 1]
  /\ ahead = [c \in Callers |-> {}]

Process == \/ Spawn \/ HealthCheck \/ Ready \/ BeginShutdown \/ KillNext
           \/ \E w \in Workers : Listen(w) \/ Crash(w)

Admission(c) ==
  \/ Acquire(c) \/ CancelQueued(c) \/ CancelGranted(c)
  \/ TryAcquire(c) \/ DropGuard(c) \/ DropPermit(c)

Next == Process \/ \E c \in Callers : Admission(c)

Spec == Init /\ [][Next]_vars

\* The runtime keeps polling a caller that can run, and a caller lets go of its
\* guard some day: acquire() itself promises nothing without that.
FairSpec ==
  Spec /\ \A c \in Callers : WF_vars(TryAcquire(c) \/ DropPermit(c)) /\ WF_vars(DropGuard(c))

-----------------------------------------------------------------------------
(* Properties *)

TypeOK ==
  /\ pool \in {"starting", "up", "failed"}
  /\ spawned \in 0 .. Size
  /\ attempt \in 0 .. MaxAttempts - 1
  /\ proc \in [Workers -> {"none", "starting", "listening", "exited"}]
  /\ stopping \in 0 .. Size
  /\ permits \in 0 .. Size
  /\ busy \in [Workers -> BOOLEAN]
  /\ pc \in [Callers -> {"out", "queued", "permit", "scan", "failed", "held", "release"}]
  /\ at \in [Callers -> 1 .. Size + 1]
  /\ ahead \in [Callers -> SUBSET Callers]

\* "Semaphore acquired but no workers available - this is a bug": a caller with
\* a permit finds a worker, although it tries them one by one while others take
\* and free them behind its back.
WorkerAlwaysFound == \A c \in Callers : pc[c] # "failed"

\* A worker serves one guard at a time.  Code that a former guard's execution left
\* running in workerd when its caller went is not counted.
GuardsExclusive ==
  \A c \in Guards : at[c] \in Workers /\ \A d \in Guards : at[c] = at[d] => c = d

\* No worker is lost: one that is marked busy will be freed by its guard.
BusyIffHeld == \A w \in Workers : busy[w] <=> \E c \in Guards : at[c] = w

\* No permit is lost or made up, however calls are cancelled: the capacity of
\* the pool stays config.size.
PermitsConserved == permits + Cardinality(PermitHolders) = Size

\* The strengthening that makes WorkerAlwaysFound inductive: at most
\* Size + 1 - k callers with a permit are at worker k or beyond.
Beyond(k) == {c \in PermitHolders : at[c] >= k}

ScanBound == \A k \in 1 .. Size + 1 : Cardinality(Beyond(k)) <= Size + 1 - k

\* A caller looks at worker at[c]; otherwise it stands at the first one.
Positions ==
  \A c \in Callers : pc[c] \in {"out", "queued", "permit", "release"} => at[c] = 1

IInv ==
  /\ TypeOK /\ WorkerAlwaysFound /\ GuardsExclusive /\ BusyIffHeld
  /\ PermitsConserved /\ ScanBound /\ Positions

\* "Blocks until a worker is available": a caller that waits for a permit gets
\* a worker or gives up, even if other callers keep coming back.
AcquireReturns == \A c \in Callers : pc[c] = "queued" ~> pc[c] \in {"held", "out"}

===============================================================================
