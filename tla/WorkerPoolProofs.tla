--------------------------- MODULE WorkerPoolProofs ---------------------------
(***************************************************************************)
(* Proofs about WorkerPool, for every pool size and number of callers.     *)
(*                                                                         *)
(* The argument: at most Size + 1 - k callers with a permit stand at       *)
(* worker k or beyond (ScanBound).  A caller goes past worker k only when  *)
(* somebody else holds k, so two callers stand at exactly k before the     *)
(* move and the bound for k pays for the bound for k + 1.  For             *)
(* k = Size + 1 the bound is 0: nobody runs off the end of the list.       *)
(***************************************************************************)
EXTENDS WorkerPool, FiniteSetTheorems, TLAPS

USE PoolAssumption DEF Workers

-----------------------------------------------------------------------------
(* Counting *)

\* Every set of callers is finite.
LEMMA FiniteCallers ==
  ASSUME NEW S, S \subseteq Callers
  PROVE  IsFiniteSet(S) /\ Cardinality(S) \in Nat
<1>1. IsFiniteSet(S)
  BY FS_Subset
<1>. QED
  BY <1>1, FS_CardinalityType

\* Among Size permit holders, those at worker 1 or beyond are no more than Size;
\* a step that sends nobody further up the list keeps the other bounds.
LEMMA BoundKept ==
  ASSUME IInv, TypeOK', PermitsConserved',
         \A k \in 2 .. Size + 1 : Beyond(k)' \subseteq Beyond(k)
  PROVE  ScanBound'
<1> SUFFICES ASSUME NEW k \in 1 .. Size + 1
             PROVE  Cardinality(Beyond(k)') <= Size + 1 - k
  BY DEF ScanBound
<1> DEFINE H == PermitHolders'
           B == Beyond(k)'
<1>1. H \subseteq Callers /\ B \subseteq H
  BY DEF PermitHolders, Beyond
<1>2. CASE k = 1
  <2>1. permits' \in Nat /\ permits' + Cardinality(H) = Size
    BY DEF TypeOK, PermitsConserved
  <2>2. Cardinality(H) \in Nat /\ Cardinality(B) <= Cardinality(H) /\ Cardinality(B) \in Nat
    <3>1. IsFiniteSet(H) /\ IsFiniteSet(B) /\ Cardinality(H) \in Nat /\ Cardinality(B) \in Nat
      BY <1>1, FiniteCallers
    <3>. QED
      BY <1>1, <3>1, FS_Subset
  <2> HIDE DEF H, B
  <2>3. Cardinality(B) <= Size + 1 - k
    BY <1>2, <2>1, <2>2
  <2>. QED
    BY <2>3 DEF B
<1>3. CASE k # 1
  <2>1. B \subseteq Beyond(k) /\ Beyond(k) \subseteq Callers
    BY <1>3 DEF Beyond, PermitHolders
  <2>2. /\ Cardinality(B) \in Nat /\ Cardinality(Beyond(k)) \in Nat
        /\ Cardinality(B) <= Cardinality(Beyond(k))
    <3>1. IsFiniteSet(Beyond(k)) /\ Cardinality(B) \in Nat /\ Cardinality(Beyond(k)) \in Nat
      BY <2>1, FiniteCallers
    <3>. QED
      BY <2>1, <3>1, FS_Subset
  <2>3. Cardinality(Beyond(k)) <= Size + 1 - k
    BY DEF IInv, ScanBound
  <2>. QED
    BY <2>2, <2>3
<1>. QED
  BY <1>2, <1>3

\* Nobody stands beyond the last worker.
LEMMA NobodyBeyond ==
  ASSUME IInv, NEW c \in PermitHolders
  PROVE  at[c] \in Workers
<1> SUFFICES ASSUME at[c] = Size + 1 PROVE FALSE
  BY DEF IInv, TypeOK, PermitHolders
<1>1. c \in Beyond(Size + 1)
  BY DEF Beyond
<1>2. Beyond(Size + 1) \subseteq Callers
  BY DEF Beyond, PermitHolders
<1>3. IsFiniteSet(Beyond(Size + 1)) /\ Cardinality(Beyond(Size + 1)) \in Nat
  BY <1>2, FiniteCallers
<1>4. Cardinality(Beyond(Size + 1)) <= 0
  BY DEF IInv, ScanBound
<1>. QED
  BY <1>1, <1>3, <1>4, FS_EmptySet

-----------------------------------------------------------------------------
(* The invariant *)

\* A caller that hands its permit back, to the semaphore or to a waiter, keeps
\* everything as long as it has no worker.
LEMMA ReturnKeeps ==
  ASSUME IInv, NEW c \in Callers, ReturnPermit(c), c \in PermitHolders, c \notin Guards,
         UNCHANGED <<processes, busy>>, at' = [at EXCEPT ![c] = 1]
  PROVE  IInv'
<1> USE DEF IInv, TypeOK
<1>1. c \in PermitHolders /\ PermitHolders \subseteq Callers /\ at'[c] = 1
  BY DEF PermitHolders
<1>2. /\ pc'[c] = "out"
      /\ pc' \in [Callers -> {"out", "queued", "permit", "scan", "failed", "held", "release"}]
      /\ ahead' \in [Callers -> SUBSET Callers]
      /\ permits' \in Nat
      /\ \A d \in Callers \ {c} : pc'[d] = pc[d] \/ (pc[d] = "queued" /\ pc'[d] = "permit")
  <2>1. CASE Queued = {}
    BY <2>1 DEF ReturnPermit
  <2>2. CASE Queued # {}
    <3>1. PICK d \in Queued : /\ pc' = [pc EXCEPT ![c] = "out", ![d] = "permit"]
                              /\ ahead' = [e \in Callers |-> ahead[e] \ {d}]
                              /\ permits' = permits
      BY <2>2 DEF ReturnPermit
    <3>2. d \in Callers /\ pc[d] = "queued" /\ d # c
      BY <1>1 DEF Queued, PermitHolders
    <3>. QED
      BY <3>1, <3>2
  <2>. QED
    BY <2>1, <2>2
<1>3. PermitsConserved'
  <2>1. IsFiniteSet(PermitHolders) /\ Cardinality(PermitHolders) \in Nat
    BY <1>1, FiniteCallers
  <2>2. /\ IsFiniteSet(PermitHolders \ {c})
        /\ Cardinality(PermitHolders \ {c}) = Cardinality(PermitHolders) - 1
    BY <1>1, <2>1, FS_RemoveElement
  <2>3. CASE Queued = {}
    <3>1. PermitHolders' = PermitHolders \ {c} /\ permits' = permits + 1
      BY <2>3 DEF ReturnPermit, PermitHolders
    <3>. QED
      BY <2>1, <2>2, <3>1 DEF PermitsConserved
  <2>4. CASE Queued # {}
    <3>1. PICK d \in Queued : /\ pc' = [pc EXCEPT ![c] = "out", ![d] = "permit"]
                              /\ permits' = permits
      BY <2>4 DEF ReturnPermit
    <3>2. d \in Callers /\ d \notin PermitHolders /\ d # c
      BY <1>1 DEF Queued, PermitHolders
    <3>3. PermitHolders' = (PermitHolders \ {c}) \cup {d}
      BY <3>1, <3>2 DEF PermitHolders
    <3>4. Cardinality(PermitHolders') = Cardinality(PermitHolders)
      <4> DEFINE R == PermitHolders \ {c}
      <4>1. IsFiniteSet(R) /\ d \notin R /\ Cardinality(R) = Cardinality(PermitHolders) - 1
        BY <2>2, <3>2
      <4> HIDE DEF R
      <4>2. Cardinality(R \cup {d}) = Cardinality(R) + 1
        BY <4>1, FS_AddElement
      <4>3. Cardinality(R \cup {d}) = Cardinality(PermitHolders)
        BY <2>1, <4>1, <4>2
      <4>. QED
        BY <3>3, <4>3 DEF R
    <3>. QED
      BY <3>1, <3>4 DEF PermitsConserved
  <2>. QED
    BY <2>3, <2>4
<1>4. TypeOK'
  <2>1. Cardinality(PermitHolders') \in Nat
    BY FiniteCallers DEF PermitHolders
  <2>2. permits' \in 0 .. Size
    BY <1>2, <1>3, <2>1 DEF PermitsConserved
  <2>3. at' \in [Callers -> 1 .. Size + 1]
    <3>1. 1 \in 1 .. Size + 1
      OBVIOUS
    <3>. QED
      BY <3>1
  <2>. QED
    BY <1>2, <2>2, <2>3 DEF processes
<1>5. WorkerAlwaysFound' /\ Positions'
  BY <1>2 DEF WorkerAlwaysFound, Positions
<1>6. \A d \in Callers : (d \in Guards' <=> d \in Guards) /\ (d \in Guards => at'[d] = at[d])
  BY <1>2 DEF Guards
<1>7. GuardsExclusive' /\ BusyIffHeld'
  BY <1>6 DEF GuardsExclusive, BusyIffHeld, Guards
<1>8. ScanBound'
  <2>1. ASSUME NEW k \in 2 .. Size + 1 PROVE Beyond(k)' \subseteq Beyond(k)
    <3> SUFFICES ASSUME NEW d \in Callers, d \in PermitHolders', at'[d] >= k
                 PROVE  d \in PermitHolders /\ at[d] >= k
      BY DEF Beyond, PermitHolders
    <3>1. d # c
      BY <1>1
    <3>2. at'[d] = at[d]
      BY <3>1
    <3>3. pc[d] # "queued"
      BY <3>2 DEF Positions
    <3>. QED
      BY <1>2, <3>1, <3>2, <3>3 DEF PermitHolders
  <2>. QED
    BY <1>3, <1>4, <2>1, BoundKept
<1>. QED
  BY <1>3, <1>4, <1>5, <1>7, <1>8

\* A caller that joins the queue or leaves it touches no permit and no worker.
LEMMA QueueKeeps ==
  ASSUME IInv, NEW c \in Callers, UNCHANGED <<processes, permits, busy, at>>,
         NEW s \in {"out", "queued"}, pc' = [pc EXCEPT ![c] = s],
         pc[c] \in {"out", "queued"}, ahead' \in [Callers -> SUBSET Callers]
  PROVE  IInv'
<1> USE DEF IInv, TypeOK
<1>1. PermitHolders' = PermitHolders /\ Guards' = Guards
  BY DEF PermitHolders, Guards
<1>2. TypeOK'
  BY DEF processes
<1>3. PermitsConserved'
  BY <1>1 DEF PermitsConserved
<1>4. WorkerAlwaysFound' /\ Positions'
  BY DEF WorkerAlwaysFound, Positions
<1>5. GuardsExclusive' /\ BusyIffHeld'
  BY <1>1 DEF GuardsExclusive, BusyIffHeld
<1>6. ScanBound'
  BY <1>1, <1>2, <1>3, BoundKept DEF Beyond
<1>. QED
  BY <1>2, <1>3, <1>4, <1>5, <1>6

LEMMA AcquireKeeps ==
  ASSUME IInv, NEW c \in Callers, Acquire(c)
  PROVE  IInv'
<1> USE DEF IInv, TypeOK
<1>1. CASE permits > 0
  <2>1. /\ permits' = permits - 1 /\ pc[c] = "out" /\ pc' = [pc EXCEPT ![c] = "permit"]
        /\ UNCHANGED <<processes, busy, at, ahead>>
    BY <1>1 DEF Acquire
  <2>2. PermitHolders' = PermitHolders \cup {c} /\ c \notin PermitHolders
        /\ PermitHolders \subseteq Callers /\ Guards' = Guards
    BY <2>1 DEF PermitHolders, Guards
  <2>3. TypeOK'
    BY <1>1, <2>1 DEF processes
  <2>4. PermitsConserved'
    <3>1. IsFiniteSet(PermitHolders) /\ Cardinality(PermitHolders) \in Nat
      BY <2>2, FiniteCallers
    <3>2. Cardinality(PermitHolders') = Cardinality(PermitHolders) + 1
      BY <2>2, <3>1, FS_AddElement
    <3>. QED
      BY <2>1, <3>1, <3>2 DEF PermitsConserved
  <2>5. WorkerAlwaysFound' /\ Positions'
    BY <2>1 DEF WorkerAlwaysFound, Positions
  <2>6. GuardsExclusive' /\ BusyIffHeld'
    BY <2>1, <2>2 DEF GuardsExclusive, BusyIffHeld
  <2>7. ASSUME NEW k \in 2 .. Size + 1 PROVE Beyond(k)' \subseteq Beyond(k)
    BY <2>1, <2>2 DEF Beyond, Positions
  <2>. QED
    BY <2>3, <2>4, <2>5, <2>6, <2>7, BoundKept
<1>2. CASE ~(permits > 0)
  <2>1. /\ pc[c] = "out" /\ pc' = [pc EXCEPT ![c] = "queued"]
        /\ ahead' = [ahead EXCEPT ![c] = Queued]
        /\ UNCHANGED <<processes, permits, busy, at>>
    BY <1>2 DEF Acquire
  <2>2. ahead' \in [Callers -> SUBSET Callers]
    BY <2>1 DEF Queued
  <2>. QED
    BY <2>1, <2>2, QueueKeeps
<1>. QED
  BY <1>1, <1>2

\* One try at a worker: the flag is taken, or the caller moves on because
\* another caller stands exactly there.
LEMMA TryKeeps ==
  ASSUME IInv, NEW c \in Callers, TryAcquire(c)
  PROVE  IInv'
<1> USE DEF IInv, TypeOK
<1>1. c \in PermitHolders /\ c \notin Guards /\ PermitHolders \subseteq Callers
  BY DEF TryAcquire, PermitHolders, Guards
<1>2. at[c] \in Workers
  BY <1>1, NobodyBeyond
<1>3. CASE ~busy[at[c]]
  <2>1. /\ busy' = [busy EXCEPT ![at[c]] = TRUE] /\ pc' = [pc EXCEPT ![c] = "held"]
        /\ UNCHANGED <<processes, permits, at, ahead>>
    BY <1>2, <1>3 DEF TryAcquire
  <2>2. PermitHolders' = PermitHolders /\ Guards' = Guards \cup {c} /\ Guards \subseteq Callers
    BY <1>1, <2>1 DEF PermitHolders, Guards
  <2>3. TypeOK'
    BY <1>2, <2>1 DEF processes
  <2>4. PermitsConserved'
    BY <2>1, <2>2 DEF PermitsConserved
  <2>5. WorkerAlwaysFound' /\ Positions'
    BY <2>1 DEF WorkerAlwaysFound, Positions
  <2>6. \A d \in Guards : at[d] # at[c]
    BY <1>2, <1>3 DEF BusyIffHeld
  <2>7. GuardsExclusive'
    BY <1>2, <2>1, <2>2, <2>6 DEF GuardsExclusive
  <2>8. BusyIffHeld'
    BY <1>2, <2>1, <2>2, <2>6 DEF BusyIffHeld
  <2>9. ASSUME NEW k \in 2 .. Size + 1 PROVE Beyond(k)' \subseteq Beyond(k)
    BY <2>1, <2>2 DEF Beyond
  <2>. QED
    BY <2>3, <2>4, <2>5, <2>7, <2>8, <2>9, BoundKept
<1>4. CASE busy[at[c]]
  <2> DEFINE j == at[c]
  <2>1. /\ at' = [at EXCEPT ![c] = j + 1] /\ pc' = [pc EXCEPT ![c] = "scan"]
        /\ UNCHANGED <<processes, permits, busy, ahead>>
    BY <1>2, <1>4 DEF TryAcquire
  <2>2. PermitHolders' = PermitHolders /\ Guards' = Guards
    BY <1>1, <2>1 DEF PermitHolders, Guards, TryAcquire
  <2>3. TypeOK'
    BY <1>2, <2>1 DEF processes
  <2>4. PermitsConserved'
    BY <2>1, <2>2 DEF PermitsConserved
  <2>5. WorkerAlwaysFound' /\ Positions'
    BY <2>1 DEF WorkerAlwaysFound, Positions
  <2>6. GuardsExclusive' /\ BusyIffHeld'
    BY <1>1, <2>1, <2>2 DEF GuardsExclusive, BusyIffHeld, Guards
  <2>7. ScanBound'
    <3> SUFFICES ASSUME NEW k \in 1 .. Size + 1
                 PROVE  Cardinality(Beyond(k)') <= Size + 1 - k
      BY DEF ScanBound
    <3>1. CASE k # j + 1
      <4>1. ASSUME NEW d \in PermitHolders
            PROVE  at'[d] >= k <=> at[d] >= k
        <5>1. CASE d = c
          BY <1>1, <1>2, <2>1, <3>1, <5>1
        <5>2. CASE d # c
          BY <1>1, <2>1, <5>2
        <5>. QED
          BY <5>1, <5>2
      <4>2. Beyond(k)' = Beyond(k)
        BY <2>2, <4>1 DEF Beyond
      <4>. QED
        BY <4>2 DEF ScanBound
    <3>2. CASE k = j + 1
      <4>1. PICK d \in Guards : at[d] = j
        BY <1>2, <1>4 DEF BusyIffHeld
      <4> DEFINE B == Beyond(j + 1)
      <4>2. /\ Beyond(k)' = B \cup {c}
            /\ c \notin B /\ d \notin B \cup {c}
            /\ (B \cup {c}) \cup {d} \subseteq Beyond(j)
        BY <1>1, <1>2, <2>1, <2>2, <3>2, <4>1 DEF Beyond, Guards, PermitHolders
      <4>3. /\ B \subseteq Callers /\ Beyond(j) \subseteq Callers
            /\ IsFiniteSet(Beyond(j)) /\ Cardinality(Beyond(j)) \in Nat
        BY <1>1, FiniteCallers DEF Beyond
      <4>4. /\ IsFiniteSet(B) /\ IsFiniteSet(B \cup {c}) /\ IsFiniteSet((B \cup {c}) \cup {d})
            /\ Cardinality(B \cup {c}) \in Nat
        BY <4>2, <4>3, FiniteCallers, FS_Subset
      <4>5. Cardinality((B \cup {c}) \cup {d}) = Cardinality(B \cup {c}) + 1
        BY <4>2, <4>4, FS_AddElement
      <4>6. Cardinality((B \cup {c}) \cup {d}) <= Cardinality(Beyond(j))
        BY <4>2, <4>3, FS_Subset
      <4>7. Cardinality(Beyond(j)) <= Size + 1 - j
        BY <1>2 DEF ScanBound
      <4> HIDE DEF B, j
      <4>8. Cardinality(B \cup {c}) <= Size + 1 - k
        BY <1>2, <3>2, <4>3, <4>4, <4>5, <4>6, <4>7 DEF j
      <4>. QED
        BY <4>2, <4>8
    <3>. QED
      BY <3>1, <3>2
  <2>. QED
    BY <2>3, <2>4, <2>5, <2>6, <2>7
<1>. QED
  BY <1>3, <1>4

LEMMA DropGuardKeeps ==
  ASSUME IInv, NEW c \in Callers, DropGuard(c)
  PROVE  IInv'
<1> USE DEF IInv, TypeOK
<1>1. /\ pc[c] = "held" /\ busy' = [busy EXCEPT ![at[c]] = FALSE]
      /\ at' = [at EXCEPT ![c] = 1] /\ pc' = [pc EXCEPT ![c] = "release"]
      /\ UNCHANGED <<processes, permits, ahead>>
  BY DEF DropGuard
<1>2. /\ PermitHolders' = PermitHolders /\ c \in Guards /\ Guards \subseteq Callers
      /\ Guards' = Guards \ {c}
  BY <1>1 DEF PermitHolders, Guards
<1>3. TypeOK'
  <2>1. at' \in [Callers -> 1 .. Size + 1]
    <3>1. 1 \in 1 .. Size + 1
      OBVIOUS
    <3>. QED
      BY <1>1, <3>1
  <2>2. busy' \in [Workers -> BOOLEAN]
    BY <1>1
  <2>. QED
    BY <1>1, <2>1, <2>2 DEF processes
<1>4. PermitsConserved'
  BY <1>1, <1>2 DEF PermitsConserved
<1>5. WorkerAlwaysFound' /\ Positions'
  BY <1>1 DEF WorkerAlwaysFound, Positions
<1>6. at[c] \in Workers /\ \A d \in Guards \ {c} : at[d] # at[c] /\ at'[d] = at[d]
  BY <1>1, <1>2 DEF GuardsExclusive
<1>7. GuardsExclusive'
  BY <1>2, <1>6 DEF GuardsExclusive
<1>8. BusyIffHeld'
  BY <1>1, <1>2, <1>6 DEF BusyIffHeld
<1>9. ASSUME NEW k \in 2 .. Size + 1 PROVE Beyond(k)' \subseteq Beyond(k)
  BY <1>1, <1>2 DEF Beyond, PermitHolders
<1>. QED
  BY <1>3, <1>4, <1>5, <1>7, <1>8, <1>9, BoundKept

\* All but the types depends on the admission only.
LEMMA SameAdmission ==
  ASSUME IInv, UNCHANGED admission, TypeOK'
  PROVE  IInv'
<1>1. PermitHolders' = PermitHolders /\ Guards' = Guards
  BY DEF admission, PermitHolders, Guards
<1>2. \A k \in 1 .. Size + 1 : Beyond(k)' = Beyond(k)
  BY <1>1 DEF admission, Beyond
<1>3. ScanBound'
  BY <1>2 DEF IInv, ScanBound
<1>4. PermitsConserved'
  BY <1>1 DEF IInv, PermitsConserved, admission
<1>5. GuardsExclusive' /\ BusyIffHeld'
  BY <1>1 DEF IInv, GuardsExclusive, BusyIffHeld, admission
<1>6. WorkerAlwaysFound' /\ Positions'
  BY DEF IInv, WorkerAlwaysFound, Positions, admission
<1>. QED
  BY <1>3, <1>4, <1>5, <1>6 DEF IInv

\* Starting, losing and killing processes does not touch the admission.
LEMMA ProcessKeeps ==
  ASSUME IInv, Process
  PROVE  IInv'
<1> USE DEF IInv, TypeOK
<1>1. UNCHANGED admission
  BY DEF Process, Spawn, HealthCheck, Ready, BeginShutdown, KillNext, Listen, Crash
<1>2. /\ pool' \in {"starting", "up", "failed"} /\ spawned' \in 0 .. Size
      /\ attempt' \in 0 .. MaxAttempts - 1 /\ stopping' \in 0 .. Size
      /\ proc' \in [Workers -> {"none", "starting", "listening", "exited"}]
  <2>1. CASE Spawn
    BY <2>1 DEF Spawn
  <2>2. CASE HealthCheck
    <3>1. UNCHANGED stopping /\ spawned \in 0 .. Size - 1
      BY <2>2 DEF HealthCheck
    <3>2. CASE spawned' = spawned + 1 /\ attempt' = 0 /\ UNCHANGED <<pool, proc>>
      BY <3>1, <3>2
    <3>3. CASE FailStartup
      BY <3>1, <3>3 DEF FailStartup
    <3>4. CASE attempt + 1 # MaxAttempts /\ attempt' = attempt + 1 /\ UNCHANGED <<pool, spawned, proc>>
      BY <3>1, <3>4
    <3>. QED
      BY <2>2, <3>2, <3>3, <3>4 DEF HealthCheck
  <2>3. CASE Ready \/ BeginShutdown
    BY <2>3 DEF Ready, BeginShutdown
  <2>4. CASE KillNext
    BY <2>4 DEF KillNext
  <2>5. CASE \E w \in Workers : Listen(w) \/ Crash(w)
    BY <2>5 DEF Listen, Crash
  <2>. QED
    BY <2>1, <2>2, <2>3, <2>4, <2>5 DEF Process
<1>3. TypeOK'
  BY <1>1, <1>2 DEF admission
<1>. QED
  BY <1>1, <1>3, SameAdmission

LEMMA InitInvariant == Init => IInv
<1> SUFFICES ASSUME Init PROVE IInv
  OBVIOUS
<1>1. PermitHolders = {} /\ Guards = {} /\ \A k \in 1 .. Size + 1 : Beyond(k) = {}
  BY DEF Init, PermitHolders, Guards, Beyond
<1>2. TypeOK /\ WorkerAlwaysFound /\ Positions
  BY DEF Init, TypeOK, WorkerAlwaysFound, Positions
<1>3. GuardsExclusive /\ BusyIffHeld
  BY <1>1 DEF Init, GuardsExclusive, BusyIffHeld
<1>4. Cardinality({}) = 0
  BY FS_EmptySet
<1>5. Cardinality(PermitHolders) = 0 /\ \A k \in 1 .. Size + 1 : Cardinality(Beyond(k)) = 0
  BY <1>1, <1>4
<1>6. PermitsConserved
  BY <1>5 DEF Init, PermitsConserved
<1>7. ScanBound
  BY <1>5 DEF ScanBound
<1>. QED
  BY <1>2, <1>3, <1>6, <1>7 DEF IInv

LEMMA InvariantStep == IInv /\ [Next]_vars => IInv'
<1> SUFFICES ASSUME IInv, [Next]_vars PROVE IInv'
  OBVIOUS
<1>1. CASE Process
  BY <1>1, ProcessKeeps
<1>2. ASSUME NEW c \in Callers, Admission(c)
      PROVE  IInv'
  <2>1. CASE Acquire(c)
    BY <2>1, AcquireKeeps
  <2>2. CASE CancelQueued(c)
    BY <2>2, QueueKeeps DEF CancelQueued, IInv, TypeOK
  <2>3. CASE CancelGranted(c)
    BY <2>3, ReturnKeeps DEF CancelGranted, PermitHolders, Guards, IInv, TypeOK, Positions
  <2>4. CASE TryAcquire(c)
    BY <2>4, TryKeeps
  <2>5. CASE DropGuard(c)
    BY <2>5, DropGuardKeeps
  <2>6. CASE DropPermit(c)
    BY <2>6, ReturnKeeps DEF DropPermit, PermitHolders, Guards
  <2>. QED
    BY <1>2, <2>1, <2>2, <2>3, <2>4, <2>5, <2>6 DEF Admission
<1>3. CASE UNCHANGED vars
  BY <1>3, SameAdmission DEF vars, admission, IInv, TypeOK
<1>. QED
  BY <1>1, <1>2, <1>3 DEF Next

-----------------------------------------------------------------------------
(* Theorems *)

\* The inductive invariant holds in every reachable state.
THEOREM Invariance == Spec => []IInv
BY InitInvariant, InvariantStep, PTL DEF Spec

\* Type correctness of the pool.
THEOREM TypeCorrect == Spec => []TypeOK
<1>1. IInv => TypeOK
  BY DEF IInv
<1>. QED
  BY <1>1, Invariance, PTL

\* The error the code calls "a bug" cannot occur, whatever the size of the pool
\* and the number of callers.
THEOREM WorkerFound == Spec => []WorkerAlwaysFound
<1>1. IInv => WorkerAlwaysFound
  BY DEF IInv
<1>. QED
  BY <1>1, Invariance, PTL

\* No two guards share a worker.
THEOREM Exclusive == Spec => []GuardsExclusive
<1>1. IInv => GuardsExclusive
  BY DEF IInv
<1>. QED
  BY <1>1, Invariance, PTL

\* A worker is marked busy exactly while a guard holds it.
THEOREM NoWorkerLost == Spec => []BusyIffHeld
<1>1. IInv => BusyIffHeld
  BY DEF IInv
<1>. QED
  BY <1>1, Invariance, PTL

\* Cancelled and finished calls give back exactly the permits they took.
THEOREM CapacityKept == Spec => []PermitsConserved
<1>1. IInv => PermitsConserved
  BY DEF IInv
<1>. QED
  BY <1>1, Invariance, PTL

===============================================================================
