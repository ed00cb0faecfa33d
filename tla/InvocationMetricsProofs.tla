------------------------ MODULE InvocationMetricsProofs ------------------------
(***************************************************************************)
(* Proofs about InvocationMetrics, for tables of any size: offsets stay    *)
(* within what was counted, and an undisturbed call computes the           *)
(* percentiles of the reference definition.                                *)
(***************************************************************************)
EXTENDS InvocationMetrics, FiniteSetTheorems, TLAPS

USE MetricsAssumption

-----------------------------------------------------------------------------
(* Lemmas about offsets and counts *)

\* An offset cuts off n * percent / 100, and lies among the n rows.
LEMMA OffsetBounds ==
  ASSUME NEW n \in Nat, NEW percent \in Percents
  PROVE  /\ Offset(n, percent) \in Nat
         /\ 100 * Offset(n, percent) <= n * percent
         /\ n * percent < 100 * Offset(n, percent) + 100
         /\ n > 0 => Offset(n, percent) < n
<1>1. CASE percent = 50
  BY <1>1, SMT DEF Offset
<1>2. CASE percent = 95
  BY <1>2, SMT DEF Offset
<1>3. CASE percent = 99
  BY <1>3, SMT DEF Offset
<1>. QED
  BY <1>1, <1>2, <1>3 DEF Percents

\* Sets of ids have a size, and the more ids the greater.
LEMMA Sizes ==
  /\ \A S \in SUBSET Invocations : IsFiniteSet(S) /\ Cardinality(S) \in Nat
  /\ \A S, T \in SUBSET Invocations : S \subseteq T => Cardinality(S) <= Cardinality(T)
<1>1. \A S \in SUBSET Invocations : IsFiniteSet(S) /\ Cardinality(S) \in Nat
  BY FS_Subset, FS_CardinalityType
<1>2. ASSUME NEW S \in SUBSET Invocations, NEW T \in SUBSET Invocations, S \subseteq T
      PROVE  Cardinality(S) <= Cardinality(T)
  BY <1>1, <1>2, FS_Subset
<1>. QED
  BY <1>1, <1>2

\* What a call selects are ids.
LEMMA Selected ==
  ASSUME NEW q
  PROVE  Timed(q) \subseteq Matching(q) /\ Matching(q) \subseteq Invocations
BY DEF Timed, Matching

\* A row at the offset of a percentile has the percentile's duration.
LEMMA OffsetIsPercentile ==
  ASSUME NEW q, NEW percent \in Percents, NEW i \in Timed(q),
         IsAtOffset(q, Offset(Cardinality(Timed(q)), percent), i)
  PROVE  IsPercentile(Timed(q), percent, records[i].duration)
<1>. DEFINE n == Cardinality(Timed(q))
            k == Offset(n, percent)
            below == Cardinality({j \in Timed(q) : records[j].duration < records[i].duration})
            upTo == Cardinality({j \in Timed(q) : records[j].duration <= records[i].duration})
<1>1. n \in Nat /\ below \in Nat /\ upTo \in Nat
  BY Sizes, Selected
<1>2. k \in Nat /\ 100 * k <= n * percent /\ n * percent < 100 * k + 100
  BY <1>1, OffsetBounds
<1>3. below <= k /\ k < upTo
  BY DEF IsAtOffset
<1>4. n * percent \in Nat
  BY <1>1 DEF Percents
<1>5. 100 * below <= n * percent /\ 100 * upTo > n * percent
  <2>. HIDE DEF n, k, below, upTo
  <2>. QED
    BY <1>1, <1>2, <1>3, <1>4
<1>. QED
  BY <1>5 DEF IsPercentile

-----------------------------------------------------------------------------
(* The writers *)

\* All that a statement of another call does to a call in progress.
WriterStep ==
  /\ records' \in [Invocations -> Row \cup {None}]
  /\ \A i \in Invocations : records'[i] = records[i] \/ records'[i] = None \/ records[i] = None
  /\ functions' \subseteq Functions
  /\ Track
  /\ UNCHANGED read

LEMMA WritersStep ==
  ASSUME TypeOK,
         \/ \E i \in Invocations : Record(i)
         \/ \E cutoff \in Times : Cleanup(cutoff)
         \/ \E f \in Functions : DeleteFunction(f)
  PROVE  WriterStep
<1>1. CASE \E i \in Invocations : Record(i)
  BY <1>1 DEF Record, WriterStep, TypeOK
<1>2. CASE \E cutoff \in Times : Cleanup(cutoff)
  BY <1>2 DEF Cleanup, WriterStep, TypeOK
<1>3. CASE \E f \in Functions : DeleteFunction(f)
  BY <1>3 DEF DeleteFunction, WriterStep, TypeOK
<1>. QED
  BY <1>1, <1>2, <1>3

\* Nothing lost: what was selected is selected still.  Nothing come either: it
\* is the same rows.
LEMMA SelectionStands ==
  ASSUME TypeOK, WriterStep, Selecting, ~lost'
  PROVE  /\ ~lost
         /\ \A i \in Matching(read.query) : records'[i] = records[i]
         /\ Timed(read.query) \subseteq Timed(read.query)'
         /\ ~grown' => /\ ~grown
                       /\ Matching(read.query)' = Matching(read.query)
                       /\ Timed(read.query)' = Timed(read.query)
<1>. DEFINE q == read.query
<1>1. /\ read' = read /\ ~lost /\ \A i \in Matching(q) : records'[i] # None
      /\ ~grown' => ~grown /\ \A i \in Invocations :
           ~(records[i] = None /\ records'[i] # None /\ Matches(q, records'[i]))
  BY DEF WriterStep, Track
<1>2. \A i \in Matching(q) : records'[i] = records[i] /\ i \in Invocations /\ records[i] # None
  BY <1>1 DEF WriterStep, Matching
<1>3. Matching(q)' = {i \in Invocations : records'[i] # None /\ Matches(q, records'[i])}
  BY <1>1 DEF Matching, Matches
<1>4. Matching(q) \subseteq Matching(q)'
  BY <1>2, <1>3 DEF Matching
<1>5. Timed(q) \subseteq Timed(q)'
  BY <1>2, <1>4 DEF Timed
<1>6. ASSUME ~grown' PROVE Matching(q)' \subseteq Matching(q)
  <2>. SUFFICES ASSUME NEW i \in Invocations, records'[i] # None, Matches(q, records'[i])
                PROVE  i \in Matching(q)
    BY <1>3
  <2>1. records[i] # None
    BY <1>1, <1>6
  <2>2. records'[i] = records[i]
    BY <2>1 DEF WriterStep
  <2>. QED
    BY <2>1, <2>2 DEF Matching
<1>7. ASSUME ~grown' PROVE Timed(q)' \subseteq Timed(q)
  BY <1>2, <1>4, <1>6, <1>7 DEF Timed
<1>. QED
  BY <1>1, <1>2, <1>4, <1>5, <1>6, <1>7

\* A writer keeps the invariant.
LEMMA WriterKeeps == IInv /\ WriterStep => IInv'
<1>. SUFFICES ASSUME IInv, WriterStep PROVE IInv'
  OBVIOUS
<1>. DEFINE q == read.query
<1>0. read' = read /\ lost' \in BOOLEAN /\ grown' \in BOOLEAN
  BY DEF WriterStep, Track, IInv, TypeOK
<1>1. TypeOK'
  BY <1>0 DEF WriterStep, IInv, TypeOK, At
<1>2. CountStands'
  <2>. SUFFICES ASSUME read.pc \in {"p50", "p95", "p99"}, ~lost'
                PROVE  read.count <= Cardinality(Timed(q)')
    BY <1>0 DEF CountStands
  <2>1. ~lost /\ Timed(q) \subseteq Timed(q)'
    BY SelectionStands DEF Selecting, IInv
  <2>2. Timed(q)' \in SUBSET Invocations
    BY Selected, <1>0 DEF Timed, Matching
  <2>3. Cardinality(Timed(q)) <= Cardinality(Timed(q)')
    BY <2>1, <2>2, Sizes
  <2>4. Timed(q) \in SUBSET Invocations
    BY Selected
  <2>5. Cardinality(Timed(q)) \in Nat /\ Cardinality(Timed(q)') \in Nat /\ read.count \in Nat
    BY <2>2, <2>4, Sizes DEF IInv, TypeOK, Read
  <2>6. read.count <= Cardinality(Timed(q))
    BY <2>1 DEF IInv, CountStands
  <2>. QED
    BY <2>3, <2>5, <2>6
<1>3. ExactSoFar'
  <2>. SUFFICES ASSUME Selecting, ~lost', ~grown'
                PROVE  ExactSoFar'
    BY <1>0 DEF ExactSoFar, Selecting
  <2>1. /\ ~lost /\ ~grown /\ \A i \in Matching(q) : records'[i] = records[i]
        /\ Matching(q)' = Matching(q) /\ Timed(q)' = Timed(q)
    BY SelectionStands DEF IInv
  <2>2. {i \in Matching(q) : records'[i].success} = {i \in Matching(q) : records[i].success}
    BY <2>1
  <2>3. \A d : /\ {i \in Timed(q) : records'[i].duration <= d} = {i \in Timed(q) : records[i].duration <= d}
               /\ {i \in Timed(q) : records'[i].duration < d} = {i \in Timed(q) : records[i].duration < d}
               /\ \A i \in Timed(q) : records'[i].duration = records[i].duration
    BY <2>1, Selected
  <2>4. \A percent \in Percents : PercentileStands(percent)' <=> PercentileStands(percent)
    BY <1>0, <2>1, <2>3 DEF PercentileStands, IsPercentile
  <2>5. 50 \in Percents /\ 95 \in Percents
    BY DEF Percents
  <2>6. ExactSoFar
    BY DEF IInv
  <2>. QED
    BY <1>0, <2>1, <2>2, <2>4, <2>5, <2>6 DEF ExactSoFar, Selecting, At
<1>4. FailsOnlyOnLoss'
  BY <1>0 DEF IInv, FailsOnlyOnLoss, At, WriterStep, Track, Selecting
<1>5. Unanswered'
  BY <1>0 DEF IInv, Unanswered, At, WriterStep, Track, Selecting
<1>. QED
  BY <1>1, <1>2, <1>3, <1>4, <1>5 DEF IInv

-----------------------------------------------------------------------------
(* The call *)

\* A percentile is fetched.
LEMMA FetchKeeps ==
  ASSUME IInv, NEW pc \in {"p50", "p95", "p99"}, NEW percent \in Percents,
         NEW next \in {"p95", "p99", "done"}, Fetch(pc, percent, next),
         pc = "p50" => percent = 50 /\ next = "p95",
         pc = "p95" => percent = 95 /\ next = "p99",
         pc = "p99" => percent = 99 /\ next = "done"
  PROVE  IInv'
<1>. DEFINE q == read.query
            k == Offset(read.count, percent)
<1>0. /\ At(pc) /\ UNCHANGED <<functions, records, lost, grown>>
      /\ read \in Read /\ q \in Query /\ read.count \in Nat /\ read.count > 0
      /\ Cardinality(Timed(q)) \in Nat
  BY Sizes, Selected DEF Fetch, IInv, TypeOK, At, Read
<1>1. CASE k >= Cardinality(Timed(q)) /\ read' = [read EXCEPT !.pc = "failed"]
  <2>1. k \in Nat /\ k < read.count
    BY <1>0, OffsetBounds
  <2>2. lost
    <3>1. ~lost => read.count <= Cardinality(Timed(q))
      BY <1>0 DEF IInv, CountStands, At
    <3>. QED
      BY <1>0, <1>1, <2>1, <3>1
  <2>3. read'.pc = "failed" /\ read'.query = q /\ read' \in Read
    BY <1>0, <1>1 DEF Read
  <2>4. TypeOK'
    BY <1>0, <2>3 DEF IInv, TypeOK, At
  <2>. QED
    BY <1>0, <2>2, <2>3, <2>4 DEF IInv, CountStands, ExactSoFar, FailsOnlyOnLoss, Unanswered, Selecting, At
<1>2. ASSUME NEW i \in Timed(q), IsAtOffset(q, k, i),
             read' = [read EXCEPT !.pc = next, !.p[percent] = records[i].duration]
      PROVE  IInv'
  <2>1. records[i].duration \in Nat
    <3>1. i \in Invocations /\ records[i] # None /\ records[i].duration # None
      BY <1>2 DEF Timed, Matching
    <3>2. records[i] \in Row
      BY <3>1 DEF IInv, TypeOK
    <3>. QED
      BY <3>1, <3>2 DEF Row
  <2>2. /\ read'.pc = next /\ read'.query = q /\ read'.total = read.total
        /\ read'.succeeded = read.succeeded /\ read'.count = read.count
        /\ read'.p = [read.p EXCEPT ![percent] = records[i].duration]
    BY <1>0, <1>2 DEF Read
  <2>3. read' \in Read
    BY <1>0, <1>2, <2>1 DEF Read
  <2>4. TypeOK'
    BY <1>0, <2>2, <2>3 DEF IInv, TypeOK, At
  <2>5. Timed(q)' = Timed(q) /\ Matching(q)' = Matching(q)
    BY <1>0, <2>2 DEF Timed, Matching
  <2>6. CountStands'
    BY <1>0, <2>2, <2>5 DEF IInv, CountStands, At
  <2>7. ASSUME ~lost, ~grown PROVE ExactSoFar'
    <3>1. /\ read.total = Cardinality(Matching(q)) /\ read.count = Cardinality(Timed(q))
          /\ read.succeeded = Cardinality({j \in Matching(q) : records[j].success})
          /\ At("p95") \/ At("p99") => PercentileStands(50)
          /\ At("p99") => PercentileStands(95)
      BY <1>0, <2>7 DEF IInv, ExactSoFar, Selecting, At
    <3>2. IsPercentile(Timed(q), percent, records[i].duration)
      BY <1>2, <3>1, OffsetIsPercentile
    <3>3. /\ read'.p[percent] = records[i].duration
          /\ \A other \in Percents \ {percent} : read'.p[other] = read.p[other]
      BY <1>0, <2>2 DEF Read
    <3>4. PercentileStands(percent)'
      <4>. DEFINE d == records[i].duration
      <4>1. IsPercentile(Timed(q), percent, d)
        BY <3>2
      <4>2. read'.p[percent] = d
        BY <3>3
      <4>. HIDE DEF d
      <4>. QED
        BY <1>0, <2>2, <2>5, <4>1, <4>2 DEF PercentileStands, IsPercentile
    <3>5. \A other \in Percents \ {percent} : PercentileStands(other) => PercentileStands(other)'
      <4>. SUFFICES ASSUME NEW other \in Percents \ {percent}, PercentileStands(other)
                    PROVE  PercentileStands(other)'
        OBVIOUS
      <4>1. read'.p[other] = read.p[other]
        BY <3>3
      <4>. DEFINE d == read.p[other]
      <4>2. IsPercentile(Timed(q), other, d)
        BY DEF PercentileStands
      <4>. HIDE DEF d
      <4>3. read'.p[other] = d
        BY <4>1 DEF d
      <4>. QED
        BY <1>0, <2>2, <2>5, <4>2, <4>3 DEF PercentileStands, IsPercentile
    <3>. QED
      BY <1>0, <2>2, <2>5, <3>1, <3>4, <3>5 DEF ExactSoFar, At, Percents
  <2>. QED
    BY <1>0, <2>2, <2>4, <2>6, <2>7 DEF IInv, FailsOnlyOnLoss, Unanswered, ExactSoFar, At
<1>. QED
  BY <1>1, <1>2 DEF Fetch

\* Every step keeps the invariant.
LEMMA StepHolds == IInv /\ [Next]_vars => IInv'
<1>. SUFFICES ASSUME IInv, [Next]_vars PROVE IInv'
  OBVIOUS
<1>. DEFINE q == read.query
<1>a. read \in Read /\ functions \subseteq Functions /\ (~At("idle") => q \in Query)
  BY DEF IInv, TypeOK
<1>1. ASSUME NEW query \in Query, Call(query) PROVE IInv'
  <2>1. /\ read'.pc = "aggregate" /\ read'.query = query /\ read' \in Read
        /\ UNCHANGED <<functions, records, lost, grown>>
    BY <1>1 DEF Call, IdleRead, Read
  <2>2. TypeOK'
    BY <2>1 DEF IInv, TypeOK, At
  <2>3. read'.count = 0 /\ (\A percent \in Percents : read'.p[percent] = 0) /\ ~lost /\ ~grown
    BY <1>1 DEF Call, IdleRead, IInv, Unanswered, At
  <2>. QED
    BY <2>1, <2>2, <2>3 DEF IInv, CountStands, ExactSoFar, FailsOnlyOnLoss, Unanswered, Selecting, At
<1>2. CASE Aggregate
  <2>. DEFINE m == Matching(q)
              s == {i \in m : records[i].success}
  <2>1. Cardinality(m) \in Nat /\ Cardinality(s) \in Nat
    BY Sizes, Selected
  <2>2. /\ At("aggregate") /\ UNCHANGED <<functions, records, lost, grown>>
        /\ read' = [read EXCEPT !.pc = IF m = {} THEN "done" ELSE "count",
                                !.total = Cardinality(m), !.succeeded = Cardinality(s)]
    BY <1>2 DEF Aggregate
  <2>3. /\ read'.pc = IF m = {} THEN "done" ELSE "count"
        /\ read'.query = q /\ read'.total = Cardinality(m) /\ read'.succeeded = Cardinality(s)
        /\ read'.count = read.count /\ read'.p = read.p /\ read' \in Read
    <3>. HIDE DEF m, s
    <3>. QED
      BY <1>a, <2>1, <2>2 DEF Read
  <2>4. TypeOK'
    BY <1>a, <2>2, <2>3 DEF IInv, TypeOK, At
  <2>5. m' = m /\ s' = s /\ Timed(q)' = Timed(q)
    BY <2>2, <2>3 DEF Matching, Timed
  <2>6. m = {} => Cardinality(Timed(q)) = 0
    BY Selected, FS_EmptySet
  <2>7. ExactSoFar'
    <3>1. /\ read'.total = Cardinality(Matching(q)')
          /\ read'.succeeded = Cardinality({i \in Matching(q)' : records'[i].success})
      BY <2>3, <2>5
    <3>2. read.count = 0 /\ \A percent \in Percents : read.p[percent] = 0
      BY <2>2 DEF IInv, Unanswered, At
    <3>3. At("count")' \/ (At("done")' /\ Cardinality(Timed(q)') = 0)
      BY <2>3, <2>5, <2>6 DEF At
    <3>. QED
      BY <2>3, <3>1, <3>2, <3>3 DEF ExactSoFar, At
  <2>8. CountStands' /\ FailsOnlyOnLoss' /\ Unanswered'
    BY <2>2, <2>3 DEF IInv, CountStands, FailsOnlyOnLoss, Unanswered, At
  <2>. QED
    BY <2>4, <2>7, <2>8 DEF IInv
<1>3. CASE CountTimed
  <2>. DEFINE n == Cardinality(Timed(q))
  <2>1. n \in Nat
    BY Sizes, Selected
  <2>2. /\ At("count") /\ UNCHANGED <<functions, records, lost, grown>>
        /\ read' = [read EXCEPT !.pc = IF n = 0 THEN "done" ELSE "p50", !.count = n]
    BY <1>3 DEF CountTimed
  <2>3. /\ read'.pc = IF n = 0 THEN "done" ELSE "p50"
        /\ read'.query = q /\ read'.total = read.total /\ read'.succeeded = read.succeeded
        /\ read'.count = n /\ read'.p = read.p /\ read' \in Read
    <3>. HIDE DEF n
    <3>. QED
      BY <1>a, <2>1, <2>2 DEF Read
  <2>4. TypeOK'
    BY <1>a, <2>1, <2>2, <2>3 DEF IInv, TypeOK, At
  <2>5. Matching(q)' = Matching(q) /\ n' = n
    BY <2>2, <2>3 DEF Matching, Timed
  <2>6. ExactSoFar'
    <3>1. ~lost /\ ~grown =>
            /\ read.total = Cardinality(Matching(q))
            /\ read.succeeded = Cardinality({i \in Matching(q) : records[i].success})
      BY <2>2 DEF IInv, ExactSoFar, Selecting, At
    <3>2. {i \in Matching(q)' : records'[i].success} = {i \in Matching(q) : records[i].success}
      BY <2>2, <2>5
    <3>3. \A percent \in Percents : read.p[percent] = 0
      BY <2>2 DEF IInv, Unanswered, At
    <3>4. At("p50")' \/ (At("done")' /\ read'.count = 0)
      BY <2>3 DEF At
    <3>5. ~lost /\ ~grown =>
            /\ read'.total = Cardinality(Matching(q)')
            /\ read'.succeeded = Cardinality({i \in Matching(q)' : records'[i].success})
      BY <2>3, <2>5, <3>1, <3>2
    <3>6. read'.count = Cardinality(Timed(q)') /\ read'.query = q /\ read'.p = read.p
      BY <2>3, <2>5
    <3>. QED
      BY <2>2, <3>3, <3>4, <3>5, <3>6 DEF ExactSoFar, At
  <2>7. CountStands' /\ FailsOnlyOnLoss' /\ Unanswered'
    BY <2>1, <2>2, <2>3, <2>5 DEF IInv, CountStands, FailsOnlyOnLoss, Unanswered, At
  <2>. QED
    BY <2>4, <2>6, <2>7 DEF IInv
<1>4. CASE FetchP50 \/ FetchP95 \/ FetchP99
  BY <1>4, FetchKeeps DEF FetchP50, FetchP95, FetchP99, Percents
<1>5. CASE Return
  <2>1. read' = IdleRead /\ IdleRead \in Read /\ IdleRead.pc = "idle"
    BY <1>5 DEF Return, IdleRead, Read
  <2>2. TypeOK'
    BY <1>5, <2>1 DEF Return, IInv, TypeOK, At
  <2>. QED
    BY <1>5, <2>1, <2>2 DEF Return, IInv, CountStands, ExactSoFar, FailsOnlyOnLoss, Unanswered, Selecting, At, IdleRead
<1>6. CASE \/ \E i \in Invocations : Record(i)
           \/ \E cutoff \in Times : Cleanup(cutoff)
           \/ \E f \in Functions : DeleteFunction(f)
  BY <1>6, WritersStep, WriterKeeps DEF IInv
<1>7. CASE UNCHANGED vars
  <2>1. \A i \in Matching(q) : records'[i] # None
    BY <1>7 DEF vars, Matching
  <2>2. ~ \E i \in Invocations : records[i] = None /\ records'[i] # None /\ Matches(q, records'[i])
    BY <1>7 DEF vars
  <2>3. lost' = lost /\ grown' = grown /\ lost \in BOOLEAN /\ grown \in BOOLEAN
    BY <1>7 DEF vars, IInv, TypeOK
  <2>4. Track
    BY <2>1, <2>2, <2>3 DEF Track
  <2>5. WriterStep
    BY <1>7, <2>4 DEF vars, WriterStep, IInv, TypeOK
  <2>. QED
    BY <2>5, WriterKeeps
<1>. QED
  BY <1>1, <1>2, <1>3, <1>4, <1>5, <1>6, <1>7 DEF Next

\* No call has begun and the table is empty.
LEMMA InitHolds == Init => IInv
<1>. SUFFICES ASSUME Init PROVE IInv
  OBVIOUS
<1>1. read = IdleRead /\ IdleRead \in Read /\ IdleRead.pc = "idle" /\ IdleRead.count = 0
  BY DEF Init, IdleRead, Read
<1>2. TypeOK
  BY <1>1 DEF Init, TypeOK, At
<1>3. \A percent \in Percents : read.p[percent] = 0
  BY <1>1 DEF IdleRead
<1>. QED
  BY <1>1, <1>2, <1>3 DEF Init, IInv, CountStands, ExactSoFar, FailsOnlyOnLoss, Unanswered, Selecting, At

LEMMA Invariance == Spec => []IInv
BY InitHolds, StepHolds, PTL DEF Spec

-----------------------------------------------------------------------------
(* Theorems *)

\* Table and call keep their types.
THEOREM TypeCorrect == Spec => []TypeOK
<1>1. IInv => TypeOK
  BY DEF IInv
<1>. QED
  BY <1>1, Invariance, PTL

\* The metrics fail only when counted records were removed meanwhile: no offset
\* points behind the records it was computed from.
THEOREM FailureNeedsLoss == Spec => []FailsOnlyOnLoss
<1>1. IInv => FailsOnlyOnLoss
  BY DEF IInv
<1>. QED
  BY <1>1, Invariance, PTL

\* A call that nothing interfered with answers the counts and the percentiles of
\* the records it was asked about, for tables of any size.
THEOREM QuietReadsAreExact == Spec => []QuietReadExact
<1>1. IInv => QuietReadExact
  <2>. SUFFICES ASSUME IInv, At("done"), ~lost, ~grown
                PROVE  QuietReadExact
    BY DEF QuietReadExact
  <2>. DEFINE m == Matching(read.query)
              timed == {i \in m : records[i].duration # None}
  <2>1. timed = Timed(read.query)
    BY DEF Timed
  <2>2. /\ read.total = Cardinality(m)
        /\ read.succeeded = Cardinality({i \in m : records[i].success})
        /\ read.count = Cardinality(timed)
        /\ read.count = 0 => \A percent \in Percents : read.p[percent] = 0
        /\ read.count > 0 => \A percent \in Percents : PercentileStands(percent)
    BY <2>1 DEF IInv, ExactSoFar, Selecting, At
  <2>3. Cardinality(timed) \in Nat /\ (Cardinality(timed) = 0 <=> timed = {})
    BY <2>1, Selected, Sizes, FS_EmptySet
  <2>4. ASSUME NEW percent \in Percents
        PROVE  IF timed = {} THEN read.p[percent] = 0 ELSE IsPercentile(timed, percent, read.p[percent])
    <3>1. CASE timed = {}
      BY <2>2, <2>3, <3>1
    <3>2. CASE timed # {}
      <4>1. PercentileStands(percent)
        BY <2>2, <2>3, <3>2
      <4>. QED
        BY <2>1, <3>2, <4>1 DEF PercentileStands
    <3>. QED
      BY <3>1, <3>2
  <2>. QED
    BY <2>2, <2>4 DEF QuietReadExact
<1>. QED
  BY <1>1, Invariance, PTL

===============================================================================
