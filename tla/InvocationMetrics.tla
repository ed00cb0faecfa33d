--------------------------- MODULE InvocationMetrics ---------------------------
(***************************************************************************)
(* MetricsCollector over the table invocations.  get_function_metrics is   *)
(* one SELECT for the counts, another for the number of durations, and one *)
(* SELECT ... ORDER BY duration_ms LIMIT 1 OFFSET k for each percentile;   *)
(* records are written, cleaned up and deleted with their function between *)
(* them.                                                                   *)
(***************************************************************************)
EXTENDS Integers, FiniteSets

CONSTANTS
  Invocations,  \* ids of invocations
  Functions,
  Durations,    \* values of duration_ms
  Times,        \* values of started_at
  None          \* NULL, and a parameter that is not given

VARIABLES
  functions,  \* ids in table functions
  records,    \* table invocations: per id its row, or None
  read,       \* a call of get_function_metrics, where it stands and its locals
  lost,       \* history: since the first SELECT of `read`, a record that matches has gone
  grown       \* history: and one that matches has come

vars == <<functions, records, read, lost, grown>>

-----------------------------------------------------------------------------
(* The table and what a call selects from it *)

\* cold_start, memory and the average are counted and summed like success, in
\* the same statement.
Row == [function : Functions, success : BOOLEAN, duration : Durations \cup {None}, started : Times]

ASSUME MetricsAssumption ==
  /\ IsFiniteSet(Invocations)
  /\ Durations \subseteq Nat /\ Times \subseteq Nat
  /\ None \notin Durations /\ None \notin Row

\* The parameters of a call: function_id, start_time, end_time.
Query == [function : Functions, start : Times \cup {None}, end : Times \cup {None}]

\* The WHERE clause: both ends of the range belong to it.
Matches(q, row) ==
  /\ row.function = q.function
  /\ q.start # None => row.started >= q.start
  /\ q.end # None => row.started <= q.end

Matching(q) == {i \in Invocations : records[i] # None /\ Matches(q, records[i])}

\* Mutant: the range is left out of the conditions.
TimedAlways(q) ==
  {i \in Invocations :
     records[i] # None /\ records[i].function = q.function /\ records[i].duration # None}

Timed(q) == {i \in Matching(q) : records[i].duration # None}

\* Mutant: rounded up.
OffsetUp(n, percent) == (n * percent + 99) \div 100

\* (total_count as f64 * 0.95) as i64 cuts off; the rounding of the product does
\* not cross an integer.
Offset(n, percent) == (n * percent) \div 100

\* Row number k, counted from 0, in the order of durations; rows of one duration
\* come in any order.
IsAtOffset(q, k, i) ==
  /\ Cardinality({j \in Timed(q) : records[j].duration < records[i].duration}) <= k
  /\ k < Cardinality({j \in Timed(q) : records[j].duration <= records[i].duration})

-----------------------------------------------------------------------------
(* A call of get_function_metrics *)

Percents == {50, 95, 99}

Read ==
  [ pc : {"idle", "aggregate", "count", "p50", "p95", "p99", "done", "failed"},
    query : Query \cup {None}, total : Nat, succeeded : Nat, count : Nat, p : [Percents -> Nat] ]

IdleRead ==
  [ pc |-> "idle", query |-> None, total |-> 0, succeeded |-> 0, count |-> 0,
    p |-> [percent \in Percents |-> 0] ]

At(pc) == read.pc = pc
Selecting == read.pc \in {"count", "p50", "p95", "p99", "done"}

\* LambdaExec::get_metrics has found the function.
Call(q) ==
  /\ At("idle")
  /\ q.function \in functions
  /\ read' = [IdleRead EXCEPT !.pc = "aggregate", !.query = q]
  /\ UNCHANGED <<functions, records, lost, grown>>

\* Without records the answer is all zeros.
Aggregate ==
  /\ At("aggregate")
  /\ LET m == Matching(read.query)
     IN  read' = [read EXCEPT !.pc = IF m = {} THEN "done" ELSE "count",
                              !.total = Cardinality(m),
                              !.succeeded = Cardinality({i \in m : records[i].success})]
  /\ UNCHANGED <<functions, records, lost, grown>>

\* Mutant: the offsets are computed whether there are durations or not.
CountTimedUnchecked ==
  /\ At("count")
  /\ read' = [read EXCEPT !.pc = "p50", !.count = Cardinality(Timed(read.query))]
  /\ UNCHANGED <<functions, records, lost, grown>>

\* Without durations the percentiles are zeros.
CountTimed ==
  /\ At("count")
  /\ LET n == Cardinality(Timed(read.query))
     IN  read' = [read EXCEPT !.pc = IF n = 0 THEN "done" ELSE "p50", !.count = n]
  /\ UNCHANGED <<functions, records, lost, grown>>

\* fetch_one: with no row left at the offset it is an error.
Fetch(pc, percent, next) ==
  /\ At(pc)
  /\ LET k == Offset(read.count, percent)
     IN  \/ /\ k >= Cardinality(Timed(read.query))
            /\ read' = [read EXCEPT !.pc = "failed"]
         \/ \E i \in Timed(read.query) :
              /\ IsAtOffset(read.query, k, i)
              /\ read' = [read EXCEPT !.pc = next, !.p[percent] = records[i].duration]
  /\ UNCHANGED <<functions, records, lost, grown>>

FetchP50 == Fetch("p50", 50, "p95")
FetchP95 == Fetch("p95", 95, "p99")
FetchP99 == Fetch("p99", 99, "done")

\* The answer is on its way, or the caller drops the stream at an await.
Return ==
  /\ ~At("idle")
  /\ read' = IdleRead
  /\ lost' = FALSE /\ grown' = FALSE
  /\ UNCHANGED <<functions, records>>

-----------------------------------------------------------------------------
(* The writers of the table, one statement each *)

\* What a statement does to the records the call is selecting from.
Track ==
  IF Selecting
  THEN /\ lost' = (lost \/ \E i \in Matching(read.query) : records'[i] = None)
       /\ grown' = (grown \/ \E i \in Invocations :
                               /\ records[i] = None /\ records'[i] # None
                               /\ Matches(read.query, records'[i]))
  ELSE UNCHANGED <<lost, grown>>

\* record_invocation: the primary key and the foreign key hold.
Record(i) ==
  /\ records[i] = None
  /\ \E row \in Row : row.function \in functions /\ records' = [records EXCEPT ![i] = row]
  /\ Track
  /\ UNCHANGED <<functions, read>>

\* cleanup_old_records.
Cleanup(cutoff) ==
  /\ records' = [i \in Invocations |->
       IF records[i] # None /\ records[i].started < cutoff THEN None ELSE records[i]]
  /\ Track
  /\ UNCHANGED <<functions, read>>

\* delete_function: the records go with it.
DeleteFunction(f) ==
  /\ f \in functions
  /\ functions' = functions \ {f}
  /\ records' = [i \in Invocations |->
       IF records[i] # None /\ records[i].function = f THEN None ELSE records[i]]
  /\ Track
  /\ UNCHANGED read

-----------------------------------------------------------------------------

Init ==
  /\ functions = Functions
  /\ records = [i \in Invocations |-> None]
  /\ read = IdleRead
  /\ lost = FALSE /\ grown = FALSE

Next ==
  \/ \E q \in Query : Call(q)
  \/ Aggregate \/ CountTimed \/ FetchP50 \/ FetchP95 \/ FetchP99 \/ Return
  \/ \E i \in Invocations : Record(i)
  \/ \E cutoff \in Times : Cleanup(cutoff)
  \/ \E f \in Functions : DeleteFunction(f)

Spec == Init /\ [][Next]_vars

-----------------------------------------------------------------------------
(* Properties *)

TypeOK ==
  /\ functions \subseteq Functions
  /\ records \in [Invocations -> Row \cup {None}]
  /\ read \in Read
  /\ ~At("idle") => read.query \in Query
  /\ read.pc \in {"p50", "p95", "p99"} => read.count > 0
  /\ lost \in BOOLEAN /\ grown \in BOOLEAN

\* A percentile of these records, whatever the code's way to it: one of them has
\* this duration, more than percent in a hundred have at most that, and no more
\* than that have less.
IsPercentile(timed, percent, d) ==
  LET allowed == Cardinality(timed) * percent
  IN  /\ \E i \in timed : records[i].duration = d
      /\ 100 * Cardinality({i \in timed : records[i].duration <= d}) > allowed
      /\ 100 * Cardinality({i \in timed : records[i].duration < d}) <= allowed

\* Metrics whose five statements saw the same records are those of the records:
\* counts and percentiles belong together, and zeros mean that there was nothing.
QuietReadExact ==
  At("done") /\ ~lost /\ ~grown =>
    LET m == Matching(read.query)
        timed == {i \in m : records[i].duration # None}
    IN  /\ read.total = Cardinality(m)
        /\ read.succeeded = Cardinality({i \in m : records[i].success})
        /\ \A percent \in Percents :
             IF timed = {} THEN read.p[percent] = 0 ELSE IsPercentile(timed, percent, read.p[percent])

\* The call fails only when records were removed while it ran, never because an
\* offset points behind the last of the records it has counted.
FailsOnlyOnLoss == At("failed") => lost

\* Why: what was counted is still there as long as nothing was lost, and what
\* was answered so far is exact as long as nothing came either.
CountStands ==
  read.pc \in {"p50", "p95", "p99"} /\ ~lost => read.count <= Cardinality(Timed(read.query))

PercentileStands(percent) == IsPercentile(Timed(read.query), percent, read.p[percent])

ExactSoFar ==
  Selecting /\ ~lost /\ ~grown =>
    /\ read.total = Cardinality(Matching(read.query))
    /\ read.succeeded = Cardinality({i \in Matching(read.query) : records[i].success})
    /\ ~At("count") => read.count = Cardinality(Timed(read.query))
    /\ At("count") \/ At("p50") \/ read.count = 0 => \A percent \in Percents : read.p[percent] = 0
    /\ At("p95") \/ At("p99") => PercentileStands(50)
    /\ At("p99") => PercentileStands(95)
    /\ At("done") /\ read.count > 0 => \A percent \in Percents : PercentileStands(percent)

Unanswered ==
  read.pc \in {"idle", "aggregate", "count", "p50"} =>
    /\ \A percent \in Percents : read.p[percent] = 0
    /\ ~At("p50") => read.count = 0
    /\ read.pc \in {"idle", "aggregate"} => ~lost /\ ~grown

IInv == TypeOK /\ Unanswered /\ CountStands /\ ExactSoFar /\ FailsOnlyOnLoss

===============================================================================
