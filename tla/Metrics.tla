-------------------------------- MODULE Metrics --------------------------------
(***************************************************************************)
(* The report over ingestion_log of GET /monitoring/metrics                *)
(* (core/database/queries.py): counts, latencies, and the timing of the    *)
(* stages a message went through.  Times are in milliseconds, averages and *)
(* percentiles are compared without rounding.                              *)
(***************************************************************************)
EXTENDS FiniteSetsExt, Selections

CONSTANTS
  RowKinds, \* the rows that may be logged: [status, source, timing]
  MaxRows   \* bound: rows within the period

Stamps == {"gateway_ingested", "normalizer_started", "normalizer_completed",
           "persister_started", "persister_completed"}

\* a stamp that metadata does not have
Absent == -1

ASSUME MetricsAssumption ==
  /\ \A row \in RowKinds :
       row.status \in {"success", "failed"} /\ row.timing \in [Stamps -> Nat \cup {Absent}]
  /\ MaxRows \in Nat

VARIABLE rows  \* ingestion_log within the period

InitRows == rows = <<>>

\* the persister commits one more row
LogRow ==
  /\ Len(rows) < MaxRows
  /\ \E row \in RowKinds : rows' = Append(rows, row)

-----------------------------------------------------------------------------
(* The report.                                                             *)

Missing == -1000000  \* a duration that cannot be computed

Between(timing, from, to) ==
  IF timing[from] # Absent /\ timing[to] # Absent THEN timing[to] - timing[from] ELSE Missing

\* _calculate_timing_breakdown
Breakdown(timing) ==
  [gateway |-> Between(timing, "gateway_ingested", "normalizer_started"),
   normalizer |-> Between(timing, "normalizer_started", "normalizer_completed"),
   persister |-> Between(timing, "persister_started", "persister_completed"),
   total |-> Between(timing, "gateway_ingested", "persister_completed")]

Total(row) == Breakdown(row.timing).total

\* neither a duration that is missing nor one of zero counts
latencies ==
  LET totals == [i \in DOMAIN rows |-> Total(rows[i])]
  IN  Pick(totals, {i \in DOMAIN rows : totals[i] \notin {Missing, 0}})

\* sorted(s); SortSeq is a function of TLC's own
Sorted(s) ==
  LET Ascends(p) == \A i, k \in DOMAIN s : i < k => s[p[i]] <= s[p[k]]
      order == CHOOSE p \in Bijection(DOMAIN s, DOMAIN s) : Ascends(p)
  IN  [i \in DOMAIN s |-> s[order[i]]]

SumOf(s) ==
  LET upTo[k \in 0..Len(s)] == IF k = 0 THEN 0 ELSE upTo[k - 1] + s[k] IN upTo[Len(s)]

\* mutation of Percentile: the weights of the two ranks swapped
PercentileSwapped(sorted, percent) ==
  IF sorted = <<>> THEN 0 ELSE
  LET rank == percent * (Len(sorted) - 1)
      lower == rank \div 100 + 1
      next == Min({lower + 1, Len(sorted)})
      weight == rank % 100
  IN sorted[lower] * weight + sorted[next] * (100 - weight)

\* 100 times _percentile, with linear interpolation between two ranks
Percentile(sorted, percent) ==
  IF sorted = <<>> THEN 0 ELSE
  LET rank == percent * (Len(sorted) - 1)
      lower == rank \div 100 + 1
      next == Min({lower + 1, Len(sorted)})
      weight == rank % 100
  IN sorted[lower] * (100 - weight) + sorted[next] * weight

Figures(some) ==
  [total |-> Cardinality(some),
   successful |-> Cardinality({i \in some : rows[i].status = "success"}),
   failed |-> Cardinality({i \in some : rows[i].status = "failed"})]

\* at the top a failure is called one, by source it is what is no success
SourceFigures(some) ==
  [Figures(some) EXCEPT !.failed = Cardinality({i \in some : rows[i].status # "success"})]

report ==
  [figures |-> Figures(DOMAIN rows),
   per_source |-> [s \in {rows[i].source : i \in DOMAIN rows} |->
                     SourceFigures({i \in DOMAIN rows : rows[i].source = s})],
   sum |-> SumOf(latencies),
   p95 |-> Percentile(Sorted(latencies), 95),
   p99 |-> Percentile(Sorted(latencies), 99)]

-----------------------------------------------------------------------------
(* Properties.                                                             *)

\* one figure, source by source in some order
OfEach(order, figure) == [k \in DOMAIN order |-> report.per_source[order[k]][figure]]

\* The sources add up to the whole (queries.py:98-125).
SourcesAddUp ==
  LET sources == DOMAIN report.per_source IN
  \A figure \in {"total", "successful", "failed"},
     order \in Bijection(1..Cardinality(sources), sources) :
    SumOf(OfEach(order, figure)) = report.figures[figure]

\* Average and percentiles lie between the shortest and the longest latency and in their
\* order, however few rows there are, and although clocks of two containers may give
\* a negative one; and no percentile is beyond what its share of the rows took
\* (queries.py:135-138, 292-314).
PercentilesInOrder ==
  LET n == Len(latencies) IN
  n > 0 =>
    \E first, last \in {latencies[i] : i \in 1..n} :
      /\ \A i \in 1..n : first <= latencies[i] /\ latencies[i] <= last
      /\ first * n <= report.sum /\ report.sum <= last * n
      /\ first * 100 <= report.p95 /\ report.p95 <= report.p99 /\ report.p99 <= last * 100
      /\ \A p \in {<<95, report.p95>>, <<99, report.p99>>} :
           Cardinality({i \in 1..n : latencies[i] * 100 <= p[2]}) * 100 >= p[1] * (n - 1)

\* No stage of a message whose stamps are in order takes longer than the whole
\* (queries.py:252-274).
StagesWithinWhole ==
  \A i \in DOMAIN rows :
    LET b == Breakdown(rows[i].timing)
        t == rows[i].timing
        ordered == /\ Absent \notin {t[s] : s \in Stamps}
                   /\ t.gateway_ingested <= t.normalizer_started
                   /\ t.normalizer_started <= t.normalizer_completed
                   /\ t.normalizer_completed <= t.persister_started
                   /\ t.persister_started <= t.persister_completed
    IN ordered => b.gateway + b.normalizer + b.persister <= b.total

\* The figures of a report agree with each other and with the rows.
ReportIsCoherent == SourcesAddUp /\ PercentilesInOrder /\ StagesWithinWhole
=============================================================================
