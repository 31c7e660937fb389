---------------------------- MODULE StreamingLabels ----------------------------
(***************************************************************************)
(* The same labels made from files too long for memory: phase 4.2H         *)
(* (bot/app/research/phase42h_streaming.py) reads every file line by line, *)
(* keeps the events in a table, finds a label's future with a query and    *)
(* counts as it goes.                                                      *)
(***************************************************************************)
EXTENDS TimeProtocol

-----------------------------------------------------------------------------
(* Reading. *)

NoIngest == [count |-> 0, valid |-> 0, invalid |-> 0, first |-> NoValue, last |-> NoValue,
             previous |-> NoValue, backwards |-> 0, gaps |-> << >>, over |-> 0,
             overTotal |-> 0, dated |-> 0]

\* _record_reference_stats
RecordReference(stats, event) ==
  LET gap == event.ts - stats.previous
      forward == stats.previous # NoValue /\ gap >= 0
      wide == forward /\ gap > MaxReferenceGap
  IN  [stats EXCEPT
         !.valid = @ + 1,
         !.first = IF @ = NoValue THEN event.ts ELSE @,
         !.last = IF @ = NoValue THEN event.ts ELSE Max({@, event.ts}),
         !.backwards = IF stats.previous # NoValue /\ gap < 0 THEN @ + 1 ELSE @,
         !.gaps = IF forward THEN Append(@, gap) ELSE @,
         !.over = IF wide THEN @ + 1 ELSE @,
         !.overTotal = IF wide THEN @ + gap - MaxReferenceGap ELSE @,
         !.previous = event.ts,
         !.dated = IF HasExchangeTime(event) THEN @ + 1 ELSE @]

\* A line was read; it was refused.
CountedLine(stats) == [stats EXCEPT !.count = @ + 1]

RefusedLine(stats) == [CountedLine(stats) EXCEPT !.invalid = @ + 1]

\* One line of a feed in _ingest_reference_file.
IngestReference(acc, line) ==
  IF IsReference(line)
    THEN [stats |-> RecordReference(CountedLine(acc.stats), line),
          table |-> Append(acc.table, line)]
    ELSE [acc EXCEPT !.stats = RefusedLine(@)]

\* _ingest_reference_file: the statistics and the table of one feed.
IngestReferenceFile(file) ==
  Folded(IngestReference, [stats |-> NoIngest, table |-> << >>],
         IF file = NoFile THEN << >> ELSE file)

\* One line of the samples in _ingest_clean_samples: a bad one is left out.  The
\* events of the depth source are not counted, only the valid ones are.
IngestSample(acc, line) ==
  IF line = Torn THEN [acc EXCEPT !.invalid = @ + 1]
  ELSE IF ~IsClean(line) THEN [acc EXCEPT !.objects = @ + 1, !.invalid = @ + 1]
  ELSE [acc EXCEPT !.objects = @ + 1, !.samples = Append(@, line),
                   !.dated = IF line.exchange # NoValue THEN @ + 1 ELSE @,
                   !.stats = RecordReference(@, DepthReferenceEvent(line)),
                   !.table = Append(@, DepthReferenceEvent(line))]

\* _ingest_clean_samples: what is good is used, whatever else is in the file.
IngestCleanSamples(file) ==
  Folded(IngestSample, [samples |-> << >>, objects |-> 0, invalid |-> 0, dated |-> 0,
                        stats |-> NoIngest, table |-> << >>],
         IF file = NoFile THEN << >> ELSE file)

\* The failure classification _ingest_clean_samples ends with.
IngestFailure(file, clean) ==
  IF file = NoFile THEN "INPUT_FILE_MISSING"
  ELSE IF clean.objects = 0 THEN "INPUT_EMPTY"
  ELSE IF clean.invalid > 0 THEN "INPUT_SCHEMA_FAILURE" ELSE NoReason

\* _build_streaming_timestamp_schema
StreamingSchema(clean, stats) ==
  [s \in Source |->
     [supported |-> clean.dated > 0 /\ stats[s].dated > 0,
      reason |-> IF clean.dated = 0 THEN "missing_feature_exchange_timestamp"
                 ELSE IF stats[s].dated = 0 THEN "missing_exchange_timestamp" ELSE NoReason]]

-----------------------------------------------------------------------------
(* Queries. *)

\* EventStore.first_by_local_ts: ORDER BY local_ts, in a table kept in insertion order.
FirstByLocal(table, target) ==
  LET rows == {k \in DOMAIN table : table[k].ts >= target}
  IN  IF rows = {} THEN NoIndex
      ELSE CHOOSE k \in rows : \A j \in rows :
             \/ table[k].ts < table[j].ts
             \/ table[k].ts = table[j].ts /\ k <= j

\* Mutant of FirstByExchange: the latest received of the earliest.
LastByExchange(table, target) ==
  LET rows == {k \in DOMAIN table : HasExchangeTime(table[k]) /\ ExchangeTime(table[k]) >= target}
  IN  IF rows = {} THEN NoIndex
      ELSE CHOOSE k \in rows : \A j \in rows :
             \/ ExchangeTime(table[k]) < ExchangeTime(table[j])
             \/ ExchangeTime(table[k]) = ExchangeTime(table[j]) /\ table[k].ts >= table[j].ts

\* EventStore.first_by_exchange_ts: ORDER BY exchange_ts, local_ts
FirstByExchange(table, target) ==
  LET rows == {k \in DOMAIN table : HasExchangeTime(table[k]) /\ ExchangeTime(table[k]) >= target}
      key(k) == ExchangeTime(table[k])
  IN  IF rows = {} THEN NoIndex
      ELSE CHOOSE k \in rows : \A j \in rows :
             \/ key(k) < key(j)
             \/ key(k) = key(j) /\ table[k].ts < table[j].ts
             \/ key(k) = key(j) /\ table[k].ts = table[j].ts /\ k <= j

\* local_bisect_left, local_bisect_right and exchange_bisect_left count rows;
\* a position counts from one.
LocalBefore(table, t) == Cardinality({k \in DOMAIN table : table[k].ts < t}) + 1

LocalUpTo(table, t) == Cardinality({k \in DOMAIN table : table[k].ts <= t}) + 1

ExchangeBefore(table, t) ==
  Cardinality({k \in DOMAIN table : HasExchangeTime(table[k]) /\ ExchangeTime(table[k]) < t}) + 1

-----------------------------------------------------------------------------
(* Labels. *)

\* _build_streaming_reference_label with _complete_reference_like_label
StreamReferenceLabel(sample, table) ==
  LET target == sample.ts + LabelMs
      base == [Unmatched(target, NoReason) EXCEPT !.first = LocalUpTo(table, sample.ts)]
      k == FirstByLocal(table, target)
  IN  IF SampleMid(sample) <= 0 THEN [base EXCEPT !.reason = "CURRENT_MID_INVALID"]
      ELSE IF k = NoIndex THEN [base EXCEPT !.reason = "NO_FUTURE_REFERENCE"]
      ELSE Judged(Matched(base, LocalBefore(table, target), table[k].ts, table[k]),
                  SampleMid(sample))

\* _build_streaming_receive_time_label: the same label, marked eligible when found.
StreamReceiveTimeLabel(sample, table) ==
  LET label == StreamReferenceLabel(sample, table)
  IN  [label EXCEPT !.eligible = label.index # NoIndex]

\* _build_streaming_exchange_time_label
StreamExchangeTimeLabel(sample, table, schema) ==
  LET target == IF sample.exchange = NoValue THEN NoValue ELSE sample.exchange + LabelMs
      base == [Unmatched(target, NoReason) EXCEPT
                 !.featureLag = ReceiveLag(sample.wall, sample.exchange),
                 !.featureLocal = sample.ts]
      k == FirstByExchange(table, target)
      future == ExchangeTime(table[k])
  IN  IF ~schema.supported THEN [base EXCEPT !.reason = schema.reason]
      ELSE IF target = NoValue
        THEN [base EXCEPT !.reason = "FEATURE_EXCHANGE_TIMESTAMP_MISSING"]
      ELSE IF SampleMid(sample) <= 0 THEN [base EXCEPT !.reason = "CURRENT_MID_INVALID"]
      ELSE IF k = NoIndex THEN [base EXCEPT !.reason = "NO_FUTURE_REFERENCE"]
      ELSE Judged([Matched(base, ExchangeBefore(table, target), future, table[k]) EXCEPT
                     !.eligible = TRUE, !.futureLag = ReceiveLag(table[k].wall, future)],
                  SampleMid(sample))

\* _build_streaming_label_rows
StreamLabelRow(sample, tables, schema, summary) ==
  [s \in Source |->
     LET exchange == StreamExchangeTimeLabel(sample, tables[s], schema[s])
     IN  [reference |-> StreamReferenceLabel(sample, tables[s]),
          receive |-> StreamReceiveTimeLabel(sample, tables[s]),
          exchange |-> exchange,
          hybrid |-> [b \in Budget |-> BuildHybridLabel(exchange, b)],
          corrected |-> [b \in Budget |-> BuildCorrectedHybridLabel(exchange, b, summary)]]]

-----------------------------------------------------------------------------
(* Counting. *)

NoCount == [total |-> 0, eligible |-> 0, valid |-> 0, reasons |-> [r \in {} |-> 0],
            gaps |-> << >>, feature |-> << >>, future |-> << >>]

Kept(values, v) == IF v = NoValue THEN values ELSE Append(values, v)

\* reasons[reason] += 1, of a Counter
Counted(reasons, reason) ==
  [r \in DOMAIN reasons \cup {reason} |-> Count(reasons, r) + (IF r = reason THEN 1 ELSE 0)]

Observed(count, label) ==
  [count EXCEPT !.total = @ + 1, !.eligible = IF label.eligible THEN @ + 1 ELSE @,
                !.valid = IF label.valid THEN @ + 1 ELSE @,
                !.reasons = IF label.valid THEN @ ELSE Counted(@, label.reason)]

\* ProtocolMetricAccumulator
ObserveProtocol(count, label) ==
  [Observed(count, label) EXCEPT !.gaps = Kept(@, label.gap)]

\* HybridMetricAccumulator
ObserveHybrid(count, label) ==
  [Observed(count, label) EXCEPT !.feature = Kept(@, label.featureLag),
                                 !.future = Kept(@, label.futureLag)]

\* ProtocolMetricAccumulator.result
ProtocolResult(count) ==
  [total |-> count.total, eligible |-> count.eligible, valid |-> count.valid,
   reasons |-> count.reasons, p50 |-> Percentile(count.gaps, 50),
   p95 |-> Percentile(count.gaps, 95)]

\* HybridMetricAccumulator.result
HybridResult(count) ==
  [total |-> count.total, eligible |-> count.eligible, valid |-> count.valid,
   reasons |-> count.reasons, feature95 |-> Percentile(count.feature, 95),
   future95 |-> Percentile(count.future, 95)]

\* StreamingLeakageAccumulator, which looks at every label, not only the valid ones.
StreamLeaks(rows, s) ==
  {at \in (DOMAIN rows) \X {"receive", "exchange"} :
     LET label == rows[at[1]][s][at[2]]
     IN  label.future # NoValue /\ label.future < label.target}

\* The results of the accumulators that saw these labels, row by row (_observe_labels).
ProtocolTotals(labels) == ProtocolResult(Folded(ObserveProtocol, NoCount, labels))

HybridTotals(labels) == HybridResult(Folded(ObserveHybrid, NoCount, labels))

\* _build_streaming_source_reports
StreamSourceReport(rows, s, schema) ==
  [supported |-> schema[s].supported,
   receive |-> ProtocolTotals([i \in DOMAIN rows |-> rows[i][s].receive]),
   exchange |-> ProtocolTotals([i \in DOMAIN rows |-> rows[i][s].exchange]),
   hybrid |-> [b \in Budget |-> HybridTotals([i \in DOMAIN rows |-> rows[i][s].hybrid[b]])],
   corrected |-> [b \in Budget |-> HybridTotals([i \in DOMAIN rows |-> rows[i][s].corrected[b]])]]

\* run_phase42h_streaming_finalization
StreamFinalization(file, feeds, summary) ==
  LET clean == IngestCleanSamples(file)
      feed == [f \in Feed |-> IngestReferenceFile(feeds[f])]
      stats == [s \in Source |-> IF s = Depthmid THEN clean.stats ELSE feed[s].stats]
      tables == [s \in Source |-> IF s = Depthmid THEN clean.table ELSE feed[s].table]
      schema == StreamingSchema(clean, stats)
      rows == [i \in DOMAIN clean.samples |->
                 StreamLabelRow(clean.samples[i], tables, schema, summary)]
  IN  [rows |-> rows, samples |-> clean.samples, failure |-> IngestFailure(file, clean),
       stats |-> stats, leaks |-> [s \in Source |-> StreamLeaks(rows, s)],
       reports |-> [s \in Source |-> StreamSourceReport(rows, s, schema)]]

=============================================================================
