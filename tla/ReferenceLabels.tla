--------------------------- MODULE ReferenceLabels ---------------------------
(***************************************************************************)
(* Labels taken from a second feed: the quotes of phase 4.2B               *)
(* (bot/app/research/bookticker_reference.py) and the reference feeds of   *)
(* phase 4.2C (reference_feed_benchmark.py), as functions of the files a   *)
(* capture left.                                                           *)
(*                                                                         *)
(* A reference line is torn or a row: its receive time (ts, the monotonic  *)
(* clock), the wall clock at that moment, the exchange's trade and event   *)
(* times, bid and ask, and the quality flag its parser gave it.  A clean   *)
(* sample has the same two local clocks and the event time of its update.  *)
(***************************************************************************)
EXTENDS LabeledDataset, Bags

CONSTANTS
  Feed,             \* the reference sources that are files of their own
  LabelMs,          \* the horizon of a reference label (HORIZON_MS)
  MaxReferenceGap,  \* how late a reference may be (REQUIRED_100MS_MAX_FUTURE_GAP_MS)
  RequiredRate      \* percent of the eligible rows (REQUIRED_100MS_VALID_RATE)

Depthmid == "depth_mid"
Source == Feed \cup {Depthmid}      \* REFERENCE_SOURCES

ASSUME ReferenceAssumption ==
  /\ IsFiniteSet(Feed) /\ Feed # {} /\ Depthmid \notin Feed
  /\ LabelMs \in Nat \ {0} /\ MaxReferenceGap \in Nat
  /\ RequiredRate \in 1 .. 100

-----------------------------------------------------------------------------
(* From a message to a reference event. *)

\* parse_bookticker_payload and its callers: the row a quote leaves in the file.
ParseBookTicker(quote, ts, wall) ==
  [ts |-> ts, wall |-> wall, trade |-> quote.trade, event |-> quote.event,
   bid |-> quote.bid, ask |-> quote.ask, price |-> quote.bid + quote.ask,
   quality |-> quote.bid > 0 /\ quote.ask > 0 /\ quote.bid < quote.ask]

\* validate_reference_event_schema
ReferenceEventErrors(row) ==
  {e \in {"NON_POSITIVE_REFERENCE_PRICE", "INVALID_BOOKTICKER_BID_ASK", "quality"} :
     CASE e = "NON_POSITIVE_REFERENCE_PRICE" -> row.price <= 0
       [] e = "INVALID_BOOKTICKER_BID_ASK" -> row.bid <= 0 \/ row.ask <= 0 \/ row.bid >= row.ask
       [] e = "quality" -> ~row.quality}

\* _reference_schema_errors of 4.2B, which does not ask for positive prices.
QuoteErrors(row) == IF row.bid >= row.ask THEN {"CROSSED_QUOTE"} ELSE {}

\* reference_timestamp_monotonic_violations
Backwards(events) ==
  Cardinality({k \in 1 .. Len(events) - 1 : events[k + 1].ts < events[k].ts})

\* A gap adds what it is too wide by.
Overrun(sum, gap) == IF gap > MaxReferenceGap THEN sum + (gap - MaxReferenceGap) ELSE sum

\* analyze_reference_gap_distribution and analyze_reference_feed_quality
GapDistribution(events) ==
  LET gaps == Gaps(Times(events))
      forward == Those(gaps, NonNegative)
  IN  [p50 |-> Percentile(forward, 50), p95 |-> Percentile(forward, 95),
       p99 |-> Percentile(forward, 99), backwards |-> Backwards(events),
       over |-> Cardinality({k \in DOMAIN forward : forward[k] > MaxReferenceGap}),
       overTotal |-> Folded(Overrun, 0, forward)]

\* The outcome of reading one source (ReferenceValidationResult).
ReadSource(exists, count, events) ==
  [exists |-> exists, count |-> count, events |-> events,
   invalid |-> count - Len(events), backwards |-> Backwards(events),
   quality |-> GapDistribution(events)]

IsReference(line) == line # Torn /\ ReferenceEventErrors(line) = {}

\* validate_reference_events: a bad line is counted and left out.
ValidateReferenceEvents(file) ==
  IF file = NoFile THEN ReadSource(FALSE, 0, << >>)
  ELSE ReadSource(TRUE, Len(file), Those(file, IsReference))

\* sample_mid_price: nothing unless bid and ask are positive and not crossed.
SampleMid(row) ==
  IF row.bid <= 0 \/ row.ask <= 0 \/ row.bid >= row.ask THEN 0 ELSE row.bid + row.ask

\* depth_reference_event: a clean sample as a reference of its own feed.
DepthReferenceEvent(row) ==
  [ts |-> row.ts, wall |-> row.wall, trade |-> NoValue, event |-> row.exchange,
   bid |-> row.bid, ask |-> row.ask, price |-> SampleMid(row),
   quality |-> SampleMid(row) > 0]

\* validate_depth_reference_events
ValidateDepthReferenceEvents(samples) ==
  LET events == [i \in DOMAIN samples |-> DepthReferenceEvent(samples[i])]
  IN  ReadSource(TRUE, Len(samples), Those(events, IsReference))

\* validate_reference_quotes: 4.2B takes a quote its own schema and parser accept.
ValidateReferenceQuotes(file) ==
  LET accepted(line) == line # Torn /\ QuoteErrors(line) = {} /\ line.quality
  IN  IF file = NoFile THEN ReadSource(FALSE, 0, << >>)
      ELSE [ReadSource(TRUE, Len(Objects(file)), Those(file, accepted)) EXCEPT
              !.invalid = Cardinality({k \in DOMAIN file : ~accepted(file[k])})]

-----------------------------------------------------------------------------
(* A label: the reference found for a target time. *)

Unmatched(target, reason) ==
  [target |-> target, index |-> NoIndex, future |-> NoValue, local |-> NoValue,
   price |-> NoValue, gap |-> NoValue, direction |-> NoValue, first |-> NoIndex,
   featureLag |-> NoValue, futureLag |-> NoValue, featureLocal |-> NoValue,
   eligible |-> FALSE, valid |-> FALSE, reason |-> reason]

\* base.update(...): what a label says of the reference it found, whose key is `future`.
Matched(label, k, future, reference) ==
  [label EXCEPT !.index = k, !.future = future, !.local = reference.ts,
                !.price = reference.price, !.gap = future - label.target]

\* The checks every label maker ends with; `mid` is the feature's own price.
Judged(label, mid) ==
  IF label.gap > MaxReferenceGap
    THEN [label EXCEPT !.reason = "FUTURE_REFERENCE_GAP_TOO_LARGE"]
  ELSE IF label.price <= 0 THEN [label EXCEPT !.reason = "FUTURE_REFERENCE_PRICE_INVALID"]
  ELSE [label EXCEPT !.valid = TRUE, !.direction = DirectionLabel(label.price - mid, 0)]

LocalTime(event) == event.ts

\* select_future_reference_index: the first at or after the feature's time plus the horizon.
SelectFutureReference(times, ts) ==
  LET k == BisectLeft(times, ts + LabelMs, 1)
  IN  IF k <= Len(times) THEN k ELSE NoIndex

\* build_reference_label (4.2C)
BuildReferenceLabel(sample, references) ==
  LET times == Times(references)
      base == [Unmatched(sample.ts + LabelMs, NoReason) EXCEPT
                 !.first = BisectRight(times, sample.ts, Len(times) + 1)]
      k == SelectFutureReference(times, sample.ts)
  IN  IF SampleMid(sample) <= 0 THEN [base EXCEPT !.reason = "CURRENT_MID_INVALID"]
      ELSE IF k = NoIndex THEN [base EXCEPT !.reason = "NO_FUTURE_REFERENCE"]
      ELSE Judged(Matched(base, k, times[k], references[k]), SampleMid(sample))

\* Mutant of GenerateBenchmarkRows: the events are searched as they are in the file.
GenerateUnsorted(samples, events) ==
  [i \in DOMAIN samples |->
     [ts |-> samples[i].ts,
      labels |-> [s \in Source |-> BuildReferenceLabel(samples[i], events[s])]]]

\* generate_benchmark_rows
GenerateBenchmarkRows(samples, events) ==
  LET sorted == [s \in Source |-> SortedBy(events[s], Times(events[s]))]
  IN  [i \in DOMAIN samples |->
         [ts |-> samples[i].ts,
          labels |-> [s \in Source |-> BuildReferenceLabel(samples[i], sorted[s])]]]

\* _bookticker_label: the quotes are searched in file order, and a quote
\* before the target is not refused here.
BookTickerLabel(sample, quotes) ==
  LET times == Times(quotes)
      base == [Unmatched(sample.ts + LabelMs, NoReason) EXCEPT
                 !.first = BisectRight(times, sample.ts, Len(times) + 1)]
      k == SelectFutureReference(times, sample.ts)
  IN  IF SampleMid(sample) <= 0 THEN [base EXCEPT !.reason = "CURRENT_MID_INVALID"]
      ELSE IF k = NoIndex THEN [base EXCEPT !.reason = "NO_FUTURE_REFERENCE"]
      ELSE Judged(Matched(base, k, times[k], quotes[k]), SampleMid(sample))

\* generate_labeled_rows_with_bookticker
GenerateBookTickerRows(samples, quotes) ==
  [i \in DOMAIN samples |-> [ts |-> samples[i].ts, label |-> BookTickerLabel(samples[i], quotes)]]

\* A reference that was known when the feature was, or is before the target.
Leaks(ts, label) ==
  \/ label.local # NoValue /\ label.local <= ts
  \/ label.local # NoValue /\ label.local < label.target
  \/ label.index # NoIndex /\ label.index < label.first
  \/ label.valid /\ label.index = NoIndex

\* run_bookticker_leakage_check looks at the valid labels only.
BookTickerLeaks(rows) ==
  {i \in DOMAIN rows : rows[i].label.valid /\ Leaks(rows[i].ts, rows[i].label)}

\* run_phase42c_leakage_check looks at every label.
BenchmarkLeaks(rows, s) == {i \in DOMAIN rows : Leaks(rows[i].ts, rows[i].labels[s])}

-----------------------------------------------------------------------------
(* What the labels of one source are worth. *)

\* Eligible: the target is not after the latest reference, wherever it is in the file.
EligibleFor(samples, events) ==
  {i \in DOMAIN samples : \E k \in DOMAIN events : samples[i].ts + LabelMs <= events[k].ts}

InvalidReasons(labels) ==
  LET invalid == {i \in DOMAIN labels : ~labels[i].valid}
  IN  [r \in {labels[i].reason : i \in invalid} |->
         Cardinality({i \in invalid : labels[i].reason = r})]

IsValue(v) == v # NoValue

Values(labels, field) == Those([i \in DOMAIN labels |-> labels[i][field]], IsValue)

ValidCount(labels) == Cardinality({i \in DOMAIN labels : labels[i].valid})

\* A rate of valid labels among the eligible reaches the required one.
Reaches(valid, eligible) == eligible > 0 /\ valid * 100 >= RequiredRate * eligible

\* compute_source_metrics
SourceMetrics(samples, source, labels, leaks) ==
  LET eligible == Cardinality(EligibleFor(samples, source.events))
  IN  [eligible |-> eligible, valid |-> ValidCount(labels),
       reasons |-> InvalidReasons(labels), p95 |-> Percentile(Values(labels, "gap"), 95),
       passes |-> /\ source.events # << >> /\ Reaches(ValidCount(labels), eligible)
                  /\ leaks = {} /\ source.backwards = 0]

\* classify_source_status of a source whose stream was asked for; `messages` came on it.
SourceStatus(source, metrics, messages) ==
  CASE ~source.exists -> "not_captured"
    [] source.exists /\ messages = 0 -> "captured_but_empty"
    [] source.exists /\ messages > 0 /\ source.count > 0 /\ source.events = << >> ->
         "parser_failed_or_all_invalid"
    [] source.exists /\ messages > 0 /\ metrics.passes -> "measured_pass"
    [] source.exists /\ messages > 0 /\ ~metrics.passes /\ source.events # << >> ->
         "measured_coverage_failed"
    [] OTHER -> "not_captured"

\* _horizon_100ms_stats: the rows with no quote after their target are a tail.
BookTickerStats(samples, quotes, rows) ==
  LET labels == [i \in DOMAIN rows |-> rows[i].label]
  IN  [eligible |-> Cardinality(EligibleFor(samples, quotes)), valid |-> ValidCount(labels),
       reasons |-> InvalidReasons(labels),
       tail |-> Cardinality({i \in DOMAIN rows :
                  /\ rows[i].label.reason = "NO_FUTURE_REFERENCE"
                  /\ quotes # << >>
                  /\ \A k \in DOMAIN quotes : quotes[k].ts < rows[i].label.target})]

\* The gates of evaluate_phase42b_report on the quotes and their labels (not those on the
\* capture and on the sizes of the gaps between quotes).
BookTickerPasses(samples, source, rows) ==
  LET stats == BookTickerStats(samples, source.events, rows)
  IN  /\ samples # << >> /\ source.events # << >> /\ source.invalid = 0
      /\ source.backwards = 0 /\ BookTickerLeaks(rows) = {}
      /\ Reaches(stats.valid, stats.eligible)

=============================================================================
