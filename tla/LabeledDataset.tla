--------------------------- MODULE LabeledDataset ---------------------------
(***************************************************************************)
(* The labelled order book dataset of phase 4.2                            *)
(* (bot/app/research/orderbook_labeled_dataset.py) and the coverage of its *)
(* shortest horizon in phase 4.2A (orderbook_100ms_coverage.py), as        *)
(* functions of the file of clean samples.                                 *)
(*                                                                         *)
(* A file is a sequence of lines in the order they were written.  A line   *)
(* is torn (no JSON object) or a row: a receive time, a book, the flags    *)
(* of its quality and lifecycle.  Times, prices and sizes are small        *)
(* integers; a ratio is a pair <<numerator, denominator>>.  Labels are     *)
(* found by the binary searches of the code, not by their specification.   *)
(***************************************************************************)
EXTENDS Integers, Sequences, FiniteSets, SequencesExt, FiniteSetsExt

CONSTANTS
  Horizon,       \* the names of the label horizons (HORIZONS)
  HorizonMs,     \* horizon -> how far ahead its label looks
  MaxFutureGap,  \* horizon -> how late the future sample may be (MAX_FUTURE_GAP_MS)
  MinValidRate,  \* horizon -> percent of the eligible rows that must be valid
  PastFeature,   \* the features that look back (PAST_FEATURE_POLICY_MS)
  LookBackMs,    \* past feature -> how far it looks back
  PastMaxGap,    \* past feature -> how old the sample it finds may be (PAST_MAX_GAP_MS)
  DepthLevel,    \* the depths the features add up (DEPTH_LEVELS)
  SlopeLevel,    \* the level a slope is measured to: the fifth
  LargeGap,      \* a gap worth a warning (LARGE_GAP_THRESHOLD_MS)
  Torn,          \* a line that is no JSON object
  NoFile,        \* a path with no file at it
  NoValue        \* null: a value that is missing or could not be computed

ASSUME HorizonAssumption ==
  /\ IsFiniteSet(Horizon) /\ IsFiniteSet(PastFeature)
  /\ HorizonMs \in [Horizon -> Nat \ {0}]
  /\ MaxFutureGap \in [Horizon -> Nat]
  /\ MinValidRate \in [Horizon -> 1 .. 100]
  /\ LookBackMs \in [PastFeature -> Nat \ {0}]
  /\ PastMaxGap \in [PastFeature -> Nat]
  /\ DepthLevel \subseteq Nat \ {0} /\ SlopeLevel \in Nat \ {0}
  /\ NoValue \notin Int

NoIndex == 0                \* no sample found
NoReason == "none"

-----------------------------------------------------------------------------
(* Lists and searches as Python has them, without operators a proof could not open. *)

\* The elements of s at the positions in `at`, in their order.
Picked(s, at) ==
  LET taken[n \in 0 .. Len(s)] ==
        IF n = 0 THEN << >>
        ELSE IF n \in at THEN Append(taken[n - 1], s[n]) ELSE taken[n - 1]
  IN  taken[Len(s)]

\* [x for x in s if test(x)]
Those(s, Test(_)) == Picked(s, {k \in DOMAIN s : Test(s[k])})

\* for x in s: acc = step(acc, x)
Folded(step(_, _), start, s) ==
  LET after[n \in 0 .. Len(s)] == IF n = 0 THEN start ELSE step(after[n - 1], s[n])
  IN  after[Len(s)]

\* sorted, with the key keys[k] of s[k]: equal keys in the order they came.
SortedBy(s, keys) ==
  LET before(k) == {j \in DOMAIN s : keys[j] < keys[k] \/ (keys[j] = keys[k] /\ j < k)}
  IN  [n \in DOMAIN s |-> s[CHOOSE k \in DOMAIN s : Cardinality(before(k)) = n - 1]]

\* Where a bisection of the positions lo .. hi - 1 ends that turns right at those in `right`.
Bisect(right, lo, hi) ==
  LET search[at \in (1 .. hi) \X (1 .. hi)] ==
        LET mid == (at[1] + at[2]) \div 2
        IN  IF at[1] >= at[2] THEN at[1]
            ELSE IF mid \in right THEN search[<<mid + 1, at[2]>>] ELSE search[<<at[1], mid>>]
  IN  search[<<lo, hi>>]

\* bisect_left on a[lo ..]: in an ordered a, the first position whose value is not below x.
BisectLeft(a, x, lo) == Bisect({k \in DOMAIN a : a[k] < x}, lo, Len(a) + 1)

\* bisect_right on a[.. hi - 1]: in an ordered a, the first position whose value is above x.
BisectRight(a, x, hi) == Bisect({k \in DOMAIN a : ~(x < a[k])}, 1, hi)

-----------------------------------------------------------------------------
(* Validation of the clean samples. *)

\* _parse_levels: a level has a positive price and a size that is not negative.
ParsesLevels(levels) == \A k \in DOMAIN levels : levels[k][1] > 0 /\ levels[k][2] >= 0

Descending(levels) ==
  \A k \in 1 .. Len(levels) - 1 : levels[k][1] >= levels[k + 1][1]

Ascending(levels) ==
  \A k \in 1 .. Len(levels) - 1 : levels[k][1] <= levels[k + 1][1]

\* _clean_sample_errors
CleanSampleErrors(row) ==
  {e \in {"non_positive_best_price", "best_bid_not_less_than_best_ask",
          "bids_empty", "asks_empty", "bids_not_sorted_descending",
          "asks_not_sorted_ascending", "invalid_book_levels",
          "quality", "lifecycle"} :
     LET parsed == ParsesLevels(row.bids) /\ ParsesLevels(row.asks)
     IN  CASE e = "non_positive_best_price" -> row.bid <= 0 \/ row.ask <= 0
           [] e = "best_bid_not_less_than_best_ask" -> row.bid >= row.ask
           [] e = "bids_empty" -> parsed /\ row.bids = << >>
           [] e = "asks_empty" -> parsed /\ row.asks = << >>
           [] e = "bids_not_sorted_descending" -> parsed /\ ~Descending(row.bids)
           [] e = "asks_not_sorted_ascending" -> parsed /\ ~Ascending(row.asks)
           [] e = "invalid_book_levels" -> ~parsed
           [] e = "quality" -> ~row.quality
           [] e = "lifecycle" -> ~row.lifecycle}

IsObject(line) == line # Torn

\* The samples read from a file: every object, the ones with errors included.
Objects(file) == Those(file, IsObject)

IsClean(line) == line # Torn /\ CleanSampleErrors(line) = {}

\* validate_clean_samples
ValidateCleanSamples(file) ==
  IF file = NoFile
    THEN [valid |-> FALSE, samples |-> << >>, invalid |-> 1,
          classification |-> "INPUT_FILE_MISSING"]
  ELSE IF file = << >>
    THEN [valid |-> FALSE, samples |-> << >>, invalid |-> 0,
          classification |-> "INPUT_EMPTY"]
  ELSE LET bad == {k \in DOMAIN file : ~IsClean(file[k])}
       IN  [valid |-> bad = {}, samples |-> Objects(file), invalid |-> Cardinality(bad),
            classification |-> IF bad = {} THEN NoReason ELSE "INPUT_SCHEMA_FAILURE"]

\* The receive times of a sequence of samples, in file order.
Times(samples) == [k \in DOMAIN samples |-> samples[k].ts]

\* The differences between neighbours.
Gaps(times) ==
  IF times = << >> THEN << >>
  ELSE [k \in 1 .. Len(times) - 1 |-> times[k + 1] - times[k]]

NonNegative(gap) == gap >= 0

\* _percentile: the sorted value at int(round((n - 1) * p)), a half going to the even index.
Percentile(values, percent) ==
  LET sorted == SortedBy(values, values)
      scaled == (Len(values) - 1) * percent
      rounded == IF scaled % 100 = 50 /\ (scaled \div 100) % 2 = 0
                   THEN scaled \div 100 ELSE (scaled + 50) \div 100
  IN  IF values = << >> THEN NoValue ELSE sorted[rounded + 1]

\* compute_timestamp_quality
TimestampQuality(samples) ==
  LET gaps == Gaps(Times(samples))
      forward == Those(gaps, NonNegative)
  IN  [backwards |-> Cardinality({k \in DOMAIN gaps : gaps[k] < 0}),
       duplicates |-> Cardinality({k \in DOMAIN gaps : gaps[k] = 0}),
       large |-> Cardinality({k \in DOMAIN forward : forward[k] > LargeGap}),
       p95 |-> Percentile(forward, 95), p99 |-> Percentile(forward, 99)]

-----------------------------------------------------------------------------
(* Features: what is known when a sample is received. *)

\* Twice the mid price: (best_bid + best_ask) / 2 without the halves.
Mid(row) == row.bid + row.ask

Spread(row) == row.ask - row.bid

Depth(levels, n) ==
  Folded(LAMBDA sum, level : sum + level[2], 0,
         SubSeq(levels, 1, IF n < Len(levels) THEN n ELSE Len(levels)))

Ratio(a, b) == IF b = 0 THEN NoValue ELSE <<a, b>>

\* extract_current_features: the features of one sample alone.
CurrentFeatures(row) ==
  LET bidSize == IF row.bids = << >> THEN 0 ELSE row.bids[1][2]
      askSize == IF row.asks = << >> THEN 0 ELSE row.asks[1][2]
      bid(n) == Depth(row.bids, n)
      ask(n) == Depth(row.asks, n)
      slope(levels, best) ==
        IF Len(levels) < SlopeLevel THEN NoValue
        ELSE <<IF best > levels[SlopeLevel][1] THEN best - levels[SlopeLevel][1]
                 ELSE levels[SlopeLevel][1] - best, Depth(levels, SlopeLevel)>>
  IN  [mid |-> Mid(row), spread |-> Spread(row),
       l1_size_imbalance |-> Ratio(bidSize - askSize, bidSize + askSize),
       depth_imbalance |-> [n \in DepthLevel |-> Ratio(bid(n) - ask(n), bid(n) + ask(n))],
       depth_ratio |-> [n \in DepthLevel |-> Ratio(bid(n), ask(n))],
       microprice |-> Ratio(row.ask * bidSize + row.bid * askSize, bidSize + askSize),
       bid_slope |-> slope(row.bids, row.bid), ask_slope |-> slope(row.asks, row.ask)]

\* Mutant of PastFeatures: looks forward instead of back.
PastFeaturesAhead(samples, i) ==
  LET times == Times(samples)
      target(f) == times[i] + LookBackMs[f]
      past(f) == BisectRight(times, target(f), Len(times) + 1) - 1
  IN  [f \in PastFeature |->
         IF target(f) - times[past(f)] > PastMaxGap[f]
           THEN [value |-> NoValue, source |-> NoIndex, warning |-> "gap_too_large"]
         ELSE [value |-> <<Mid(samples[i]), Spread(samples[i]),
                           Mid(samples[past(f)]), Spread(samples[past(f)])>>,
               source |-> i, warning |-> NoReason]]

\* _add_past_features: the latest sample at or before the look back time, if not too old.
PastFeatures(samples, i) ==
  LET times == Times(samples)
      target(f) == times[i] - LookBackMs[f]
      past(f) == BisectRight(times, target(f), i + 1) - 1
  IN  [f \in PastFeature |->
         IF past(f) = NoIndex
           THEN [value |-> NoValue, source |-> NoIndex, warning |-> "no_past_sample"]
         ELSE IF target(f) - times[past(f)] > PastMaxGap[f]
           THEN [value |-> NoValue, source |-> NoIndex, warning |-> "gap_too_large"]
         ELSE [value |-> <<Mid(samples[i]), Spread(samples[i]),
                           Mid(samples[past(f)]), Spread(samples[past(f)])>>,
               source |-> past(f), warning |-> NoReason]]

-----------------------------------------------------------------------------
(* Labels: what happened after. *)

\* Mutant of SelectFutureIndex: the sample must be strictly after the target.
SelectFutureAfter(times, i, ms) ==
  LET k == BisectLeft(times, times[i] + ms + 1, i + 1)
  IN  IF k <= Len(times) THEN k ELSE NoIndex

\* select_future_index
SelectFutureIndex(times, i, ms) ==
  LET k == BisectLeft(times, times[i] + ms, i + 1)
  IN  IF k <= Len(times) THEN k ELSE NoIndex

\* direction_label and spread_adjusted_direction_label: the sign of a move beyond a threshold.
DirectionLabel(move, threshold) ==
  IF move > threshold THEN 1 ELSE IF move < -threshold THEN -1 ELSE 0

Unlabelled(target, reason) ==
  [target |-> target, index |-> NoIndex, future |-> NoValue, gap |-> NoValue,
   direction |-> NoValue, spreadDirection |-> NoValue, valid |-> FALSE, reason |-> reason]

\* _build_label
BuildLabel(samples, i, horizon) ==
  LET times == Times(samples)
      target == times[i] + HorizonMs[horizon]
      k == SelectFutureIndex(times, i, HorizonMs[horizon])
      found == [Unlabelled(target, NoReason) EXCEPT
                  !.index = k, !.future = times[k], !.gap = times[k] - target]
      move == Mid(samples[k]) - Mid(samples[i])
  IN  IF Mid(samples[i]) <= 0 THEN Unlabelled(target, "CURRENT_MID_INVALID")
      ELSE IF k = NoIndex THEN Unlabelled(target, "NO_FUTURE_SAMPLE")
      ELSE IF found.gap > MaxFutureGap[horizon]
        THEN [found EXCEPT !.reason = "FUTURE_GAP_TOO_LARGE"]
      ELSE IF Mid(samples[k]) <= 0 THEN [found EXCEPT !.reason = "FUTURE_MID_INVALID"]
      ELSE IF Spread(samples[i]) < 0 THEN [found EXCEPT !.reason = "CURRENT_MID_INVALID"]
      ELSE [found EXCEPT !.valid = TRUE, !.direction = DirectionLabel(move, 0),
                         !.spreadDirection = DirectionLabel(move, 2 * Spread(samples[i]))]

\* generate_labeled_rows
GenerateLabeledRows(samples) ==
  [i \in DOMAIN samples |->
     [ts |-> samples[i].ts, features |-> CurrentFeatures(samples[i]),
      past |-> PastFeatures(samples, i),
      labels |-> [h \in Horizon |-> BuildLabel(samples, i, h)]]]

\* validate_labeled_rows: a valid label is complete, an invalid one says why.
LabelSchemaViolations(rows) ==
  {at \in (DOMAIN rows) \X Horizon :
     LET label == rows[at[1]].labels[at[2]]
     IN  IF label.valid
           THEN \/ NoValue \in {label.future, label.gap, label.direction, label.spreadDirection}
                \/ label.reason # NoReason
           ELSE label.reason = NoReason}

\* run_leakage_check, the features: none read from a later sample.
FeatureLeaks(rows) ==
  {at \in (DOMAIN rows) \X PastFeature : rows[at[1]].past[at[2]].source > at[1]}

\* run_leakage_check, the labels: the future sample is later in the file and in time.
LabelLeaks(rows) ==
  {at \in (DOMAIN rows) \X Horizon :
     LET label == rows[at[1]].labels[at[2]]
     IN  \/ label.index # NoIndex /\ label.index <= at[1]
         \/ label.future # NoValue /\ label.future <= rows[at[1]].ts
         \/ label.future # NoValue /\ label.future < label.target
         \/ label.valid /\ (label.index = NoIndex \/ label.future = NoValue)}

-----------------------------------------------------------------------------
(* The quality of a labelled dataset. *)

\* _label_quality and extract_horizon_100ms_coverage: a row is eligible when
\* its target is not after the last sample of the file.
Eligible(samples, horizon) ==
  {i \in DOMAIN samples : samples[i].ts + HorizonMs[horizon] <= Last(samples).ts}

ValidLabels(rows, horizon) == {i \in DOMAIN rows : rows[i].labels[horizon].valid}

InvalidFor(rows, horizon, reason) ==
  {i \in DOMAIN rows : rows[i].labels[horizon].reason = reason}

\* valid_rate_eligible_rows reaches the threshold (a rate of nothing is 0.0).
RateReached(samples, rows, horizon) ==
  /\ Eligible(samples, horizon) # {}
  /\ Cardinality(ValidLabels(rows, horizon)) * 100
       >= MinValidRate[horizon] * Cardinality(Eligible(samples, horizon))

\* _feature_quality: the rows a past feature is missing from.
NullPast(rows, f) == {i \in DOMAIN rows : rows[i].past[f].value = NoValue}

\* _hard_fail_reasons
HardFailReasons(validation, rows) ==
  LET samples == validation.samples
      quality == TimestampQuality(samples)
  IN  {r \in {"input_sample_count", "labeled_sample_count", "count_mismatch",
              "invalid_clean_sample_count", "timestamp_monotonic_violations",
              "duplicate_timestamp_count", "labeled_schema_violation_count",
              "feature_leakage_violations", "label_leakage_violations",
              "valid_rate_eligible_rows"} :
         CASE r = "input_sample_count" -> samples = << >>
           [] r = "labeled_sample_count" -> rows = << >>
           [] r = "count_mismatch" ->
                samples # << >> /\ rows # << >> /\ Len(samples) # Len(rows)
           [] r = "invalid_clean_sample_count" -> validation.invalid > 0
           [] r = "timestamp_monotonic_violations" -> quality.backwards > 0
           [] r = "duplicate_timestamp_count" -> quality.duplicates > 0
           [] r = "labeled_schema_violation_count" -> LabelSchemaViolations(rows) # {}
           [] r = "feature_leakage_violations" -> FeatureLeaks(rows) # {}
           [] r = "label_leakage_violations" -> LabelLeaks(rows) # {}
           [] r = "valid_rate_eligible_rows" ->
                \/ samples = << >>
                \/ \E h \in Horizon : ~RateReached(samples, rows, h)}

\* _warning_reasons, without the ones about the prices themselves.
WarningReasons(validation, rows) ==
  {w \in {"large_gaps", "null_past_features", "null_future_labels"} :
     CASE w = "large_gaps" -> TimestampQuality(validation.samples).large > 0
       [] w = "null_past_features" -> \E f \in PastFeature : NullPast(rows, f) # {}
       [] w = "null_future_labels" ->
            \E h \in Horizon : /\ ValidLabels(rows, h) # {}
                               /\ InvalidFor(rows, h, "NO_FUTURE_SAMPLE") # {}}

\* run_phase42_pipeline: labels are generated only from a valid file with
\* strictly increasing times; otherwise the last output stays where it is.
MayGenerate(validation) ==
  /\ validation.valid
  /\ TimestampQuality(validation.samples).backwards = 0
  /\ TimestampQuality(validation.samples).duplicates = 0

\* build_quality_report
QualityReport(validation, rows) ==
  LET reasons == HardFailReasons(validation, rows)
  IN  [status |-> IF reasons = {} THEN "pass" ELSE "fail", reasons |-> reasons,
       warnings |-> WarningReasons(validation, rows)]

=============================================================================
