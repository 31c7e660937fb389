----------------------------- MODULE TimeProtocol -----------------------------
(***************************************************************************)
(* Three ways to say when a label's future is: phase 4.2D                  *)
(* (bot/app/research/time_protocol_benchmark.py) labels by receive time,   *)
(* by exchange time, and by exchange time under a budget for the receive   *)
(* lag; phase 4.2E (clock_sync_receive_lag.py) corrects that lag by an     *)
(* estimate of the local clock's offset from the exchange's.               *)
(*                                                                         *)
(* Offsets are kept doubled (before + after - 2 * server), so that no      *)
(* halves occur; so are the lags they correct.                             *)
(***************************************************************************)
EXTENDS ReferenceLabels

CONSTANTS
  Budget,        \* the receive lags a hybrid label allows (HYBRID_BUDGETS_MS)
  AllowedSkew,   \* how negative a lag may be (ALLOWED_CLOCK_SKEW_MS)
  MaxDrift,      \* MAX_CLOCK_OFFSET_DRIFT_MS
  LowRttMax,     \* LOW_RTT_CLOCK_SAMPLE_MAX_MS
  LowRttMin,     \* LOW_RTT_CLOCK_SAMPLE_MIN_COUNT
  RttMargin,     \* LOW_RTT_DYNAMIC_MARGIN_MS
  RttFactor,     \* LOW_RTT_DYNAMIC_MAD_MULTIPLIER
  RttHardFail,   \* SERVER_TIME_RTT_HARD_FAIL_MS
  MaxNegative    \* percent of negative corrected lags (MAX_NEGATIVE_CORRECTED_LAG_RATE)

ASSUME ProtocolAssumption ==
  /\ IsFiniteSet(Budget) /\ Budget \subseteq Nat
  /\ {AllowedSkew, MaxDrift, LowRttMax, RttMargin, RttFactor, RttHardFail} \subseteq Nat
  /\ LowRttMin \in Nat \ {0} /\ MaxNegative \in 0 .. 100

-----------------------------------------------------------------------------
(* Exchange times. *)

\* source_exchange_ts_ms: the trade time, else the event time; a depth event has no trade.
ExchangeTime(event) == IF event.trade # NoValue THEN event.trade ELSE event.event

HasExchangeTime(event) == ExchangeTime(event) # NoValue

ExchangeTimes(events) == [k \in DOMAIN events |-> ExchangeTime(events[k])]

\* receive_lag_ms
ReceiveLag(wall, exchange) == IF exchange = NoValue THEN NoValue ELSE wall - exchange

\* validate_timestamp_schema: which sources exchange time labels can be made for.
TimestampSchema(samples, events) ==
  LET features == \E i \in DOMAIN samples : samples[i].exchange # NoValue
      dated(s) == \E k \in DOMAIN events[s] : HasExchangeTime(events[s][k])
  IN  [s \in Source |->
         [supported |-> features /\ dated(s),
          reason |-> IF ~features THEN "missing_feature_exchange_timestamp"
                     ELSE IF ~dated(s) THEN "missing_exchange_timestamp" ELSE NoReason]]

-----------------------------------------------------------------------------
(* The labels of one feature sample. *)

\* build_receive_time_label; the references are sorted by receive time.
BuildReceiveTimeLabel(sample, references) ==
  LET times == Times(references)
      base == [Unmatched(sample.ts + LabelMs, NoReason) EXCEPT
                 !.first = BisectRight(times, sample.ts, Len(times) + 1)]
      k == BisectLeft(times, base.target, 1)
  IN  IF SampleMid(sample) <= 0 THEN [base EXCEPT !.reason = "CURRENT_MID_INVALID"]
      ELSE IF times = << >> \/ base.target > Last(times)
        THEN [base EXCEPT !.reason = "NO_FUTURE_REFERENCE"]
      ELSE Judged([Matched(base, k, times[k], references[k]) EXCEPT !.eligible = TRUE],
                  SampleMid(sample))

\* build_exchange_time_label; the references are the dated ones, sorted by exchange time.
BuildExchangeTimeLabel(sample, references, schema) ==
  LET times == ExchangeTimes(references)
      target == IF sample.exchange = NoValue THEN NoValue ELSE sample.exchange + LabelMs
      base == [Unmatched(target, NoReason) EXCEPT
                 !.featureLag = ReceiveLag(sample.wall, sample.exchange),
                 !.featureLocal = sample.ts]
      k == BisectLeft(times, target, 1)
  IN  IF ~schema.supported THEN [base EXCEPT !.reason = schema.reason]
      ELSE IF target = NoValue
        THEN [base EXCEPT !.reason = "FEATURE_EXCHANGE_TIMESTAMP_MISSING"]
      ELSE IF SampleMid(sample) <= 0 THEN [base EXCEPT !.reason = "CURRENT_MID_INVALID"]
      ELSE IF times = << >> \/ target > Last(times)
        THEN [base EXCEPT !.reason = "NO_FUTURE_REFERENCE"]
      ELSE Judged([Matched(base, k, times[k], references[k]) EXCEPT
                     !.eligible = TRUE,
                     !.futureLag = ReceiveLag(references[k].wall, times[k])],
                  SampleMid(sample))

\* A hybrid label's verdict on an exchange time label that is eligible and valid.
\* `lag`, `skew` and `budget` are in the same unit.
LagReason(label, lag, skew, budget, tooNegative, tooHigh) ==
  IF lag < -skew THEN tooNegative
  ELSE IF lag > budget THEN tooHigh
  ELSE IF label.local <= label.featureLocal THEN "CROSS_STREAM_RECEIVE_REORDER"
  ELSE NoReason

\* build_hybrid_label
BuildHybridLabel(label, budget) ==
  LET reason == IF ~label.valid THEN label.reason
                ELSE LagReason(label, label.featureLag, AllowedSkew, budget,
                               "CLOCK_SANITY_VIOLATION", "FEATURE_RECEIVE_LAG_TOO_HIGH")
  IN  [eligible |-> label.eligible, valid |-> label.valid /\ reason = NoReason,
       reason |-> reason, featureLag |-> label.featureLag, futureLag |-> label.futureLag]

\* generate_time_protocol_rows
GenerateTimeProtocolRows(samples, events) ==
  LET schema == TimestampSchema(samples, events)
      received == [s \in Source |-> SortedBy(events[s], Times(events[s]))]
      dated == [s \in Source |-> Those(events[s], HasExchangeTime)]
      exchanged == [s \in Source |-> SortedBy(dated[s], ExchangeTimes(dated[s]))]
      exchange(i, s) == BuildExchangeTimeLabel(samples[i], exchanged[s], schema[s])
  IN  [i \in DOMAIN samples |->
         [s \in Source |->
            [receive |-> BuildReceiveTimeLabel(samples[i], received[s]),
             exchange |-> exchange(i, s),
             hybrid |-> [b \in Budget |-> BuildHybridLabel(exchange(i, s), b)]]]]

\* run_phase42d_leakage_check: valid labels whose reference is before the target.
ProtocolLeaks(rows, s) ==
  {at \in (DOMAIN rows) \X {"receive", "exchange"} :
     LET label == rows[at[1]][s][at[2]] IN label.valid /\ label.future < label.target}

-----------------------------------------------------------------------------
(* Metrics of a list of labels. *)

\* _protocol_metrics
ProtocolMetrics(labels) ==
  LET eligible == {i \in DOMAIN labels : labels[i].eligible}
  IN  [total |-> Len(labels), eligible |-> Cardinality(eligible),
       valid |-> Cardinality({i \in eligible : labels[i].valid}),
       reasons |-> InvalidReasons(labels),
       p50 |-> Percentile(Values(labels, "gap"), 50),
       p95 |-> Percentile(Values(labels, "gap"), 95)]

Count(reasons, r) == IF r \in DOMAIN reasons THEN reasons[r] ELSE 0

\* _hybrid_metrics and _corrected_hybrid_metrics
HybridMetrics(labels) ==
  LET eligible == {i \in DOMAIN labels : labels[i].eligible}
  IN  [total |-> Len(labels), eligible |-> Cardinality(eligible),
       valid |-> Cardinality({i \in eligible : labels[i].valid}),
       reasons |-> InvalidReasons(labels),
       feature95 |-> Percentile(Values(labels, "featureLag"), 95),
       future95 |-> Percentile(Values(labels, "futureLag"), 95)]

\* compute_source_protocol_report
SourceProtocolReport(rows, s, schema) ==
  [supported |-> schema[s].supported,
   receive |-> ProtocolMetrics([i \in DOMAIN rows |-> rows[i][s].receive]),
   exchange |-> ProtocolMetrics([i \in DOMAIN rows |-> rows[i][s].exchange]),
   hybrid |-> [b \in Budget |-> HybridMetrics([i \in DOMAIN rows |-> rows[i][s].hybrid[b]])]]

\* build_clock_sanity_report of 4.2D: a lag more negative than the skew blocks its source.
ClockBlocked(rows, s) ==
  \E i \in DOMAIN rows : /\ rows[i][s].exchange.featureLag # NoValue
                         /\ rows[i][s].exchange.featureLag < -AllowedSkew

RateReaches(metrics) == Reaches(metrics.valid, metrics.eligible)

\* The candidates select_protocol_candidate sorts: pairs of a source and a budget.
ProtocolCandidates(rows, reports) ==
  {c \in Source \X Budget :
     LET report == reports[c[1]]
         hybrid == report.hybrid[c[2]]
     IN  /\ \A u \in Source : ProtocolLeaks(rows, u) = {}
         /\ report.supported /\ RateReaches(report.exchange)
         /\ ~ClockBlocked(rows, c[1])
         /\ RateReaches(hybrid)
         /\ Count(hybrid.reasons, "CLOCK_SANITY_VIOLATION") = 0}

-----------------------------------------------------------------------------
(* The clock's offset. *)

\* build_server_time_sample: one request for the server's time.  `clock` is the
\* offset of the local clock when it was made, which the program does not know.
ServerTimeSample(phase, before, after, server, clock) ==
  [phase |-> phase, rtt |-> after - before, offset |-> before + after - 2 * server,
   clock |-> clock]

Field(samples, field) == [k \in DOMAIN samples |-> samples[k][field]]

Distance(a, b) == IF a > b THEN a - b ELSE b - a

\* _low_rtt_acceptance_threshold
LowRttThreshold(rtts) ==
  LET median == Percentile(rtts, 50)
      mad == Percentile([k \in DOMAIN rtts |-> Distance(rtts[k], median)], 50)
  IN  Min({LowRttMax, median + Max({RttMargin, RttFactor * mad})})

\* _trim_offsets_for_median
TrimOffsets(offsets) ==
  IF Len(offsets) < 5 THEN offsets
  ELSE SubSeq(SortedBy(offsets, offsets), 2, Len(offsets) - 1)

\* The samples an offset is estimated from.
Accepted(samples) ==
  Those(samples, LAMBDA m : m.rtt <= LowRttThreshold(Field(samples, "rtt")))

\* compute_clock_offset_summary; the offsets are doubled.
ClockOffsetSummary(samples) ==
  LET accepted == Field(Accepted(samples), "offset")
      spread == IF accepted = << >> THEN 0 ELSE Max(Range(accepted)) - Min(Range(accepted))
      rtt95 == Percentile(Field(samples, "rtt"), 95)
      quality == Len(accepted) >= LowRttMin
  IN  [offset |-> Percentile(TrimOffsets(accepted), 50),
       sampleQuality |-> quality, driftValid |-> quality /\ spread <= 2 * MaxDrift,
       bothSides |-> {"before_capture", "after_capture"} \subseteq Range(Field(samples, "phase")),
       rttValid |-> rtt95 # NoValue /\ rtt95 <= RttHardFail]

\* Mutant of CorrectedLag: the offset is added.
LagAndOffset(lag, offset) ==
  IF lag = NoValue \/ offset = NoValue THEN NoValue ELSE 2 * lag + offset

\* corrected_receive_lag_ms, doubled
CorrectedLag(lag, offset) ==
  IF lag = NoValue \/ offset = NoValue THEN NoValue ELSE 2 * lag - offset

\* build_corrected_hybrid_label
BuildCorrectedHybridLabel(label, budget, summary) ==
  LET lag == CorrectedLag(label.featureLag, summary.offset)
      reason == IF ~label.valid THEN label.reason
                ELSE IF ~summary.driftValid THEN "CLOCK_OFFSET_DRIFT_INVALID"
                ELSE IF lag = NoValue THEN "CORRECTED_FEATURE_RECEIVE_LAG_MISSING"
                ELSE LagReason(label, lag, 2 * AllowedSkew, 2 * budget,
                               "CORRECTED_LAG_CLOCK_SANITY_FAILURE",
                               "CORRECTED_FEATURE_RECEIVE_LAG_TOO_HIGH")
  IN  [eligible |-> label.eligible, valid |-> label.valid /\ reason = NoReason,
       reason |-> reason, featureLag |-> lag,
       futureLag |-> CorrectedLag(label.futureLag, summary.offset)]

\* generate_corrected_time_protocol_rows
GenerateCorrectedRows(rows, summary) ==
  [i \in DOMAIN rows |->
     [s \in Source |->
        [b \in Budget |-> BuildCorrectedHybridLabel(rows[i][s].exchange, b, summary)]]]

\* compute_phase42e_source_report
CorrectedSourceReport(report, corrected, s) ==
  [supported |-> report.supported, receive |-> report.receive, exchange |-> report.exchange,
   corrected |-> [b \in Budget |-> HybridMetrics([i \in DOMAIN corrected |-> corrected[i][s][b]])]]

\* The corrected lags of a source (_lag_summary); every budget has the same ones.
CorrectedLags(rows, s, summary) ==
  Those([i \in DOMAIN rows |-> CorrectedLag(rows[i][s].exchange.featureLag, summary.offset)],
            IsValue)

\* build_clock_sanity_report of 4.2E: few of a source's lags are negative.
CorrectedLagSane(lags) ==
  Cardinality({i \in DOMAIN lags : lags[i] < -2 * AllowedSkew}) * 100
    <= MaxNegative * Len(lags)

ClockSane(rows, summary) ==
  /\ summary.sampleQuality /\ summary.driftValid /\ summary.rttValid
  /\ \A s \in Source : CorrectedLagSane(CorrectedLags(rows, s, summary))

\* The candidates select_corrected_protocol_candidate sorts.
CorrectedCandidates(rows, reports, summary) ==
  {c \in Source \X Budget :
     /\ \A u \in Source : ProtocolLeaks(rows, u) = {}
     /\ ClockSane(rows, summary)
     /\ reports[c[1]].supported /\ RateReaches(reports[c[1]].exchange)
     /\ RateReaches(reports[c[1]].corrected[c[2]])}

=============================================================================
