--------------------------- MODULE ResearchPipeline ---------------------------
(***************************************************************************)
(* The label programs of phases 4.2 to 4.2H run on the files of a capture. *)
(*                                                                         *)
(* A capture (or a fixture) leaves a file of clean samples, a file per     *)
(* reference feed and a list of server time samples; then a program reads  *)
(* them and writes labels and a report, and may be run again after the     *)
(* files grew.  Which program it is decides which files matter, so each    *)
(* behaviour is about one program and the files it reads.                  *)
(*                                                                         *)
(* Rows come from the sets CleanLine and ReferenceLine: any order of       *)
(* times, any mixture of good, defective and torn lines.  A wall clock     *)
(* reads `clock` more than the time a row has, and may be stepped.         *)
(***************************************************************************)
EXTENDS StreamingLabels

CONSTANTS
  Program,        \* the programs that are run
  CleanLine,      \* program -> the lines its clean samples are made of
  ReferenceLine,  \* program -> the lines its feeds are made of
  ClockOffset,    \* the offsets the local wall clock may have
  Rtt,            \* the round trips of a server time request
  MaxClean,       \* bound: program -> lines of the clean samples
  MaxReference,   \* bound: program -> lines of a feed
  MaxMeasure      \* bound: program -> server time samples

Labels == "4.2"
BookTicker == "4.2B"
Benchmark == "4.2C"
Protocol == "4.2D"
Corrected == "4.2E"
Streaming == "4.2H"

\* What the lines of the two kinds are made of (the capture sets a row's wall clock
\* time), and the row a quote leaves.
SampleRow ==
  [ts : Int, wall : Int, exchange : Int \cup {NoValue}, bid : Int, ask : Int,
   bids : Seq(Int \X Int), asks : Seq(Int \X Int), quality : BOOLEAN, lifecycle : BOOLEAN]

QuoteRow ==
  [ts : Int, trade : Int \cup {NoValue}, event : Int \cup {NoValue}, bid : Int, ask : Int]

ReferenceRow ==
  [ts : Int, wall : Int, trade : Int \cup {NoValue}, event : Int \cup {NoValue},
   bid : Int, ask : Int, price : Int, quality : BOOLEAN]

ASSUME PipelineAssumption ==
  /\ Program \subseteq {Labels, BookTicker, Benchmark, Protocol, Corrected, Streaming}
  /\ {MaxClean, MaxReference, MaxMeasure} \subseteq [Program -> Nat]
  /\ Torn \notin SampleRow /\ Torn \notin ReferenceRow
  /\ ClockOffset \subseteq Int /\ Rtt \subseteq Nat
  /\ \A p \in Program : /\ CleanLine[p] \subseteq SampleRow \cup {Torn}
                        /\ ReferenceLine[p] \subseteq QuoteRow \cup {Torn}

VARIABLES
  program,   \* the program this behaviour is about
  clean,     \* orderbook_clean_samples.jsonl
  feeds,     \* feed -> its file of reference events
  measures,  \* the server time samples
  clock,     \* how far ahead the local wall clock is
  labels,    \* the labels on disk, as the program left them
  report     \* what the last run reported, with the inputs it read

vars == <<program, clean, feeds, measures, clock, labels, report>>

NoReport == [status |-> "none"]

Init ==
  /\ program \in Program
  /\ clean = NoFile /\ feeds = [f \in Feed |-> NoFile] /\ measures = << >>
  /\ clock \in ClockOffset
  /\ labels = NoFile /\ report = NoReport

Lines(file) == IF file = NoFile THEN << >> ELSE file

\* Samples are recorded between the first and the last server time sample, for the
\* programs that take some (_run_capture_with_clock_samples).  Only 4.2 leaves
\* labels of an earlier run in place; for the others a run after the files grew
\* is like a first one, and is not repeated.
Capturing ==
  /\ report = NoReport \/ program = Labels
  /\ MaxMeasure[program] > 0 =>
       /\ measures # << >>
       /\ \A k \in DOMAIN measures : measures[k].phase # "after_capture"

AppendClean(line) ==
  /\ Capturing /\ Len(Lines(clean)) < MaxClean[program]
  /\ clean' = Append(Lines(clean), IF line = Torn THEN line
                                   ELSE [line EXCEPT !.wall = line.ts + clock])
  /\ UNCHANGED <<program, feeds, measures, clock, labels, report>>

AppendReference(f, line) ==
  /\ Capturing /\ Len(Lines(feeds[f])) < MaxReference[program]
  /\ feeds' = [feeds EXCEPT ![f] =
                 Append(Lines(@), IF line = Torn THEN line
                                  ELSE ParseBookTicker(line, line.ts, line.ts + clock))]
  /\ UNCHANGED <<program, clean, measures, clock, labels, report>>

\* _sample_binance_server_time and its callers: before, during and after the
\* capture; the server answers somewhere in the round trip.
MeasureClock ==
  /\ Len(measures) < MaxMeasure[program]
  /\ \E phase \in IF measures = << >> THEN {"before_capture"}
                   ELSE {"during_capture", "after_capture"},
        rtt \in Rtt, answered \in {0, 1} :
       measures' = Append(measures,
         ServerTimeSample(phase, clock, clock + rtt, answered * rtt, clock))
  /\ IF measures = << >> THEN report = NoReport ELSE Capturing
  /\ UNCHANGED <<program, clean, feeds, clock, labels, report>>

StepClock ==
  /\ MaxMeasure[program] > 0 /\ report = NoReport
  /\ clock' \in ClockOffset \ {clock}
  /\ UNCHANGED <<program, clean, feeds, measures, labels, report>>

-----------------------------------------------------------------------------
(* The programs.  `report` keeps what was read and found, for the properties. *)

Run(p, written, status, details) ==
  /\ program = p
  /\ labels' = written
  /\ report' = [status |-> status, details |-> details,
                clean |-> clean, feeds |-> feeds, measures |-> measures]
  /\ report' # report
  /\ UNCHANGED <<program, clean, feeds, measures, clock>>

\* run_phase42_pipeline: without valid samples in order, the old labels stay.
RunLabels ==
  LET validation == ValidateCleanSamples(clean)
      rows == IF MayGenerate(validation) THEN GenerateLabeledRows(validation.samples) ELSE << >>
      quality == QualityReport(validation, rows)
  IN  Run(Labels, IF MayGenerate(validation) THEN rows ELSE labels, quality.status, quality)

\* The samples of 4.2B to 4.2E: all of a valid file, or none.
ValidSamples ==
  LET validation == ValidateCleanSamples(clean)
  IN  IF validation.valid THEN validation.samples ELSE << >>

\* The file of reference events that 4.2B takes its quotes from.
Quotes == CHOOSE f \in Feed : TRUE

\* run_phase42b_analysis
RunBookTicker ==
  LET samples == ValidSamples
      source == ValidateReferenceQuotes(feeds[Quotes])
      rows == GenerateBookTickerRows(samples, source.events)
  IN  Run(BookTicker, rows,
          IF BookTickerPasses(samples, source, rows) THEN "pass" ELSE "fail", NoReport)

Sources(samples) ==
  [s \in Source |-> IF s = Depthmid THEN ValidateDepthReferenceEvents(samples)
                    ELSE ValidateReferenceEvents(feeds[s])]

Events(sources) == [s \in Source |-> sources[s].events]

\* run_phase42c_analysis: a source passes, or none does.
RunBenchmark ==
  LET samples == ValidSamples
      sources == Sources(samples)
      rows == GenerateBenchmarkRows(samples, Events(sources))
      metrics == [s \in Source |->
                    SourceMetrics(samples, sources[s], [i \in DOMAIN rows |-> rows[i].labels[s]],
                                  BenchmarkLeaks(rows, s))]
  IN  Run(Benchmark, rows,
          IF \E s \in Source : metrics[s].passes THEN "pass" ELSE "fail",
          [s \in Source |-> SourceStatus(sources[s], metrics[s], sources[s].count)])

\* The rows and the reports of run_phase42d_analysis.
ProtocolRows(samples, events) ==
  IF samples = << >> THEN << >> ELSE GenerateTimeProtocolRows(samples, events)

ProtocolReports(samples, events, rows) ==
  [s \in Source |-> SourceProtocolReport(rows, s, TimestampSchema(samples, events))]

\* run_phase42d_analysis
RunProtocol ==
  LET samples == ValidSamples
      events == Events(Sources(samples))
      rows == ProtocolRows(samples, events)
  IN  Run(Protocol, rows,
          IF ProtocolCandidates(rows, ProtocolReports(samples, events, rows)) = {}
            THEN "fail" ELSE "pass", NoReport)

\* run_phase42e_analysis
RunCorrected ==
  LET samples == ValidSamples
      events == Events(Sources(samples))
      rows == ProtocolRows(samples, events)
      summary == ClockOffsetSummary(measures)
      corrected == GenerateCorrectedRows(rows, summary)
      reports == [s \in Source |->
                    CorrectedSourceReport(ProtocolReports(samples, events, rows)[s], corrected, s)]
  IN  Run(Corrected, corrected,
          IF summary.bothSides /\ CorrectedCandidates(rows, reports, summary) # {}
            THEN "pass" ELSE "fail", summary)

\* run_phase42h_streaming_finalization
RunStreaming ==
  LET result == StreamFinalization(clean, feeds, ClockOffsetSummary(measures))
  IN  Run(Streaming, result.rows,
          IF result.failure = NoReason THEN "pass" ELSE "fail", result)

Next ==
  \/ \E line \in CleanLine[program] : AppendClean(line)
  \/ \E f \in Feed, line \in ReferenceLine[program] : AppendReference(f, line)
  \/ MeasureClock
  \/ StepClock
  \/ RunLabels
  \/ RunBookTicker
  \/ RunBenchmark
  \/ RunProtocol
  \/ RunCorrected
  \/ RunStreaming

Spec == Init /\ [][Next]_vars

-----------------------------------------------------------------------------
(* Properties. *)

Reported(p) == program = p /\ report # NoReport

Passed(p) == Reported(p) /\ report.status = "pass"

\* The first of a set of positions by a key, equal keys by position.
IsFirst(k, positions, key(_)) ==
  /\ k \in positions
  /\ \A j \in positions : key(k) < key(j) \/ (key(k) = key(j) /\ k <= j)

\* After a passing run of 4.2 the labels on disk are those of the samples just
\* read: the label of a sample is the earliest sample at or after its target,
\* it is valid exactly when that sample is not too late, the rows without one
\* are exactly those whose target is after the last sample, and enough of the
\* others are valid.  (The file is written only for good input and found again
\* by binary search; _build_label, run_phase42_pipeline.)
LabelsAreEarliest ==
  Passed(Labels) =>
    LET samples == report.clean
        key(k) == samples[k].ts
        target(i, h) == samples[i].ts + HorizonMs[h]
        future(i, h) == {k \in DOMAIN samples : samples[k].ts >= target(i, h)}
        label(i, h) == labels[i].labels[h]
    IN  /\ DOMAIN labels = DOMAIN samples
        /\ \A i \in DOMAIN samples, h \in Horizon :
             /\ label(i, h).index = NoIndex <=> future(i, h) = {}
             /\ label(i, h).index = NoIndex <=> target(i, h) > Last(samples).ts
             /\ label(i, h).index # NoIndex => IsFirst(label(i, h).index, future(i, h), key)
             /\ label(i, h).valid <=>
                  \E k \in future(i, h) : samples[k].ts <= target(i, h) + MaxFutureGap[h]
        /\ \A h \in Horizon :
             Cardinality({i \in DOMAIN samples : label(i, h).valid}) * 100
               >= MinValidRate[h] * Cardinality({i \in DOMAIN samples : future(i, h) # {}})

\* What a row of labels on disk says was known at its sample is what a file
\* ending with that sample would say: no feature changes when later lines are
\* appended (extract_current_features, _add_past_features).
FeaturesForgetFuture ==
  Passed(Labels) =>
    \A i \in DOMAIN labels :
      LET known == GenerateLabeledRows(SubSeq(report.clean, 1, i))[i]
      IN  labels[i].features = known.features /\ labels[i].past = known.past

\* The events of a source as a program saw them.
EventsSeen(s) ==
  IF s = Depthmid
    THEN LET samples == Those(Lines(report.clean), IsClean)
         IN  [i \in DOMAIN samples |-> DepthReferenceEvent(samples[i])]
    ELSE Those(Lines(report.feeds[s]), IsReference)

\* A label points at an earliest event at or after its target, and is valid
\* exactly when that event is not too late.
PointsAtEarliest(label, events, key(_)) ==
  LET future == {k \in DOMAIN events : key(events[k]) # NoValue /\ key(events[k]) >= label.target}
      earliest == Min({key(events[k]) : k \in future})
  IN  /\ label.index = NoIndex <=> future = {}
      /\ label.index # NoIndex =>
           /\ label.future = earliest
           /\ \E k \in future : /\ key(events[k]) = earliest
                                /\ label.local = events[k].ts /\ label.price = events[k].price
      /\ label.valid <=> future # {} /\ earliest <= label.target + MaxReferenceGap

\* Whatever the order of the reference events in their file, a label is taken
\* from the earliest one at or after its target, by receive time (4.2C, 4.2D)
\* or by exchange time (4.2D); 4.2B, which searches its quotes unsorted, may
\* get it wrong, but then it does not pass (non_monotonic_reference_timestamp_count).
ReferencesAreEarliest ==
  /\ Passed(BookTicker) => \A i \in DOMAIN labels :
       PointsAtEarliest(labels[i].label, EventsSeen(Quotes), LocalTime)
  /\ Reported(Benchmark) => \A i \in DOMAIN labels, s \in Source :
       PointsAtEarliest(labels[i].labels[s], EventsSeen(s), LocalTime)
  /\ Reported(Protocol) => \A i \in DOMAIN labels, s \in Source :
       /\ PointsAtEarliest(labels[i][s].receive, EventsSeen(s), LocalTime)
       /\ labels[i][s].exchange.eligible =>
            PointsAtEarliest(labels[i][s].exchange, EventsSeen(s), ExchangeTime)

\* On a valid file of clean samples whose feeds are in receive order, the
\* streaming finalisation of 4.2H writes the labels and the reports the
\* programs in memory (4.2C, 4.2D, 4.2E) compute from the same files.
StreamMatchesBatch ==
  Reported(Streaming) =>
    LET validation == ValidateCleanSamples(report.clean)
        samples == validation.samples
        events == [s \in Source |-> EventsSeen(s)]
        rows == GenerateTimeProtocolRows(samples, events)
        benchmark == GenerateBenchmarkRows(samples, events)
        summary == ClockOffsetSummary(report.measures)
        corrected == GenerateCorrectedRows(rows, summary)
        batch(s) == SourceProtocolReport(rows, s, TimestampSchema(samples, events))
        stream(s) == report.details.reports[s]
    IN  /\ validation.valid <=> report.status = "pass"
        /\ (validation.valid /\ \A s \in Source : Backwards(events[s]) = 0) =>
             /\ DOMAIN labels = DOMAIN rows
             /\ \A i \in DOMAIN rows, s \in Source :
                  /\ labels[i][s].reference = benchmark[i].labels[s]
                  /\ labels[i][s].receive = rows[i][s].receive
                  /\ labels[i][s].exchange = rows[i][s].exchange
                  /\ labels[i][s].hybrid = rows[i][s].hybrid
                  /\ labels[i][s].corrected = corrected[i][s]
             /\ \A s \in Source :
                  /\ stream(s).receive = batch(s).receive
                  /\ stream(s).exchange = batch(s).exchange
                  /\ stream(s).hybrid = batch(s).hybrid
                  /\ stream(s).corrected = CorrectedSourceReport(batch(s), corrected, s).corrected
                  /\ report.details.leaks[s] = ProtocolLeaks(rows, s)
                  /\ report.details.stats[s].backwards = Backwards(events[s])
                  /\ report.details.stats[s].over = GapDistribution(events[s]).over
                  /\ report.details.stats[s].overTotal = GapDistribution(events[s]).overTotal

\* A corrected hybrid label that is valid under a budget belongs to a sample
\* that really was received within it, up to half the longest round trip an
\* accepted server time sample has and the drift that is allowed, provided the
\* clock at the sample was one the accepted server time samples saw or lies
\* between two of them (compute_clock_offset_summary, build_corrected_hybrid_label).
CorrectedLagIsTrue ==
  Reported(Corrected) =>
    \A i \in DOMAIN labels, s \in Source, b \in Budget :
      LET sample == report.clean[i]
          seen == Range(Field(Accepted(report.measures), "clock"))
          at == sample.wall - sample.ts
      IN  (labels[i][s][b].valid /\ at \in Min(seen) .. Max(seen)) =>
            2 * (sample.ts - sample.exchange) <= 2 * b + LowRttMax + 2 * MaxDrift

=============================================================================
