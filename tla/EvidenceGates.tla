----------------------------- MODULE EvidenceGates -----------------------------
(***************************************************************************)
(* The gates of phases 4.2A to 4.2H and the report they decide.            *)
(*                                                                         *)
(* Each phase has evaluate_phase42x_report, which goes through its gates   *)
(* in order and adds a reason, a class and perhaps the primary failure for *)
(* every gate that is not met, and classify_phase42x_failure, which names  *)
(* the failure in the self check.  A report is evaluated again whenever it *)
(* is written, so what evaluation keeps of an earlier one matters.         *)
(*                                                                         *)
(* A gate is <<name, class>>, in the order of the code; checks repeated    *)
(* over fields, feeds or budgets with one class are one gate.  A report is *)
(*   unmet    the gates its own contents do not meet                       *)
(*   reasons  hard_fail_reasons, as gates and as notes of the script       *)
(*   classes  failure_classifications                                      *)
(*   primary  primary_failure, "" for none                                 *)
(*   passes   status = "pass"                                              *)
(***************************************************************************)
EXTENDS Naturals, Sequences, SequencesExt

A == "4.2A"
B == "4.2B"
C == "4.2C"
D == "4.2D"
E == "4.2E"
FG == "4.2F+G"
H == "4.2H"

AllPhase == {A, B, C, D, E, FG, H}

\* 4.2A and 4.2B name the primary failure after the gate itself.
GatesA == <<
  <<"schema", "schema">>, <<"fresh", "fresh">>, <<"duration", "duration">>,
  <<"downsampling", "downsampling">>, <<"every_delta", "every_delta">>,
  <<"runtime", "runtime">>, <<"snapshot_copy", "runtime">>, <<"clean", "clean">>,
  <<"labeled", "labeled">>, <<"monotonic", "monotonic">>, <<"duplicate", "duplicate">>,
  <<"gap_p95", "gap_p95">>, <<"gap_p99", "gap_p99">>, <<"policy", "policy">>,
  <<"valid_rate", "valid_rate">>, <<"feature", "feature">>, <<"label", "label">> >>

GatesB == <<
  <<"schema", "schema">>, <<"pytest", "pytest">>, <<"fresh", "fresh">>,
  <<"duration", "duration">>, <<"downsampling", "downsampling">>,
  <<"runtime", "runtime">>, <<"feed_missing", "feed_missing">>,
  <<"feed_empty", "feed_empty">>, <<"none_valid", "none_valid">>,
  <<"invalid_quote", "invalid_quote">>, <<"monotonic", "monotonic">>,
  <<"gap", "gap">>, <<"clean", "clean">>, <<"labeled", "labeled">>,
  <<"source", "source">>, <<"policy", "policy">>, <<"valid_rate", "valid_rate">>,
  <<"feature", "feature">>, <<"label", "label">> >>

\* 4.2C, before and from the reference sources.
CaptureGatesC == <<
  <<"schema", "REPORT_SCHEMA">>, <<"pytest", "TEST">>, <<"typecheck", "TYPECHECK">>,
  <<"cleanup_failed", "ARTIFACT_CLEANUP">>, <<"multi_feed", "MULTI_FEED">>,
  <<"cleanup", "ARTIFACT_CLEANUP">>, <<"fresh", "FRESH_CAPTURE">>,
  <<"duration", "MULTI_FEED">>, <<"downsampling", "DEPTH_RUNTIME">>,
  <<"diagnostics", "MULTI_FEED">>, <<"streams", "MULTI_FEED">>,
  <<"runtime", "DEPTH_RUNTIME">>, <<"clean", "DEPTH_RUNTIME">>,
  <<"labeled", "MULTI_FEED">> >>

SourceGatesC == <<
  <<"datasets", "MULTI_FEED">>, <<"not_captured", "MULTI_FEED">>,
  <<"parser", "REFERENCE_SCHEMA">>, <<"policy", "HORIZON">>,
  <<"ranking", "REPORT_SCHEMA">>, <<"below_rate", "LABEL_VALID_RATE">>,
  <<"feed_empty", "REFERENCE_FEED_EMPTY">>, <<"no_source", "NO_REFERENCE_SOURCE">>,
  <<"selected_rate", "LABEL_VALID_RATE">>, <<"label", "LABEL_LEAKAGE">>,
  <<"monotonic", "REFERENCE_MONOTONIC">>, <<"warning", "REPORT_SCHEMA">>,
  <<"feature", "FEATURE_LEAKAGE">> >>

\* What the later phases begin and go on with.
ToolGates == <<
  <<"schema", "REPORT_SCHEMA">>, <<"pytest", "TEST">>, <<"typecheck", "TYPECHECK">> >>

FreshGates == <<
  <<"cleanup", "ARTIFACT_CLEANUP">>, <<"cleanup_failed", "ARTIFACT_CLEANUP">>,
  <<"fresh", "FRESH_CAPTURE">>, <<"duration", "FRESH_DURATION">> >>

LeakageGates == <<
  <<"leakage", "LEAKAGE">>, <<"feature", "FEATURE_LEAKAGE">>, <<"label", "LABEL_LEAKAGE">> >>

GatesD ==
  ToolGates
  \o << <<"gitignore", "GITIGNORE">>, <<"cleanup", "ARTIFACT_CLEANUP">>,
        <<"fresh", "FRESH_CAPTURE">>, <<"duration", "FRESH_DURATION">>,
        <<"clean", "INPUT_DATASET">>, <<"labeled", "INPUT_DATASET">>,
        <<"policy", "HORIZON">>, <<"future_lag", "HYBRID_PROTOCOL">>,
        <<"timestamps", "INPUT_TIMESTAMP_SCHEMA">>, <<"sources", "REPORT_SCHEMA">>,
        <<"receive", "RECEIVE_MISSING">>, <<"exchange", "EXCHANGE_MISSING">>,
        <<"fake_exchange", "EXCHANGE_FAKE">>, <<"fake_bookticker", "BOOKTICKER_FAKE">>,
        <<"hybrid", "HYBRID_MISSING">>, <<"telemetry", "HYBRID_PROTOCOL">> >>
  \o LeakageGates
  \o << <<"clock_sanity", "CLOCK_SANITY">>, <<"coverage", "EXCHANGE_COVERAGE">>,
        <<"observability", "HYBRID_OBSERVABILITY">>, <<"decision", "PROTOCOL_DECISION">> >>

\* The clock gates: 4.2E also asks for samples before and after the capture.
ClockGates == <<
  <<"clock_quality", "SAMPLE_QUALITY">>, <<"no_offset", "CLOCK_SYNC">>,
  <<"no_drift", "CLOCK_SYNC">>, <<"drift", "OFFSET_DRIFT">>, <<"rtt", "SERVER_RTT">> >>

GatesE ==
  ToolGates
  \o << <<"gitignore", "GITIGNORE">> >> \o FreshGates
  \o << <<"clean", "INPUT_DATASET">>, <<"labeled", "INPUT_DATASET">>,
        <<"policy", "HORIZON">>, <<"future_lag", "CORRECTED_HYBRID">>,
        <<"clock_ends", "CLOCK_SYNC">> >>
  \o ClockGates
  \o << <<"clock_sanity", "CLOCK_SYNC">>, <<"lag_sanity", "LAG_SANITY">> >>
  \o LeakageGates
  \o << <<"coverage", "EXCHANGE_COVERAGE">>, <<"fake_exchange", "EXCHANGE_FAKE">>,
        <<"fake_bookticker", "BOOKTICKER_FAKE">>, <<"hybrid", "CORRECTED_MISSING">>,
        <<"lag_report", "LAG_REPORT">>, <<"observability", "CORRECTED_HYBRID">>,
        <<"decision", "PROTOCOL_DECISION">> >>

SourceGates == <<
  <<"protocol", "PROTOCOL_REPORT_MISSING">>, <<"receive", "RECEIVE_MISSING">>,
  <<"exchange", "EXCHANGE_MISSING">>, <<"hybrid", "CORRECTED_MISSING">>,
  <<"fake_exchange", "EXCHANGE_FAKE">>, <<"fake_bookticker", "BOOKTICKER_FAKE">>,
  <<"source_lag", "FUTURE_LAG">>, <<"source_policy", "HORIZON">>,
  <<"readiness", "READINESS">>, <<"phase5", "PHASE5_READY">> >>

GatesFG ==
  ToolGates
  \o << <<"gitignore", "GITIGNORE">> >> \o FreshGates
  \o << <<"policy", "HORIZON">>, <<"future_lag", "FUTURE_LAG">> >>
  \o ClockGates
  \o << <<"latency", "LATENCY_MISSING">>, <<"queue", "QUEUE_REPORT_MISSING">>,
        <<"dropped", "QUEUE_DROPPED">> >>
  \o LeakageGates \o SourceGates

\* 4.2H, up to the clock and from the artifacts.
CaptureGatesH ==
  ToolGates
  \o << <<"preflight", "PREFLIGHT">>, <<"stale_phase41", "PHASE41_STALE">>,
        <<"no_phase41", "PHASE41_MISSING">>, <<"phase41", "PHASE41_FAILURE">>,
        <<"gitignore", "GITIGNORE">> >>
  \o FreshGates
  \o << <<"guard", "DURATION_GUARD">>, <<"exceeded", "DURATION_EXCEEDED">>,
        <<"policy", "HORIZON">>, <<"future_lag", "FUTURE_LAG">> >>

ArtifactGatesH ==
  ClockGates
  \o << <<"existing", "DERIVED_MISSING">>, <<"latency", "LATENCY_MISSING">>,
        <<"queue", "QUEUE_REPORT_MISSING">>, <<"hot_path", "HOT_PATH">>,
        <<"dropped", "QUEUE_DROPPED">>, <<"writer_flush", "WRITER_FLUSH">>,
        <<"writer_dropped", "WRITER_DROPPED">>, <<"writer_error", "WRITER_ERROR">> >>
  \o LeakageGates \o SourceGates

Gates == [p \in AllPhase |->
            CASE p = A -> GatesA [] p = B -> GatesB
              [] p = C -> CaptureGatesC \o SourceGatesC
              [] p = D -> GatesD [] p = E -> GatesE [] p = FG -> GatesFG
              [] p = H -> CaptureGatesH \o ArtifactGatesH]

GateNames == [p \in AllPhase |-> {Gates[p][i][1] : i \in DOMAIN Gates[p]}]

----------------------------------------------------------------------------
\* 4.2A and 4.2B begin every evaluation without reasons; the others keep them.
StartsOver(p) == p \in {A, B}

\* Gates whose failure replaces the primary failure, and what it becomes; the
\* last of them that fails counts.
Overriding == [p \in AllPhase |->
                 CASE p = A -> << <<"valid_rate", "valid_rate">>, <<"policy", "policy">> >>
                   [] p = B -> << <<"pytest", "pytest">>, <<"valid_rate", "valid_rate">>,
                                  <<"policy", "policy">> >>
                   [] p = C -> << <<"fresh", "MULTI_FEED">>,
                                  <<"no_source", "NO_REFERENCE_SOURCE">> >>
                   [] OTHER -> << >>]

\* The classes 4.2C has collected when it comes to a gate.
CollectedC(r, gate) ==
  LET at == CHOOSE i \in DOMAIN Gates[C] : Gates[C][i][1] = gate
  IN  r.classes \cup {Gates[C][i][2] : i \in {j \in 1 .. at - 1 : Gates[C][j][1] \in r.unmet}}

\* Gates that are not looked at because of another one: without a selected source
\* only the source itself is, an incomplete capture excuses both, and a clock that
\* was not sampled well is not asked for its offset.
Waived(p, r, gate) ==
  \/ p = C /\ gate = "fresh" /\ "MULTI_FEED" \in CollectedC(r, gate)
  \/ p = C /\ gate \in {"feed_empty", "no_source"}
       /\ {"MULTI_FEED", "FRESH_CAPTURE"} \cap CollectedC(r, gate) # {}
  \/ p = C /\ gate \in {"below_rate", "feed_empty"} /\ "no_source" \notin r.unmet
  \/ p = C /\ gate \in {"selected_rate", "label", "monotonic", "warning"}
       /\ "no_source" \in r.unmet
  \/ gate \in {"no_offset", "no_drift", "drift"} /\ "clock_quality" \in r.unmet
  \/ gate = "drift" /\ "no_drift" \in r.unmet

\* A plausible slip: every phase begins every evaluation without reasons.
KeptNothing(p, r) == [r EXCEPT !.reasons = {}, !.classes = {}, !.primary = ""]

\* What an evaluation begins with.
Kept(p, r) ==
  IF StartsOver(p) THEN [r EXCEPT !.reasons = {}, !.classes = {}, !.primary = ""] ELSE r

\* Where the gates stand that are looked at and not met.
Failing(p, kept) ==
  {i \in DOMAIN Gates[p] : Gates[p][i][1] \in kept.unmet /\ ~Waived(p, kept, Gates[p][i][1])}

\* The report that was `kept` when the gates at `failing` are not met.
Judged(p, kept, failing) ==
  LET names == {Gates[p][i][1] : i \in failing}
      over  == {i \in DOMAIN Overriding[p] : Overriding[p][i][1] \in names}
      hard  == kept.reasons \cup names
  IN  [unmet   |-> kept.unmet,
       reasons |-> hard,
       classes |-> IF StartsOver(p) THEN {}
                   ELSE kept.classes \cup {Gates[p][i][2] : i \in failing},
       primary |-> IF hard = {} THEN ""
                   ELSE IF over # {} THEN Overriding[p][Max(over)][2]
                   ELSE IF kept.primary # "" THEN kept.primary
                   ELSE IF failing # {} THEN Gates[p][Min(failing)][2] ELSE "",
       passes  |-> hard = {}]

Evaluate(p, r) == Judged(p, Kept(p, r), Failing(p, Kept(p, r)))

\* A script adds a reason of its own to a report it already has.
Noted(r, reason, class) ==
  [r EXCEPT !.reasons = @ \cup {reason}, !.passes = FALSE,
            !.primary = IF @ = "" THEN class ELSE @]

----------------------------------------------------------------------------
\* Rules of 4.2A and 4.2B: <<reasons, primary failures, class>>, the first that
\* has one of the reasons or the primary failure.  "valid reference quote count = 0"
\* contains the text looked for in an empty feed.
RulesA == <<
  <<{"schema"}, {}, "REPORT_SCHEMA">>, <<{"policy"}, {"policy"}, "HORIZON">>,
  <<{"valid_rate"}, {"valid_rate"}, "LABEL_VALID_RATE">>,
  <<{"monotonic"}, {}, "MONOTONIC">>, <<{"duplicate"}, {}, "DUPLICATE">>,
  <<{"gap_p95"}, {}, "GAP_P95">>, <<{"gap_p99"}, {}, "GAP_P99">>,
  <<{"feature"}, {}, "FEATURE_LEAKAGE">>, <<{"label"}, {}, "LABEL_LEAKAGE">>,
  <<{"fresh"}, {}, "RUNTIME_CAPTURE">>, <<{"runtime"}, {"runtime"}, "RUNTIME_QUALITY">>,
  <<{"clean"}, {}, "INPUT_EMPTY">> >>

RulesB == <<
  <<{"pytest"}, {"pytest"}, "TEST">>, <<{"schema"}, {}, "REPORT_SCHEMA">>,
  <<{"feed_missing"}, {"feed_missing"}, "FEED_MISSING">>,
  <<{"fresh"}, {"fresh", "duration"}, "DUAL_FEED_CAPTURE">>,
  <<{"runtime"}, {"runtime"}, "DEPTH_RUNTIME">>,
  <<{"feed_empty", "none_valid"}, {"feed_empty"}, "FEED_EMPTY">>,
  <<{}, {"none_valid"}, "QUOTE_INVALID">>,
  <<{"invalid_quote"}, {"invalid_quote"}, "FEED_SCHEMA">>,
  <<{}, {"monotonic"}, "REFERENCE_MONOTONIC">>, <<{}, {"gap"}, "FEED_GAP">>,
  <<{"policy"}, {"policy"}, "HORIZON">>,
  <<{"valid_rate"}, {"valid_rate"}, "LABEL_VALID_RATE">>,
  <<{}, {"feature"}, "FEATURE_LEAKAGE">>, <<{}, {"label"}, "LABEL_LEAKAGE">> >>

\* The classes the other phases know, in the order they are looked for: first in
\* the primary failure, then (4.2C: a shorter list) among the classes.
KnownC == <<
  "ARTIFACT_CLEANUP", "TEST", "TYPECHECK", "FRESH_CAPTURE", "MULTI_FEED", "DEPTH_RUNTIME",
  "REFERENCE_FEED_EMPTY", "REFERENCE_SCHEMA", "REFERENCE_MONOTONIC", "HORIZON",
  "NO_REFERENCE_SOURCE", "LABEL_VALID_RATE", "FEATURE_LEAKAGE", "LABEL_LEAKAGE",
  "REPORT_SCHEMA", "BUNDLE" >>

ListedC == <<
  "ARTIFACT_CLEANUP", "TEST", "TYPECHECK", "FRESH_CAPTURE", "MULTI_FEED",
  "REFERENCE_SCHEMA", "HORIZON", "FEATURE_LEAKAGE", "LABEL_LEAKAGE", "REPORT_SCHEMA",
  "BUNDLE", "NO_REFERENCE_SOURCE", "LABEL_VALID_RATE", "REFERENCE_FEED_EMPTY" >>

KnownD == <<
  "TEST", "TYPECHECK", "GITIGNORE", "ARTIFACT_CLEANUP", "FRESH_CAPTURE", "FRESH_DURATION",
  "INPUT_DATASET", "INPUT_TIMESTAMP_SCHEMA", "EXCHANGE_COVERAGE", "HYBRID_OBSERVABILITY",
  "CLOCK_SANITY", "FEATURE_LEAKAGE", "LABEL_LEAKAGE", "HORIZON", "REPORT_SCHEMA", "BUNDLE",
  "PROTOCOL_DECISION" >>

KnownE == <<
  "ARTIFACT_CLEANUP", "TEST", "TYPECHECK", "GITIGNORE", "FRESH_CAPTURE", "FRESH_DURATION",
  "CLOCK_SYNC", "SAMPLE_QUALITY", "OFFSET_DRIFT", "SERVER_RTT", "LAG_SANITY",
  "INPUT_DATASET", "EXCHANGE_COVERAGE", "CORRECTED_HYBRID", "FEATURE_LEAKAGE",
  "LABEL_LEAKAGE", "REPORT_SCHEMA", "BUNDLE", "PROTOCOL_DECISION" >>

KnownFG == <<
  "ARTIFACT_CLEANUP", "TEST", "TYPECHECK", "GITIGNORE", "FRESH_CAPTURE", "FRESH_DURATION",
  "CLOCK_SYNC", "SAMPLE_QUALITY", "OFFSET_DRIFT", "SERVER_RTT", "LATENCY_MISSING",
  "QUEUE_REPORT_MISSING", "QUEUE_DROPPED", "FEATURE_LEAKAGE", "LABEL_LEAKAGE",
  "REPORT_SCHEMA", "BUNDLE", "READINESS", "PHASE5_READY" >>

KnownH == <<
  "ARTIFACT_CLEANUP", "TEST", "TYPECHECK", "PREFLIGHT", "GITIGNORE", "PHASE41_FAILURE",
  "PHASE41_MISSING", "PHASE41_STALE", "FRESH_CAPTURE", "FRESH_DURATION",
  "DURATION_EXCEEDED", "DURATION_GUARD", "CLOCK_SYNC", "SAMPLE_QUALITY", "OFFSET_DRIFT",
  "SERVER_RTT", "LATENCY_MISSING", "QUEUE_REPORT_MISSING", "HOT_PATH", "QUEUE_DROPPED",
  "WRITER_DROPPED", "WRITER_ERROR", "WRITER_FLUSH", "LEAKAGE", "FEATURE_LEAKAGE",
  "LABEL_LEAKAGE", "DERIVED_MISSING", "REPORT_MISSING", "REPORT_SCHEMA", "BUNDLE",
  "READINESS", "PHASE5_READY" >>

Known == [p \in AllPhase \ {A, B} |->
            CASE p = C -> KnownC [] p = D -> KnownD [] p = E -> KnownE
              [] p = FG -> KnownFG [] p = H -> KnownH]

Unknown == "UNKNOWN"

\* A class is looked for as a part of the primary failure's text.
Within(known, class) ==
  \/ known = class
  \/ <<known, class>> \in {<<"LEAKAGE", "FEATURE_LEAKAGE">>, <<"LEAKAGE", "LABEL_LEAKAGE">>,
                           <<"REPORT_MISSING", "PROTOCOL_REPORT_MISSING">>}

ClassifyByRule(rules, r) ==
  LET applies == {i \in DOMAIN rules :
                    rules[i][1] \cap r.reasons # {} \/ r.primary \in rules[i][2]}
  IN  IF applies = {} THEN Unknown ELSE rules[Min(applies)][3]

\* Where the classes a phase knows are part of the primary failure, and where those it
\* lists are among the classes.
InPrimary(p, r) == {i \in DOMAIN Known[p] : Within(Known[p][i], r.primary)}
Listing(p) == IF p = C THEN ListedC ELSE Known[p]
InClasses(p, r) == {i \in DOMAIN Listing(p) : Listing(p)[i] \in r.classes}

\* A plausible slip: the classes are not consulted.
ClassifyPrimaryOnly(p, r) ==
  IF InPrimary(p, r) = {} THEN Unknown ELSE Known[p][Min(InPrimary(p, r))]

ClassifyByName(p, r) ==
  IF p = C /\ r.primary = "MULTI_FEED" /\ "FRESH_CAPTURE" \in r.classes THEN "FRESH_CAPTURE"
  ELSE IF InPrimary(p, r) # {} THEN Known[p][Min(InPrimary(p, r))]
  ELSE IF InClasses(p, r) # {} THEN Listing(p)[Min(InClasses(p, r))]
  ELSE Unknown

Classify(p, r) ==
  CASE p = A -> ClassifyByRule(RulesA, r)
    [] p = B -> ClassifyByRule(RulesB, r)
    [] OTHER -> ClassifyByName(p, r)

----------------------------------------------------------------------------
\* Gates that cannot be met when another is not: an empty file has no labels, no
\* labels have no rate, and a protocol that is not covered is not ready.
FollowsA == {<<"clean", "labeled">>, <<"labeled", "valid_rate">>}
FollowsB == FollowsA \cup {<<"feed_missing", "feed_empty">>, <<"feed_empty", "none_valid">>,
                           <<"none_valid", "valid_rate">>}
FollowsC == {<<"clean", "labeled">>, <<"labeled", "no_source">>, <<"below_rate", "no_source">>,
             <<"feed_empty", "no_source">>}
FollowsD == {<<"clean", "labeled">>, <<"labeled", "coverage">>,
             <<"coverage", "observability">>, <<"observability", "decision">>}
FollowsE == FollowsD

Follows == [p \in AllPhase |->
              CASE p = A -> FollowsA [] p = B -> FollowsB [] p = C -> FollowsC
                [] p = D -> FollowsD [] p = E -> FollowsE [] OTHER -> {}]

\* Closed under Follows, whose longest chain has four steps.  "clean" stands for the
\* clean samples' own validation too, which also the phases without a gate for it do.
Follow(p, s) == s \cup {f[2] : f \in {g \in Follows[p] : g[1] \in s}}
Closed(p, unmet) ==
  Follow(p, Follow(p, Follow(p, Follow(p, unmet)))) \cap (GateNames[p] \cup {"clean"})

Blank(unmet) ==
  [unmet |-> unmet, reasons |-> {}, classes |-> {}, primary |-> "", passes |-> FALSE]
================================================================================
