------------------------------ MODULE EvidenceRun ------------------------------
(***************************************************************************)
(* The scripts run_phase42x: each run of one leaves evidence on disk.      *)
(*                                                                         *)
(* A run cleans, tests, type checks, captures, analyses what it captured,  *)
(* evaluates the report, writes it with a self check and packs a bundle.   *)
(* Any of it may fail: then the report of the failure is written, and the  *)
(* script ends with an error.  The next run works in the same directory,   *)
(* so what an earlier run left there, or a killed one left half done, is   *)
(* around.  A behaviour is about one phase; a file is <<name, run>>, the   *)
(* run that wrote it (0: it was given), and its contents are the gates of  *)
(* EvidenceGates.                                                          *)
(***************************************************************************)
EXTENDS EvidenceGates, FiniteSets

CONSTANTS
  Phase,      \* the phases whose script is run
  MaxRuns,    \* bound: runs in one directory
  MaxRoots    \* bound: run -> gates that fail by themselves

ASSUME EvidenceAssumption ==
  /\ Phase \subseteq AllPhase
  /\ MaxRuns \in Nat /\ MaxRoots \in [1 .. MaxRuns -> Nat]

VARIABLES
  phase,      \* the phase of this directory
  run,        \* how many runs have been started
  pc,         \* where the script is, "off" between runs
  args,       \* the arguments of the run
  fresh,      \* capture["fresh_capture_performed"]
  why,        \* the class of an early failure, "" for none
  memory,     \* the report the script holds
  stage,      \* what is being written: "first", "bundled" or "unbundled"
  disk,       \* the files of the directory
  selfcheck,  \* phase42x_self_check.json
  bundles,    \* the bundles in the directory
  exit        \* how the last run ended

script == <<args, fresh, why, stage>>
vars == <<phase, run, pc, script, memory, disk, selfcheck, bundles, exit>>

NoReport == Blank({})
NoCheck == [run |-> 0, passed |-> FALSE, bundled |-> FALSE]

\* --skip-capture is "fixture" with --allow-fixture-mode (4.2A, 4.2B: by itself)
\* and "denied" without; 4.2H also has a short smoke run, --preflight-only and
\* --evaluate-existing-artifacts.  Its --input-latency-profile may name a file elsewhere
\* than where the capture writes it.
Modes(p) ==
  CASE p \in {A, B} -> {"fresh", "fixture"}
    [] p = H -> {"fresh", "fixture", "denied", "smoke", "existing", "preflight"}
    [] OTHER -> {"fresh", "fixture", "denied"}

Arguments(p) ==
  {a \in [mode : Modes(p), short : BOOLEAN, clean : BOOLEAN, bundle : BOOLEAN,
          elsewhere : BOOLEAN] :
     /\ a.short => a.mode = "fresh"
     /\ a.elsewhere => p = H /\ a.mode \in {"fresh", "fixture", "smoke"}
     /\ a.clean => p \notin {A, B} /\ a.mode # "existing"
     /\ a.mode = "preflight" => ~a.clean /\ ~a.bundle}

NoArguments == [mode |-> "fixture", short |-> FALSE, clean |-> FALSE, bundle |-> FALSE,
                elsewhere |-> FALSE]

Init ==
  /\ phase \in Phase /\ run = 0 /\ pc = "off"
  /\ args = NoArguments /\ fresh = FALSE /\ why = "" /\ stage = "first"
  /\ memory = NoReport
  /\ disk \in {{}, {<<"samples", 0>>}}
  /\ selfcheck = NoCheck /\ bundles = {} /\ exit = "none"

Put(files, names) == {f \in files : f[1] \notin names} \cup {<<n, run>> : n \in names}
Present == {f[1] : f \in disk} \cup (IF selfcheck.run > 0 THEN {"selfcheck"} ELSE {})
Required == args.mode \in {"fresh", "smoke"}

\* A plausible slip: the bundles stay until there is a new one.
KeepBundles == UNCHANGED bundles

\* The bundles of an earlier run are removed before anything else.
UnlinkBundles == bundles' = {}

\* The steps of main, in order.
StepsA == <<"tests", "capture", "analyse">>
StepsB == <<"tests", "capture", "analyse">>
StepsC == <<"cleanup", "tests", "types", "capture", "analyse">>
StepsD == <<"cleanup", "tests", "types", "capture", "analyse">>
StepsE == <<"cleanup", "tests", "types", "capture", "analyse">>
StepsFG == <<"cleanup", "tests", "types", "capture", "analyse">>
StepsH == <<"cleanup", "preflight", "tests", "types", "capture", "analyse">>

Steps == CASE phase = A -> StepsA [] phase = B -> StepsB [] phase = C -> StepsC
           [] phase = D -> StepsD [] phase = E -> StepsE [] phase = FG -> StepsFG
           [] phase = H -> StepsH

Begin(a) ==
  /\ pc = "off" /\ run < MaxRuns
  /\ run' = run + 1 /\ args' = a
  /\ fresh' = FALSE /\ why' = "" /\ stage' = "first" /\ memory' = NoReport /\ exit' = "none"
  /\ UnlinkBundles
  /\ pc' = (IF a.mode = "preflight" THEN "preflight" ELSE Head(Steps))
  /\ UNCHANGED <<phase, disk, selfcheck>>

\* The script gives up: what it writes is decided by Explain.
Fail(class) == why' = class /\ pc' = "explain"
Proceed == why' = why /\ pc' = Steps[1 + CHOOSE i \in DOMAIN Steps : Steps[i] = pc]

\* cleanup_phase42x_artifacts: everything goes, or one file cannot be removed.
Cleaned == {<<"cleanup", run>>}

Cleanup ==
  /\ pc = "cleanup"
  /\ \/ /\ ~args.clean
        /\ disk' = Put(disk, {"cleanup"}) /\ UNCHANGED selfcheck /\ Proceed
     \/ /\ args.clean
        /\ disk' = Cleaned /\ selfcheck' = NoCheck /\ Proceed
     \/ /\ args.clean
        /\ \/ disk' = Cleaned /\ selfcheck' = selfcheck
           \/ /\ \E left \in disk : left[1] # "cleanup" /\ disk' = Cleaned \cup {left}
              /\ selfcheck' = NoCheck
        /\ Fail("ARTIFACT_CLEANUP")
  /\ UNCHANGED <<phase, run, args, fresh, stage, memory, bundles, exit>>

\* run_phase42h_vps_preflight; --preflight-only ends with it.
Preflight ==
  /\ pc = "preflight"
  /\ disk' = Put(disk, {"preflight"})
  /\ \E ok \in BOOLEAN :
       IF args.mode = "preflight"
       THEN pc' = "off" /\ why' = why /\ exit' = (IF ok THEN "ok" ELSE "failed")
       ELSE exit' = exit /\ IF ok THEN Proceed ELSE Fail("PREFLIGHT")
  /\ UNCHANGED <<phase, run, args, fresh, stage, memory, selfcheck, bundles>>

RunPytest ==
  /\ pc = "tests"
  /\ disk' = Put(disk, {"pytest"})
  /\ Proceed \/ Fail("TEST")
  /\ UNCHANGED <<phase, run, args, fresh, stage, memory, selfcheck, bundles, exit>>

RunTypecheck ==
  /\ pc = "types"
  /\ disk' = Put(disk, {"typecheck"})
  /\ Proceed \/ Fail("TYPECHECK")
  /\ UNCHANGED <<phase, run, args, fresh, stage, memory, selfcheck, bundles, exit>>

\* What the script refuses before it captures.
Refusal ==
  IF phase \in {A, B} THEN ""
  ELSE IF args.mode = "denied" THEN "FRESH_CAPTURE"
  ELSE IF args.short THEN IF phase = C THEN "MULTI_FEED" ELSE "FRESH_DURATION"
  ELSE ""

Refuse ==
  /\ pc = "capture" /\ Refusal # ""
  /\ Fail(Refusal)
  /\ UNCHANGED <<phase, run, args, fresh, stage, memory, disk, selfcheck, bundles, exit>>

\* 4.2C, 4.2D and 4.2E write the diagnostics of a capture or a fixture at once.
WithDiagnostics(names) == IF phase \in {C, D, E} THEN names \cup {"diagnostics"} ELSE names

UseFixture ==
  /\ pc = "capture" /\ Refusal = "" /\ ~Required
  /\ disk' = Put(disk, WithDiagnostics({})) /\ Proceed
  /\ UNCHANGED <<phase, run, args, fresh, stage, memory, selfcheck, bundles, exit>>

Capture ==
  /\ pc = "capture" /\ Refusal = "" /\ Required
  /\ disk' = Put(disk, WithDiagnostics({"samples"}))
  /\ fresh' = TRUE /\ Proceed
  /\ UNCHANGED <<phase, run, args, stage, memory, selfcheck, bundles, exit>>

\* The capture exits with an error, or its diagnostics are not valid (4.2C to
\* 4.2E): 4.2A to 4.2C give up, the others analyse what there is.
CaptureFailed ==
  /\ pc = "capture" /\ Refusal = "" /\ Required
  /\ \E left \in {{}, {"samples"}} : disk' = Put(disk, WithDiagnostics(left))
  /\ fresh' \in (IF phase = C THEN BOOLEAN ELSE {FALSE})
  /\ CASE phase = A -> Fail("RUNTIME_CAPTURE") [] phase = B -> Fail("DUAL_FEED_CAPTURE")
       [] phase = C -> Fail("MULTI_FEED") [] OTHER -> Proceed
  /\ UNCHANGED <<phase, run, args, stage, memory, selfcheck, bundles, exit>>

\* The capture, or a server time request around it, raises.
CaptureRaised ==
  /\ pc = "capture" /\ Refusal = "" /\ Required /\ phase \in {E, FG, H}
  /\ \E left \in {{}, {"samples"}} : disk' = Put(disk, left)
  /\ Fail(IF phase = E THEN "CLOCK_SYNC" ELSE "FRESH_CAPTURE")
  /\ UNCHANGED <<phase, run, args, fresh, stage, memory, selfcheck, bundles, exit>>

----------------------------------------------------------------------------
\* The gates the run itself decides: what it was asked to do and what it has.
Situational ==
  {g \in GateNames[phase] \cup {"clean"} :
     \/ g = "fresh" /\ Required /\ ~fresh
     \/ g = "duration" /\ args.short /\ (phase \in {A, B, C} => fresh)
     \/ g = "cleanup" /\ Required /\ ~args.clean
     \/ g = (IF args.mode = "existing" THEN "existing" ELSE "clean") /\ "samples" \notin Present}

\* The gates that what was captured decides, for all that the run knows.
Decided == {"pytest", "typecheck", "cleanup", "cleanup_failed", "multi_feed", "fresh",
            "duration", "preflight"}

\* Of those, some are asked of a capture of this run only, some of one that was
\* asked for.
OfDiagnostics == {"diagnostics", "streams", "not_captured"}
OfPhase41Report == {"stale_phase41", "no_phase41"}
OfDurationGuard == {"guard", "exceeded"}

Rootable ==
  {g \in (GateNames[phase] \cup {"clean"}) \ Decided :
     /\ g \in OfDiagnostics \cup OfPhase41Report => fresh
     /\ g \in OfDurationGuard => Required
     /\ g = "existing" => args.mode = "existing"}

Roots == {{}} \cup {s \in {{g, h} : g, h \in Rootable} : Cardinality(s) <= MaxRoots[run]}

\* run_phase42x_analysis on a report that does not meet `unmet`: an input that does
\* not validate adds a reason, which only a second evaluation puts into the status.
Analysed(unmet) ==
  LET built == Evaluate(phase, Blank(Closed(phase, unmet)))
  IN  IF phase \notin {A, B} /\ "clean" \in built.unmet
      THEN Evaluate(phase, Noted(built, "validation",
                                 IF phase = C THEN "DEPTH_RUNTIME" ELSE "INPUT_DATASET"))
      ELSE built

\* 4.2F+G and 4.2H add the exit code of a capture that failed.
WithExitCode(r) ==
  IF phase \in {FG, H} /\ Required /\ ~fresh
  THEN Evaluate(phase, Noted(r, "capture_exit", "FRESH_CAPTURE")) ELSE r

\* 4.2A to 4.2C look for the report of the phase 4.1 capture and add a reason when it
\* is not there, after the evaluation.
RuntimeReports(r) ==
  {r} \cup (IF phase \in {A, B, C} /\ fresh
            THEN {Noted(r, "phase41", IF phase = C THEN "DEPTH_RUNTIME" ELSE "runtime")}
            ELSE {})

\* create_phase42x_dataset_zip, for a report with labels (4.2E) or latency samples (4.2F+G
\* and 4.2H: with either of them), unless 4.2H only evaluates existing artifacts.
Zipped(unmet) ==
  CASE phase = E -> IF "labeled" \in unmet THEN {{}} ELSE {{"dataset_zip"}}
    [] phase \in {FG, H} /\ args.mode # "existing" ->
         IF "latency" \in unmet THEN {{}, {"dataset_zip"}} ELSE {{"dataset_zip"}}
    [] OTHER -> {{}}

Analyse ==
  /\ pc = "analyse"
  /\ \E roots \in Roots :
       memory' \in RuntimeReports(WithExitCode(Analysed(roots \cup Situational)))
  /\ \E zip \in Zipped(memory'.unmet) : disk' = Put(disk, {"labels"} \cup zip)
  /\ pc' = "report"
  /\ UNCHANGED <<phase, run, script, selfcheck, bundles, exit>>

\* The gate an early failure is reported by, where the phase has it.
FlagGate ==
  {g \in GateNames[phase] :
     <<why, g>> \in {<<"TEST", "pytest">>, <<"TYPECHECK", "typecheck">>,
                     <<"ARTIFACT_CLEANUP", "cleanup_failed">>, <<"PREFLIGHT", "preflight">>,
                     <<"MULTI_FEED", "multi_feed">>}}

\* empty_phase42c_report: evaluated, then told its failure, and evaluated again.
EmptyReportC ==
  LET unmet == Situational \cup {"clean", "labeled", "datasets", "no_source"}
               \cup (IF fresh THEN {"diagnostics", "not_captured"} ELSE {})
      built == Evaluate(C, Blank(unmet))
  IN  Evaluate(C, [built EXCEPT !.unmet = @ \cup FlagGate,
                                !.primary = IF why = "FRESH_CAPTURE" THEN "MULTI_FEED" ELSE why,
                                !.classes = {why}, !.reasons = @ \cup {"early"}])

\* _failure_report of 4.2F+G and 4.2H: nothing was measured.
FailureReport(unmeasured) ==
  LET unmet == (Situational \ {"clean", "existing"}) \cup FlagGate \cup unmeasured
  IN  Evaluate(phase, [Blank(unmet) EXCEPT !.reasons = {"early"}, !.classes = {why},
                                           !.primary = why])

UnmeasuredFG == {"clock_quality", "latency", "queue", "leakage", "protocol"}
UnmeasuredH == UnmeasuredFG \cup {"hot_path", "writer_flush"}

\* 4.2D and 4.2E analyse whatever is on disk, 4.2E without a clock sample.
EarlyAnalysis(unmet) ==
  LET built == Analysed(unmet \cup Situational \cup FlagGate)
  IN  IF why = "ARTIFACT_CLEANUP"
      THEN Evaluate(phase, Noted(built, "early", why)) ELSE built

UnclockedE == {"clock_ends", "clock_quality"}

EmptyReportA == Blank({"clean", "labeled", "valid_rate"})
EmptyReportB ==
  Blank({"fresh", "feed_empty", "none_valid", "clean", "labeled", "valid_rate"} \cup FlagGate)

EmptyReports ==
  CASE phase = A -> {EmptyReportA}
    [] phase = B -> {EmptyReportB}
    [] phase = C -> {EmptyReportC}
    [] phase = D -> {EarlyAnalysis(roots) : roots \in Roots}
    [] phase = E -> {EarlyAnalysis(roots \cup UnclockedE) : roots \in Roots}
    [] phase = FG -> {FailureReport(UnmeasuredFG)}
    [] phase = H -> {FailureReport(UnmeasuredH)}

\* The report of a run that gave up.
Explain ==
  /\ pc = "explain"
  /\ memory' \in EmptyReports
  /\ disk' = (IF phase \in {D, E} THEN Put(disk, {"labels"}) ELSE disk)
  /\ pc' = "report"
  /\ UNCHANGED <<phase, run, script, selfcheck, bundles, exit>>

----------------------------------------------------------------------------
\* write_phase42x_artifacts, in two steps: the report and its parts, then the self
\* check and, of a failure, the investigation.  It evaluates the report once more,
\* and the script keeps its own (4.2H evaluates that before it first writes).
PartsA == {"report", "pytest"}
PartsB == {"report", "pytest"}
PartsC == {"report", "pytest"}
PartsD == {"report", "pytest"}
PartsE == {"report", "pytest"}
PartsFG == {"report", "pytest", "cleanup", "diagnostics"} \cup ({"typecheck"} \ Present)
PartsH == PartsFG \cup {"preflight"}

Parts == CASE phase = A -> PartsA [] phase = B -> PartsB [] phase = C -> PartsC
           [] phase = D -> PartsD [] phase = E -> PartsE [] phase = FG -> PartsFG
           [] phase = H -> PartsH

WriteReport ==
  /\ pc = "report"
  /\ memory' = (IF phase = H /\ stage = "first" THEN Evaluate(phase, memory) ELSE memory)
  /\ disk' = Put(disk, Parts)
  /\ pc' = "check"
  /\ UNCHANGED <<phase, run, script, selfcheck, bundles, exit>>

\* bundle_created, as the caller passes it.
SaysBundled ==
  CASE phase \in {A, B, C, D} -> stage = "bundled"
    [] phase \in {E, FG} -> stage = "first" /\ args.bundle
    [] OTHER -> stage = "bundled" \/ (stage = "first" /\ args.bundle)

\* The report as it is written.  4.2H looks at the latency profile it has just written,
\* which must be about the samples of this directory, and evaluates with what it finds:
\* that goes into what is written, not into the report the script holds.
Written ==
  IF args.elsewhere
  THEN Evaluate(phase, [Evaluate(phase, memory) EXCEPT !.unmet = @ \cup {"latency"}])
  ELSE Evaluate(phase, memory)

WriteCheck ==
  /\ pc = "check"
  /\ selfcheck' = [run |-> run, passed |-> Written.passes, bundled |-> SaysBundled]
  /\ disk' = (IF Written.passes THEN disk ELSE Put(disk, {"investigation"}))
  /\ pc' = "written"
  /\ UNCHANGED <<phase, run, script, memory, bundles, exit>>

\* The files without which a bundle is refused.
FilesA == {"samples", "labels", "report", "selfcheck", "pytest"}
FilesB == {"samples", "labels", "report", "selfcheck", "pytest"}
FilesC == FilesB \cup {"diagnostics", "cleanup", "typecheck"}
FilesD == {"labels", "report", "selfcheck", "pytest", "typecheck"}
FilesE == {"report", "selfcheck", "pytest", "cleanup", "diagnostics", "typecheck"}
FilesFG == {"report", "selfcheck", "pytest", "cleanup", "diagnostics", "typecheck"}
FilesH == FilesFG \cup {"preflight"}

RequiredFiles ==
  CASE phase = A -> FilesA [] phase = B -> FilesB [] phase = C -> FilesC [] phase = D -> FilesD
    [] phase = E -> FilesE [] phase = FG -> FilesFG [] phase = H -> FilesH

\* Only 4.2E, 4.2F+G and 4.2H pack the evidence of a failure, under another name.
OpenBundle ==
  /\ pc = "written" /\ stage = "first" /\ args.bundle
  /\ phase \in {E, FG, H} \/ (memory.passes /\ why = "")
  /\ bundles' = bundles \cup {[kind |-> IF memory.passes THEN "pass" ELSE "audit", run |-> run,
                               complete |-> FALSE, passed |-> FALSE, files |-> {}]}
  /\ pc' = "zip"
  /\ UNCHANGED <<phase, run, script, memory, disk, selfcheck, exit>>

\* The files that are packed when they are there, whoever wrote them.
OptionalFiles == {"investigation"} \cup (IF phase \in {E, FG, H} THEN {"dataset_zip"} ELSE {})

Wanted(b) == RequiredFiles \cup (IF b.kind = "audit" THEN {"investigation"} ELSE {})

CloseBundle ==
  /\ pc = "zip"
  /\ \E b \in bundles :
       /\ b.run = run /\ Wanted(b) \subseteq Present
       /\ bundles' = (bundles \ {b}) \cup
            {[b EXCEPT !.complete = TRUE, !.passed = selfcheck.passed,
                       !.files = {f \in disk : f[1] \in RequiredFiles \cup OptionalFiles}]}
  /\ stage' = "bundled"
  /\ pc' = (IF phase \in {E, FG} THEN "written" ELSE "report")
  /\ UNCHANGED <<phase, run, args, fresh, why, memory, disk, selfcheck, exit>>

\* A required file is missing, or writing the archive fails.
BundleFailed ==
  /\ pc = "zip"
  /\ LET failed == [Noted(memory, "bundle", "BUNDLE") EXCEPT !.primary = "BUNDLE"]
     IN  memory' = (IF phase \in {A, B, C} THEN failed ELSE Evaluate(phase, failed))
  /\ stage' = "unbundled" /\ pc' = "report"
  /\ UNCHANGED <<phase, run, args, fresh, why, disk, selfcheck, bundles, exit>>

\* A plausible slip: only the report decides, whatever the script gave up on.
OutcomeOfReport == IF memory.passes THEN "ok" ELSE "failed"

\* How the script ends.
Outcome ==
  IF stage = "unbundled" /\ phase \in {E, FG, H} THEN "raised"
  ELSE IF why = "" /\ memory.passes THEN "ok" ELSE "failed"

Finish ==
  /\ pc = "written"
  /\ stage = "first" => ~args.bundle \/ (phase \in {A, B, C, D} /\ (~memory.passes \/ why # ""))
  /\ exit' = Outcome /\ pc' = "off"
  /\ bundles' = (IF stage = "unbundled" /\ phase \in {B, C, D} THEN {} ELSE bundles)
  /\ UNCHANGED <<phase, run, script, memory, disk, selfcheck>>

\* The process is killed: what it has written stays.
Crash ==
  /\ pc # "off"
  /\ pc' = "off" /\ exit' = "crashed"
  /\ UNCHANGED <<phase, run, script, memory, disk, selfcheck, bundles>>

Next ==
  \/ \E a \in Arguments(phase) : Begin(a)
  \/ Cleanup \/ Preflight \/ RunPytest \/ RunTypecheck
  \/ Refuse \/ UseFixture \/ Capture \/ CaptureFailed \/ CaptureRaised
  \/ Analyse \/ Explain \/ WriteReport \/ WriteCheck
  \/ OpenBundle \/ CloseBundle \/ BundleFailed \/ Finish \/ Crash

Spec == Init /\ [][Next]_vars

----------------------------------------------------------------------------
Ended == pc = "off" /\ exit \notin {"none", "crashed"} /\ args.mode # "preflight"

(* A self check that says passed is earned: when its run has ended, the      *)
(* report meets every gate, and the script returned 0.  A report is written  *)
(* up to three times, evaluated again each time, and what the script noted   *)
(* in between must survive that.  It does not in 4.2A and 4.2B, which start   *)
(* over, and 4.2D may refuse a run whose old files pass.                     *)
PassIsEarned ==
  Ended /\ selfcheck.run = run /\ selfcheck.passed =>
    /\ memory.unmet = {}
    /\ \/ exit = "ok"
       \/ phase \in {A, B}
       \/ phase = D /\ why = "FRESH_CAPTURE"

(* A run that returns 0 leaves the evidence for it: a report of its own that  *)
(* meets every gate, a capture of its own unless it was allowed to do        *)
(* without one, the passing bundle if it was to make one, and its own self   *)
(* check.  That check passed, except in 4.2H when the latency profile was    *)
(* read elsewhere: the script returns 0 and its self check says failed.      *)
ExitIsEvidence ==
  Ended /\ exit = "ok" =>
    /\ selfcheck.run = run /\ memory.unmet = {}
    /\ selfcheck.passed <=> ~args.elsewhere
    /\ args.mode # "denied"
    /\ Required => fresh /\ <<"samples", run>> \in disk
    /\ args.bundle => \E b \in bundles : b.kind = "pass" /\ b.run = run /\ b.complete

(* A finished bundle is of the latest run and its self check says what its   *)
(* name says, again but for a profile read elsewhere.  What a passing one    *)
(* holds this run wrote, whatever was in the directory and wherever earlier  *)
(* runs were killed, with three exceptions: the samples are given when       *)
(* nothing is captured; an investigation of an earlier failure is packed     *)
(* when the run did not clean; and 4.2H, evaluating existing artifacts,      *)
(* packs the dataset zip it finds.                                           *)
BundleIsOneRun ==
  \A b \in bundles : b.complete =>
    /\ b.run = run
    /\ b.passed <=> b.kind = "pass" /\ ~args.elsewhere
    /\ b.kind = "pass" =>
         \A f \in b.files :
           \/ f[2] = run
           \/ f[1] = "samples" /\ ~Required
           \/ f[1] = "investigation" /\ ~args.clean
           \/ f[1] = "dataset_zip" /\ args.mode = "existing"

(* The failure the self check names is one the report has: the primary one   *)
(* or one of its classes, and it is UNKNOWN only when the phase has no name  *)
(* for any of them.  4.2A and 4.2B name failures by their reasons.           *)
ClassNamesFailure ==
  pc = "check" /\ phase \notin {A, B} =>
    LET named  == Classify(phase, Written)
        has    == Written.classes \cup {Written.primary}
        listed == ToSet(Listing(phase))
    IN  ~Written.passes =>
          IF named = Unknown
          THEN ~\E k \in listed, c \in has : k = c
          ELSE \E c \in has : Within(named, c)
================================================================================
