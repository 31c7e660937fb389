---------------------------- MODULE EvidenceProofs ----------------------------
(***************************************************************************)
(* Proofs about EvidenceRun, for any of the seven phases, any number of    *)
(* runs in one directory and any number of gates that fail together: what  *)
(* a passing self check, an exit code of 0, a finished bundle and the name *)
(* of a failure are worth.                                                 *)
(***************************************************************************)
EXTENDS EvidenceRun, WellFoundedInduction, TLAPS

Names(p) == GateNames[p] \cup {"clean"}

\* A report as the evaluations leave it: it has its fields, names only gates of the phase,
\* has no class without a reason, and in 4.2C no source failed a rate without the selection
\* having failed.
Formed(p, r) ==
  /\ DOMAIN r = {"unmet", "reasons", "classes", "primary", "passes"}
  /\ r.unmet \subseteq Names(p)
  /\ r.classes # {} => r.reasons # {}
  /\ p = C /\ {"below_rate", "feed_empty"} \cap r.unmet # {} => "no_source" \in r.unmet

\* A report that says pass is one without failures, and where "clean" is no gate of the phase
\* what it stands for has added its reason.
Sound(p, r) ==
  /\ Formed(p, r)
  /\ r.passes => r.unmet = {} /\ r.reasons = {}
  /\ p \in {FG, H} /\ "clean" \in r.unmet => r.reasons # {}

----------------------------------------------------------------------------
\* The inductive invariant.
Before == {"cleanup", "preflight", "tests", "types", "capture"}
Reported == {"report", "check", "written", "zip"}

FileName == {"samples", "cleanup", "preflight", "pytest", "typecheck", "diagnostics",
             "labels", "report", "investigation", "dataset_zip"}

Bundle == [kind : {"pass", "audit"}, run : Nat, complete : BOOLEAN, passed : BOOLEAN,
           files : SUBSET (FileName \X Nat)]

Types ==
  /\ phase \in AllPhase /\ run \in Nat
  /\ pc \in Before \cup Reported \cup {"off", "explain", "analyse"}
  /\ args \in Arguments(phase)
  /\ fresh \in BOOLEAN /\ stage \in {"first", "bundled", "unbundled"}
  /\ disk \in SUBSET (FileName \X Nat)
  /\ bundles \in SUBSET Bundle

\* How a run comes to where it is: what it knows, and why it gave up.
OnItsWay ==
  /\ pc \in Before => ~fresh
  /\ pc \in Before \cup {"analyse"} => why = ""
  /\ pc \in Before \cup {"analyse", "explain", "zip"} => stage = "first"
  /\ pc = "explain" => why # ""
  /\ pc \in {"cleanup", "types"} => phase \notin {A, B}
  /\ pc = "preflight" => phase = H
  /\ pc \notin {"off", "preflight"} => args.mode # "preflight"
  /\ pc \in Reported \cup {"analyse"} /\ why = "" => args.mode # "denied"
  /\ phase = D /\ why # "" =>
       \/ why \in {"ARTIFACT_CLEANUP", "TEST", "TYPECHECK", "FRESH_CAPTURE"}
       \/ why = "FRESH_DURATION" /\ args.short

\* The report the script holds once it has one.  A run that gave up has failed gates or a
\* reason, except that 4.2D may find a refused run's old files in order; a bundle that
\* failed has added its reason.
Held ==
  pc \in Reported =>
    /\ Sound(phase, memory)
    /\ phase \notin {A, B} /\ memory.reasons = {} => memory.passes
    /\ why # "" /\ phase \notin {A, B} /\ ~(phase = D /\ why = "FRESH_CAPTURE") =>
         memory.unmet # {} \/ memory.reasons # {}
    /\ why = "" /\ Required /\ ~fresh => "fresh" \in memory.unmet
    /\ stage = "unbundled" => ~memory.passes /\ memory.reasons # {}

\* The self check is about the report the script holds, or what it became on its way to disk.
Checked ==
  pc \in {"written", "zip"} =>
    /\ selfcheck.run = run
    /\ selfcheck.passed = Written.passes

\* Every file of this name was written by this run.
Own(n) == \A f \in disk : f[1] = n => f[2] = run

\* Which files are this run's own, by how far it has come.
OwnFiles ==
  /\ phase \notin {A, B} /\ why = ""
       /\ pc \in Reported \cup {"preflight", "tests", "types", "capture", "analyse"}
       /\ args.mode # "preflight" => Own("cleanup")
  /\ phase \notin {A, B} /\ why = "" /\ pc \in Reported \cup {"capture", "analyse"} =>
       Own("typecheck")
  /\ phase \in {C, D, E} /\ why = "" /\ pc \in Reported \cup {"analyse"} => Own("diagnostics")
  /\ why = "" /\ pc \in Reported => Own("labels")
  /\ pc \in Reported \ {"report"} =>
       /\ Own("report") /\ Own("pytest")
       /\ phase \in {FG, H} => Own("cleanup") /\ Own("diagnostics")
       /\ phase = H => Own("preflight")
  /\ pc # "off" /\ fresh /\ why = "" => Own("samples") /\ <<"samples", run>> \in disk

\* The files that are packed when they are there: a run that cleaned has no old investigation,
\* and one whose report meets every gate has made the dataset zip, where it makes one.
OwnOptional ==
  /\ why = "" /\ args.clean /\ pc \in Reported \cup {"preflight", "tests", "types", "capture", "analyse"} =>
       Own("investigation")
  /\ why = "" /\ pc \in Reported /\ memory.unmet = {} /\ phase \in {E, FG, H}
       /\ args.mode # "existing" => Own("dataset_zip")

\* A file this run wrote, or one of the three kinds it may have found.
OfThisRun(f) ==
  \/ f[2] = run
  \/ f[1] = "samples" /\ ~Required
  \/ f[1] = "investigation" /\ ~args.clean
  \/ f[1] = "dataset_zip" /\ args.mode = "existing"

\* There is no bundle before this run's own, which is named after the report.
OwnBundles ==
  /\ \A b \in bundles : b.run = run
  /\ pc \notin {"off", "zip"} /\ stage = "first" => bundles = {}
  /\ pc = "zip" => \A b \in bundles : ~b.complete /\ (b.kind = "pass" <=> memory.passes)
  /\ pc = "zip" /\ memory.passes => why = ""
  /\ pc = "zip" => phase \in {E, FG, H} \/ memory.passes
  /\ pc \in Reported /\ stage = "bundled" =>
       \E b \in bundles : b.complete /\ (memory.passes => b.kind = "pass")

EvidenceInvariant ==
  /\ Types /\ OnItsWay /\ Held /\ Checked /\ OwnFiles /\ OwnBundles
  /\ PassIsEarned /\ ExitIsEvidence /\ BundleIsOneRun

----------------------------------------------------------------------------
\* What the lists of gates hold, as far as the arguments need it.

\* The gates of 4.2C are those on the capture, then those on the sources.
LEMMA GatesOfC == Gates[C] = CaptureGatesC \o SourceGatesC
  BY DEF Gates, AllPhase, A, B, C, D, E, FG, H

\* The gates of 4.2C whose class excuses a later one are asked without conditions, but for
\* the fresh capture itself.
LEMMA ExcusingGates ==
  \A j \in DOMAIN Gates[C] :
    /\ Gates[C][j][2] = "MULTI_FEED" =>
         Gates[C][j][1] \in {"multi_feed", "duration", "diagnostics", "streams", "labeled",
                             "datasets", "not_captured"}
    /\ Gates[C][j][2] = "FRESH_CAPTURE" => Gates[C][j][1] = "fresh"
  BY GatesOfC DEF CaptureGatesC, SourceGatesC

\* The names of the gates, phase by phase.
LEMMA GateNamesAre ==
  /\ GateNames[A] = {GatesA[i][1] : i \in DOMAIN GatesA}
  /\ GateNames[B] = {GatesB[i][1] : i \in DOMAIN GatesB}
  /\ GateNames[C] = {Gates[C][i][1] : i \in DOMAIN Gates[C]}
  /\ GateNames[D] = {GatesD[i][1] : i \in DOMAIN GatesD}
  /\ GateNames[E] = {GatesE[i][1] : i \in DOMAIN GatesE}
  /\ GateNames[FG] = {GatesFG[i][1] : i \in DOMAIN GatesFG}
  /\ GateNames[H] = {(CaptureGatesH \o ArtifactGatesH)[i][1] :
                       i \in DOMAIN (CaptureGatesH \o ArtifactGatesH)}
  BY DEF GateNames, Gates, AllPhase, A, B, C, D, E, FG, H

\* Every phase has a gate on the age of the capture.
LEMMA FreshIsAGate == \A p \in AllPhase : "fresh" \in GateNames[p]
<1>1. "fresh" \in GateNames[A] /\ "fresh" \in GateNames[B]
  BY GateNamesAre DEF GatesA, GatesB
<1>2. "fresh" \in GateNames[C]
  BY GateNamesAre, GatesOfC DEF CaptureGatesC, SourceGatesC
<1>3. "fresh" \in GateNames[D]
  BY GateNamesAre DEF GatesD, ToolGates, LeakageGates
<1>4. "fresh" \in GateNames[E]
  BY GateNamesAre DEF GatesE, ToolGates, FreshGates, LeakageGates, ClockGates
<1>5. "fresh" \in GateNames[FG]
  BY GateNamesAre DEF GatesFG, ToolGates, FreshGates, LeakageGates, ClockGates, SourceGates
<1>6. "fresh" \in GateNames[H]
  BY GateNamesAre DEF CaptureGatesH, ArtifactGatesH, ToolGates, FreshGates, LeakageGates,
                      ClockGates, SourceGates
<1> QED BY <1>1, <1>2, <1>3, <1>4, <1>5, <1>6 DEF AllPhase

\* The phases before the profiles have a gate on the clean samples.
LEMMA CleanIsAGate == \A p \in {A, B, C, D, E} : "clean" \in GateNames[p]
<1>1. "clean" \in GateNames[A] /\ "clean" \in GateNames[B]
  BY GateNamesAre DEF GatesA, GatesB
<1>2. "clean" \in GateNames[C]
  BY GateNamesAre, GatesOfC DEF CaptureGatesC, SourceGatesC
<1>3. "clean" \in GateNames[D]
  BY GateNamesAre DEF GatesD, ToolGates, LeakageGates
<1>4. "clean" \in GateNames[E]
  BY GateNamesAre DEF GatesE, ToolGates, FreshGates, LeakageGates, ClockGates
<1> QED BY <1>1, <1>2, <1>3, <1>4

\* Gates of 4.2D and 4.2E that an early report fails.
LEMMA EarlyGates ==
  /\ {"pytest", "typecheck", "duration"} \subseteq GateNames[D]
  /\ "clock_ends" \in GateNames[E]
<1>1. "pytest" \in GateNames[D] /\ "typecheck" \in GateNames[D] /\ "duration" \in GateNames[D]
  BY GateNamesAre DEF GatesD, ToolGates, LeakageGates
<1>2. "clock_ends" \in GateNames[E]
  BY GateNamesAre DEF GatesE, ToolGates, FreshGates, LeakageGates, ClockGates
<1> QED BY <1>1, <1>2

\* 4.2H has a gate on the latency profile.
LEMMA LatencyIsAGate == "latency" \in GateNames[H]
  BY GateNamesAre DEF CaptureGatesH, ArtifactGatesH, ToolGates, FreshGates, LeakageGates,
                      ClockGates, SourceGates

\* A gate that has a name stands in the list of its phase.
LEMMA GateStands ==
  ASSUME NEW p \in AllPhase, NEW g \in GateNames[p]
  PROVE  \E i \in DOMAIN Gates[p] : Gates[p][i][1] = g
  BY DEF GateNames

----------------------------------------------------------------------------
\* What an evaluation leaves of the report.
LEMMA EvaluateFields ==
  ASSUME NEW p \in AllPhase, NEW r, Formed(p, r)
  PROVE  LET e == Evaluate(p, r)
             kept == Kept(p, r)
         IN  /\ DOMAIN e = {"unmet", "reasons", "classes", "primary", "passes"}
             /\ kept.unmet = r.unmet /\ e.unmet = r.unmet
             /\ e.reasons = kept.reasons \cup {Gates[p][i][1] : i \in Failing(p, kept)}
             /\ e.passes <=> e.reasons = {}
             /\ e.passes \in BOOLEAN
             /\ e.classes # {} => e.reasons # {}
             /\ StartsOver(p) => kept.reasons = {} /\ kept.classes = {}
             /\ ~StartsOver(p) => kept = r
<1> DEFINE kept == Kept(p, r)
           failing == Failing(p, kept)
           e == Evaluate(p, r)
<1>1. /\ DOMAIN kept = {"unmet", "reasons", "classes", "primary", "passes"}
      /\ kept.unmet = r.unmet
      /\ StartsOver(p) => kept.reasons = {} /\ kept.classes = {}
      /\ ~StartsOver(p) => kept = r
  BY DEF Kept, Formed
<1>2. kept.classes # {} => kept.reasons # {}
  BY <1>1 DEF Formed
<1> HIDE DEF kept, failing
<1>3. e = Judged(p, kept, failing)
  BY DEF e, kept, failing, Evaluate
<1> HIDE DEF e
<1>4. /\ DOMAIN e = {"unmet", "reasons", "classes", "primary", "passes"}
      /\ e.unmet = kept.unmet
      /\ e.reasons = kept.reasons \cup {Gates[p][i][1] : i \in failing}
      /\ e.passes = (e.reasons = {})
      /\ e.classes = IF StartsOver(p) THEN {}
                     ELSE kept.classes \cup {Gates[p][i][2] : i \in failing}
  BY <1>3 DEF Judged
<1>5. e.classes # {} => e.reasons # {}
  <2> SUFFICES ASSUME e.reasons = {} PROVE e.classes = {}
    OBVIOUS
  <2>1. kept.reasons = {}
    BY <1>4
  <2>2. ASSUME NEW i \in failing PROVE FALSE
    <3>1. Gates[p][i][1] \in {Gates[p][k][1] : k \in failing}
      OBVIOUS
    <3> QED BY <1>4, <3>1
  <2> QED BY <1>2, <1>4, <2>1, <2>2
<1> QED BY <1>1, <1>4, <1>5 DEF e, kept, failing

\* A gate that is not met and not waived is a reason.
LEMMA UnmetIsReason ==
  ASSUME NEW p \in AllPhase, NEW r, Formed(p, r),
         NEW g \in GateNames[p] \cap r.unmet, ~Waived(p, Kept(p, r), g)
  PROVE  g \in Evaluate(p, r).reasons
<1>1. PICK i \in DOMAIN Gates[p] : Gates[p][i][1] = g
  BY GateStands
<1>2. i \in Failing(p, Kept(p, r))
  BY <1>1, EvaluateFields DEF Failing
<1> QED BY <1>1, <1>2, EvaluateFields

\* Whatever waives a gate is a failure itself: a report without reasons after an evaluation
\* has no gate that is not met (evaluate_phase42c_report's excuses, the clock gates' order).
LEMMA WaiversAreExcused ==
  ASSUME NEW p \in AllPhase, NEW r, Formed(p, r), Evaluate(p, r).reasons = {}
  PROVE  r.unmet \cap GateNames[p] = {}
<1> DEFINE kept == Kept(p, r)
<1>1. /\ kept.unmet = r.unmet /\ kept.classes = {}
      /\ p = C => kept = r
  <2>1. kept.reasons = {}
    BY EvaluateFields
  <2> QED BY <2>1, EvaluateFields DEF Formed, StartsOver, A, B, C
<1>2. \A g \in GateNames[p] \cap r.unmet : Waived(p, kept, g)
  BY UnmetIsReason
<1> HIDE DEF kept
<1>3. \A g \in r.unmet : g # "clean" => g \in GateNames[p]
  BY DEF Formed, Names
<1>4. "clock_quality" \notin r.unmet
  <2> SUFFICES ASSUME "clock_quality" \in r.unmet PROVE FALSE
    OBVIOUS
  <2>1. Waived(p, kept, "clock_quality")
    BY <1>2, <1>3
  <2> QED BY <2>1 DEF Waived
<1>5. "no_drift" \notin r.unmet
  <2> SUFFICES ASSUME "no_drift" \in r.unmet PROVE FALSE
    OBVIOUS
  <2>1. Waived(p, kept, "no_drift")
    BY <1>2, <1>3
  <2> QED BY <1>1, <1>4, <2>1 DEF Waived
<1>6. CASE p # C
  BY <1>1, <1>2, <1>4, <1>5, <1>6 DEF Waived
<1>7. CASE p = C
  <2> DEFINE at(g) == CHOOSE i \in DOMAIN Gates[C] : Gates[C][i][1] = g
  <2>0. kept = r /\ r.classes = {} /\ DOMAIN Gates[C] = 1 .. 27
    <3>1. DOMAIN (CaptureGatesC \o SourceGatesC) = 1 .. 27
      BY DEF CaptureGatesC, SourceGatesC
    <3> QED BY <1>1, <1>7, <3>1, GatesOfC
  <2>1. ASSUME NEW g \in GateNames[C], NEW c \in CollectedC(r, g)
        PROVE  \E j \in DOMAIN Gates[C] : Gates[C][j][1] \in r.unmet /\ Gates[C][j][2] = c
    <3>1. at(g) \in DOMAIN Gates[C]
      BY GateStands DEF AllPhase
    <3>2. c \in {Gates[C][i][2] : i \in {j \in 1 .. at(g) - 1 : Gates[C][j][1] \in r.unmet}}
      BY <2>0 DEF CollectedC
    <3> HIDE DEF at
    <3>3. PICK j \in 1 .. at(g) - 1 : Gates[C][j][1] \in r.unmet /\ Gates[C][j][2] = c
      BY <3>2
    <3>4. j \in DOMAIN Gates[C]
      BY <2>0, <3>1
    <3> QED BY <3>3, <3>4
  <2>2. ASSUME NEW g \in GateNames[C] PROVE "MULTI_FEED" \notin CollectedC(r, g)
    <3> SUFFICES ASSUME "MULTI_FEED" \in CollectedC(r, g) PROVE FALSE
      OBVIOUS
    <3>1. PICK j \in DOMAIN Gates[C] :
            Gates[C][j][1] \in r.unmet /\ Gates[C][j][2] = "MULTI_FEED"
      BY <2>1
    <3> DEFINE n == Gates[C][j][1]
    <3>2. n \in {"multi_feed", "duration", "diagnostics", "streams", "labeled", "datasets",
                 "not_captured"}
      BY <3>1, ExcusingGates
    <3>3. n \in r.unmet
      BY <3>1
    <3> HIDE DEF n
    <3>4. Waived(C, r, n)
      BY <1>2, <1>3, <1>7, <2>0, <3>2, <3>3
    <3> QED BY <3>2, <3>4 DEF Waived
  <2>3. ASSUME NEW g \in GateNames[C] PROVE "FRESH_CAPTURE" \notin CollectedC(r, g)
    <3> SUFFICES ASSUME "FRESH_CAPTURE" \in CollectedC(r, g) PROVE FALSE
      OBVIOUS
    <3>1. "fresh" \in r.unmet
      BY <2>1, ExcusingGates
    <3>2. Waived(C, r, "fresh")
      BY <1>2, <1>3, <1>7, <2>0, <3>1
    <3> QED BY <1>3, <1>7, <2>2, <3>1, <3>2 DEF Waived
  <2>4. ASSUME "no_source" \in r.unmet PROVE FALSE
    <3>1. Waived(C, r, "no_source") /\ "no_source" \in GateNames[C]
      BY <1>2, <1>3, <1>7, <2>0, <2>4
    <3> QED BY <2>2, <2>3, <3>1 DEF Waived
  <2>5. r.unmet \cap {"below_rate", "feed_empty"} = {}
    BY <1>7, <2>4 DEF Formed
  <2> SUFFICES ASSUME NEW g \in GateNames[C] \cap r.unmet PROVE FALSE
    BY <1>7
  <2>6. Waived(C, r, g)
    BY <1>2, <1>7, <2>0
  <2> QED BY <1>4, <1>5, <2>2, <2>4, <2>5, <2>6 DEF Waived
<1> QED BY <1>6, <1>7

\* What a second, third or fourth evaluation does to a report: its gates stay, and outside
\* 4.2A and 4.2B no reason is lost; one without failures passes.
LEMMA EvaluateKeeps ==
  ASSUME NEW p \in AllPhase, NEW r, Formed(p, r)
  PROVE  LET e == Evaluate(p, r)
         IN  /\ Formed(p, e) /\ e.unmet = r.unmet
             /\ e.passes <=> e.reasons = {}
             /\ e.passes \in BOOLEAN
             /\ e.passes => r.unmet \subseteq {"clean"} \ (IF p \in {FG, H} THEN {} ELSE {"clean"})
             /\ p \notin {A, B} => r.reasons \subseteq e.reasons
             /\ r.unmet = {} /\ r.reasons = {} => e.passes
<1> DEFINE e == Evaluate(p, r)
           kept == Kept(p, r)
<1>1. /\ DOMAIN e = {"unmet", "reasons", "classes", "primary", "passes"}
      /\ kept.unmet = r.unmet /\ e.unmet = r.unmet
      /\ e.reasons = kept.reasons \cup {Gates[p][i][1] : i \in Failing(p, kept)}
      /\ e.passes <=> e.reasons = {}
      /\ e.passes \in BOOLEAN
      /\ e.classes # {} => e.reasons # {}
      /\ StartsOver(p) => kept.reasons = {} /\ kept.classes = {}
      /\ ~StartsOver(p) => kept = r
  BY EvaluateFields
<1>2. e.reasons = {} => r.unmet \cap GateNames[p] = {}
  BY WaiversAreExcused
<1> HIDE DEF e, kept
<1>3. Formed(p, e)
  BY <1>1 DEF Formed
<1>4. e.passes => r.unmet \subseteq {"clean"} \ (IF p \in {FG, H} THEN {} ELSE {"clean"})
  <2> SUFFICES ASSUME e.passes
               PROVE  /\ r.unmet \subseteq {"clean"}
                      /\ p \notin {FG, H} => r.unmet = {}
    OBVIOUS
  <2>1. r.unmet \cap GateNames[p] = {}
    BY <1>1, <1>2
  <2>2. r.unmet \subseteq {"clean"}
    BY <2>1 DEF Formed, Names
  <2>3. p \notin {FG, H} => "clean" \in GateNames[p]
    BY CleanIsAGate DEF AllPhase
  <2> QED BY <2>1, <2>2, <2>3
<1>5. p \notin {A, B} => r.reasons \subseteq e.reasons
  BY <1>1 DEF StartsOver
<1>6. r.unmet = {} /\ r.reasons = {} => e.passes
  <2> SUFFICES ASSUME r.unmet = {}, r.reasons = {} PROVE e.passes
    OBVIOUS
  <2>1. Failing(p, kept) = {}
    BY <1>1 DEF Failing
  <2>2. kept.reasons = {}
    BY <1>1
  <2> QED BY <1>1, <2>1, <2>2
<1> QED BY <1>1, <1>3, <1>4, <1>5, <1>6 DEF e

\* A sound report is sound after every further evaluation, and only one without failures
\* passes it.
LEMMA EvaluateSound ==
  ASSUME NEW p \in AllPhase, NEW r, Sound(p, r)
  PROVE  LET e == Evaluate(p, r)
         IN  /\ Sound(p, e) /\ e.unmet = r.unmet
             /\ e.passes <=> e.reasons = {}
             /\ e.passes \in BOOLEAN
             /\ p \notin {A, B} => r.reasons \subseteq e.reasons
             /\ e.passes => r.unmet = {} /\ (p \notin {A, B} => r.reasons = {})
             /\ r.unmet = {} /\ r.reasons = {} => e.passes
<1> DEFINE e == Evaluate(p, r)
<1>1. /\ Formed(p, e) /\ e.unmet = r.unmet
      /\ e.passes <=> e.reasons = {}
      /\ e.passes \in BOOLEAN
      /\ e.passes => r.unmet \subseteq {"clean"} \ (IF p \in {FG, H} THEN {} ELSE {"clean"})
      /\ p \notin {A, B} => r.reasons \subseteq e.reasons
      /\ r.unmet = {} /\ r.reasons = {} => e.passes
  BY EvaluateKeeps DEF Sound
<1> HIDE DEF e
<1>2. p \in {FG, H} => p \notin {A, B}
  BY DEF A, B, FG, H
<1>3. p \in {FG, H} /\ "clean" \in r.unmet => e.reasons # {}
  BY <1>1, <1>2 DEF Sound
<1>4. e.passes => r.unmet = {}
  BY <1>1, <1>3
<1>5. Sound(p, e)
  BY <1>1, <1>3, <1>4 DEF Sound
<1> QED BY <1>1, <1>4, <1>5 DEF e

\* A reason the script adds itself fails the report, which stays sound.
LEMMA NotedSound ==
  ASSUME NEW p \in AllPhase, NEW r, Formed(p, r), NEW reason, NEW class
  PROVE  LET n == Noted(r, reason, class)
         IN  Sound(p, n) /\ n.unmet = r.unmet /\ n.reasons # {} /\ ~n.passes
<1> DEFINE n == Noted(r, reason, class)
<1>1. /\ DOMAIN n = {"unmet", "reasons", "classes", "primary", "passes"}
      /\ n.unmet = r.unmet /\ n.classes = r.classes
      /\ n.reasons = r.reasons \cup {reason} /\ n.passes = FALSE
  BY DEF Noted, Formed
<1> HIDE DEF n
<1>2. n.reasons # {}
  BY <1>1
<1> QED BY <1>1, <1>2 DEF Sound, Formed, n

----------------------------------------------------------------------------
\* The gates the empty reports name are gates of their phases.
LEMMA EmptyGates ==
  /\ {"clean", "labeled", "valid_rate"} \subseteq GateNames[A]
  /\ {"fresh", "feed_empty", "none_valid", "clean", "labeled", "valid_rate"} \subseteq GateNames[B]
  /\ {"clean", "labeled", "datasets", "no_source", "diagnostics", "not_captured"}
       \subseteq GateNames[C]
  /\ UnmeasuredFG \subseteq GateNames[FG]
  /\ UnmeasuredH \subseteq GateNames[H]
<1>1. /\ "clean" \in GateNames[A] /\ "labeled" \in GateNames[A] /\ "valid_rate" \in GateNames[A]
  BY GateNamesAre DEF GatesA
<1>2. /\ "fresh" \in GateNames[B] /\ "feed_empty" \in GateNames[B] /\ "none_valid" \in GateNames[B]
      /\ "clean" \in GateNames[B] /\ "labeled" \in GateNames[B] /\ "valid_rate" \in GateNames[B]
  BY GateNamesAre DEF GatesB
<1>3. /\ "clean" \in GateNames[C] /\ "labeled" \in GateNames[C] /\ "datasets" \in GateNames[C]
      /\ "no_source" \in GateNames[C] /\ "diagnostics" \in GateNames[C]
      /\ "not_captured" \in GateNames[C]
  <2>1. GateNames[C] = {(CaptureGatesC \o SourceGatesC)[i][1] :
                          i \in DOMAIN (CaptureGatesC \o SourceGatesC)}
    BY GateNamesAre, GatesOfC
  <2>2. "clean" \in GateNames[C] /\ "labeled" \in GateNames[C]
    BY <2>1 DEF CaptureGatesC, SourceGatesC
  <2>3. "datasets" \in GateNames[C] /\ "no_source" \in GateNames[C]
    BY <2>1 DEF CaptureGatesC, SourceGatesC
  <2>4. "diagnostics" \in GateNames[C] /\ "not_captured" \in GateNames[C]
    BY <2>1 DEF CaptureGatesC, SourceGatesC
  <2> QED BY <2>2, <2>3, <2>4
<1>4. /\ "clock_quality" \in GateNames[FG] /\ "latency" \in GateNames[FG]
      /\ "queue" \in GateNames[FG] /\ "leakage" \in GateNames[FG] /\ "protocol" \in GateNames[FG]
  BY GateNamesAre DEF GatesFG, ToolGates, FreshGates, LeakageGates, ClockGates, SourceGates
<1>5. /\ "clock_quality" \in GateNames[H] /\ "latency" \in GateNames[H]
      /\ "queue" \in GateNames[H] /\ "leakage" \in GateNames[H] /\ "protocol" \in GateNames[H]
      /\ "hot_path" \in GateNames[H] /\ "writer_flush" \in GateNames[H]
  BY GateNamesAre DEF CaptureGatesH, ArtifactGatesH, ToolGates, FreshGates, LeakageGates,
                      ClockGates, SourceGates
<1>6. UnmeasuredFG \subseteq GateNames[FG]
  BY <1>4 DEF UnmeasuredFG
<1>7. UnmeasuredH \subseteq GateNames[H]
  BY <1>5 DEF UnmeasuredFG, UnmeasuredH
<1> QED BY <1>1, <1>2, <1>3, <1>6, <1>7

\* Closing what fails under what follows from it loses nothing, stays among the gates, and in
\* 4.2C brings the missing source with every source that failed.
LEMMA ClosedKeeps ==
  ASSUME NEW p \in AllPhase, NEW u
  PROVE  /\ u \cap Names(p) \subseteq Closed(p, u)
         /\ Closed(p, u) \subseteq Names(p)
         /\ p = C /\ {"below_rate", "feed_empty"} \cap Closed(p, u) # {} =>
              "no_source" \in Closed(p, u)
<1> DEFINE u1 == Follow(p, u)
           u2 == Follow(p, u1)
           u3 == Follow(p, u2)
           u4 == Follow(p, u3)
<1>1. Closed(p, u) = u4 \cap Names(p)
  BY DEF Closed, Names
<1>2. u \subseteq u1 /\ u1 \subseteq u2 /\ u2 \subseteq u3 /\ u3 \subseteq u4
  BY DEF Follow
<1>3. ASSUME NEW s, p = C
      PROVE  /\ Follow(p, s) \subseteq s \cup {"labeled", "no_source"}
             /\ {"below_rate", "feed_empty"} \cap s # {} => "no_source" \in Follow(p, s)
  <2>1. Follows[p] = FollowsC
    BY <1>3 DEF Follows, AllPhase, A, B, C, D, E, FG, H
  <2>2. Follow(p, s) \subseteq s \cup {"labeled", "no_source"}
    BY <2>1 DEF Follow, FollowsC
  <2>3. ASSUME NEW g \in {"below_rate", "feed_empty"} \cap s
        PROVE  "no_source" \in Follow(p, s)
    <3>1. <<g, "no_source">> \in {h \in FollowsC : h[1] \in s}
      BY DEF FollowsC
    <3>2. <<g, "no_source">>[2] \in {f[2] : f \in {h \in FollowsC : h[1] \in s}}
      BY <3>1
    <3> QED BY <2>1, <3>2 DEF Follow
  <2> QED BY <2>2, <2>3
<1>4. ASSUME p = C, NEW g \in {"below_rate", "feed_empty"} \cap Closed(p, u)
      PROVE  "no_source" \in Closed(p, u)
  <2>1. u1 \subseteq u \cup {"labeled", "no_source"}
    BY <1>3, <1>4
  <2>2. u2 \subseteq u1 \cup {"labeled", "no_source"}
    BY <1>3, <1>4
  <2>3. u3 \subseteq u2 \cup {"labeled", "no_source"}
    BY <1>3, <1>4
  <2>4. u4 \subseteq u3 \cup {"labeled", "no_source"}
    BY <1>3, <1>4
  <2>5. {"below_rate", "feed_empty"} \cap u # {} => "no_source" \in u1
    BY <1>3, <1>4
  <2> HIDE DEF u1, u2, u3, u4
  <2>6. g \in u
    BY <1>1, <2>1, <2>2, <2>3, <2>4
  <2>7. "no_source" \in u4
    BY <1>2, <2>5, <2>6
  <2>8. "no_source" \in Names(p)
    BY <1>4, EmptyGates DEF Names
  <2> QED BY <1>1, <2>7, <2>8
<1> HIDE DEF u1, u2, u3, u4
<1> QED BY <1>1, <1>2, <1>4

\* The report before its evaluation is well formed, with the gates it cannot meet.
LEMMA BlankFormed ==
  ASSUME NEW p \in AllPhase, NEW u \in SUBSET Names(p),
         p = C /\ {"below_rate", "feed_empty"} \cap u # {} => "no_source" \in u
  PROVE  Formed(p, Blank(u)) /\ Blank(u).unmet = u /\ Blank(u).reasons = {}
           /\ Blank(u).passes = FALSE
  BY DEF Formed, Blank

\* run_phase42x_analysis: whatever fails, its report is sound and has it.
LEMMA AnalysedSound ==
  ASSUME phase \in AllPhase, NEW u
  PROVE  LET m == Analysed(u)
         IN  /\ Sound(phase, m) /\ u \cap Names(phase) \subseteq m.unmet
             /\ m.passes <=> m.reasons = {}
<1> DEFINE blank == Blank(Closed(phase, u))
           built == Evaluate(phase, blank)
           class == IF phase = C THEN "DEPTH_RUNTIME" ELSE "INPUT_DATASET"
           noted == Noted(built, "validation", class)
<1>1. Formed(phase, blank) /\ blank.unmet = Closed(phase, u)
  BY ClosedKeeps, BlankFormed
<1>2. u \cap Names(phase) \subseteq blank.unmet
  BY <1>1, ClosedKeeps
<1> HIDE DEF blank
<1>3. /\ Formed(phase, built) /\ built.unmet = blank.unmet
      /\ built.passes <=> built.reasons = {}
      /\ built.passes =>
           blank.unmet \subseteq {"clean"} \ (IF phase \in {FG, H} THEN {} ELSE {"clean"})
  BY <1>1, EvaluateKeeps
<1>4. Analysed(u) = IF phase \notin {A, B} /\ "clean" \in built.unmet
                    THEN Evaluate(phase, noted) ELSE built
  BY DEF Analysed, blank
<1> HIDE DEF built, class
<1>5. Sound(phase, noted) /\ noted.unmet = built.unmet
  BY <1>3, NotedSound
<1> HIDE DEF noted
<1>6. CASE phase \notin {A, B} /\ "clean" \in built.unmet
  BY <1>2, <1>3, <1>4, <1>5, <1>6, EvaluateSound
<1>7. CASE ~(phase \notin {A, B} /\ "clean" \in built.unmet)
  <2>1. phase \in {FG, H} => "clean" \notin built.unmet
    BY <1>7 DEF A, B, FG, H
  <2>2. built.passes => built.unmet = {} /\ built.reasons = {}
    BY <1>3, <2>1
  <2>3. Sound(phase, built)
    BY <1>3, <2>1, <2>2 DEF Sound
  <2> QED BY <1>2, <1>3, <1>4, <1>7, <2>3
<1> QED BY <1>6, <1>7

\* The report of a run that came through, after the exit code and the phase 4.1 report.
LEMMA AnalyseReports ==
  ASSUME phase \in AllPhase, NEW u, NEW m \in RuntimeReports(WithExitCode(Analysed(u)))
  PROVE  /\ Sound(phase, m) /\ u \cap Names(phase) \subseteq m.unmet
         /\ m.passes <=> m.reasons = {}
<1> DEFINE a == Analysed(u)
           coded == Noted(a, "capture_exit", "FRESH_CAPTURE")
           w == WithExitCode(a)
           class == IF phase = C THEN "DEPTH_RUNTIME" ELSE "runtime"
           late == Noted(w, "phase41", class)
<1>1. /\ Sound(phase, a) /\ u \cap Names(phase) \subseteq a.unmet
      /\ a.passes <=> a.reasons = {}
  BY AnalysedSound
<1> HIDE DEF a
<1>2. Sound(phase, coded) /\ coded.unmet = a.unmet
  BY <1>1, NotedSound DEF Sound
<1>3. w = Evaluate(phase, coded) \/ w = a
  BY DEF WithExitCode
<1> HIDE DEF coded, w
<1>4. /\ Sound(phase, w) /\ w.unmet = a.unmet
      /\ w.passes <=> w.reasons = {}
  <2>1. CASE w = a
    BY <1>1, <2>1
  <2>2. CASE w = Evaluate(phase, coded)
    BY <1>2, <2>2, EvaluateSound
  <2> QED BY <1>3, <2>1, <2>2
<1>5. m = w \/ m = late
  BY DEF RuntimeReports, w, a
<1>6. Sound(phase, late) /\ late.unmet = w.unmet /\ late.reasons # {} /\ ~late.passes
  BY <1>4, NotedSound DEF Sound
<1> HIDE DEF late
<1> QED BY <1>1, <1>4, <1>5, <1>6

\* A report with failures of its own, told why the script gave up.
LEMMA ToldSound ==
  ASSUME NEW p \in AllPhase, p \notin {A, B}, NEW r, Formed(p, r), r.reasons # {}
  PROVE  LET e == Evaluate(p, r)
         IN  Sound(p, e) /\ e.reasons # {} /\ ~e.passes
<1> DEFINE e == Evaluate(p, r)
<1>1. /\ Formed(p, e) /\ (e.passes <=> e.reasons = {}) /\ r.reasons \subseteq e.reasons
  BY EvaluateKeeps
<1> HIDE DEF e
<1>2. e.reasons # {} /\ ~e.passes
  BY <1>1
<1> QED BY <1>1, <1>2 DEF Sound, e

\* What a situation can leave unmet has a name in every phase.
LEMMA SituationalNames == Situational \subseteq Names(phase) /\ FlagGate \subseteq GateNames[phase]
  BY DEF Situational, FlagGate, Names

\* empty_phase42c_report and the _failure_report of 4.2F+G and 4.2H.
LEMMA EmptyReportCSound ==
  ASSUME phase = C
  PROVE  LET m == EmptyReportC
         IN  Sound(phase, m) /\ m.reasons # {} /\ ~m.passes
<1> DEFINE unmet == Situational \cup {"clean", "labeled", "datasets", "no_source"}
                      \cup (IF fresh THEN {"diagnostics", "not_captured"} ELSE {})
           built == Evaluate(C, Blank(unmet))
           told == [built EXCEPT !.unmet = @ \cup FlagGate,
                                 !.primary = IF why = "FRESH_CAPTURE" THEN "MULTI_FEED" ELSE why,
                                 !.classes = {why}, !.reasons = @ \cup {"early"}]
<1>0. C \in AllPhase /\ C \notin {A, B}
  BY DEF AllPhase, A, B, C
<1>1. unmet \in SUBSET Names(C) /\ "no_source" \in unmet
  BY SituationalNames, EmptyGates DEF Names
<1> HIDE DEF unmet
<1>2. Formed(C, Blank(unmet)) /\ Blank(unmet).unmet = unmet
  BY <1>0, <1>1, BlankFormed
<1>3. Formed(C, built) /\ built.unmet = unmet
  BY <1>0, <1>2, EvaluateKeeps
<1> HIDE DEF built
<1>4. /\ DOMAIN told = {"unmet", "reasons", "classes", "primary", "passes"}
      /\ told.unmet = unmet \cup FlagGate /\ told.reasons = built.reasons \cup {"early"}
  BY <1>3 DEF Formed
<1>5. EmptyReportC = Evaluate(C, told)
  BY DEF EmptyReportC, unmet, built
<1> HIDE DEF told
<1>6. told.unmet \subseteq Names(C)
  BY <1>1, <1>4, SituationalNames DEF Names
<1>7. Formed(C, told) /\ told.reasons # {}
  BY <1>1, <1>4, <1>6 DEF Formed
<1> QED BY <1>0, <1>5, <1>7, ToldSound

\* The report of an exception is sound: it has a reason and does not pass.
LEMMA FailureReportSound ==
  ASSUME phase \in {FG, H}, NEW unmeasured \in SUBSET GateNames[phase]
  PROVE  LET m == FailureReport(unmeasured)
         IN  Sound(phase, m) /\ m.reasons # {} /\ ~m.passes
<1> DEFINE unmet == (Situational \ {"clean", "existing"}) \cup FlagGate \cup unmeasured
           told == [Blank(unmet) EXCEPT !.reasons = {"early"}, !.classes = {why},
                                        !.primary = why]
<1>0. phase \in AllPhase /\ phase \notin {A, B} /\ phase # C
  BY DEF AllPhase, A, B, C, FG, H
<1>1. unmet \in SUBSET Names(phase)
  BY SituationalNames DEF Names
<1> HIDE DEF unmet
<1>2. /\ DOMAIN told = {"unmet", "reasons", "classes", "primary", "passes"}
      /\ told.unmet = unmet /\ told.reasons = {"early"}
  BY DEF Blank
<1>3. FailureReport(unmeasured) = Evaluate(phase, told)
  BY DEF FailureReport, unmet
<1> HIDE DEF told
<1>4. Formed(phase, told) /\ told.reasons # {}
  BY <1>0, <1>1, <1>2 DEF Formed
<1> QED BY <1>0, <1>3, <1>4, ToldSound

\* The analysis of 4.2D and 4.2E after the script gave up.
LEMMA EarlyAnalysisSound ==
  ASSUME phase \in {D, E}, NEW u
  PROVE  LET m == EarlyAnalysis(u)
         IN  /\ Sound(phase, m)
             /\ (u \cup Situational \cup FlagGate) \cap Names(phase) \subseteq m.unmet
             /\ m.passes <=> m.reasons = {}
             /\ why = "ARTIFACT_CLEANUP" => m.reasons # {}
<1> DEFINE built == Analysed(u \cup Situational \cup FlagGate)
           noted == Noted(built, "early", why)
<1>0. phase \in AllPhase /\ phase \notin {A, B}
  BY DEF AllPhase, A, B, D, E
<1>1. /\ Sound(phase, built)
      /\ (u \cup Situational \cup FlagGate) \cap Names(phase) \subseteq built.unmet
      /\ built.passes <=> built.reasons = {}
  BY <1>0, AnalysedSound
<1>2. EarlyAnalysis(u) = IF why = "ARTIFACT_CLEANUP" THEN Evaluate(phase, noted) ELSE built
  BY DEF EarlyAnalysis
<1> HIDE DEF built
<1>3. Sound(phase, noted) /\ noted.unmet = built.unmet /\ noted.reasons # {}
  BY <1>0, <1>1, NotedSound DEF Sound
<1> HIDE DEF noted
<1>4. CASE why = "ARTIFACT_CLEANUP"
  <2>1. /\ Sound(phase, Evaluate(phase, noted))
        /\ Evaluate(phase, noted).unmet = noted.unmet
        /\ Evaluate(phase, noted).passes <=> Evaluate(phase, noted).reasons = {}
        /\ noted.reasons \subseteq Evaluate(phase, noted).reasons
    BY <1>0, <1>3, EvaluateSound
  <2> QED BY <1>1, <1>2, <1>3, <1>4, <2>1
<1>5. CASE why # "ARTIFACT_CLEANUP"
  BY <1>1, <1>2, <1>5
<1> QED BY <1>4, <1>5

\* The report of a run that gave up has failed gates or a reason; in 4.2D a refused run's
\* old files may be in order.
LEMMA ExplainReports ==
  ASSUME phase \in AllPhase, NEW m \in EmptyReports, why # "", OnItsWay
  PROVE  /\ Sound(phase, m)
         /\ phase \notin {A, B} /\ m.reasons = {} => m.passes
         /\ phase \notin {A, B} /\ ~(phase = D /\ why = "FRESH_CAPTURE") =>
              m.unmet # {} \/ m.reasons # {}
<1> USE DEF AllPhase
<1>1. CASE phase \in {A, B}
  <2>1. PICK u \in SUBSET Names(phase) : m = Blank(u)
    <3>1. CASE phase = A
      <4>1. m = EmptyReportA
        BY <3>1 DEF EmptyReports, A, B, C, D, E, FG, H
      <4>2. {"clean", "labeled", "valid_rate"} \in SUBSET Names(phase)
        BY <3>1, EmptyGates DEF Names
      <4> QED BY <4>1, <4>2 DEF EmptyReportA
    <3>2. CASE phase = B
      <4>1. m = EmptyReportB
        BY <3>2 DEF EmptyReports, A, B, C, D, E, FG, H
      <4>2. ({"fresh", "feed_empty", "none_valid", "clean", "labeled", "valid_rate"} \cup FlagGate)
              \in SUBSET Names(phase)
        BY <3>2, EmptyGates, SituationalNames DEF Names
      <4> QED BY <4>1, <4>2 DEF EmptyReportB
    <3> QED BY <1>1, <3>1, <3>2
  <2>2. phase # C /\ phase \notin {FG, H}
    BY <1>1 DEF A, B, C, FG, H
  <2>3. Formed(phase, m) /\ m.passes = FALSE
    BY <2>1, <2>2, BlankFormed
  <2> QED BY <1>1, <2>2, <2>3 DEF Sound
<1>2. CASE phase = C
  <2>1. m = EmptyReportC
    BY <1>2 DEF EmptyReports, A, B, C, D, E, FG, H
  <2> QED BY <1>2, <2>1, EmptyReportCSound
<1>3. CASE phase = FG
  <2>1. m = FailureReport(UnmeasuredFG)
    BY <1>3 DEF EmptyReports, A, B, C, D, E, FG, H
  <2> QED BY <1>3, <2>1, FailureReportSound, EmptyGates
<1>4. CASE phase = H
  <2>1. m = FailureReport(UnmeasuredH)
    BY <1>4 DEF EmptyReports, A, B, C, D, E, FG, H
  <2> QED BY <1>4, <2>1, FailureReportSound, EmptyGates
<1>5. CASE phase = D
  <2>1. PICK u : m = EarlyAnalysis(u)
    BY <1>5 DEF EmptyReports, A, B, C, D, E, FG, H
  <2>2. /\ Sound(phase, m)
        /\ (u \cup Situational \cup FlagGate) \cap Names(phase) \subseteq m.unmet
        /\ m.passes <=> m.reasons = {}
        /\ why = "ARTIFACT_CLEANUP" => m.reasons # {}
    BY <1>5, <2>1, EarlyAnalysisSound
  <2>3. why # "FRESH_CAPTURE" => m.unmet # {} \/ m.reasons # {}
    <3>1. CASE why = "TEST"
      <4>1. "pytest" \in FlagGate /\ "pytest" \in Names(phase)
        BY <1>5, <3>1, EarlyGates DEF FlagGate, Names
      <4> QED BY <2>2, <4>1
    <3>2. CASE why = "TYPECHECK"
      <4>1. "typecheck" \in FlagGate /\ "typecheck" \in Names(phase)
        BY <1>5, <3>2, EarlyGates DEF FlagGate, Names
      <4> QED BY <2>2, <4>1
    <3>3. CASE why = "FRESH_DURATION" /\ args.short
      <4>1. "duration" \in Situational /\ "duration" \in Names(phase)
        BY <1>5, <3>3, EarlyGates DEF Situational, Names, A, B, C, D
      <4> QED BY <2>2, <4>1
    <3>4. \/ why \in {"ARTIFACT_CLEANUP", "TEST", "TYPECHECK", "FRESH_CAPTURE"}
          \/ why = "FRESH_DURATION" /\ args.short
      BY <1>5 DEF OnItsWay
    <3> QED BY <2>2, <3>1, <3>2, <3>3, <3>4
  <2> QED BY <1>5, <2>2, <2>3
<1>6. CASE phase = E
  <2>1. PICK u : m = EarlyAnalysis(u \cup UnclockedE)
    BY <1>6 DEF EmptyReports, A, B, C, D, E, FG, H
  <2>2. /\ Sound(phase, m)
        /\ (u \cup UnclockedE \cup Situational \cup FlagGate) \cap Names(phase) \subseteq m.unmet
        /\ m.passes <=> m.reasons = {}
    BY <1>6, <2>1, EarlyAnalysisSound
  <2>3. "clock_ends" \in UnclockedE /\ "clock_ends" \in Names(phase)
    BY <1>6, EarlyGates DEF UnclockedE, Names
  <2> QED BY <2>2, <2>3
<1> QED BY <1>1, <1>2, <1>3, <1>4, <1>5, <1>6

----------------------------------------------------------------------------
\* The step after this one.
LEMMA ProceedTo ==
  ASSUME phase \in AllPhase, pc \in Before, Proceed,
         pc \in {"cleanup", "types"} => phase \notin {A, B},
         pc = "preflight" => phase = H
  PROVE  /\ why' = why
         /\ pc = "cleanup" => pc' = IF phase = H THEN "preflight" ELSE "tests"
         /\ pc = "preflight" => pc' = "tests"
         /\ pc = "tests" => pc' = IF phase \in {A, B} THEN "capture" ELSE "types"
         /\ pc = "types" => pc' = "capture"
         /\ pc = "capture" => pc' = "analyse"
<1> DEFINE k == CHOOSE i \in DOMAIN Steps : Steps[i] = pc
<1>1. why' = why /\ pc' = Steps[1 + k]
  BY DEF Proceed
<1>2. CASE phase \in {A, B}
  <2>1. Steps = <<"tests", "capture", "analyse">>
    BY <1>2 DEF Steps, StepsA, StepsB, A, B, C, D, E, FG, H
  <2>2. pc \in {"tests", "capture"}
    BY <1>2 DEF Before, A, B, H
  <2>3. k \in 1 .. 3 /\ Steps[k] = pc
    BY <2>1, <2>2
  <2> HIDE DEF k
  <2> QED BY <1>1, <1>2, <2>1, <2>2, <2>3
<1>3. CASE phase \in {C, D, E, FG}
  <2>1. Steps = <<"cleanup", "tests", "types", "capture", "analyse">>
    BY <1>3 DEF Steps, StepsC, StepsD, StepsE, StepsFG, A, B, C, D, E, FG, H
  <2>2. pc \in {"cleanup", "tests", "types", "capture"} /\ phase # H /\ phase \notin {A, B}
    BY <1>3 DEF Before, A, B, C, D, E, FG, H
  <2>3. k \in 1 .. 5 /\ Steps[k] = pc
    <3>1. DOMAIN Steps = 1 .. 5
      BY <2>1
    <3>2. \E i \in 1 .. 5 : Steps[i] = pc
      <4>1. Steps[1] = "cleanup" /\ Steps[2] = "tests" /\ Steps[3] = "types" /\ Steps[4] = "capture"
        BY <2>1
      <4> QED BY <2>2, <4>1
    <3> QED BY <3>1, <3>2
  <2> HIDE DEF k
  <2> QED BY <1>1, <2>1, <2>2, <2>3
<1>4. CASE phase = H
  <2>1. Steps = <<"cleanup", "preflight", "tests", "types", "capture", "analyse">>
    BY <1>4 DEF Steps, StepsH, A, B, C, D, E, FG, H
  <2>2. phase \notin {A, B}
    BY <1>4 DEF A, B, H
  <2>3. k \in 1 .. 6 /\ Steps[k] = pc
    <3>1. DOMAIN Steps = 1 .. 6
      BY <2>1
    <3>2. \E i \in 1 .. 6 : Steps[i] = pc
      <4>1. /\ Steps[1] = "cleanup" /\ Steps[2] = "preflight" /\ Steps[3] = "tests"
            /\ Steps[4] = "types" /\ Steps[5] = "capture"
        BY <2>1
      <4> QED BY <4>1 DEF Before
    <3> QED BY <3>1, <3>2
  <2> HIDE DEF k
  <2> QED BY <1>1, <1>4, <2>1, <2>2, <2>3 DEF Before
<1> QED BY <1>2, <1>3, <1>4 DEF AllPhase

----------------------------------------------------------------------------
\* What writing files does to whose they are.
LEMMA PutOwns ==
  ASSUME Types, NEW names \in SUBSET FileName, disk' = Put(disk, names), run' = run
  PROVE  /\ disk' \in SUBSET (FileName \X Nat)
         /\ \A n \in names : Own(n)' /\ <<n, run'>> \in disk'
         /\ \A n \in FileName : Own(n) => Own(n)'
         /\ \A n \in FileName : <<n, run>> \in disk => <<n, run'>> \in disk'
<1>1. disk \in SUBSET (FileName \X Nat) /\ run \in Nat
  BY DEF Types
<1>2. disk' = {f \in disk : f[1] \notin names} \cup {<<n, run>> : n \in names}
  BY DEF Put
<1>3. disk' \in SUBSET (FileName \X Nat)
  BY <1>1, <1>2
<1>4. \A n \in names : Own(n)' /\ <<n, run'>> \in disk'
  BY <1>1, <1>2 DEF Own
<1>5. \A n \in FileName : Own(n) => Own(n)'
  BY <1>1, <1>2 DEF Own
<1>6. \A n \in FileName : <<n, run>> \in disk => <<n, run'>> \in disk'
  BY <1>1, <1>2
<1> QED BY <1>3, <1>4, <1>5, <1>6

\* Until the report is written there is no bundle, and nothing has ended.
LEMMA EarlyKeeps ==
  ASSUME EvidenceInvariant, pc \in Before \cup {"analyse", "explain"},
         pc' \in Before \cup {"analyse", "explain", "report"},
         UNCHANGED <<phase, run, args, stage, bundles>>
  PROVE  /\ Checked' /\ OwnBundles' /\ PassIsEarned' /\ ExitIsEvidence' /\ BundleIsOneRun'
         /\ stage' = "first"
<1>1. stage = "first" /\ bundles = {}
  <2>1. stage = "first"
    BY DEF EvidenceInvariant, OnItsWay
  <2>2. pc \notin {"off", "zip"}
    BY DEF Before
  <2> QED BY <2>1, <2>2 DEF EvidenceInvariant, OwnBundles
<1>2. pc' \notin {"off", "zip", "written"}
  BY DEF Before
<1>3. Checked'
  BY <1>2 DEF Checked
<1>4. OwnBundles'
  BY <1>1, <1>2 DEF OwnBundles
<1>5. PassIsEarned' /\ ExitIsEvidence'
  BY <1>2 DEF PassIsEarned, ExitIsEvidence, Ended
<1>6. BundleIsOneRun'
  BY <1>1 DEF BundleIsOneRun
<1> QED BY <1>1, <1>3, <1>4, <1>5, <1>6

\* A run begins without the bundles of earlier ones.
LEMMA BeginStep ==
  ASSUME EvidenceInvariant, NEW a \in Arguments(phase), Begin(a)
  PROVE  EvidenceInvariant'
<1>1. /\ run' = run + 1 /\ args' = a /\ fresh' = FALSE /\ why' = "" /\ stage' = "first"
      /\ bundles' = {} /\ phase' = phase /\ disk' = disk
  BY DEF Begin, UnlinkBundles
<1>p. pc' = IF a.mode = "preflight" THEN "preflight" ELSE Head(Steps)
  BY DEF Begin
<1>2. phase \in AllPhase /\ run \in Nat /\ disk \in SUBSET (FileName \X Nat)
  BY DEF EvidenceInvariant, Types
<1>3. \/ a.mode = "preflight" /\ phase = H /\ pc' = "preflight"
      \/ a.mode # "preflight" /\ phase \in {A, B} /\ pc' = "tests"
      \/ a.mode # "preflight" /\ phase \notin {A, B} /\ pc' = "cleanup"
  <2>1. a.mode = "preflight" => phase = H
    BY <1>2 DEF Arguments, Modes, AllPhase, A, B, C, D, E, FG, H
  <2>2. phase \in {A, B} => Head(Steps) = "tests"
    BY DEF Steps, StepsA, StepsB, A, B, C, D, E, FG, H
  <2>3. phase \notin {A, B} => Head(Steps) = "cleanup"
    BY <1>2 DEF Steps, StepsC, StepsD, StepsE, StepsFG, StepsH, AllPhase, A, B, C, D, E, FG, H
  <2> QED BY <1>p, <2>1, <2>2, <2>3
<1>4. pc' \in {"preflight", "tests", "cleanup"}
  BY <1>3
<1>5. Types'
  <2>1. run' \in Nat
    <3>1. run' = run + 1 /\ run \in Nat
      BY <1>1, <1>2
    <3> QED BY <3>1
  <2>2. args' \in Arguments(phase')
    BY <1>1
  <2>3. fresh' \in BOOLEAN /\ bundles' \in SUBSET Bundle
    BY <1>1
  <2> QED BY <1>1, <1>2, <1>4, <2>1, <2>2, <2>3 DEF Types, Before
<1>6. OnItsWay'
  BY <1>1, <1>3 DEF OnItsWay, Before, Reported
<1>7. Held' /\ Checked'
  BY <1>4 DEF Held, Checked, Reported
<1>8. OwnFiles'
  BY <1>1, <1>3 DEF OwnFiles, Reported
<1>9. OwnBundles' /\ BundleIsOneRun'
  BY <1>1, <1>4 DEF OwnBundles, BundleIsOneRun
<1>10. PassIsEarned' /\ ExitIsEvidence'
  BY <1>4 DEF PassIsEarned, ExitIsEvidence, Ended
<1> QED BY <1>5, <1>6, <1>7, <1>8, <1>9, <1>10 DEF EvidenceInvariant

\* After the cleanup of the files of earlier runs, or its failure.
LEMMA CleanupStep ==
  ASSUME EvidenceInvariant, Cleanup
  PROVE  EvidenceInvariant'
<1>1. /\ pc = "cleanup" /\ UNCHANGED <<phase, run, args, fresh, stage, bundles>>
      /\ phase \in AllPhase /\ phase \notin {A, B} /\ ~fresh /\ args.mode # "preflight"
      /\ why = "" /\ stage = "first" /\ run \in Nat
  BY DEF Cleanup, EvidenceInvariant, OnItsWay, Types, Before
<1>2. \/ /\ why' = "" /\ pc' = IF phase = H THEN "preflight" ELSE "tests"
         /\ disk' = Put(disk, {"cleanup"}) \/ disk' = Cleaned
      \/ /\ why' = "ARTIFACT_CLEANUP" /\ pc' = "explain"
         /\ \/ disk' = Cleaned
            \/ \E left \in disk : disk' = Cleaned \cup {left}
  <2>1. Proceed => why' = "" /\ pc' = IF phase = H THEN "preflight" ELSE "tests"
    BY <1>1, ProceedTo DEF Before
  <2> QED BY <2>1 DEF Cleanup, Fail
<1>3. /\ disk' \in SUBSET (FileName \X Nat)
      /\ why' = "" => Own("cleanup")'
  <2>0. disk \in SUBSET (FileName \X Nat)
    BY DEF EvidenceInvariant, Types
  <2>1. CASE disk' = Put(disk, {"cleanup"})
    BY <1>1, <2>1, PutOwns DEF EvidenceInvariant, FileName
  <2>c. /\ Cleaned \in SUBSET (FileName \X Nat)
        /\ \A f \in Cleaned : f[2] = run
    <3>1. <<"cleanup", run>> \in FileName \X Nat
      BY <1>1 DEF FileName
    <3> QED BY <3>1 DEF Cleaned
  <2>2. CASE disk' = Cleaned
    BY <1>1, <2>c, <2>2 DEF Own
  <2>3. CASE why' # "" /\ \E left \in disk : disk' = Cleaned \cup {left}
    BY <2>0, <2>c, <2>3
  <2> QED BY <1>2, <2>1, <2>2, <2>3
<1>4. pc' \in {"preflight", "tests", "explain"}
  BY <1>2
<1>5. Types'
  BY <1>1, <1>3, <1>4 DEF Types, Before, EvidenceInvariant
<1>6. OnItsWay'
  BY <1>1, <1>2, <1>4 DEF OnItsWay, Before, Reported
<1>7. Held'
  BY <1>4 DEF Held, Reported
<1>8. OwnFiles'
  BY <1>1, <1>2, <1>3, <1>4 DEF OwnFiles, Reported
<1> QED BY <1>1, <1>4, <1>5, <1>6, <1>7, <1>8, EarlyKeeps DEF EvidenceInvariant, Before

\* After the preflight.
LEMMA PreflightStep ==
  ASSUME EvidenceInvariant, Preflight
  PROVE  EvidenceInvariant'
<1>1. /\ pc = "preflight" /\ disk' = Put(disk, {"preflight"})
      /\ UNCHANGED <<phase, run, args, fresh, stage, bundles>>
      /\ phase = H /\ phase \in AllPhase /\ ~fresh /\ why = "" /\ stage = "first"
  BY DEF Preflight, EvidenceInvariant, OnItsWay, Types, Before
<1>2. \/ args.mode = "preflight" /\ pc' = "off" /\ why' = ""
      \/ args.mode # "preflight" /\ why' = "" /\ pc' = "tests"
      \/ args.mode # "preflight" /\ why' = "PREFLIGHT" /\ pc' = "explain"
  <2>1. Proceed => why' = "" /\ pc' = "tests"
    BY <1>1, ProceedTo DEF Before
  <2> QED BY <1>1, <2>1 DEF Preflight, Fail
<1>3. phase \notin {A, B, C, D, E}
  BY <1>1 DEF A, B, C, D, E, H
<1>4. /\ disk' \in SUBSET (FileName \X Nat)
      /\ \A n \in FileName : Own(n) => Own(n)'
  BY <1>1, PutOwns DEF EvidenceInvariant, FileName
<1>5. pc' \in {"off", "tests", "explain"}
  BY <1>2
<1>6. Types'
  BY <1>1, <1>4, <1>5 DEF Types, Before, EvidenceInvariant
<1>7. OnItsWay'
  BY <1>1, <1>2, <1>3, <1>5 DEF OnItsWay, Before, Reported
<1>8. Held'
  BY <1>5 DEF Held, Reported
<1>9. OwnFiles'
  <2>1. args.mode # "preflight" => Own("cleanup")
    BY <1>1, <1>3 DEF EvidenceInvariant, OwnFiles
  <2>2. args.mode # "preflight" => Own("cleanup")'
    BY <1>4, <2>1 DEF FileName
  <2> QED BY <1>1, <1>2, <1>3, <2>2 DEF OwnFiles, Reported
<1>10. CASE pc' # "off"
  BY <1>1, <1>5, <1>6, <1>7, <1>8, <1>9, <1>10, EarlyKeeps DEF EvidenceInvariant, Before
<1>11. CASE pc' = "off"
  <2>1. bundles' = {}
    BY <1>1 DEF EvidenceInvariant, OwnBundles
  <2>2. Checked' /\ OwnBundles' /\ BundleIsOneRun'
    BY <1>11, <2>1 DEF Checked, OwnBundles, BundleIsOneRun, Reported
  <2>3. args'.mode = "preflight"
    BY <1>1, <1>2, <1>11
  <2>4. PassIsEarned' /\ ExitIsEvidence'
    BY <2>3 DEF PassIsEarned, ExitIsEvidence, Ended
  <2> QED BY <1>6, <1>7, <1>8, <1>9, <2>2, <2>4 DEF EvidenceInvariant
<1> QED BY <1>10, <1>11

\* A step that runs a tool and writes its log: it goes on, or gives up.
LEMMA ToolStep ==
  ASSUME EvidenceInvariant, RunPytest \/ RunTypecheck
  PROVE  EvidenceInvariant'
<1>1. /\ \/ pc = "tests" /\ disk' = Put(disk, {"pytest"})
         \/ pc = "types" /\ disk' = Put(disk, {"typecheck"})
      /\ UNCHANGED <<phase, run, args, fresh, stage, bundles>>
      /\ Proceed \/ Fail("TEST") \/ Fail("TYPECHECK")
  <2>1. CASE RunPytest
    BY <2>1 DEF RunPytest
  <2>2. CASE RunTypecheck
    BY <2>2 DEF RunTypecheck
  <2> QED BY <2>1, <2>2
<1>2. /\ phase \in AllPhase /\ ~fresh /\ why = "" /\ stage = "first"
      /\ args.mode # "preflight"
      /\ pc = "types" => phase \notin {A, B}
  BY <1>1 DEF EvidenceInvariant, OnItsWay, Types, Before
<1>3. \/ why' = "" /\ pc = "tests" /\ pc' = IF phase \in {A, B} THEN "capture" ELSE "types"
      \/ why' = "" /\ pc = "types" /\ pc' = "capture"
      \/ why' \in {"TEST", "TYPECHECK"} /\ pc' = "explain"
  <2>1. CASE Proceed
    <3>1. /\ pc \in Before /\ (pc \in {"cleanup", "types"} => phase \notin {A, B})
          /\ (pc = "preflight" => phase = H)
      BY <1>1, <1>2 DEF Before
    <3>2. /\ why' = why
          /\ pc = "tests" => pc' = IF phase \in {A, B} THEN "capture" ELSE "types"
          /\ pc = "types" => pc' = "capture"
      BY <1>2, <2>1, <3>1, ProceedTo
    <3> QED BY <1>1, <1>2, <3>2
  <2> QED BY <1>1, <2>1 DEF Fail
<1>4. /\ disk' \in SUBSET (FileName \X Nat)
      /\ \A n \in FileName : Own(n) => Own(n)'
      /\ pc = "types" => Own("typecheck")'
  <2>1. CASE pc = "tests"
    BY <1>1, <2>1, PutOwns DEF EvidenceInvariant, FileName
  <2>2. CASE pc = "types"
    BY <1>1, <2>2, PutOwns DEF EvidenceInvariant, FileName
  <2> QED BY <1>1, <2>1, <2>2
<1>5. pc' \in {"types", "capture", "explain"}
  BY <1>3
<1>6. Types'
  BY <1>1, <1>4, <1>5 DEF Types, Before, EvidenceInvariant
<1>7. OnItsWay'
  BY <1>1, <1>2, <1>3, <1>5 DEF OnItsWay, Before, Reported
<1>8. Held'
  BY <1>5 DEF Held, Reported
<1>9. OwnFiles'
  <2>1. phase \notin {A, B} /\ args.mode # "preflight" => Own("cleanup")
    BY <1>1, <1>2 DEF EvidenceInvariant, OwnFiles
  <2>2. phase \notin {A, B} /\ args.mode # "preflight" => Own("cleanup")'
    BY <1>4, <2>1 DEF FileName
  <2> QED BY <1>1, <1>2, <1>3, <1>4, <2>2 DEF OwnFiles, Reported
<1>10. pc \in Before /\ pc' \in Before \cup {"explain"}
  BY <1>1, <1>5 DEF Before
<1> QED BY <1>1, <1>6, <1>7, <1>8, <1>9, <1>10, EarlyKeeps DEF EvidenceInvariant

\* What a capture, a fixture or a refusal leaves, whichever it is.
GaveUp ==
  /\ why' # "" /\ pc' = "explain"
  /\ phase = D => why' = "FRESH_CAPTURE" \/ (why' = "FRESH_DURATION" /\ args.short)

WentOn ==
  /\ why' = "" /\ pc' = "analyse" /\ args.mode # "denied"
  /\ phase \in {C, D, E} => Own("diagnostics")'
  /\ fresh' => Own("samples")' /\ <<"samples", run'>> \in disk'

\* Whatever becomes of a capture, it writes its own files and gives up or goes on.
LEMMA CaptureEffect ==
  ASSUME EvidenceInvariant, Refuse \/ UseFixture \/ Capture \/ CaptureFailed \/ CaptureRaised
  PROVE  /\ pc = "capture" /\ UNCHANGED <<phase, run, args, stage, bundles>>
         /\ disk' \in SUBSET (FileName \X Nat) /\ fresh' \in BOOLEAN
         /\ \A n \in FileName : Own(n) => Own(n)'
         /\ GaveUp \/ WentOn
<1>1. /\ phase \in AllPhase /\ ~fresh /\ fresh \in BOOLEAN /\ args \in Arguments(phase)
      /\ disk \in SUBSET (FileName \X Nat) /\ Types
  <2>1. pc = "capture"
    BY DEF Refuse, UseFixture, Capture, CaptureFailed, CaptureRaised
  <2> QED BY <2>1 DEF EvidenceInvariant, OnItsWay, Types, Before
<1>2. pc = "capture" => why = ""
  BY DEF EvidenceInvariant, OnItsWay, Before
<1>3. pc = "capture" /\ Proceed => why' = "" /\ pc' = "analyse"
  BY <1>1, <1>2, ProceedTo DEF Before
<1>4. Refusal = "" => args.mode # "denied"
  BY <1>1 DEF Refusal, Arguments, Modes, AllPhase, A, B, C, D, E, FG, H
<1>5. \A names \in SUBSET FileName :
        /\ WithDiagnostics(names) \in SUBSET FileName /\ names \subseteq WithDiagnostics(names)
        /\ phase \in {C, D, E} => "diagnostics" \in WithDiagnostics(names)
  BY DEF WithDiagnostics, FileName
<1>6. {} \in SUBSET FileName /\ {"samples"} \in SUBSET FileName
  BY DEF FileName
<1>7. CASE Refuse
  <2>1. /\ pc = "capture" /\ UNCHANGED <<phase, run, args, stage, bundles, disk, fresh>>
        /\ why' = Refusal /\ pc' = "explain" /\ Refusal # ""
    BY <1>7 DEF Refuse, Fail
  <2>2. phase = D => Refusal = "FRESH_CAPTURE" \/ (Refusal = "FRESH_DURATION" /\ args.short)
    <3>1. args.short \in BOOLEAN
      BY <1>1 DEF Arguments
    <3> QED BY <2>1, <3>1 DEF Refusal, A, B, C, D
  <2>3. GaveUp
    BY <2>1, <2>2 DEF GaveUp
  <2>4. \A n \in FileName : Own(n) => Own(n)'
    BY <2>1 DEF Own
  <2> QED BY <1>1, <2>1, <2>3, <2>4
<1>8. CASE UseFixture
  <2>1. /\ pc = "capture" /\ UNCHANGED <<phase, run, args, stage, bundles, fresh>>
        /\ Refusal = "" /\ disk' = Put(disk, WithDiagnostics({})) /\ Proceed
    BY <1>8 DEF UseFixture
  <2>2. /\ disk' \in SUBSET (FileName \X Nat)
        /\ \A n \in WithDiagnostics({}) : Own(n)'
        /\ \A n \in FileName : Own(n) => Own(n)'
    BY <1>1, <1>5, <1>6, <2>1, PutOwns
  <2>3. WentOn
    BY <1>1, <1>3, <1>4, <1>5, <1>6, <2>1, <2>2 DEF WentOn
  <2> QED BY <1>1, <2>1, <2>2, <2>3
<1>9. CASE Capture
  <2>1. /\ pc = "capture" /\ UNCHANGED <<phase, run, args, stage, bundles>> /\ fresh' = TRUE
        /\ Refusal = "" /\ disk' = Put(disk, WithDiagnostics({"samples"})) /\ Proceed
    BY <1>9 DEF Capture
  <2>2. /\ disk' \in SUBSET (FileName \X Nat)
        /\ \A n \in WithDiagnostics({"samples"}) : Own(n)' /\ <<n, run'>> \in disk'
        /\ \A n \in FileName : Own(n) => Own(n)'
    <3> DEFINE names == WithDiagnostics({"samples"})
    <3>1. names \in SUBSET FileName /\ disk' = Put(disk, names) /\ run' = run /\ Types
      BY <1>1, <1>5, <1>6, <2>1
    <3> HIDE DEF names
    <3>2. /\ disk' \in SUBSET (FileName \X Nat)
          /\ \A n \in names : Own(n)' /\ <<n, run'>> \in disk'
          /\ \A n \in FileName : Own(n) => Own(n)'
      BY <3>1, PutOwns
    <3> QED BY <3>2 DEF names
  <2>3. "samples" \in WithDiagnostics({"samples"})
    BY <1>5, <1>6
  <2>4. WentOn
    BY <1>3, <1>4, <1>5, <1>6, <2>1, <2>2, <2>3 DEF WentOn
  <2> QED BY <2>1, <2>2, <2>4
<1>10. CASE CaptureFailed
  <2>1. /\ pc = "capture" /\ UNCHANGED <<phase, run, args, stage, bundles>>
        /\ Refusal = "" /\ fresh' \in IF phase = C THEN BOOLEAN ELSE {FALSE}
    BY <1>10 DEF CaptureFailed
  <2>2. PICK left \in {{}, {"samples"}} : disk' = Put(disk, WithDiagnostics(left))
    BY <1>10 DEF CaptureFailed
  <2>3. /\ disk' \in SUBSET (FileName \X Nat)
        /\ \A n \in WithDiagnostics(left) : Own(n)'
        /\ \A n \in FileName : Own(n) => Own(n)'
    BY <1>1, <1>5, <1>6, <2>1, <2>2, PutOwns
  <2>4. CASE phase \in {A, B, C}
    <3>1. why' # "" /\ pc' = "explain"
      BY <1>10, <2>4 DEF CaptureFailed, Fail, A, B, C
    <3>2. GaveUp
      BY <2>4, <3>1 DEF GaveUp, A, B, C, D
    <3> QED BY <2>1, <2>3, <3>2
  <2>5. CASE phase \notin {A, B, C}
    <3>1. Proceed
      BY <1>10, <2>5 DEF CaptureFailed
    <3>2. WentOn
      BY <1>3, <1>4, <1>5, <1>6, <2>1, <2>3, <2>5, <3>1 DEF WentOn
    <3> QED BY <2>1, <2>3, <3>2
  <2> QED BY <2>4, <2>5
<1>11. CASE CaptureRaised
  <2>1. /\ pc = "capture" /\ UNCHANGED <<phase, run, args, stage, bundles, fresh>>
        /\ phase \in {E, FG, H} /\ pc' = "explain" /\ why' \in {"CLOCK_SYNC", "FRESH_CAPTURE"}
    BY <1>11 DEF CaptureRaised, Fail
  <2>2. PICK left \in {{}, {"samples"}} : disk' = Put(disk, left)
    BY <1>11 DEF CaptureRaised
  <2>3. /\ disk' \in SUBSET (FileName \X Nat)
        /\ \A n \in FileName : Own(n) => Own(n)'
    BY <1>1, <1>6, <2>1, <2>2, PutOwns
  <2>4. GaveUp
    BY <2>1 DEF GaveUp, D, E, FG, H
  <2> QED BY <1>1, <2>1, <2>3, <2>4
<1> QED BY <1>7, <1>8, <1>9, <1>10, <1>11

\* So the invariant holds after the capture,
LEMMA CaptureStep ==
  ASSUME EvidenceInvariant, Refuse \/ UseFixture \/ Capture \/ CaptureFailed \/ CaptureRaised
  PROVE  EvidenceInvariant'
<1>1. /\ pc = "capture" /\ UNCHANGED <<phase, run, args, stage, bundles>>
      /\ disk' \in SUBSET (FileName \X Nat) /\ fresh' \in BOOLEAN
      /\ \A n \in FileName : Own(n) => Own(n)'
      /\ GaveUp \/ WentOn
  BY CaptureEffect
<1>2. /\ phase \in AllPhase /\ stage = "first" /\ args.mode # "preflight" /\ why = ""
  BY <1>1 DEF EvidenceInvariant, OnItsWay, Types, Before
<1>3. pc' \in {"explain", "analyse"}
  BY <1>1 DEF GaveUp, WentOn
<1>4. Types'
  BY <1>1, <1>3 DEF Types, EvidenceInvariant
<1>5. OnItsWay'
  BY <1>1, <1>2, <1>3 DEF OnItsWay, Before, Reported, GaveUp, WentOn
<1>6. Held'
  BY <1>3 DEF Held, Reported
<1>7. OwnFiles'
  <2>1. phase \notin {A, B} => Own("cleanup") /\ Own("typecheck")
    BY <1>1, <1>2 DEF EvidenceInvariant, OwnFiles
  <2>2. phase \notin {A, B} => Own("cleanup")' /\ Own("typecheck")'
    BY <1>1, <2>1 DEF FileName
  <2>3. CASE GaveUp
    BY <2>3 DEF OwnFiles, Reported, GaveUp
  <2>4. CASE WentOn
    BY <1>1, <2>2, <2>4 DEF OwnFiles, Reported, WentOn
  <2> QED BY <1>1, <2>3, <2>4
<1>8. pc \in Before /\ pc' \in {"explain", "analyse"}
  BY <1>1, <1>3 DEF Before
<1> QED BY <1>1, <1>4, <1>5, <1>6, <1>7, <1>8, EarlyKeeps DEF EvidenceInvariant

\* What the analysis writes: the dataset zip with it when the report meets every gate, unless
\* only existing artifacts are evaluated.
LEMMA AnalyseZips ==
  ASSUME Analyse
  PROVE  \E zip \in SUBSET {"dataset_zip"} :
           /\ disk' = Put(disk, {"labels"} \cup zip)
           /\ memory'.unmet = {} /\ phase \in {E, FG, H} /\ args.mode # "existing" =>
                "dataset_zip" \in zip
<1>1. PICK zip \in Zipped(memory'.unmet) : disk' = Put(disk, {"labels"} \cup zip)
  BY DEF Analyse
<1>2. CASE phase = E
  BY <1>1, <1>2 DEF Zipped, E
<1>3. CASE phase \in {FG, H} /\ args.mode # "existing"
  BY <1>1, <1>3 DEF Zipped, E, FG, H
<1>4. CASE phase # E /\ ~(phase \in {FG, H} /\ args.mode # "existing")
  BY <1>1, <1>4 DEF Zipped, E, FG, H
<1> QED BY <1>2, <1>3, <1>4

\* after the analysis,
LEMMA AnalyseStep ==
  ASSUME EvidenceInvariant, Analyse
  PROVE  EvidenceInvariant'
<1>1. /\ pc = "analyse" /\ pc' = "report"
      /\ UNCHANGED <<phase, run, args, fresh, why, stage, bundles>>
  BY DEF Analyse, script
<1>d. PICK zip \in SUBSET {"dataset_zip"} : disk' = Put(disk, {"labels"} \cup zip)
  BY AnalyseZips
<1>2. /\ phase \in AllPhase /\ stage = "first" /\ args.mode # "preflight" /\ why = ""
      /\ args.mode # "denied"
  BY <1>1 DEF EvidenceInvariant, OnItsWay, Types, Before
<1>3. PICK roots : memory' \in RuntimeReports(WithExitCode(Analysed(roots \cup Situational)))
  BY DEF Analyse
<1>4. /\ Sound(phase, memory')
      /\ (roots \cup Situational) \cap Names(phase) \subseteq memory'.unmet
      /\ memory'.passes <=> memory'.reasons = {}
  BY <1>2, <1>3, AnalyseReports
<1>5. Required /\ ~fresh => "fresh" \in memory'.unmet
  <2>1. "fresh" \in Names(phase)
    BY <1>2, FreshIsAGate DEF Names
  <2>2. Required /\ ~fresh => "fresh" \in Situational
    BY <1>2, FreshIsAGate DEF Situational
  <2> QED BY <1>4, <2>1, <2>2
<1>6. /\ disk' \in SUBSET (FileName \X Nat)
      /\ \A n \in FileName : Own(n) => Own(n)'
      /\ Own("labels")'
      /\ <<"samples", run>> \in disk => <<"samples", run'>> \in disk'
  <2>1. {"labels"} \cup zip \in SUBSET FileName /\ "samples" \in FileName
    BY DEF FileName
  <2>2. "labels" \in {"labels"} \cup zip /\ Types
    BY DEF EvidenceInvariant
  <2> QED BY <1>1, <1>d, <2>1, <2>2, PutOwns
<1>7. Types'
  BY <1>1, <1>6 DEF Types, EvidenceInvariant, Reported
<1>8. OnItsWay'
  BY <1>1, <1>2 DEF OnItsWay, Before, Reported
<1>9. Held'
  <2>1. Required' = Required
    BY <1>1 DEF Required
  <2> QED BY <1>1, <1>2, <1>4, <1>5, <2>1 DEF Held
<1>10. OwnFiles'
  <2>1. /\ phase \notin {A, B} => Own("cleanup") /\ Own("typecheck")
        /\ phase \in {C, D, E} => Own("diagnostics")
        /\ fresh => Own("samples") /\ <<"samples", run>> \in disk
    BY <1>1, <1>2 DEF EvidenceInvariant, OwnFiles
  <2>2. /\ phase \notin {A, B} => Own("cleanup")' /\ Own("typecheck")'
        /\ phase \in {C, D, E} => Own("diagnostics")'
        /\ fresh => Own("samples")' /\ <<"samples", run'>> \in disk'
    BY <1>6, <2>1 DEF FileName
  <2> QED BY <1>1, <1>2, <1>6, <2>2 DEF OwnFiles, Reported
<1> QED BY <1>1, <1>7, <1>8, <1>9, <1>10, EarlyKeeps DEF EvidenceInvariant

\* and after the failure has its class.
LEMMA ExplainStep ==
  ASSUME EvidenceInvariant, Explain
  PROVE  EvidenceInvariant'
<1>1. /\ pc = "explain" /\ pc' = "report" /\ memory' \in EmptyReports
      /\ disk' = (IF phase \in {D, E} THEN Put(disk, {"labels"}) ELSE disk)
      /\ UNCHANGED <<phase, run, args, fresh, why, stage, bundles>>
  BY DEF Explain, script
<1>2. /\ phase \in AllPhase /\ stage = "first" /\ args.mode # "preflight" /\ why # ""
      /\ OnItsWay
  BY <1>1 DEF EvidenceInvariant, OnItsWay, Types
<1>3. /\ Sound(phase, memory')
      /\ phase \notin {A, B} /\ memory'.reasons = {} => memory'.passes
      /\ phase \notin {A, B} /\ ~(phase = D /\ why = "FRESH_CAPTURE") =>
           memory'.unmet # {} \/ memory'.reasons # {}
  BY <1>1, <1>2, ExplainReports
<1>4. disk' \in SUBSET (FileName \X Nat)
  <2>1. CASE phase \in {D, E}
    BY <1>1, <2>1, PutOwns DEF EvidenceInvariant, FileName
  <2>2. CASE phase \notin {D, E}
    BY <1>1, <2>2 DEF EvidenceInvariant, Types
  <2> QED BY <2>1, <2>2
<1>5. Types'
  BY <1>1, <1>4 DEF Types, EvidenceInvariant, Reported
<1>6. OnItsWay'
  BY <1>1, <1>2 DEF OnItsWay, Before, Reported
<1>7. Held'
  BY <1>1, <1>2, <1>3 DEF Held
<1>8. OwnFiles'
  BY <1>1, <1>2 DEF OwnFiles, Reported
<1> QED BY <1>1, <1>5, <1>6, <1>7, <1>8, EarlyKeeps DEF EvidenceInvariant

\* Before the end a step that keeps the bundles and the run keeps what is said of finished
\* ones, and promises nothing of its end.
LEMMA LateKeeps ==
  ASSUME EvidenceInvariant, pc' # "off", UNCHANGED <<phase, run, args, bundles>>
  PROVE  PassIsEarned' /\ ExitIsEvidence' /\ BundleIsOneRun'
<1>1. PassIsEarned' /\ ExitIsEvidence'
  BY DEF PassIsEarned, ExitIsEvidence, Ended
<1>2. BundleIsOneRun'
  BY DEF EvidenceInvariant, BundleIsOneRun, Required
<1> QED BY <1>1, <1>2

\* What a bundle is made of, phase by phase.
LEMMA PartsAre ==
  ASSUME phase \in AllPhase
  PROVE  /\ Parts \in SUBSET FileName /\ {"report", "pytest"} \subseteq Parts
         /\ phase \in {FG, H} => {"cleanup", "diagnostics"} \subseteq Parts
         /\ phase = H => "preflight" \in Parts
         /\ "samples" \notin Parts
<1>1. PartsFG \in SUBSET FileName /\ {"report", "pytest", "cleanup", "diagnostics"} \subseteq PartsFG
  BY DEF PartsFG, FileName
<1>2. "samples" \notin PartsFG
  BY DEF PartsFG
<1>3. phase \in {A, B, C, D, E} => Parts = {"report", "pytest"}
  BY DEF Parts, PartsA, PartsB, PartsC, PartsD, PartsE, A, B, C, D, E, FG, H
<1>4. phase = FG => Parts = PartsFG
  BY DEF Parts, A, B, C, D, E, FG, H
<1>5. phase = H => Parts = PartsFG \cup {"preflight"}
  BY DEF Parts, PartsH, A, B, C, D, E, FG, H
<1>6. CASE phase \in {A, B, C, D, E}
  BY <1>3, <1>6 DEF FileName, A, B, C, D, E, FG, H
<1>7. CASE phase = FG
  BY <1>1, <1>2, <1>4, <1>7 DEF FG, H
<1>8. CASE phase = H
  <2>1. "preflight" \in FileName
    BY DEF FileName
  <2> QED BY <1>1, <1>2, <1>5, <1>8, <2>1
<1> QED BY <1>6, <1>7, <1>8 DEF AllPhase

\* The report is written,
LEMMA WriteReportStep ==
  ASSUME EvidenceInvariant, WriteReport
  PROVE  EvidenceInvariant'
<1>1. /\ pc = "report" /\ pc' = "check" /\ disk' = Put(disk, Parts)
      /\ UNCHANGED <<phase, run, args, fresh, why, stage, bundles>>
      /\ memory' = IF phase = H /\ stage = "first" THEN Evaluate(phase, memory) ELSE memory
  BY DEF WriteReport, script
<1>2. /\ phase \in AllPhase
      /\ Sound(phase, memory)
      /\ phase \notin {A, B} /\ memory.reasons = {} => memory.passes
      /\ why # "" /\ phase \notin {A, B} /\ ~(phase = D /\ why = "FRESH_CAPTURE") =>
           memory.unmet # {} \/ memory.reasons # {}
      /\ why = "" /\ Required /\ ~fresh => "fresh" \in memory.unmet
      /\ stage = "unbundled" => ~memory.passes /\ memory.reasons # {}
  BY <1>1 DEF EvidenceInvariant, Held, Types, Reported
<1>3. /\ disk' \in SUBSET (FileName \X Nat)
      /\ \A n \in Parts : Own(n)'
      /\ \A n \in FileName : Own(n) => Own(n)'
      /\ \A n \in FileName : <<n, run>> \in disk => <<n, run'>> \in disk'
  BY <1>1, <1>2, PartsAre, PutOwns DEF EvidenceInvariant
<1>4. Types'
  BY <1>1, <1>3 DEF Types, EvidenceInvariant, Reported
<1>5. OnItsWay'
  BY <1>1 DEF EvidenceInvariant, OnItsWay, Before, Reported
<1>6. Held'
  <2>0. Required' = Required
    BY <1>1 DEF Required
  <2>1. CASE memory' = memory
    BY <1>1, <1>2, <2>0, <2>1 DEF Held
  <2>2. CASE phase = H /\ stage = "first" /\ memory' = Evaluate(phase, memory)
    <3>1. phase \notin {A, B}
      BY <2>2 DEF A, B, H
    <3>2. /\ Sound(phase, memory') /\ memory'.unmet = memory.unmet
          /\ memory'.passes <=> memory'.reasons = {}
          /\ memory.reasons \subseteq memory'.reasons
      BY <1>2, <2>2, <3>1, EvaluateSound
    <3> QED BY <1>1, <1>2, <2>0, <2>2, <3>2 DEF Held
  <2> QED BY <1>1, <2>1, <2>2
<1>7. Checked'
  BY <1>1 DEF Checked
<1>8. OwnFiles'
  <2>1. /\ phase \notin {A, B} /\ why = "" /\ args.mode # "preflight" => Own("cleanup")
        /\ phase \notin {A, B} /\ why = "" => Own("typecheck")
        /\ phase \in {C, D, E} /\ why = "" => Own("diagnostics")
        /\ why = "" => Own("labels")
        /\ fresh /\ why = "" => Own("samples") /\ <<"samples", run>> \in disk
    BY <1>1 DEF EvidenceInvariant, OwnFiles, Reported
  <2>2. /\ phase \notin {A, B} /\ why = "" /\ args.mode # "preflight" => Own("cleanup")'
        /\ phase \notin {A, B} /\ why = "" => Own("typecheck")'
        /\ phase \in {C, D, E} /\ why = "" => Own("diagnostics")'
        /\ why = "" => Own("labels")'
        /\ fresh /\ why = "" => Own("samples")' /\ <<"samples", run'>> \in disk'
    BY <1>3, <2>1 DEF FileName
  <2>3. /\ Own("report")' /\ Own("pytest")'
        /\ phase \in {FG, H} => Own("cleanup")' /\ Own("diagnostics")'
        /\ phase = H => Own("preflight")'
    BY <1>2, <1>3, PartsAre
  <2> QED BY <1>1, <2>2, <2>3 DEF OwnFiles, Reported
<1>9. OwnBundles'
  <2>1. /\ \A b \in bundles : b.run = run
        /\ stage = "first" => bundles = {}
        /\ stage = "bundled" => \E b \in bundles : b.complete /\ (memory.passes => b.kind = "pass")
    BY <1>1 DEF EvidenceInvariant, OwnBundles, Reported
  <2>2. stage # "first" => memory' = memory
    BY <1>1
  <2> QED BY <1>1, <2>1, <2>2 DEF OwnBundles
<1>10. PassIsEarned' /\ ExitIsEvidence' /\ BundleIsOneRun'
  BY <1>1, LateKeeps
<1> QED BY <1>4, <1>5, <1>6, <1>7, <1>8, <1>9, <1>10 DEF EvidenceInvariant

\* then the self check,
LEMMA WriteCheckStep ==
  ASSUME EvidenceInvariant, WriteCheck
  PROVE  EvidenceInvariant'
<1>1. /\ pc = "check" /\ pc' = "written"
      /\ UNCHANGED <<phase, run, args, fresh, why, stage, memory, bundles>>
  BY DEF WriteCheck, script
<1>2. /\ selfcheck' = [run |-> run, passed |-> Written.passes, bundled |-> SaysBundled]
      /\ disk' = IF Written.passes THEN disk ELSE Put(disk, {"investigation"})
  BY DEF WriteCheck
<1>3. /\ disk' \in SUBSET (FileName \X Nat)
      /\ \A n \in FileName : Own(n) => Own(n)'
      /\ \A n \in FileName : <<n, run>> \in disk => <<n, run'>> \in disk'
  <2>1. CASE disk' = disk
    BY <1>1, <2>1 DEF EvidenceInvariant, Types, Own
  <2>2. CASE disk' = Put(disk, {"investigation"})
    BY <1>1, <2>2, PutOwns DEF EvidenceInvariant, FileName
  <2> QED BY <1>2, <2>1, <2>2
<1>4. Types'
  BY <1>1, <1>3 DEF Types, EvidenceInvariant, Reported
<1>5. OnItsWay'
  BY <1>1 DEF EvidenceInvariant, OnItsWay, Before, Reported
<1>6. Held'
  BY <1>1 DEF EvidenceInvariant, Held, Required, Reported
<1>7. Checked'
  <2>1. Written' = Written
    BY <1>1 DEF Written
  <2> QED BY <1>1, <1>2, <2>1 DEF Checked
<1>8. OwnFiles'
  <2>1. /\ phase \notin {A, B} /\ why = "" /\ args.mode # "preflight" => Own("cleanup")
        /\ phase \notin {A, B} /\ why = "" => Own("typecheck")
        /\ phase \in {C, D, E} /\ why = "" => Own("diagnostics")
        /\ why = "" => Own("labels")
        /\ fresh /\ why = "" => Own("samples") /\ <<"samples", run>> \in disk
        /\ Own("report") /\ Own("pytest")
        /\ phase \in {FG, H} => Own("cleanup") /\ Own("diagnostics")
        /\ phase = H => Own("preflight")
    BY <1>1 DEF EvidenceInvariant, OwnFiles, Reported
  <2>2. /\ phase \notin {A, B} /\ why = "" /\ args.mode # "preflight" => Own("cleanup")'
        /\ phase \notin {A, B} /\ why = "" => Own("typecheck")'
        /\ phase \in {C, D, E} /\ why = "" => Own("diagnostics")'
        /\ why = "" => Own("labels")'
        /\ fresh /\ why = "" => Own("samples")' /\ <<"samples", run'>> \in disk'
        /\ Own("report")' /\ Own("pytest")'
        /\ phase \in {FG, H} => Own("cleanup")' /\ Own("diagnostics")'
        /\ phase = H => Own("preflight")'
    BY <1>3, <2>1 DEF FileName
  <2> QED BY <1>1, <2>2 DEF OwnFiles
<1>9. OwnBundles'
  BY <1>1 DEF EvidenceInvariant, OwnBundles, Reported
<1>10. PassIsEarned' /\ ExitIsEvidence' /\ BundleIsOneRun'
  BY <1>1, LateKeeps
<1> QED BY <1>4, <1>5, <1>6, <1>7, <1>8, <1>9, <1>10 DEF EvidenceInvariant

\* then the bundle is opened,
LEMMA OpenBundleStep ==
  ASSUME EvidenceInvariant, OpenBundle
  PROVE  EvidenceInvariant'
<1> DEFINE kind == IF memory.passes THEN "pass" ELSE "audit"
           b == [kind |-> kind, run |-> run, complete |-> FALSE, passed |-> FALSE, files |-> {}]
<1>1. /\ pc = "written" /\ pc' = "zip" /\ stage = "first"
      /\ UNCHANGED <<phase, run, args, fresh, why, stage, memory, disk, selfcheck>>
      /\ phase \in {E, FG, H} \/ (memory.passes /\ why = "")
      /\ bundles' = bundles \cup {b}
  BY DEF OpenBundle, script
<1>2. bundles = {}
  BY <1>1 DEF EvidenceInvariant, OwnBundles
<1>3. /\ b \in Bundle /\ b.run = run /\ b.complete = FALSE
      /\ b.kind = "pass" <=> memory.passes
  <2>1. run \in Nat /\ kind \in {"pass", "audit"} /\ {} \in SUBSET (FileName \X Nat)
    BY DEF EvidenceInvariant, Types
  <2> HIDE DEF kind
  <2>2. b \in Bundle /\ b.run = run /\ b.complete = FALSE /\ b.kind = kind
    BY <2>1 DEF Bundle
  <2> QED BY <2>2 DEF kind
<1> HIDE DEF b
<1>4. Types'
  BY <1>1, <1>2, <1>3 DEF Types, EvidenceInvariant, Reported
<1>5. OnItsWay'
  BY <1>1 DEF EvidenceInvariant, OnItsWay, Before, Reported
<1>6. Held'
  BY <1>1 DEF EvidenceInvariant, Held, Required, Reported
<1>7. Checked'
  BY <1>1 DEF EvidenceInvariant, Checked, Written
<1>8. OwnFiles'
  BY <1>1 DEF EvidenceInvariant, OwnFiles, Own, Reported
<1>9. OwnBundles'
  <2>1. memory.passes => why = ""
    <3>1. CASE phase \in {E, FG, H}
      <4>1. phase \notin {A, B, D}
        BY <3>1 DEF A, B, D, E, FG, H
      <4>2. memory.passes => memory.unmet = {} /\ memory.reasons = {}
        BY <1>1 DEF EvidenceInvariant, Held, Sound, Reported
      <4>3. why # "" => memory.unmet # {} \/ memory.reasons # {}
        BY <1>1, <4>1 DEF EvidenceInvariant, Held, Reported
      <4> QED BY <4>2, <4>3
    <3> QED BY <1>1, <3>1
  <2> QED BY <1>1, <1>2, <1>3, <2>1 DEF OwnBundles
<1>10. PassIsEarned' /\ ExitIsEvidence'
  BY <1>1 DEF PassIsEarned, ExitIsEvidence, Ended
<1>11. BundleIsOneRun'
  BY <1>1, <1>2, <1>3 DEF BundleIsOneRun
<1> QED BY <1>4, <1>5, <1>6, <1>7, <1>8, <1>9, <1>10, <1>11 DEF EvidenceInvariant

\* The files a bundle needs.
LEMMA RequiredAre ==
  ASSUME phase \in AllPhase
  PROVE  /\ RequiredFiles \subseteq {"samples", "labels", "report", "selfcheck", "pytest",
                                     "diagnostics", "cleanup", "typecheck", "preflight"}
         /\ phase \in {A, B} =>
              RequiredFiles \cap {"diagnostics", "cleanup", "typecheck", "preflight"} = {}
         /\ phase \in {C, D, E, FG} => "preflight" \notin RequiredFiles
<1>1. phase \in {A, B} => RequiredFiles = {"samples", "labels", "report", "selfcheck", "pytest"}
  BY DEF RequiredFiles, FilesA, FilesB, A, B, C, D, E, FG, H
<1>2. phase = C => RequiredFiles = {"samples", "labels", "report", "selfcheck", "pytest",
                                    "diagnostics", "cleanup", "typecheck"}
  BY DEF RequiredFiles, FilesB, FilesC, A, B, C, D, E, FG, H
<1>3. phase = D => RequiredFiles = {"labels", "report", "selfcheck", "pytest", "typecheck"}
  BY DEF RequiredFiles, FilesD, A, B, C, D, E, FG, H
<1>4. phase \in {E, FG} => RequiredFiles = {"report", "selfcheck", "pytest", "cleanup",
                                            "diagnostics", "typecheck"}
  BY DEF RequiredFiles, FilesE, FilesFG, A, B, C, D, E, FG, H
<1>5. phase = H => RequiredFiles = {"report", "selfcheck", "pytest", "cleanup",
                                    "diagnostics", "typecheck", "preflight"}
  BY DEF RequiredFiles, FilesH, FilesFG, A, B, C, D, E, FG, H
<1>6. CASE phase \in {A, B}
  BY <1>1, <1>6 DEF A, B, C, D, E, FG
<1>7. CASE phase = C
  BY <1>2, <1>7 DEF A, B, C
<1>8. CASE phase = D
  BY <1>3, <1>8 DEF A, B, D
<1>9. CASE phase \in {E, FG}
  BY <1>4, <1>9 DEF A, B, E, FG
<1>10. CASE phase = H
  BY <1>5, <1>10 DEF A, B, C, D, E, FG, H
<1> QED BY <1>6, <1>7, <1>8, <1>9, <1>10 DEF AllPhase

\* What a passing report of a run that came through has on disk is the run's own.
LEMMA WholeRun ==
  ASSUME EvidenceInvariant, OwnOptional, pc = "zip", memory.passes
  PROVE  \A f \in {g \in disk : g[1] \in RequiredFiles \cup OptionalFiles} : OfThisRun(f)
<1>1. /\ phase \in AllPhase /\ why = "" /\ args.mode # "preflight"
      /\ disk \in SUBSET (FileName \X Nat)
  BY DEF EvidenceInvariant, Types, OwnBundles, OnItsWay
<1>2. /\ phase \notin {A, B} => Own("cleanup") /\ Own("typecheck")
      /\ phase \in {C, D, E} => Own("diagnostics")
      /\ Own("labels") /\ Own("report") /\ Own("pytest")
      /\ phase \in {FG, H} => Own("cleanup") /\ Own("diagnostics")
      /\ phase = H => Own("preflight")
      /\ fresh => Own("samples")
  BY <1>1 DEF EvidenceInvariant, OwnFiles, Reported
<1>3. Required => fresh
  <2>1. memory.unmet = {} /\ (Required /\ ~fresh => "fresh" \in memory.unmet)
    BY <1>1 DEF EvidenceInvariant, Held, Sound, Reported
  <2>2. fresh \in BOOLEAN
    BY DEF EvidenceInvariant, Types
  <2> QED BY <2>1, <2>2
<1>4. SUFFICES ASSUME NEW f \in disk, f[1] \in RequiredFiles \cup OptionalFiles
               PROVE  OfThisRun(f)
  OBVIOUS
<1>5. f[1] \in FileName
  BY <1>1, <1>4
<1>6. /\ f[1] # "selfcheck"
      /\ f[1] \notin {"investigation", "dataset_zip"} => f[1] \in RequiredFiles
      /\ f[1] = "dataset_zip" => phase \in {E, FG, H}
  BY <1>1, <1>4, <1>5, RequiredAre DEF FileName, OptionalFiles
<1>7. CASE f[1] = "samples"
  BY <1>2, <1>3, <1>4, <1>7 DEF Own, OfThisRun
<1>8. CASE f[1] \in {"labels", "report", "pytest"}
  BY <1>2, <1>4, <1>8 DEF Own, OfThisRun
<1>9. CASE f[1] \in {"cleanup", "typecheck"}
  <2>1. phase \notin {A, B}
    BY <1>1, <1>6, <1>9, RequiredAre
  <2> QED BY <1>2, <1>4, <1>9, <2>1 DEF Own, OfThisRun
<1>10. CASE f[1] = "diagnostics"
  <2>1. phase \notin {A, B}
    BY <1>1, <1>6, <1>10, RequiredAre
  <2> QED BY <1>1, <1>2, <1>4, <1>10, <2>1 DEF Own, OfThisRun, AllPhase
<1>11. CASE f[1] = "preflight"
  <2>1. phase = H
    BY <1>1, <1>6, <1>11, RequiredAre DEF AllPhase
  <2> QED BY <1>2, <1>4, <1>11, <2>1 DEF Own, OfThisRun
<1>12. CASE f[1] = "investigation"
  BY <1>1, <1>4, <1>12 DEF OwnOptional, Own, OfThisRun, Reported
<1>13. CASE f[1] = "dataset_zip"
  <2>1. memory.unmet = {}
    BY DEF EvidenceInvariant, Held, Sound, Reported
  <2> QED BY <1>1, <1>4, <1>6, <1>13, <2>1 DEF OwnOptional, Own, OfThisRun, Reported
<1> QED BY <1>1, <1>4, <1>6, <1>7, <1>8, <1>9, <1>10, <1>11, <1>12, <1>13, RequiredAre

\* The self check of the report the script holds, against that report: a latency profile read
\* elsewhere fails it, and nothing else tells the two apart.
LEMMA CheckAgrees ==
  ASSUME EvidenceInvariant, pc \in {"written", "zip"}
  PROVE  /\ selfcheck.run = run
         /\ memory.passes => (selfcheck.passed <=> ~args.elsewhere)
         /\ selfcheck.passed =>
              memory.unmet = {} /\ (phase \notin {A, B} => memory.passes) /\ ~args.elsewhere
         /\ selfcheck.passed \in BOOLEAN
<1> DEFINE e == Evaluate(phase, memory)
           told == [e EXCEPT !.unmet = @ \cup {"latency"}]
           w == Evaluate(phase, told)
<1>1. /\ phase \in AllPhase /\ Sound(phase, memory) /\ args \in Arguments(phase)
      /\ phase \notin {A, B} /\ memory.reasons = {} => memory.passes
      /\ selfcheck.run = run /\ selfcheck.passed = Written.passes
  BY DEF EvidenceInvariant, Types, Held, Checked, Reported
<1>2. /\ Formed(phase, e)
      /\ e.passes \in BOOLEAN
      /\ e.passes => memory.unmet = {} /\ (phase \notin {A, B} => memory.reasons = {})
      /\ memory.unmet = {} /\ memory.reasons = {} => e.passes
  BY <1>1, EvaluateSound DEF Sound
<1>3. memory.passes => memory.unmet = {} /\ memory.reasons = {}
  BY <1>1 DEF Sound
<1>4. args.elsewhere => phase = H
  BY <1>1 DEF Arguments
<1> HIDE DEF e
<1>5. args.elsewhere => w.passes \in BOOLEAN /\ ~w.passes
  <2> SUFFICES ASSUME phase = H PROVE w.passes \in BOOLEAN /\ ~w.passes
    BY <1>4
  <2>1. "latency" \in Names(phase) /\ phase # C /\ phase \in AllPhase
    BY <1>1, LatencyIsAGate DEF Names, C, H
  <2>2. DOMAIN e = {"unmet", "reasons", "classes", "primary", "passes"}
    BY <1>2 DEF Formed
  <2>3. /\ DOMAIN told = DOMAIN e /\ told.unmet = e.unmet \cup {"latency"}
        /\ told.classes = e.classes /\ told.reasons = e.reasons
    BY <2>2
  <2> HIDE DEF told
  <2>4. Formed(phase, told)
    BY <1>2, <2>1, <2>3 DEF Formed
  <2>5. w.passes \in BOOLEAN /\ (w.passes => told.unmet \subseteq {"clean"})
    BY <2>1, <2>4, EvaluateKeeps
  <2> QED BY <2>3, <2>5
<1>6. Written = IF args.elsewhere THEN w ELSE e
  BY DEF Written, e
<1> HIDE DEF w
<1>7. CASE args.elsewhere
  BY <1>1, <1>5, <1>6, <1>7
<1>8. CASE ~args.elsewhere
  BY <1>1, <1>2, <1>3, <1>6, <1>8
<1> QED BY <1>7, <1>8

\* closed,
LEMMA CloseBundleStep ==
  ASSUME EvidenceInvariant, OwnOptional, CloseBundle
  PROVE  EvidenceInvariant'
<1>1. /\ pc = "zip" /\ stage' = "bundled"
      /\ UNCHANGED <<phase, run, args, fresh, why, memory, disk, selfcheck>>
      /\ pc' = IF phase \in {E, FG} THEN "written" ELSE "report"
  BY DEF CloseBundle
<1>2. PICK b \in bundles :
        /\ b.run = run
        /\ bundles' = (bundles \ {b}) \cup
             {[b EXCEPT !.complete = TRUE, !.passed = selfcheck.passed,
                        !.files = {f \in disk : f[1] \in RequiredFiles \cup OptionalFiles}]}
  BY DEF CloseBundle
<1> DEFINE files == {f \in disk : f[1] \in RequiredFiles \cup OptionalFiles}
           c == [b EXCEPT !.complete = TRUE, !.passed = selfcheck.passed, !.files = files]
<1>3. /\ \A o \in bundles : o.run = run /\ ~o.complete /\ (o.kind = "pass" <=> memory.passes)
      /\ bundles \in SUBSET Bundle /\ disk \in SUBSET (FileName \X Nat)
      /\ phase \in {E, FG, H} \/ memory.passes
      /\ memory.passes => why = ""
  BY <1>1 DEF EvidenceInvariant, OwnBundles, Types
<1>4. /\ selfcheck.passed \in BOOLEAN
      /\ selfcheck.passed <=> memory.passes /\ ~args.elsewhere
  <2>1. phase \in {E, FG, H} => phase \notin {A, B}
    BY DEF A, B, E, FG, H
  <2> QED BY <1>1, <1>3, <2>1, CheckAgrees
<1>5. /\ c \in Bundle /\ c.run = run /\ c.complete = TRUE /\ c.passed = selfcheck.passed
      /\ c.kind = b.kind /\ c.files = files
  <2>1. files \in SUBSET (FileName \X Nat)
    BY <1>3
  <2> HIDE DEF files
  <2> QED BY <1>2, <1>3, <1>4, <2>1 DEF Bundle
<1>6. bundles' = (bundles \ {b}) \cup {c}
  BY <1>2
<1>7. memory.passes => \A f \in files : OfThisRun(f)
  BY <1>1, WholeRun
<1> HIDE DEF files, c
<1>8. pc' \in {"written", "report"}
  BY <1>1
<1>9. Types'
  BY <1>1, <1>3, <1>5, <1>6, <1>8 DEF Types, EvidenceInvariant, Reported
<1>10. OnItsWay'
  BY <1>1, <1>8 DEF EvidenceInvariant, OnItsWay, Before, Reported
<1>11. Held'
  BY <1>1, <1>8 DEF EvidenceInvariant, Held, Required, Reported
<1>12. Checked'
  BY <1>1 DEF EvidenceInvariant, Checked, Written
<1>13. OwnFiles'
  BY <1>1, <1>8 DEF EvidenceInvariant, OwnFiles, Own, Reported
<1>14. OwnBundles'
  BY <1>1, <1>2, <1>3, <1>5, <1>6, <1>8 DEF OwnBundles
<1>15. PassIsEarned' /\ ExitIsEvidence'
  BY <1>8 DEF PassIsEarned, ExitIsEvidence, Ended
<1>16. BundleIsOneRun'
  <2>0. Required' = Required
    BY <1>1 DEF Required
  <2> SUFFICES ASSUME NEW o \in bundles', o.complete
               PROVE  /\ o.run = run /\ (o.passed <=> o.kind = "pass" /\ ~args.elsewhere)
                      /\ o.kind = "pass" => \A f \in o.files : OfThisRun(f)
    BY <1>1, <2>0 DEF BundleIsOneRun, OfThisRun
  <2>1. o = c
    BY <1>3, <1>6
  <2>2. o.run = run /\ o.kind = b.kind /\ o.passed = selfcheck.passed /\ o.files = files
    BY <1>5, <2>1
  <2>3. b.kind = "pass" <=> memory.passes
    BY <1>2, <1>3
  <2> QED BY <1>4, <1>7, <2>2, <2>3
<1> QED BY <1>9, <1>10, <1>11, <1>12, <1>13, <1>14, <1>15, <1>16 DEF EvidenceInvariant

\* or given up,
LEMMA BundleFailedStep ==
  ASSUME EvidenceInvariant, BundleFailed
  PROVE  EvidenceInvariant'
<1> DEFINE noted == Noted(memory, "bundle", "BUNDLE")
           failed == [noted EXCEPT !.primary = "BUNDLE"]
<1>1. /\ pc = "zip" /\ pc' = "report" /\ stage' = "unbundled"
      /\ UNCHANGED <<phase, run, args, fresh, why, disk, selfcheck, bundles>>
      /\ memory' = IF phase \in {A, B, C} THEN failed ELSE Evaluate(phase, failed)
  BY DEF BundleFailed
<1>2. phase \in AllPhase /\ Sound(phase, memory)
      /\ (why = "" /\ Required /\ ~fresh => "fresh" \in memory.unmet)
  BY <1>1 DEF EvidenceInvariant, Types, Held, Reported
<1>3. Sound(phase, noted) /\ noted.unmet = memory.unmet /\ noted.reasons # {} /\ ~noted.passes
  BY <1>2, NotedSound DEF Sound
<1> HIDE DEF noted
<1>4. /\ DOMAIN failed = DOMAIN noted /\ failed.unmet = noted.unmet
      /\ failed.reasons = noted.reasons /\ failed.classes = noted.classes
      /\ failed.passes = noted.passes
  BY <1>3 DEF Sound, Formed
<1> HIDE DEF failed
<1>5. Sound(phase, failed)
  BY <1>3, <1>4 DEF Sound, Formed
<1>6. /\ Sound(phase, memory') /\ memory'.unmet = memory.unmet /\ memory'.reasons # {}
      /\ ~memory'.passes
  <2>1. CASE phase \in {A, B, C}
    BY <1>1, <1>3, <1>4, <1>5, <2>1
  <2>2. CASE phase \notin {A, B, C}
    <3>1. /\ Sound(phase, Evaluate(phase, failed)) /\ Evaluate(phase, failed).reasons # {}
          /\ ~Evaluate(phase, failed).passes
      BY <1>2, <1>3, <1>4, <1>5, <2>2, ToldSound DEF Sound
    <3>2. Evaluate(phase, failed).unmet = failed.unmet
      BY <1>2, <1>5, EvaluateSound
    <3> QED BY <1>1, <1>3, <1>4, <2>2, <3>1, <3>2
  <2> QED BY <2>1, <2>2
<1>7. Types'
  BY <1>1 DEF Types, EvidenceInvariant, Reported
<1>8. OnItsWay'
  BY <1>1 DEF EvidenceInvariant, OnItsWay, Before, Reported
<1>9. Held'
  <2>1. Required' = Required
    BY <1>1 DEF Required
  <2> QED BY <1>1, <1>2, <1>6, <2>1 DEF Held
<1>10. Checked'
  BY <1>1 DEF Checked
<1>11. OwnFiles'
  BY <1>1 DEF EvidenceInvariant, OwnFiles, Own, Reported
<1>12. OwnBundles'
  BY <1>1 DEF EvidenceInvariant, OwnBundles
<1>13. PassIsEarned' /\ ExitIsEvidence' /\ BundleIsOneRun'
  BY <1>1, LateKeeps
<1> QED BY <1>7, <1>8, <1>9, <1>10, <1>11, <1>12, <1>13 DEF EvidenceInvariant

\* and the script returns.
LEMMA FinishStep ==
  ASSUME EvidenceInvariant, Finish
  PROVE  EvidenceInvariant'
<1>1. /\ pc = "written" /\ pc' = "off" /\ exit' = Outcome
      /\ UNCHANGED <<phase, run, args, fresh, why, stage, memory, disk, selfcheck>>
      /\ stage = "first" => ~args.bundle \/ ~memory.passes \/ why # ""
      /\ bundles' = IF stage = "unbundled" /\ phase \in {B, C, D} THEN {} ELSE bundles
  BY DEF Finish, script
<1>2. /\ phase \in AllPhase /\ Sound(phase, memory)
      /\ phase \notin {A, B} /\ memory.reasons = {} => memory.passes
      /\ why # "" /\ phase \notin {A, B} /\ ~(phase = D /\ why = "FRESH_CAPTURE") =>
           memory.unmet # {} \/ memory.reasons # {}
      /\ why = "" /\ Required /\ ~fresh => "fresh" \in memory.unmet
      /\ stage = "unbundled" => ~memory.passes /\ memory.reasons # {}
      /\ memory.passes => memory.unmet = {} /\ memory.reasons = {}
  BY <1>1 DEF EvidenceInvariant, Types, Held, Reported, Sound
<1>3. /\ selfcheck.run = run
      /\ memory.passes => (selfcheck.passed <=> ~args.elsewhere)
      /\ selfcheck.passed => memory.unmet = {} /\ (phase \notin {A, B} => memory.passes)
  BY <1>1, CheckAgrees
<1>4. /\ stage \in {"first", "bundled", "unbundled"} /\ fresh \in BOOLEAN
      /\ args.bundle \in BOOLEAN
  BY DEF EvidenceInvariant, Types, Arguments
<1>5. Required' = Required
  BY <1>1 DEF Required
<1>6. PassIsEarned'
  <2> SUFFICES ASSUME selfcheck.passed
               PROVE  /\ memory.unmet = {}
                      /\ \/ exit' = "ok"
                         \/ phase \in {A, B}
                         \/ phase = D /\ why = "FRESH_CAPTURE"
    BY <1>1 DEF PassIsEarned
  <2>1. memory.unmet = {} /\ (phase \notin {A, B} => memory.passes)
    BY <1>3
  <2>2. ASSUME phase \notin {A, B}, ~(phase = D /\ why = "FRESH_CAPTURE")
        PROVE  exit' = "ok"
    <3>1. memory.passes /\ memory.unmet = {} /\ memory.reasons = {}
      BY <1>2, <2>1, <2>2
    <3>2. why = "" /\ stage # "unbundled"
      BY <1>2, <2>2, <3>1
    <3> QED BY <1>1, <3>1, <3>2 DEF Outcome
  <2> QED BY <2>1, <2>2
<1>7. ExitIsEvidence'
  <2> SUFFICES ASSUME exit' = "ok"
               PROVE  /\ selfcheck.run = run /\ memory.unmet = {}
                      /\ selfcheck.passed <=> ~args.elsewhere
                      /\ args.mode # "denied"
                      /\ Required => fresh /\ <<"samples", run>> \in disk
                      /\ args.bundle =>
                           \E b \in bundles' : b.kind = "pass" /\ b.run = run /\ b.complete
    BY <1>1, <1>5 DEF ExitIsEvidence
  <2>1. why = "" /\ memory.passes
    BY <1>1 DEF Outcome
  <2>2. memory.unmet = {} /\ stage # "unbundled"
    BY <1>2, <2>1
  <2>3. args.mode # "denied"
    BY <1>1, <2>1 DEF EvidenceInvariant, OnItsWay, Reported
  <2>4. Required => fresh /\ <<"samples", run>> \in disk
    <3>1. Required => fresh
      BY <1>2, <1>4, <2>1, <2>2
    <3>2. fresh => <<"samples", run>> \in disk
      BY <1>1, <2>1 DEF EvidenceInvariant, OwnFiles
    <3> QED BY <3>1, <3>2
  <2>5. args.bundle => \E b \in bundles' : b.kind = "pass" /\ b.run = run /\ b.complete
    <3> SUFFICES ASSUME args.bundle
                 PROVE  \E b \in bundles' : b.kind = "pass" /\ b.run = run /\ b.complete
      OBVIOUS
    <3>1. stage = "bundled"
      BY <1>1, <1>4, <2>1, <2>2
    <3>2. /\ \E b \in bundles : b.complete /\ (memory.passes => b.kind = "pass")
          /\ \A b \in bundles : b.run = run
      BY <1>1, <3>1 DEF EvidenceInvariant, OwnBundles, Reported
    <3> QED BY <1>1, <2>1, <3>1, <3>2
  <2> QED BY <1>3, <2>1, <2>2, <2>3, <2>4, <2>5
<1>8. bundles' \subseteq bundles
  BY <1>1
<1>9. Types'
  BY <1>1, <1>8 DEF Types, EvidenceInvariant
<1>10. OnItsWay'
  BY <1>1 DEF EvidenceInvariant, OnItsWay, Before, Reported
<1>11. Held' /\ Checked' /\ OwnFiles'
  BY <1>1 DEF Held, Checked, OwnFiles, Reported
<1>12. OwnBundles'
  BY <1>1, <1>8 DEF EvidenceInvariant, OwnBundles, Reported
<1>13. BundleIsOneRun'
  BY <1>1, <1>5, <1>8 DEF EvidenceInvariant, BundleIsOneRun
<1> QED BY <1>6, <1>7, <1>9, <1>10, <1>11, <1>12, <1>13 DEF EvidenceInvariant

\* A killed run has not ended: what it holds and what it was at no longer count, what it has
\* written stays.
LEMMA CrashStep ==
  ASSUME EvidenceInvariant, Crash
  PROVE  EvidenceInvariant'
<1>1. /\ pc' = "off" /\ exit' = "crashed"
      /\ UNCHANGED <<phase, run, args, fresh, why, stage, memory, disk, selfcheck, bundles>>
  BY DEF Crash, script
<1>2. Required' = Required
  BY <1>1 DEF Required
<1>3. Types'
  BY <1>1 DEF Types, EvidenceInvariant
<1>4. OnItsWay'
  BY <1>1 DEF EvidenceInvariant, OnItsWay, Before, Reported
<1>5. Held' /\ Checked' /\ OwnFiles'
  BY <1>1 DEF Held, Checked, OwnFiles, Reported
<1>6. OwnBundles'
  BY <1>1 DEF EvidenceInvariant, OwnBundles, Reported
<1>7. PassIsEarned' /\ ExitIsEvidence'
  BY <1>1 DEF PassIsEarned, ExitIsEvidence, Ended
<1>8. BundleIsOneRun'
  BY <1>1, <1>2 DEF EvidenceInvariant, BundleIsOneRun
<1> QED BY <1>3, <1>4, <1>5, <1>6, <1>7, <1>8 DEF EvidenceInvariant

----------------------------------------------------------------------------
\* The invariant, from the first state on.
LEMMA EvidenceInit ==
  ASSUME Init
  PROVE  EvidenceInvariant
<1>1. /\ phase \in AllPhase /\ run = 0 /\ pc = "off" /\ args = NoArguments /\ fresh = FALSE
      /\ stage = "first" /\ why = "" /\ disk \in {{}, {<<"samples", 0>>}}
      /\ bundles = {} /\ exit = "none"
  BY EvidenceAssumption DEF Init
<1>2. args \in Arguments(phase)
  <2>1. "fixture" \in Modes(phase)
    BY <1>1 DEF Modes, AllPhase, A, B, C, D, E, FG, H
  <2> QED BY <1>1, <2>1 DEF NoArguments, Arguments
<1>3. Types
  <2>1. <<"samples", 0>> \in FileName \X Nat
    BY DEF FileName
  <2>2. disk \in SUBSET (FileName \X Nat)
    BY <1>1, <2>1
  <2> QED BY <1>1, <1>2, <2>2 DEF Types
<1>4. OnItsWay
  BY <1>1 DEF OnItsWay, Before, Reported
<1>5. Held /\ Checked /\ OwnFiles
  BY <1>1 DEF Held, Checked, OwnFiles, Reported
<1>6. OwnBundles /\ BundleIsOneRun
  BY <1>1 DEF OwnBundles, BundleIsOneRun, Reported
<1>7. PassIsEarned /\ ExitIsEvidence
  BY <1>1 DEF PassIsEarned, ExitIsEvidence, Ended
<1> QED BY <1>3, <1>4, <1>5, <1>6, <1>7 DEF EvidenceInvariant

\* A step that changes nothing.
LEMMA EvidenceStutter ==
  ASSUME EvidenceInvariant, UNCHANGED vars
  PROVE  EvidenceInvariant'
<1>1. UNCHANGED <<phase, run, pc, args, fresh, why, stage, memory, disk, selfcheck, bundles, exit>>
  BY DEF vars, script
<1>2. Required' = Required
  BY <1>1 DEF Required
<1>3. Types'
  BY <1>1 DEF EvidenceInvariant, Types
<1>4. OnItsWay'
  BY <1>1 DEF EvidenceInvariant, OnItsWay
<1>5. Held'
  BY <1>1, <1>2 DEF EvidenceInvariant, Held
<1>6. Checked'
  BY <1>1 DEF EvidenceInvariant, Checked, Written
<1>7. OwnFiles'
  BY <1>1 DEF EvidenceInvariant, OwnFiles, Own
<1>8. OwnBundles'
  BY <1>1 DEF EvidenceInvariant, OwnBundles
<1>9. PassIsEarned' /\ ExitIsEvidence' /\ BundleIsOneRun'
  BY <1>1, <1>2 DEF EvidenceInvariant, PassIsEarned, ExitIsEvidence, BundleIsOneRun, Ended
<1> QED BY <1>3, <1>4, <1>5, <1>6, <1>7, <1>8, <1>9 DEF EvidenceInvariant

\* Whose the files are that are packed when they are there: a step that writes none of them
\* and lets the script go on keeps it.
LEMMA OptionalKeeps ==
  ASSUME Types, OwnOptional, UNCHANGED <<phase, run, args>>,
         disk' = disk \/ \E names \in SUBSET FileName : disk' = Put(disk, names),
         pc' # "off" /\ why' = "" => why = "" /\ pc \notin {"off", "cleanup", "explain"},
         pc' \in Reported /\ why' = "" => pc \in Reported /\ memory'.unmet = memory.unmet
  PROVE  OwnOptional'
<1>1. \A n \in FileName : Own(n) => Own(n)'
  <2>1. CASE disk' = disk
    BY <2>1 DEF Own
  <2>2. CASE \E names \in SUBSET FileName : disk' = Put(disk, names)
    BY <2>2, PutOwns
  <2> QED BY <2>1, <2>2
<1>2. "investigation" \in FileName /\ "dataset_zip" \in FileName
  BY DEF FileName
<1>3. pc \in Before \cup Reported \cup {"off", "explain", "analyse"}
  BY DEF Types
<1>4. why' = "" /\ args.clean /\ pc' \in Reported \cup {"preflight", "tests", "types", "capture", "analyse"}
        => Own("investigation")
  BY <1>3 DEF OwnOptional, Before, Reported
<1>5. why' = "" /\ pc' \in Reported /\ memory'.unmet = {} /\ phase \in {E, FG, H}
        /\ args.mode # "existing" => Own("dataset_zip")
  BY DEF OwnOptional, Reported
<1> QED BY <1>1, <1>2, <1>4, <1>5 DEF OwnOptional

\* The steps up to the report.
LEMMA OptionalEarly ==
  ASSUME EvidenceInvariant, OwnOptional,
         \/ Preflight \/ RunPytest \/ RunTypecheck
         \/ Refuse \/ UseFixture \/ Capture \/ CaptureFailed \/ CaptureRaised \/ Explain
  PROVE  OwnOptional'
<1>0. UNCHANGED <<phase, run, args>> /\ Types
  BY DEF Preflight, RunPytest, RunTypecheck, Refuse, UseFixture, Capture, CaptureFailed,
         CaptureRaised, Explain, script, EvidenceInvariant
<1>1. disk' = disk \/ \E names \in SUBSET FileName : disk' = Put(disk, names)
  <2>2. CASE Preflight \/ RunPytest \/ RunTypecheck
    <3>1. disk' = Put(disk, {"preflight"}) \/ disk' = Put(disk, {"pytest"})
          \/ disk' = Put(disk, {"typecheck"})
      BY <2>2 DEF Preflight, RunPytest, RunTypecheck
    <3>2. {"preflight"} \in SUBSET FileName /\ {"pytest"} \in SUBSET FileName
          /\ {"typecheck"} \in SUBSET FileName
      BY DEF FileName
    <3> QED BY <3>1, <3>2
  <2>3. CASE UseFixture \/ Capture \/ CaptureFailed
    <3>1. \E left \in {{}, {"samples"}} : disk' = Put(disk, WithDiagnostics(left))
      <4>1. CASE UseFixture
        <5>1. disk' = Put(disk, WithDiagnostics({}))
          BY <4>1 DEF UseFixture
        <5> QED BY <5>1
      <4>2. CASE Capture
        <5>1. disk' = Put(disk, WithDiagnostics({"samples"}))
          BY <4>2 DEF Capture
        <5> QED BY <5>1
      <4>3. CASE CaptureFailed
        BY <4>3, Zenon DEF CaptureFailed
      <4> QED BY <2>3, <4>1, <4>2, <4>3
    <3>2. ASSUME NEW left \in {{}, {"samples"}}
          PROVE  WithDiagnostics(left) \in SUBSET FileName
      BY DEF WithDiagnostics, FileName
    <3> QED BY <3>1, <3>2
  <2>4. CASE CaptureRaised
    <3>1. \E left \in {{}, {"samples"}} : disk' = Put(disk, left)
      BY <2>4, Zenon DEF CaptureRaised
    <3>2. ASSUME NEW left \in {{}, {"samples"}}
          PROVE  left \in SUBSET FileName
      BY DEF FileName
    <3> QED BY <3>1, <3>2
  <2>5. CASE Explain
    <3>1. disk' = disk \/ disk' = Put(disk, {"labels"})
      BY <2>5 DEF Explain
    <3>2. {"labels"} \in SUBSET FileName
      BY DEF FileName
    <3> QED BY <3>1, <3>2
  <2>6. CASE Refuse
    BY <2>6 DEF Refuse
  <2> QED BY <2>2, <2>3, <2>4, <2>5, <2>6
<1>2. CASE Explain
  <2>1. why' # ""
    BY <1>2 DEF Explain, EvidenceInvariant, OnItsWay, script
  <2> QED BY <2>1 DEF OwnOptional
<1>3. CASE Preflight \/ RunPytest \/ RunTypecheck
           \/ Refuse \/ UseFixture \/ Capture \/ CaptureFailed \/ CaptureRaised
  <2>1. pc \in {"preflight", "tests", "types", "capture"} /\ why = "" /\ phase \in AllPhase
        /\ (pc = "types" => phase \notin {A, B}) /\ (pc = "preflight" => phase = H)
    BY <1>3 DEF Preflight, RunPytest, RunTypecheck, Refuse, UseFixture, Capture,
                CaptureFailed, CaptureRaised, EvidenceInvariant, OnItsWay, Types, Before
  <2>2. Proceed => pc' \in {"tests", "types", "capture", "analyse"}
    BY <2>1, ProceedTo DEF Before
  <2>3. pc' \in {"off", "explain", "tests", "types", "capture", "analyse"}
    BY <1>3, <2>2 DEF Preflight, RunPytest, RunTypecheck, Refuse, UseFixture, Capture,
                      CaptureFailed, CaptureRaised, Fail
  <2> QED BY <1>0, <1>1, <2>1, <2>3, OptionalKeeps DEF Reported
<1> QED BY <1>2, <1>3

\* The steps that write, pack and end.
LEMMA OptionalLate ==
  ASSUME EvidenceInvariant, OwnOptional,
         \/ WriteReport \/ WriteCheck \/ OpenBundle \/ CloseBundle \/ BundleFailed
         \/ Finish \/ Crash
  PROVE  OwnOptional'
<1>1. CASE Finish \/ Crash
  <2>1. pc' = "off"
    BY <1>1 DEF Finish, Crash
  <2> QED BY <2>1 DEF OwnOptional, Reported
<1>2. CASE WriteReport \/ WriteCheck \/ OpenBundle \/ CloseBundle \/ BundleFailed
  <2>1. pc \in Reported /\ UNCHANGED <<phase, run, args, why>>
    BY <1>2 DEF WriteReport, WriteCheck, OpenBundle, CloseBundle, BundleFailed, Reported, script
  <2>2. phase \in AllPhase /\ Sound(phase, memory) /\ Types
    BY <2>1 DEF EvidenceInvariant, Types, Held
  <2>3. disk' = disk \/ \E names \in SUBSET FileName : disk' = Put(disk, names)
    <3>1. CASE WriteReport
      BY <2>2, <3>1, PartsAre DEF WriteReport
    <3>2. CASE WriteCheck
      BY <3>2 DEF WriteCheck, FileName
    <3>3. CASE OpenBundle \/ CloseBundle \/ BundleFailed
      BY <3>3 DEF OpenBundle, CloseBundle, BundleFailed, script
    <3> QED BY <1>2, <3>1, <3>2, <3>3
  <2>4. memory'.unmet = memory.unmet
    <3>1. CASE WriteReport
      <4>1. memory' = Evaluate(phase, memory) \/ memory' = memory
        BY <3>1 DEF WriteReport
      <4> QED BY <2>2, <4>1, EvaluateSound
    <3>2. CASE WriteCheck \/ OpenBundle \/ CloseBundle
      BY <3>2 DEF WriteCheck, OpenBundle, CloseBundle, script
    <3>3. CASE BundleFailed
      <4> DEFINE noted == Noted(memory, "bundle", "BUNDLE")
                 failed == [noted EXCEPT !.primary = "BUNDLE"]
      <4>1. memory' = failed \/ memory' = Evaluate(phase, failed)
        BY <3>3 DEF BundleFailed
      <4>2. Sound(phase, noted) /\ noted.unmet = memory.unmet /\ noted.reasons # {}
        BY <2>2, NotedSound DEF Sound
      <4>3. DOMAIN noted = {"unmet", "reasons", "classes", "primary", "passes"}
        BY <4>2 DEF Sound, Formed
      <4> HIDE DEF noted
      <4>4. /\ DOMAIN failed = DOMAIN noted /\ failed.unmet = noted.unmet
            /\ failed.reasons = noted.reasons /\ failed.classes = noted.classes
        BY <4>3
      <4> HIDE DEF failed
      <4>5. Formed(phase, failed)
        BY <4>2, <4>4 DEF Sound, Formed
      <4> QED BY <2>2, <4>1, <4>2, <4>4, <4>5, EvaluateKeeps
    <3> QED BY <1>2, <3>1, <3>2, <3>3
  <2> QED BY <2>1, <2>2, <2>3, <2>4, OptionalKeeps DEF Reported
<1> QED BY <1>1, <1>2

\* The cleanup removes an old investigation, the analysis makes the dataset zip.
LEMMA OptionalStep ==
  ASSUME EvidenceInvariant, OwnOptional, [Next]_vars
  PROVE  OwnOptional'
<1>1. ASSUME NEW a \in Arguments(phase), Begin(a)
      PROVE  OwnOptional'
  <2>1. args' = a /\ pc' = (IF a.mode = "preflight" THEN "preflight" ELSE Head(Steps))
    BY <1>1 DEF Begin
  <2>2. phase \in {A, B} => Head(Steps) = "tests"
    BY DEF Steps, StepsA, StepsB, A, B, C, D, E, FG, H
  <2>3. phase \notin {A, B} => Head(Steps) = "cleanup"
    BY DEF Steps, StepsC, StepsD, StepsE, StepsFG, StepsH, AllPhase, A, B, C, D, E, FG, H,
           EvidenceInvariant, Types
  <2>4. pc' = "cleanup" \/ (~a.clean /\ pc' \in {"preflight", "tests"})
    BY <2>1, <2>2, <2>3 DEF Arguments
  <2> QED BY <2>1, <2>4 DEF OwnOptional, Reported
<1>2. CASE Cleanup
  <2>1. (UNCHANGED <<run, args>> /\ pc' \notin Reported) \/ why' # ""
    <3>1. /\ UNCHANGED <<run, args>> /\ phase \in AllPhase /\ pc = "cleanup"
          /\ phase \notin {A, B}
      BY <1>2 DEF Cleanup, EvidenceInvariant, OnItsWay, Types
    <3>2. Proceed => pc' \in {"preflight", "tests"}
      BY <3>1, ProceedTo DEF Before
    <3> QED BY <1>2, <3>1, <3>2 DEF Cleanup, Fail, Reported
  <2>2. why' = "" /\ args.clean => disk' = Cleaned
    BY <1>2 DEF Cleanup, Fail
  <2>3. disk' = Cleaned => Own("investigation")'
    BY DEF Cleaned, Own
  <2>4. UNCHANGED args
    BY <1>2 DEF Cleanup
  <2> QED BY <2>1, <2>2, <2>3, <2>4 DEF OwnOptional
<1>3. CASE Analyse
  <2>1. /\ pc = "analyse" /\ UNCHANGED <<phase, run, args, why>> /\ Types
    BY <1>3 DEF Analyse, EvidenceInvariant, script
  <2>2. PICK zip \in SUBSET {"dataset_zip"} :
          /\ disk' = Put(disk, {"labels"} \cup zip)
          /\ memory'.unmet = {} /\ phase \in {E, FG, H} /\ args.mode # "existing" =>
               "dataset_zip" \in zip
    BY <1>3, AnalyseZips
  <2>3. {"labels"} \cup zip \in SUBSET FileName /\ "investigation" \in FileName
    BY DEF FileName
  <2>4. /\ Own("investigation") => Own("investigation")'
        /\ "dataset_zip" \in zip => Own("dataset_zip")'
    BY <2>1, <2>2, <2>3, PutOwns
  <2> QED BY <2>1, <2>2, <2>4 DEF OwnOptional
<1>4. CASE Preflight \/ RunPytest \/ RunTypecheck
           \/ Refuse \/ UseFixture \/ Capture \/ CaptureFailed \/ CaptureRaised \/ Explain
  BY <1>4, OptionalEarly
<1>5. CASE WriteReport \/ WriteCheck \/ OpenBundle \/ CloseBundle \/ BundleFailed
           \/ Finish \/ Crash
  BY <1>5, OptionalLate
<1>6. CASE UNCHANGED vars
  BY <1>6 DEF vars, script, OwnOptional, Own
<1> QED BY <1>1, <1>2, <1>3, <1>4, <1>5, <1>6 DEF Next

\* Every step keeps the invariant.
LEMMA EvidenceStep ==
  ASSUME EvidenceInvariant, OwnOptional, [Next]_vars
  PROVE  EvidenceInvariant'
<1>1. CASE \E a \in Arguments(phase) : Begin(a)
  BY <1>1, BeginStep
<1>2. CASE Cleanup
  BY <1>2, CleanupStep
<1>3. CASE Preflight
  BY <1>3, PreflightStep
<1>4. CASE RunPytest \/ RunTypecheck
  BY <1>4, ToolStep
<1>5. CASE Refuse \/ UseFixture \/ Capture \/ CaptureFailed \/ CaptureRaised
  BY <1>5, CaptureStep
<1>6. CASE Analyse
  BY <1>6, AnalyseStep
<1>7. CASE Explain
  BY <1>7, ExplainStep
<1>8. CASE WriteReport
  BY <1>8, WriteReportStep
<1>9. CASE WriteCheck
  BY <1>9, WriteCheckStep
<1>10. CASE OpenBundle
  BY <1>10, OpenBundleStep
<1>11. CASE CloseBundle
  BY <1>11, CloseBundleStep
<1>12. CASE BundleFailed
  BY <1>12, BundleFailedStep
<1>13. CASE Finish
  BY <1>13, FinishStep
<1>14. CASE Crash
  BY <1>14, CrashStep
<1>15. CASE UNCHANGED vars
  BY <1>15, EvidenceStutter
<1> QED BY <1>1, <1>2, <1>3, <1>4, <1>5, <1>6, <1>7, <1>8, <1>9, <1>10, <1>11, <1>12, <1>13,
           <1>14, <1>15 DEF Next

\* In every run of every phase, whatever earlier runs left in the directory and wherever
\* they were killed, the report, the files and the bundles are what the step the script is
\* at requires them to be.
THEOREM EvidenceCorrect == Spec => [](EvidenceInvariant /\ OwnOptional)
<1>1. Init => EvidenceInvariant /\ OwnOptional
  <2>1. Init => OwnOptional
    BY DEF Init, OwnOptional, Reported
  <2> QED BY <2>1, EvidenceInit
<1>2. EvidenceInvariant /\ OwnOptional /\ [Next]_vars => EvidenceInvariant' /\ OwnOptional'
  BY EvidenceStep, OptionalStep
<1> QED BY <1>1, <1>2, PTL DEF Spec

\* A self check that says passed is earned: the evaluations and the notes between them never
\* let a report pass whose gates are not met, and the script that wrote it returned 0 (main
\* of the scripts run_phase42x, with the exceptions PassIsEarned names).
THEOREM EvidencePassIsEarned == Spec => []PassIsEarned
<1>1. EvidenceInvariant => PassIsEarned
  BY DEF EvidenceInvariant
<1> QED BY <1>1, EvidenceCorrect, PTL

\* A script that returns 0 has a report that meets every gate, its own capture and, if it was
\* to make one, its own finished passing bundle; its own self check passed, unless
\* write_phase42h_artifacts found the latency profile to be about samples elsewhere.
THEOREM EvidenceExitIsEvidence == Spec => []ExitIsEvidence
<1>1. EvidenceInvariant => ExitIsEvidence
  BY DEF EvidenceInvariant
<1> QED BY <1>1, EvidenceCorrect, PTL

\* A finished bundle is of the latest run: main removes the old bundles first.  What a passing
\* one holds this run wrote, although create_phase42x_bundle packs whatever is there under the
\* names it knows; the exceptions are those of BundleIsOneRun.
THEOREM EvidenceBundleIsOneRun == Spec => []BundleIsOneRun
<1>1. EvidenceInvariant => BundleIsOneRun
  BY DEF EvidenceInvariant
<1> QED BY <1>1, EvidenceCorrect, PTL

----------------------------------------------------------------------------
\* The name of a failure.
LEMMA LeastOf ==
  ASSUME NEW S \in SUBSET Nat, S # {}
  PROVE  Min(S) \in S /\ \A n \in S : Min(S) <= n
<1> DEFINE R == OpToRel(<, Nat)
<1>1. IsWellFoundedOn(R, Nat)
  BY NatLessThanWellFounded
<1>2. PICK n \in S : \A m \in S : ~(<<m, n>> \in R)
  BY <1>1, WFMin
<1>3. \A m \in S : ~(m < n)
  BY <1>2 DEF OpToRel
<1> HIDE DEF R
<1>4. \A m \in S : n <= m
  BY <1>2, <1>3
<1> QED BY <1>2, <1>4 DEF Min

\* No rule of a phase after 4.2B names a failure UNKNOWN.
LEMMA NothingIsKnownAsUnknown ==
  ASSUME NEW p \in AllPhase \ {A, B}
  PROVE  /\ DOMAIN Known[p] \subseteq Nat /\ \A i \in DOMAIN Known[p] : Known[p][i] # Unknown
         /\ DOMAIN Listing(p) \subseteq Nat /\ \A i \in DOMAIN Listing(p) : Listing(p)[i] # Unknown
<1>1. DOMAIN KnownC \subseteq Nat /\ \A i \in DOMAIN KnownC : KnownC[i] # Unknown
  BY DEF KnownC, Unknown
<1>2. DOMAIN KnownD \subseteq Nat /\ \A i \in DOMAIN KnownD : KnownD[i] # Unknown
  BY DEF KnownD, Unknown
<1>3. DOMAIN KnownE \subseteq Nat /\ \A i \in DOMAIN KnownE : KnownE[i] # Unknown
  BY DEF KnownE, Unknown
<1>4. DOMAIN KnownFG \subseteq Nat /\ \A i \in DOMAIN KnownFG : KnownFG[i] # Unknown
  BY DEF KnownFG, Unknown
<1>5. DOMAIN KnownH \subseteq Nat /\ \A i \in DOMAIN KnownH : KnownH[i] # Unknown
  BY DEF KnownH, Unknown
<1>6. DOMAIN ListedC \subseteq Nat /\ \A i \in DOMAIN ListedC : ListedC[i] # Unknown
  BY DEF ListedC, Unknown
<1>7. Known[p] \in {KnownC, KnownD, KnownE, KnownFG, KnownH}
  BY DEF Known, AllPhase, A, B, C, D, E, FG, H
<1>8. Listing(p) \in {ListedC, Known[p]}
  BY DEF Listing
<1> QED BY <1>1, <1>2, <1>3, <1>4, <1>5, <1>6, <1>7, <1>8

\* A name is found within itself.
LEMMA WithinItself == \A k : Within(k, k)
  BY DEF Within

\* What classify_phase42x_failure names, it has found in the primary failure or among the
\* classes of the report.
LEMMA NamesWhatItHas ==
  ASSUME NEW p \in AllPhase \ {A, B}, NEW r
  PROVE  LET named == ClassifyByName(p, r)
         IN  IF named = Unknown
             THEN \A i \in DOMAIN Listing(p) : Listing(p)[i] \notin r.classes \cup {r.primary}
             ELSE \E c \in r.classes \cup {r.primary} : Within(named, c)
<1>1. /\ InPrimary(p, r) \in SUBSET Nat /\ InClasses(p, r) \in SUBSET Nat
      /\ \A i \in InPrimary(p, r) : Known[p][i] # Unknown /\ Within(Known[p][i], r.primary)
      /\ \A i \in InClasses(p, r) : Listing(p)[i] # Unknown /\ Listing(p)[i] \in r.classes
  BY NothingIsKnownAsUnknown DEF InPrimary, InClasses
<1>2. CASE p = C /\ r.primary = "MULTI_FEED" /\ "FRESH_CAPTURE" \in r.classes
  <2>1. ClassifyByName(p, r) = "FRESH_CAPTURE"
    BY <1>2 DEF ClassifyByName
  <2> QED BY <1>2, <2>1, WithinItself DEF Unknown
<1>3. CASE InPrimary(p, r) # {}
           /\ ~(p = C /\ r.primary = "MULTI_FEED" /\ "FRESH_CAPTURE" \in r.classes)
  <2>1. ClassifyByName(p, r) = Known[p][Min(InPrimary(p, r))]
    BY <1>3 DEF ClassifyByName
  <2>2. Min(InPrimary(p, r)) \in InPrimary(p, r)
    BY <1>1, <1>3, LeastOf
  <2> QED BY <1>1, <2>1, <2>2
<1>4. CASE InPrimary(p, r) = {} /\ InClasses(p, r) # {}
           /\ ~(p = C /\ r.primary = "MULTI_FEED" /\ "FRESH_CAPTURE" \in r.classes)
  <2>1. ClassifyByName(p, r) = Listing(p)[Min(InClasses(p, r))]
    BY <1>4 DEF ClassifyByName
  <2>2. Min(InClasses(p, r)) \in InClasses(p, r)
    BY <1>1, <1>4, LeastOf
  <2> QED BY <1>1, <2>1, <2>2, WithinItself
<1>5. CASE InPrimary(p, r) = {} /\ InClasses(p, r) = {}
           /\ ~(p = C /\ r.primary = "MULTI_FEED" /\ "FRESH_CAPTURE" \in r.classes)
  <2>1. ClassifyByName(p, r) = Unknown
    BY <1>5 DEF ClassifyByName
  <2>2. \A i \in DOMAIN Known[p] : Known[p][i] # r.primary
    BY <1>5, WithinItself DEF InPrimary
  <2>3. \A i \in DOMAIN Listing(p) : Listing(p)[i] # r.primary
    <3>1. CASE p = C
      <4>1. Known[p] = KnownC /\ Listing(p) = ListedC
        BY <3>1 DEF Known, Listing, C, D, E, FG, H
      <4>2. \A i \in DOMAIN ListedC : \E j \in DOMAIN KnownC : ListedC[i] = KnownC[j]
        BY DEF ListedC, KnownC
      <4> QED BY <2>2, <4>1, <4>2
    <3>2. CASE p # C
      BY <2>2, <3>2 DEF Listing
    <3> QED BY <3>1, <3>2
  <2>4. \A i \in DOMAIN Listing(p) : Listing(p)[i] \notin r.classes
    BY <1>5 DEF InClasses
  <2> QED BY <2>1, <2>3, <2>4
<1> QED BY <1>2, <1>3, <1>4, <1>5

\* The failure the self check names is one the report has, and it is UNKNOWN only when the
\* phase has no name for any of them: the classes are consulted after the primary failure,
\* and no list of a phase holds UNKNOWN itself.
THEOREM EvidenceNamesFailure == Spec => []ClassNamesFailure
<1>1. ASSUME Types PROVE ClassNamesFailure
  <2> SUFFICES ASSUME phase \notin {A, B}
               PROVE  LET named  == Classify(phase, Written)
                          has    == Written.classes \cup {Written.primary}
                          listed == ToSet(Listing(phase))
                      IN  IF named = Unknown
                          THEN ~\E k \in listed, c \in has : k = c
                          ELSE \E c \in has : Within(named, c)
    BY DEF ClassNamesFailure
  <2> DEFINE written == Written
  <2>1. phase \in AllPhase \ {A, B}
    BY <1>1 DEF Types
  <2>2. Classify(phase, written) = ClassifyByName(phase, written)
    BY <2>1 DEF Classify
  <2> HIDE DEF written
  <2>3. LET named == Classify(phase, written)
        IN  IF named = Unknown
            THEN \A i \in DOMAIN Listing(phase) :
                   Listing(phase)[i] \notin written.classes \cup {written.primary}
            ELSE \E c \in written.classes \cup {written.primary} : Within(named, c)
    BY <2>1, <2>2, NamesWhatItHas
  <2>4. \A k \in ToSet(Listing(phase)) : \E i \in DOMAIN Listing(phase) : k = Listing(phase)[i]
    BY DEF ToSet
  <2> QED BY <2>3, <2>4 DEF written
<1>2. Types => ClassNamesFailure
  BY <1>1
<1>3. EvidenceInvariant => Types
  BY DEF EvidenceInvariant
<1> QED BY <1>2, <1>3, EvidenceCorrect, PTL
================================================================================
