--------------------------- MODULE AutoCollection ---------------------------
(***************************************************************************)
(* The Phase 5.2 collection: run_auto_collection of                        *)
(* research/phase52_auto_collection.py runs the sessions of a plan one     *)
(* after the other, each captured by a child process, and writes what it   *)
(* recorded of them to the manifest when it ends.  The start script runs   *)
(* it again with --resume after a stop, a failed session or a crash; all   *)
(* it knows of its earlier runs is then in the files.                      *)
(*                                                                         *)
(* The parent waits in subprocess.run while the child runs, so one program *)
(* counter covers both.  A crash takes both down.  A file is written in    *)
(* place: a crash, or a child killed, in the middle leaves it incomplete.  *)
(***************************************************************************)
EXTENDS Naturals, Sequences

CONSTANTS
  SessionCount,  \* the sessions of the plan
  MaxRetries,    \* max_session_retries
  FailGate,      \* fail_session_on_quality_gate
  MaxAttempts    \* bound: captures of one session

ASSUME CollectionAssumption ==
  /\ SessionCount \in Nat \ {0} /\ MaxRetries \in Nat /\ MaxAttempts \in Nat
  /\ FailGate \in BOOLEAN

Sessions == 1..SessionCount

VARIABLES
  pc,         \* where the runner, or the child it waits for, is
  sessions,   \* the entries of this run, one per session of the plan so far
  manifest,   \* the manifest file: is it there, and its entries
  disk,       \* the files of each session's directory
  audit,      \* failed_audit: the copies kept of each session's files
  exit_ok,    \* did the child that has exited do so with code 0?
  stop,       \* is there a stop-after-current-session file?
  attempts    \* the captures started of each session

vars == <<pc, sessions, manifest, disk, audit, exit_ok, stop, attempts>>

\* A zip names the capture whose data it holds; a killed writer leaves it truncated.
Zip == [attempt : 0..MaxAttempts, whole : BOOLEAN]
NoZip == [attempt |-> 0, whole |-> FALSE]

\* The metadata and quality report of the last capture that came to its end.
Metadata == [attempt : 0..MaxAttempts, eligible : BOOLEAN, exit_ok : BOOLEAN]
NoMetadata == [attempt |-> 0, eligible |-> FALSE, exit_ok |-> FALSE]

SessionFiles ==
  [report : {"none", "torn", "pass", "fail"},  \* the child's report
   bundle : Zip,                               \* the child's bundle
   capture : Zip,                              \* the runner's copy of it
   metadata : Metadata]

Copy == [capture : Zip, metadata : Metadata]

Entry == [attempt : 1..MaxAttempts, eligible : BOOLEAN, exit_ok : BOOLEAN,
          capture : Zip, retries : Nat \ {0}]

ChildAt == {"started", "unlinked", "clean", "reported", "bundling", "bundled"}

Cur == Len(sessions) + 1

HasEntry == Cur <= Len(manifest.sessions)

Init ==
  /\ pc = "down" /\ sessions = <<>>
  /\ manifest = [state |-> "none", sessions |-> <<>>]
  /\ disk = [s \in Sessions |-> [report |-> "none", bundle |-> NoZip, capture |-> NoZip,
                                 metadata |-> NoMetadata]]
  /\ audit = [s \in Sessions |-> {}]
  /\ exit_ok = TRUE /\ stop = FALSE
  /\ attempts = [s \in Sessions |-> 0]

-----------------------------------------------------------------------------
(* The runner, up to the start of a capture.                                *)

\* The start script refuses a second runner and removes the stop file.  It only starts
\* afresh when nothing was collected yet, and then a resume would find no entry either.
\* A torn manifest makes every start fail.
Start ==
  /\ pc = "down" /\ manifest.state # "torn"
  /\ pc' = "loop" /\ stop' = FALSE
  /\ UNCHANGED <<sessions, manifest, disk, audit, exit_ok, attempts>>

\* A resume keeps an entry as it is when its session is completed or at its retry limit.
Settled(e) == e.eligible \/ e.retries >= MaxRetries

KeepEntry ==
  /\ pc = "loop" /\ Cur \in Sessions
  /\ HasEntry /\ Settled(manifest.sessions[Cur])
  /\ sessions' = Append(sessions, manifest.sessions[Cur])
  /\ UNCHANGED <<pc, manifest, disk, audit, exit_ok, stop, attempts>>

PreserveNothing(s) == UNCHANGED audit     \* a mutant of Preserve

\* _preserve_failed_attempt copies the files of a session that has an entry.
Preserve(s) ==
  audit' = IF HasEntry
           THEN [audit EXCEPT ![s] = @ \cup {[capture |-> disk[s].capture,
                                              metadata |-> disk[s].metadata]}]
           ELSE audit

BeginCapture ==
  /\ pc = "loop" /\ Cur \in Sessions
  /\ HasEntry => ~Settled(manifest.sessions[Cur])
  /\ attempts[Cur] < MaxAttempts
  /\ Preserve(Cur)
  /\ attempts' = [attempts EXCEPT ![Cur] = @ + 1]
  /\ pc' = "started"
  /\ UNCHANGED <<sessions, manifest, disk, exit_ok, stop>>

-----------------------------------------------------------------------------
(* The child: run_phase42h_hotpath_environment_latency.py --clean.           *)

childVars == <<sessions, manifest, audit, stop, attempts>>

\* main removes the bundles of an earlier capture,
UnlinkBundles ==
  /\ pc = "started"
  /\ disk' = [disk EXCEPT ![Cur].bundle = NoZip]
  /\ pc' = "unlinked"
  /\ UNCHANGED <<exit_ok, childVars>>

\* then cleans the other generated files, the report among them,
Clean ==
  /\ pc = "unlinked"
  /\ disk' = [disk EXCEPT ![Cur].report = "none"]
  /\ pc' = "clean"
  /\ UNCHANGED <<exit_ok, childVars>>

\* captures, or gives up, and writes the report before it bundles it,
WriteReport ==
  /\ pc = "clean"
  /\ \E status \in {"pass", "fail"} : disk' = [disk EXCEPT ![Cur].report = status]
  /\ pc' = "reported"
  /\ UNCHANGED <<exit_ok, childVars>>

OpenBundle ==
  /\ pc = "reported"
  /\ disk' = [disk EXCEPT ![Cur].bundle = [attempt |-> attempts[Cur], whole |-> FALSE]]
  /\ pc' = "bundling"
  /\ UNCHANGED <<exit_ok, childVars>>

CloseBundle ==
  /\ pc = "bundling"
  /\ disk' = [disk EXCEPT ![Cur].bundle.whole = TRUE]
  /\ pc' = "bundled"
  /\ UNCHANGED <<exit_ok, childVars>>

\* a bundle that fails turns the report into a failure and the exit code into 1.
BundleFails ==
  /\ pc = "bundling"
  /\ disk' = [disk EXCEPT ![Cur].report = "fail"]
  /\ pc' = "exited" /\ exit_ok' = FALSE
  /\ UNCHANGED childVars

\* The report is written once more, with the timing of the bundle, and the child exits.
ChildExits ==
  /\ pc = "bundled"
  /\ pc' = "exited" /\ exit_ok' = (disk[Cur].report = "pass")
  /\ UNCHANGED <<disk, childVars>>

\* The report as a child killed in the middle of writing it would leave it.
MaybeTorn == {disk[Cur].report} \cup (IF pc \in {"clean", "bundling", "bundled"} THEN {"torn"} ELSE {})

\* The child is killed, by the kernel when memory runs out, or raises.
ChildDies ==
  /\ pc \in ChildAt
  /\ \E report \in MaybeTorn : disk' = [disk EXCEPT ![Cur].report = report]
  /\ pc' = "exited" /\ exit_ok' = FALSE
  /\ UNCHANGED childVars

-----------------------------------------------------------------------------
(* The runner, once the child has exited.                                   *)

\* _run_real_phase42h_capture parses the report; nothing catches what a torn one raises.
ReadTornReport ==
  /\ pc = "exited" /\ disk[Cur].report = "torn"
  /\ pc' = "down" /\ sessions' = <<>> /\ exit_ok' = TRUE
  /\ UNCHANGED <<manifest, disk, audit, stop, attempts>>

\* The bundle of the child is copied; without one, a synthetic bundle is written unless an
\* earlier capture left a bundle.
CopyNeeded == disk[Cur].bundle # NoZip \/ disk[Cur].capture = NoZip

Copied == IF disk[Cur].bundle # NoZip THEN disk[Cur].bundle
          ELSE [attempt |-> attempts[Cur], whole |-> TRUE]

CopyBundle ==
  /\ pc = "exited" /\ disk[Cur].report # "torn"
  /\ disk' = IF CopyNeeded THEN [disk EXCEPT ![Cur].capture = Copied] ELSE disk
  /\ pc' = "copied"
  /\ UNCHANGED <<exit_ok, childVars>>

\* evaluate_session_quality needs a report that passes; its other gates may fail it still.
\* The hash of the bundle is that of the bundle as it is, and the exit code is no gate.
Eligible == IF disk[Cur].report = "pass" THEN BOOLEAN ELSE {FALSE}

\* A mutant of NextRetries: only the last capture counts.
RetriesForgotten == 1

NextRetries == IF HasEntry THEN manifest.sessions[Cur].retries + 1 ELSE 1

\* A mutant of After: the quality gate does not end the run.
AfterWithoutGate(eligible) == IF stop THEN "finish" ELSE "loop"

\* After a capture the run may end early: at the quality gate, or at a stop file.
After(eligible) == IF (FailGate /\ ~eligible) \/ stop THEN "finish" ELSE "loop"

Record ==
  /\ pc = "copied"
  /\ \E eligible \in Eligible :
       /\ disk' = [disk EXCEPT ![Cur].metadata = [attempt |-> attempts[Cur],
                                                  eligible |-> eligible, exit_ok |-> exit_ok]]
       /\ sessions' = Append(sessions, [attempt |-> attempts[Cur], eligible |-> eligible,
                                        exit_ok |-> exit_ok, capture |-> disk[Cur].capture,
                                        retries |-> NextRetries])
       /\ pc' = After(eligible)
  /\ exit_ok' = TRUE
  /\ UNCHANGED <<manifest, audit, stop, attempts>>

WriteManifest ==
  /\ pc = "finish" \/ (pc = "loop" /\ Cur \notin Sessions)
  /\ manifest' = [state |-> "whole", sessions |-> sessions]
  /\ pc' = "down" /\ sessions' = <<>>
  /\ UNCHANGED <<disk, audit, exit_ok, stop, attempts>>

-----------------------------------------------------------------------------
(* The environment.                                                         *)

\* phase52_vps_stop.sh
RequestStop ==
  /\ pc # "down" /\ ~stop
  /\ stop' = TRUE
  /\ UNCHANGED <<pc, sessions, manifest, disk, audit, exit_ok, attempts>>

\* Runner and child are gone, with what was in memory; a file being written is torn.
CrashDisk ==
  \/ UNCHANGED disk
  \/ /\ pc \in ChildAt
     /\ \E report \in MaybeTorn : disk' = [disk EXCEPT ![Cur].report = report]
  \/ /\ pc = "exited" /\ disk[Cur].report # "torn" /\ CopyNeeded
     /\ disk' = [disk EXCEPT ![Cur].capture = [Copied EXCEPT !.whole = FALSE]]

CrashManifest ==
  \/ UNCHANGED manifest
  \/ /\ pc = "finish" \/ (pc = "loop" /\ Cur \notin Sessions)
     /\ manifest' = [state |-> "torn", sessions |-> <<>>]

Crash ==
  /\ pc # "down"
  /\ CrashDisk /\ CrashManifest
  /\ pc' = "down" /\ sessions' = <<>> /\ exit_ok' = TRUE
  /\ UNCHANGED <<audit, stop, attempts>>

-----------------------------------------------------------------------------

Next ==
  \/ Start \/ KeepEntry \/ BeginCapture
  \/ UnlinkBundles \/ Clean \/ WriteReport \/ OpenBundle \/ CloseBundle \/ BundleFails
  \/ ChildExits \/ ChildDies
  \/ ReadTornReport \/ CopyBundle \/ Record \/ WriteManifest
  \/ RequestStop \/ Crash

Spec == Init /\ [][Next]_vars

-----------------------------------------------------------------------------

\* Every variable keeps its type: the entries of a run and of the manifest are those of the
\* first sessions of the plan, in order, each with the number of its captures.
TypeOK ==
  /\ pc \in ChildAt \cup {"down", "loop", "exited", "copied", "finish"}
  /\ sessions \in Seq(Entry) /\ Len(sessions) <= SessionCount
  /\ manifest \in [state : {"none", "whole", "torn"}, sessions : Seq(Entry)]
  /\ Len(manifest.sessions) <= SessionCount
  /\ disk \in [Sessions -> SessionFiles]
  /\ audit \in [Sessions -> SUBSET Copy]
  /\ exit_ok \in BOOLEAN /\ stop \in BOOLEAN
  /\ attempts \in [Sessions -> 0..MaxAttempts]
  /\ pc \in ChildAt \cup {"exited", "copied"} => Cur \in Sessions

\* The files of entry e of session s are in its directory, as the entry describes them.
OnDisk(e, s) ==
  /\ disk[s].capture = e.capture
  /\ disk[s].metadata = [attempt |-> e.attempt, eligible |-> e.eligible, exit_ok |-> e.exit_ok]

Audited(e, s) ==
  [capture |-> e.capture,
   metadata |-> [attempt |-> e.attempt, eligible |-> e.eligible, exit_ok |-> e.exit_ok]] \in audit[s]

\* What the manifest records is never lost: the bundle and metadata of a completed session
\* stay in its directory, those of a failed one there or in failed_audit, through retries,
\* killed children and crashes at any point (_preserve_failed_attempt before the capture,
\* _completed_research_eligible in the loop).
RecordedIsKept ==
  \A s \in 1..Len(manifest.sessions) :
    LET e == manifest.sessions[s]
    IN OnDisk(e, s) \/ (~e.eligible /\ Audited(e, s))

\* A manifest written over another has its sessions and maybe more, provided the quality
\* gate is on or sessions are not retried: a run that ends early then does so after the
\* entries of the one before (the loop of run_auto_collection, 284-345).
EntriesAreKept ==
  [][FailGate \/ MaxRetries <= 1
       => (manifest'.state = "whole" => Len(manifest'.sessions) >= Len(manifest.sessions))]_vars

\* A retry counts up, a completed session stays completed and no session is taken back
\* below its retry limit: an entry only changes when it is not settled.
SettledStays ==
  [][manifest'.state = "whole" =>
       \A s \in 1..Len(manifest.sessions) :
         s <= Len(manifest'.sessions) =>
           LET old == manifest.sessions[s]
               new == manifest'.sessions[s]
           IN old = new \/ (~Settled(old) /\ new.retries = old.retries + 1)]_vars

\* tests/test_phase52_auto_collection.py:247 test_phase52_auto_does_not_overwrite_completed_bundles:
\* a resume does not touch the bundle of a session whose quality report says it is eligible.
CompletedIsNotOverwritten ==
  [][\A s \in Sessions : disk[s].metadata.eligible => disk'[s].capture = disk[s].capture]_vars

\* classify_child_process_failure, and tests/test_phase52_auto_collection.py:804: a child that
\* was killed makes its session a failure.
KilledChildIsNotEligible ==
  \A s \in 1..Len(manifest.sessions) :
    manifest.sessions[s].eligible => manifest.sessions[s].exit_ok
=============================================================================
