------------------------ MODULE AutoCollectionProofs ------------------------
(***************************************************************************)
(* What the Phase 5.2 collection keeps, for plans, retry limits and gates  *)
(* of any kind and crashes at any point.                                   *)
(***************************************************************************)
EXTENDS AutoCollection, TLAPS

Capturing == pc \in ChildAt \cup {"exited", "copied"}

Kept(e, s) == OnDisk(e, s) \/ (~e.eligible /\ Audited(e, s))

\* The entries of this run will be those of the manifest.
SessionsAreKept == \A s \in 1..Len(sessions) : Kept(sessions[s], s)

\* The files of a capture in progress belong to a session whose earlier entry, if any, is
\* not settled and has its copy in failed_audit.
CapturesUnsettled ==
  /\ pc = "down" => sessions = <<>>
  /\ Capturing => attempts[Cur] >= 1
  /\ Capturing /\ HasEntry => /\ ~Settled(manifest.sessions[Cur])
                              /\ Audited(manifest.sessions[Cur], Cur)

\* How an entry follows from the entry of the last manifest.
Follows(new, old) == old = new \/ (~Settled(old) /\ new.retries = old.retries + 1)

SessionsFollow ==
  \A s \in 1..Len(sessions) : s <= Len(manifest.sessions) =>
    Follows(sessions[s], manifest.sessions[s])

InOrder == FailGate \/ MaxRetries <= 1

\* Only the last entry may be unsettled, so only the last session is captured again.
ManifestSettled ==
  InOrder => \A s \in 1..Len(manifest.sessions) :
               s < Len(manifest.sessions) => Settled(manifest.sessions[s])

SessionsSettled ==
  InOrder => \A s \in 1..Len(sessions) :
               s < Len(sessions) \/ pc # "finish" => Settled(sessions[s])

EndsAfterManifest ==
  InOrder => /\ Capturing => Len(manifest.sessions) <= Cur
             /\ pc = "finish" => Len(manifest.sessions) <= Len(sessions)

IInv ==
  /\ TypeOK /\ RecordedIsKept /\ SessionsAreKept /\ CapturesUnsettled /\ SessionsFollow
  /\ ManifestSettled /\ SessionsSettled /\ EndsAfterManifest

\* What a step of the child or the runner may do to the files: those of one session change.
Rewrites == \E d \in SessionFiles : disk' = [disk EXCEPT ![Cur] = d]

-----------------------------------------------------------------------------

\* Init establishes the invariant: nothing is recorded.
LEMMA InitCorrect == Init => IInv
<1> SUFFICES ASSUME Init PROVE IInv
  OBVIOUS
<1>1. /\ sessions = <<>> /\ Len(sessions) = 0
      /\ manifest.sessions = <<>> /\ Len(manifest.sessions) = 0
  BY DEF Init
<1>2. TypeOK
  <2>1. [report |-> "none", bundle |-> NoZip, capture |-> NoZip, metadata |-> NoMetadata]
          \in SessionFiles
    BY CollectionAssumption DEF SessionFiles, Zip, NoZip, Metadata, NoMetadata
  <2>2. disk \in [Sessions -> SessionFiles]
    BY <2>1 DEF Init
  <2>3. /\ audit \in [Sessions -> SUBSET Copy]
        /\ attempts \in [Sessions -> 0..MaxAttempts]
    BY CollectionAssumption DEF Init
  <2>4. /\ sessions \in Seq(Entry) /\ Len(sessions) <= SessionCount
        /\ manifest \in [state : {"none", "whole", "torn"}, sessions : Seq(Entry)]
        /\ Len(manifest.sessions) <= SessionCount
    BY CollectionAssumption, <1>1 DEF Init
  <2>5. /\ pc = "down" /\ exit_ok \in BOOLEAN /\ stop \in BOOLEAN
    BY DEF Init
  <2> QED
    BY <2>2, <2>3, <2>4, <2>5 DEF TypeOK, ChildAt
<1>3. RecordedIsKept /\ SessionsAreKept
  BY <1>1 DEF RecordedIsKept, SessionsAreKept
<1>4. CapturesUnsettled
  BY <1>1 DEF CapturesUnsettled, Init, Capturing, ChildAt
<1>5. SessionsFollow /\ ManifestSettled /\ SessionsSettled
  BY <1>1 DEF SessionsFollow, ManifestSettled, SessionsSettled
<1>6. EndsAfterManifest
  BY <1>1 DEF EndsAfterManifest, Init, Capturing, ChildAt
<1> QED
  BY <1>2, <1>3, <1>4, <1>5, <1>6 DEF IInv

\* The files of the session under capture are free to change: what was recorded of it is
\* in failed_audit, and the other sessions are not touched.
LEMMA RewriteKeeps ==
  ASSUME IInv, Capturing, Rewrites, audit' = audit
  PROVE  /\ disk' \in [Sessions -> SessionFiles]
         /\ manifest' = manifest => RecordedIsKept'
         /\ sessions' = sessions => SessionsAreKept'
<1>0. /\ Cur \in Sessions /\ disk \in [Sessions -> SessionFiles]
      /\ sessions \in Seq(Entry) /\ Len(sessions) \in Nat
      /\ manifest.sessions \in Seq(Entry)
      /\ Len(manifest.sessions) \in Nat /\ Len(manifest.sessions) <= SessionCount
      /\ SessionCount \in Nat
  BY CollectionAssumption DEF IInv, TypeOK, Capturing
<1>1. disk' \in [Sessions -> SessionFiles]
  BY <1>0 DEF Rewrites
<1>2. ASSUME NEW s \in Sessions, s # Cur
      PROVE  disk'[s] = disk[s]
  BY <1>0, <1>2 DEF Rewrites
<1>3. ASSUME manifest' = manifest, NEW s \in 1..Len(manifest.sessions)
      PROVE  Kept(manifest.sessions[s], s)'
  <2>1. s \in Sessions
    BY <1>0 DEF Sessions
  <2>2. CASE s = Cur
    <3>1. HasEntry
      BY <1>0, <2>2 DEF HasEntry
    <3>2. ~manifest.sessions[Cur].eligible /\ Audited(manifest.sessions[Cur], Cur)
      BY <3>1 DEF IInv, CapturesUnsettled, Settled
    <3> QED
      BY <2>2, <3>2, <1>3 DEF Kept, Audited
  <2>3. CASE s # Cur
    <3>1. Kept(manifest.sessions[s], s)
      BY DEF IInv, RecordedIsKept, Kept
    <3> QED
      BY <3>1, <1>2, <1>3, <2>1, <2>3 DEF Kept, Audited, OnDisk
  <2> QED
    BY <2>2, <2>3
<1>4. ASSUME sessions' = sessions, NEW s \in 1..Len(sessions)
      PROVE  Kept(sessions[s], s)'
  <2>1. s \in Sessions /\ s # Cur
    BY <1>0 DEF Sessions, Cur
  <2>2. Kept(sessions[s], s)
    BY DEF IInv, SessionsAreKept
  <2> QED
    BY <2>1, <2>2, <1>2, <1>4 DEF Kept, Audited, OnDisk
<1> QED
  BY <1>1, <1>3, <1>4 DEF RecordedIsKept, SessionsAreKept, Kept

\* A step within a capture, of the child or of the runner that copies its bundle.
LEMMA CaptureStep ==
  ASSUME IInv, Capturing, Capturing', Rewrites \/ disk' = disk, exit_ok' \in BOOLEAN,
         UNCHANGED childVars
  PROVE  IInv'
<1>0. Rewrites
  <2>1. ASSUME disk' = disk PROVE Rewrites
    <3>1. Cur \in Sessions /\ disk \in [Sessions -> SessionFiles]
      BY DEF IInv, TypeOK, Capturing
    <3>2. disk = [disk EXCEPT ![Cur] = disk[Cur]] /\ disk[Cur] \in SessionFiles
      BY <3>1
    <3> QED
      BY <3>2, <2>1 DEF Rewrites
  <2> QED
    BY <2>1
<1>1. /\ sessions' = sessions /\ manifest' = manifest /\ audit' = audit /\ stop' = stop
      /\ attempts' = attempts
  BY DEF childVars
<1>2. /\ disk' \in [Sessions -> SessionFiles] /\ RecordedIsKept' /\ SessionsAreKept'
  BY <1>0, <1>1, RewriteKeeps
<1>3. Cur' = Cur /\ HasEntry' = HasEntry
  BY <1>1 DEF Cur, HasEntry
<1>4. TypeOK'
  BY <1>1, <1>2, <1>3 DEF IInv, TypeOK, Capturing
<1>5. pc' # "down" /\ pc' # "finish" /\ pc # "down" /\ pc # "finish"
  BY DEF Capturing, ChildAt
<1>6. CapturesUnsettled'
  BY <1>1, <1>3, <1>5 DEF IInv, CapturesUnsettled, Settled, Audited
<1>7. SessionsFollow' /\ ManifestSettled'
  BY <1>1 DEF IInv, SessionsFollow, ManifestSettled, Follows, Settled
<1>8. SessionsSettled'
  BY <1>1, <1>5 DEF IInv, SessionsSettled, Settled
<1>9. EndsAfterManifest'
  BY <1>1, <1>3, <1>5 DEF IInv, EndsAfterManifest
<1> QED
  BY <1>2, <1>4, <1>6, <1>7, <1>8, <1>9 DEF IInv

\* A step that takes the runner down, whether a crash or its end by an exception.
LEMMA DownStep ==
  ASSUME IInv, pc' = "down", sessions' = <<>>, exit_ok' \in BOOLEAN,
         UNCHANGED <<audit, stop, attempts>>,
         disk' = disk \/ (Capturing /\ Rewrites),
         manifest' = manifest \/ manifest' = [state |-> "torn", sessions |-> <<>>]
  PROVE  IInv'
<1>1. Len(sessions') = 0 /\ Capturing' = FALSE
  BY DEF Capturing, ChildAt
<1>2. disk' \in [Sessions -> SessionFiles]
  BY RewriteKeeps DEF IInv, TypeOK
<1>3. manifest' = manifest => RecordedIsKept'
  <2>1. CASE disk' = disk
    BY <2>1 DEF IInv, RecordedIsKept, OnDisk, Audited
  <2>2. CASE Capturing /\ Rewrites
    BY <2>2, RewriteKeeps
  <2> QED
    BY <2>1, <2>2
<1>4. manifest' # manifest => Len(manifest'.sessions) = 0
  OBVIOUS
<1>5. RecordedIsKept'
  BY <1>3, <1>4 DEF RecordedIsKept
<1>6. /\ manifest' \in [state : {"none", "whole", "torn"}, sessions : Seq(Entry)]
      /\ Len(manifest'.sessions) <= SessionCount
  <2>1. CASE manifest' = manifest
    BY <2>1 DEF IInv, TypeOK
  <2>2. CASE manifest' = [state |-> "torn", sessions |-> <<>>]
    <3>1. <<>> \in Seq(Entry) /\ Len(<<>>) = 0
      OBVIOUS
    <3> QED
      BY <2>2, <3>1, CollectionAssumption
  <2> QED
    BY <2>1, <2>2
<1>7. TypeOK'
  <2>1. pc' \in ChildAt \cup {"down", "loop", "exited", "copied", "finish"}
    BY DEF ChildAt
  <2>2. sessions' \in Seq(Entry) /\ Len(sessions') <= SessionCount
    BY <1>1, CollectionAssumption
  <2>3. /\ audit' \in [Sessions -> SUBSET Copy] /\ stop' \in BOOLEAN
        /\ attempts' \in [Sessions -> 0..MaxAttempts]
    BY DEF IInv, TypeOK
  <2>4. ~(pc' \in ChildAt \cup {"exited", "copied"})
    BY DEF ChildAt
  <2> QED
    BY <1>2, <1>6, <2>1, <2>2, <2>3, <2>4 DEF TypeOK
<1>8. SessionsAreKept' /\ SessionsFollow' /\ SessionsSettled' /\ CapturesUnsettled'
  BY <1>1 DEF SessionsAreKept, SessionsFollow, SessionsSettled, CapturesUnsettled
<1>9. ManifestSettled'
  BY <1>4 DEF IInv, ManifestSettled, Settled
<1>10. EndsAfterManifest'
  BY <1>1 DEF EndsAfterManifest
<1> QED
  BY <1>5, <1>7, <1>8, <1>9, <1>10 DEF IInv

\* What the invariant says of the types a step reads.
LEMMA Types ==
  ASSUME IInv
  PROVE  /\ sessions \in Seq(Entry) /\ Len(sessions) \in Nat /\ Len(sessions) <= SessionCount
         /\ manifest.sessions \in Seq(Entry) /\ Len(manifest.sessions) \in Nat
         /\ Len(manifest.sessions) <= SessionCount /\ SessionCount \in Nat
         /\ disk \in [Sessions -> SessionFiles] /\ attempts \in [Sessions -> 0..MaxAttempts]
         /\ Capturing => Cur \in Sessions
BY CollectionAssumption DEF IInv, TypeOK, Capturing

\* An update of some fields of a session's files is a rewrite.
LEMMA RewriteFields ==
  ASSUME IInv, Cur \in Sessions
  PROVE  /\ \A r \in {"none", "torn", "pass", "fail"} :
              disk' = [disk EXCEPT ![Cur].report = r] => Rewrites
         /\ \A z \in Zip : disk' = [disk EXCEPT ![Cur].bundle = z] => Rewrites
         /\ \A z \in Zip : disk' = [disk EXCEPT ![Cur].capture = z] => Rewrites
         /\ \A m \in Metadata : disk' = [disk EXCEPT ![Cur].metadata = m] => Rewrites
         /\ disk' = [disk EXCEPT ![Cur].bundle.whole = TRUE] => Rewrites
<1>0. disk[Cur] \in SessionFiles
  BY Types
<1>1. ASSUME NEW r \in {"none", "torn", "pass", "fail"},
             disk' = [disk EXCEPT ![Cur].report = r]
      PROVE  Rewrites
  <2>1. [disk[Cur] EXCEPT !.report = r] \in SessionFiles
    BY <1>0 DEF SessionFiles
  <2>2. disk' = [disk EXCEPT ![Cur] = [disk[Cur] EXCEPT !.report = r]]
    BY <1>1
  <2> QED
    BY <2>1, <2>2 DEF Rewrites
<1>2. ASSUME NEW z \in Zip, disk' = [disk EXCEPT ![Cur].bundle = z]
      PROVE  Rewrites
  <2>1. [disk[Cur] EXCEPT !.bundle = z] \in SessionFiles
    BY <1>0 DEF SessionFiles
  <2>2. disk' = [disk EXCEPT ![Cur] = [disk[Cur] EXCEPT !.bundle = z]]
    BY <1>2
  <2> QED
    BY <2>1, <2>2 DEF Rewrites
<1>3. ASSUME NEW z \in Zip, disk' = [disk EXCEPT ![Cur].capture = z]
      PROVE  Rewrites
  <2>1. [disk[Cur] EXCEPT !.capture = z] \in SessionFiles
    BY <1>0 DEF SessionFiles
  <2>2. disk' = [disk EXCEPT ![Cur] = [disk[Cur] EXCEPT !.capture = z]]
    BY <1>3
  <2> QED
    BY <2>1, <2>2 DEF Rewrites
<1>4. ASSUME NEW m \in Metadata, disk' = [disk EXCEPT ![Cur].metadata = m]
      PROVE  Rewrites
  <2>1. [disk[Cur] EXCEPT !.metadata = m] \in SessionFiles
    BY <1>0 DEF SessionFiles
  <2>2. disk' = [disk EXCEPT ![Cur] = [disk[Cur] EXCEPT !.metadata = m]]
    BY <1>4
  <2> QED
    BY <2>1, <2>2 DEF Rewrites
<1>5. ASSUME disk' = [disk EXCEPT ![Cur].bundle.whole = TRUE]
      PROVE  Rewrites
  <2>1. [disk[Cur].bundle EXCEPT !.whole = TRUE] \in Zip
    BY <1>0 DEF SessionFiles, Zip
  <2>2. disk' = [disk EXCEPT ![Cur].bundle = [disk[Cur].bundle EXCEPT !.whole = TRUE]]
    BY <1>5
  <2> QED
    BY <2>1, <2>2, <1>2
<1> QED
  BY <1>1, <1>2, <1>3, <1>4, <1>5

\* The zips the child and the runner write hold the data of a capture that was started.
LEMMA ZipsWritten ==
  ASSUME IInv, Capturing
  PROVE  /\ NoZip \in Zip
         /\ [attempt |-> attempts[Cur], whole |-> FALSE] \in Zip
         /\ Copied \in Zip /\ [Copied EXCEPT !.whole = FALSE] \in Zip
         /\ MaybeTorn \subseteq {"none", "torn", "pass", "fail"}
<1>1. attempts[Cur] \in 0..MaxAttempts /\ disk[Cur] \in SessionFiles
  BY Types
<1>2. NoZip \in Zip
  BY CollectionAssumption DEF NoZip, Zip
<1>3. /\ [attempt |-> attempts[Cur], whole |-> FALSE] \in Zip
      /\ [attempt |-> attempts[Cur], whole |-> TRUE] \in Zip
  BY <1>1 DEF Zip
<1>4. Copied \in Zip
  BY <1>1, <1>3 DEF Copied, SessionFiles
<1>5. [Copied EXCEPT !.whole = FALSE] \in Zip
  BY <1>4 DEF Zip
<1>6. MaybeTorn \subseteq {"none", "torn", "pass", "fail"}
  BY <1>1 DEF MaybeTorn, SessionFiles
<1> QED
  BY <1>2, <1>3, <1>4, <1>5, <1>6

\* Every step of a capture keeps the invariant.
LEMMA CaptureCorrect ==
  ASSUME IInv,
         \/ UnlinkBundles \/ Clean \/ WriteReport \/ OpenBundle \/ CloseBundle \/ BundleFails
         \/ ChildExits \/ ChildDies \/ CopyBundle
  PROVE  IInv'
<1>1. /\ Capturing /\ Capturing' /\ UNCHANGED childVars
  BY DEF UnlinkBundles, Clean, WriteReport, OpenBundle, CloseBundle, BundleFails, ChildExits,
     ChildDies, CopyBundle, Capturing, ChildAt
<1>2. exit_ok' \in BOOLEAN
  BY DEF IInv, TypeOK, UnlinkBundles, Clean, WriteReport, OpenBundle, CloseBundle, BundleFails,
     ChildExits, ChildDies, CopyBundle
<1>3. Cur \in Sessions
  BY <1>1, Types
<1>4. Rewrites \/ disk' = disk
  <2>1. CASE UnlinkBundles \/ OpenBundle
    BY <2>1, <1>1, <1>3, RewriteFields, ZipsWritten DEF UnlinkBundles, OpenBundle
  <2>2. CASE Clean \/ WriteReport \/ BundleFails
    BY <2>2, <1>3, RewriteFields DEF Clean, WriteReport, BundleFails
  <2>3. CASE CloseBundle
    BY <2>3, <1>3, RewriteFields DEF CloseBundle
  <2>4. CASE ChildDies
    BY <2>4, <1>1, <1>3, RewriteFields, ZipsWritten DEF ChildDies
  <2>5. CASE ChildExits
    BY <2>5 DEF ChildExits
  <2>6. CASE CopyBundle
    BY <2>6, <1>1, <1>3, RewriteFields, ZipsWritten DEF CopyBundle
  <2> QED
    BY <2>1, <2>2, <2>3, <2>4, <2>5, <2>6
<1> QED
  BY <1>1, <1>2, <1>4, CaptureStep

\* A torn report and a crash leave the invariant to the next run.
LEMMA DownCorrect ==
  ASSUME IInv, ReadTornReport \/ Crash
  PROVE  IInv'
<1>1. CASE ReadTornReport
  BY <1>1, DownStep DEF ReadTornReport
<1>2. CASE Crash
  <2>1. disk' = disk \/ (Capturing /\ Rewrites)
    <3>1. CASE pc \in ChildAt /\ \E report \in MaybeTorn :
                                disk' = [disk EXCEPT ![Cur].report = report]
      <4>1. Capturing /\ Cur \in Sessions
        BY <3>1, Types DEF Capturing
      <4> QED
        BY <3>1, <4>1, RewriteFields, ZipsWritten
    <3>2. CASE pc = "exited" /\ disk' = [disk EXCEPT ![Cur].capture =
                                           [Copied EXCEPT !.whole = FALSE]]
      <4>1. Capturing /\ Cur \in Sessions
        BY <3>2, Types DEF Capturing
      <4> QED
        BY <3>2, <4>1, RewriteFields, ZipsWritten
    <3> QED
      BY <1>2, <3>1, <3>2 DEF Crash, CrashDisk
  <2>2. manifest' = manifest \/ manifest' = [state |-> "torn", sessions |-> <<>>]
    BY <1>2 DEF Crash, CrashManifest
  <2> QED
    BY <1>2, <2>1, <2>2, DownStep DEF Crash
<1> QED
  BY <1>1, <1>2

\* A step that changes neither the files nor what is recorded of them.
LEMMA QuietCorrect ==
  ASSUME IInv, UNCHANGED <<sessions, manifest, disk, audit, exit_ok, attempts>>,
         stop' \in BOOLEAN,
         pc' = pc \/ (pc = "down" /\ pc' = "loop")
  PROVE  IInv'
<1>1. Cur' = Cur /\ HasEntry' = HasEntry
  BY DEF Cur, HasEntry
<1>2. /\ Capturing' <=> Capturing
      /\ pc' = "finish" <=> pc = "finish"
      /\ pc' = "down" => pc = "down"
      /\ pc' \in ChildAt \cup {"down", "loop", "exited", "copied", "finish"}
  BY DEF Capturing, ChildAt, IInv, TypeOK
<1>3. TypeOK'
  BY <1>1, <1>2 DEF IInv, TypeOK, Capturing
<1>4. RecordedIsKept' /\ SessionsAreKept'
  BY DEF IInv, RecordedIsKept, SessionsAreKept, Kept, OnDisk, Audited
<1>5. CapturesUnsettled'
  BY <1>1, <1>2 DEF IInv, CapturesUnsettled, Settled, Audited
<1>6. SessionsFollow' /\ ManifestSettled'
  BY DEF IInv, SessionsFollow, ManifestSettled, Follows, Settled
<1>7. SessionsSettled'
  BY <1>2 DEF IInv, SessionsSettled, Settled
<1>8. EndsAfterManifest'
  BY <1>1, <1>2 DEF IInv, EndsAfterManifest
<1> QED
  BY <1>3, <1>4, <1>5, <1>6, <1>7, <1>8 DEF IInv

\* A resume takes over a settled entry.
LEMMA KeepCorrect ==
  ASSUME IInv, KeepEntry
  PROVE  IInv'
<1> DEFINE e == manifest.sessions[Cur]
<1>1. /\ pc = "loop" /\ pc' = "loop" /\ HasEntry /\ Settled(e) /\ Cur \in Sessions
      /\ sessions' = Append(sessions, e)
      /\ UNCHANGED <<manifest, disk, audit, exit_ok, stop, attempts>>
  BY DEF KeepEntry
<1>2. Cur \in 1..Len(manifest.sessions) /\ Cur = Len(sessions) + 1 /\ Cur <= SessionCount
  BY <1>1, Types DEF HasEntry, Cur, Sessions
<1>3. e \in Entry
  BY <1>2, Types
<1> HIDE DEF e
<1>4. /\ sessions' \in Seq(Entry) /\ Len(sessions') = Cur
      /\ sessions'[Cur] = e
      /\ \A s \in 1..Len(sessions) : sessions'[s] = sessions[s]
      /\ \A s \in 1..Len(sessions') : s = Cur \/ s \in 1..Len(sessions)
  BY <1>1, <1>2, <1>3, Types
<1>5. ~Capturing' /\ pc' # "down" /\ pc' # "finish"
  BY <1>1 DEF Capturing, ChildAt
<1>6. TypeOK'
  <2>1. Len(sessions') <= SessionCount
    BY <1>2, <1>4
  <2>2. ~(pc' \in ChildAt \cup {"exited", "copied"})
    BY <1>5 DEF Capturing
  <2> QED
    BY <1>1, <1>4, <2>1, <2>2 DEF IInv, TypeOK
<1>7. Kept(e, Cur)
  BY <1>2 DEF IInv, RecordedIsKept, Kept, e
<1>8. RecordedIsKept'
  BY <1>1 DEF IInv, RecordedIsKept, OnDisk, Audited
<1>9. SessionsAreKept'
  <2> SUFFICES ASSUME NEW s \in 1..Len(sessions') PROVE Kept(sessions[s], s)'
    BY DEF SessionsAreKept
  <2>1. CASE s = Cur
    BY <2>1, <1>1, <1>4, <1>7 DEF Kept, OnDisk, Audited
  <2>2. CASE s \in 1..Len(sessions)
    BY <2>2, <1>1, <1>4 DEF IInv, SessionsAreKept, Kept, OnDisk, Audited
  <2> QED
    BY <2>1, <2>2, <1>4
<1>10. CapturesUnsettled' /\ EndsAfterManifest'
  BY <1>5 DEF CapturesUnsettled, EndsAfterManifest
<1>11. SessionsFollow'
  <2> SUFFICES ASSUME NEW s \in 1..Len(sessions'), s <= Len(manifest'.sessions)
               PROVE Follows(sessions'[s], manifest'.sessions[s])
    BY <1>1 DEF SessionsFollow, Follows, Settled
  <2>1. CASE s = Cur
    BY <2>1, <1>1, <1>4 DEF Follows, e
  <2>2. CASE s \in 1..Len(sessions)
    BY <2>2, <1>1, <1>4 DEF IInv, SessionsFollow
  <2> QED
    BY <2>1, <2>2, <1>4
<1>12. ManifestSettled'
  BY <1>1 DEF IInv, ManifestSettled, Settled
<1>13. SessionsSettled'
  <2> SUFFICES ASSUME InOrder, NEW s \in 1..Len(sessions') PROVE Settled(sessions'[s])
    BY DEF SessionsSettled, Settled, InOrder
  <2>1. CASE s = Cur
    BY <2>1, <1>1, <1>4
  <2>2. CASE s \in 1..Len(sessions)
    BY <2>2, <1>1, <1>4 DEF IInv, SessionsSettled
  <2> QED
    BY <2>1, <2>2, <1>4
<1> QED
  BY <1>6, <1>8, <1>9, <1>10, <1>11, <1>12, <1>13 DEF IInv

\* A capture begins with a copy of what is recorded of its session.
LEMMA BeginCorrect ==
  ASSUME IInv, BeginCapture
  PROVE  IInv'
<1>1. /\ pc = "loop" /\ pc' = "started" /\ Cur \in Sessions
      /\ HasEntry => ~Settled(manifest.sessions[Cur])
      /\ attempts[Cur] < MaxAttempts /\ attempts' = [attempts EXCEPT ![Cur] = @ + 1]
      /\ UNCHANGED <<sessions, manifest, disk, exit_ok, stop>>
      /\ Preserve(Cur)
  BY DEF BeginCapture
<1> DEFINE copy == [capture |-> disk[Cur].capture, metadata |-> disk[Cur].metadata]
<1>2. copy \in Copy
  BY <1>1, Types DEF Copy, SessionFiles
<1>3. /\ audit \in [Sessions -> SUBSET Copy] /\ audit' \in [Sessions -> SUBSET Copy]
      /\ HasEntry => copy \in audit'[Cur]
      /\ \A s \in Sessions : audit[s] \subseteq audit'[s]
  BY <1>1, <1>2 DEF IInv, TypeOK, Preserve
<1>4. Cur' = Cur /\ HasEntry' = HasEntry
  BY <1>1 DEF Cur, HasEntry
<1>5. attempts' \in [Sessions -> 0..MaxAttempts] /\ attempts'[Cur] >= 1
  BY <1>1, Types, CollectionAssumption
<1>6. TypeOK'
  <2>1. pc' \in ChildAt \cup {"down", "loop", "exited", "copied", "finish"}
    BY <1>1 DEF ChildAt
  <2> QED
    BY <1>1, <1>3, <1>4, <1>5, <2>1 DEF IInv, TypeOK
<1>8. /\ \A s \in 1..Len(manifest.sessions) : s \in Sessions
      /\ \A s \in 1..Len(sessions) : s \in Sessions
  BY Types DEF Sessions
<1>9. RecordedIsKept'
  <2>1. ASSUME NEW s \in 1..Len(manifest.sessions) PROVE Kept(manifest.sessions[s], s)
    BY DEF IInv, RecordedIsKept, Kept
  <2>2. ASSUME NEW s \in 1..Len(manifest.sessions) PROVE Kept(manifest.sessions[s], s)'
    BY <2>1, <1>1, <1>3, <1>8 DEF Kept, OnDisk, Audited
  <2> QED
    BY <2>2, <1>1 DEF RecordedIsKept, Kept
<1>10. SessionsAreKept'
  <2>1. ASSUME NEW s \in 1..Len(sessions) PROVE Kept(sessions[s], s)'
    BY <1>1, <1>3, <1>8 DEF IInv, SessionsAreKept, Kept, OnDisk, Audited
  <2> QED
    BY <2>1, <1>1 DEF SessionsAreKept
<1>11. HasEntry => Audited(manifest.sessions[Cur], Cur)'
  <2> SUFFICES ASSUME HasEntry PROVE Audited(manifest.sessions[Cur], Cur)'
    OBVIOUS
  <2>1. Cur \in 1..Len(manifest.sessions)
    BY <1>1, Types DEF HasEntry, Sessions
  <2>2. OnDisk(manifest.sessions[Cur], Cur) \/ Audited(manifest.sessions[Cur], Cur)
    BY <2>1 DEF IInv, RecordedIsKept
  <2> QED
    BY <2>2, <1>1, <1>3, <1>4 DEF OnDisk, Audited
<1>12. CapturesUnsettled'
  BY <1>1, <1>4, <1>5, <1>11 DEF CapturesUnsettled, Settled
<1>13. SessionsFollow' /\ ManifestSettled'
  BY <1>1 DEF IInv, SessionsFollow, ManifestSettled, Follows, Settled
<1>14. SessionsSettled'
  BY <1>1 DEF IInv, SessionsSettled, Settled
<1>15. EndsAfterManifest'
  <2> SUFFICES ASSUME InOrder PROVE Len(manifest.sessions) <= Cur
    BY <1>1, <1>4 DEF EndsAfterManifest, InOrder
  <2>1. CASE HasEntry
    <3>1. Cur \in 1..Len(manifest.sessions) /\ ~Settled(manifest.sessions[Cur])
      BY <2>1, <1>1, Types DEF HasEntry, Sessions
    <3>2. ~(Cur < Len(manifest.sessions))
      BY <3>1 DEF IInv, ManifestSettled
    <3> QED
      BY <3>1, <3>2, Types
  <2>2. CASE ~HasEntry
    BY <2>2, <1>1, Types DEF HasEntry, Sessions
  <2> QED
    BY <2>1, <2>2
<1> QED
  BY <1>6, <1>9, <1>10, <1>12, <1>13, <1>14, <1>15 DEF IInv

\* The entry of a finished capture describes the files as they then are.
LEMMA RecordCorrect ==
  ASSUME IInv, Record
  PROVE  IInv'
<1>1. PICK eligible \in Eligible :
        /\ disk' = [disk EXCEPT ![Cur].metadata = [attempt |-> attempts[Cur],
                                                   eligible |-> eligible, exit_ok |-> exit_ok]]
        /\ sessions' = Append(sessions, [attempt |-> attempts[Cur], eligible |-> eligible,
                                         exit_ok |-> exit_ok, capture |-> disk[Cur].capture,
                                         retries |-> NextRetries])
        /\ pc' = After(eligible)
  BY DEF Record
<1> DEFINE e == [attempt |-> attempts[Cur], eligible |-> eligible, exit_ok |-> exit_ok,
                 capture |-> disk[Cur].capture, retries |-> NextRetries]
           m == [attempt |-> attempts[Cur], eligible |-> eligible, exit_ok |-> exit_ok]
<1>2. /\ pc = "copied" /\ exit_ok' = TRUE
      /\ UNCHANGED <<manifest, audit, stop, attempts>>
  BY DEF Record
<1>3. /\ Capturing /\ Cur \in Sessions /\ eligible \in BOOLEAN /\ exit_ok \in BOOLEAN
      /\ attempts[Cur] \in 1..MaxAttempts /\ disk[Cur] \in SessionFiles
  <2>1. Capturing
    BY <1>2 DEF Capturing
  <2>2. eligible \in BOOLEAN
    BY DEF Eligible
  <2> QED
    BY <2>1, <2>2, Types, CollectionAssumption DEF IInv, TypeOK, CapturesUnsettled
<1>4. HasEntry => Cur \in 1..Len(manifest.sessions) /\ manifest.sessions[Cur] \in Entry
  BY <1>3, Types DEF HasEntry, Sessions
<1>5. NextRetries \in Nat \ {0}
  BY <1>4 DEF NextRetries, Entry
<1>6. e \in Entry /\ m \in Metadata
  <2>1. m \in Metadata
    BY <1>3, CollectionAssumption DEF Metadata
  <2>2. e \in Entry
    BY <1>3, <1>5 DEF Entry, SessionFiles
  <2> QED
    BY <2>1, <2>2
<1>7. Rewrites
  BY <1>1, <1>3, <1>6, RewriteFields
<1>8. disk' \in [Sessions -> SessionFiles] /\ RecordedIsKept'
  BY <1>2, <1>3, <1>7, RewriteKeeps
<1>9. disk'[Cur].capture = e.capture /\ disk'[Cur].metadata = m
  <2>1. disk'[Cur] = [disk[Cur] EXCEPT !.metadata = m]
    BY <1>1, <1>3, Types
  <2> QED
    BY <2>1, <1>3 DEF SessionFiles
<1>10. \A s \in Sessions : s # Cur => disk'[s] = disk[s]
  BY <1>1, <1>3, Types
<1>11. m = [attempt |-> e.attempt, eligible |-> e.eligible, exit_ok |-> e.exit_ok]
  OBVIOUS
<1>12. /\ e.eligible = eligible /\ e.retries = NextRetries
       /\ sessions' = Append(sessions, e)
  BY <1>1
<1>13. /\ sessions' \in Seq(Entry) /\ Len(sessions') = Cur
       /\ sessions'[Cur] = e /\ Cur = Len(sessions) + 1 /\ Cur <= SessionCount
       /\ \A s \in 1..Len(sessions) : sessions'[s] = sessions[s] /\ s # Cur /\ s \in Sessions
       /\ \A s \in 1..Len(sessions') : s = Cur \/ s \in 1..Len(sessions)
  <2> HIDE DEF e
  <2> QED
    BY <1>12, <1>6, <1>3, Types DEF Cur, Sessions
<1>14. /\ pc' \in {"finish", "loop"} /\ ~Capturing' /\ pc' # "down"
       /\ FailGate /\ ~eligible => pc' = "finish"
  BY <1>1 DEF After, Capturing, ChildAt
<1> HIDE DEF e, m
<1>15. TypeOK'
  <2>1. Len(sessions') <= SessionCount
    BY <1>13
  <2>2. ~(pc' \in ChildAt \cup {"exited", "copied"})
    BY <1>14 DEF Capturing
  <2> QED
    BY <1>2, <1>8, <1>13, <1>14, <2>1, <2>2 DEF IInv, TypeOK
<1>16. SessionsAreKept'
  <2> SUFFICES ASSUME NEW s \in 1..Len(sessions') PROVE Kept(sessions[s], s)'
    BY DEF SessionsAreKept
  <2>1. CASE s = Cur
    BY <2>1, <1>9, <1>11, <1>13 DEF Kept, OnDisk
  <2>2. CASE s \in 1..Len(sessions)
    BY <2>2, <1>2, <1>10, <1>13 DEF IInv, SessionsAreKept, Kept, OnDisk, Audited
  <2> QED
    BY <2>1, <2>2, <1>13
<1>17. CapturesUnsettled'
  BY <1>14 DEF CapturesUnsettled
<1>18. SessionsFollow'
  <2> SUFFICES ASSUME NEW s \in 1..Len(sessions'), s <= Len(manifest.sessions)
               PROVE Follows(sessions'[s], manifest.sessions[s])
    BY <1>2 DEF SessionsFollow, Follows, Settled
  <2>1. CASE s = Cur
    <3>1. HasEntry
      BY <2>1 DEF HasEntry
    <3>2. ~Settled(manifest.sessions[Cur]) /\ NextRetries = manifest.sessions[Cur].retries + 1
      BY <3>1, <1>3 DEF IInv, CapturesUnsettled, NextRetries
    <3> QED
      BY <2>1, <3>2, <1>12, <1>13 DEF Follows
  <2>2. CASE s \in 1..Len(sessions)
    BY <2>2, <1>13 DEF IInv, SessionsFollow
  <2> QED
    BY <2>1, <2>2, <1>13
<1>19. ManifestSettled'
  BY <1>2 DEF IInv, ManifestSettled, Settled
<1>20. SessionsSettled'
  <2> SUFFICES ASSUME InOrder, NEW s \in 1..Len(sessions'), s < Len(sessions') \/ pc' # "finish"
               PROVE Settled(sessions'[s])
    BY DEF SessionsSettled, Settled, InOrder
  <2>1. CASE s = Cur
    <3>1. pc' # "finish"
      BY <2>1, <1>13
    <3>2. CASE FailGate
      BY <2>1, <3>1, <3>2, <1>12, <1>13, <1>14, <1>3 DEF Settled
    <3>3. CASE MaxRetries <= 1
      BY <2>1, <3>3, <1>5, <1>12, <1>13, CollectionAssumption DEF Settled
    <3> QED
      BY <3>2, <3>3 DEF InOrder
  <2>2. CASE s \in 1..Len(sessions)
    BY <2>2, <1>2, <1>13 DEF IInv, SessionsSettled
  <2> QED
    BY <2>1, <2>2, <1>13
<1>21. EndsAfterManifest'
  BY <1>2, <1>3, <1>13, <1>14 DEF IInv, EndsAfterManifest, InOrder
<1> QED
  BY <1>8, <1>15, <1>16, <1>17, <1>18, <1>19, <1>20, <1>21 DEF IInv

\* The entries of the run become those of the manifest.
LEMMA ManifestCorrect ==
  ASSUME IInv, WriteManifest
  PROVE  /\ IInv'
         /\ InOrder => Len(manifest'.sessions) >= Len(manifest.sessions)
         /\ \A s \in 1..Len(manifest.sessions) : s <= Len(manifest'.sessions) =>
              Follows(manifest'.sessions[s], manifest.sessions[s])
<1>1. /\ pc = "finish" \/ (pc = "loop" /\ Cur \notin Sessions)
      /\ manifest' = [state |-> "whole", sessions |-> sessions]
      /\ pc' = "down" /\ sessions' = <<>>
      /\ UNCHANGED <<disk, audit, exit_ok, stop, attempts>>
  BY DEF WriteManifest
<1>2. /\ manifest'.sessions = sessions /\ manifest'.state = "whole"
      /\ Len(sessions') = 0 /\ sessions' \in Seq(Entry) /\ ~Capturing'
  BY <1>1 DEF Capturing, ChildAt
<1>3. TypeOK'
  <2>1. pc' \in ChildAt \cup {"down", "loop", "exited", "copied", "finish"}
    BY <1>1
  <2>2. manifest' \in [state : {"none", "whole", "torn"}, sessions : Seq(Entry)]
    BY <1>1, Types
  <2>3. Len(sessions') <= SessionCount /\ Len(manifest'.sessions) <= SessionCount
    BY <1>2, Types
  <2>4. ~(pc' \in ChildAt \cup {"exited", "copied"})
    BY <1>2 DEF Capturing
  <2> QED
    BY <1>1, <1>2, <2>1, <2>2, <2>3, <2>4 DEF IInv, TypeOK
<1>4. RecordedIsKept'
  BY <1>1, <1>2 DEF IInv, RecordedIsKept, SessionsAreKept, Kept, OnDisk, Audited
<1>5. SessionsAreKept' /\ SessionsFollow' /\ SessionsSettled'
  BY <1>2 DEF SessionsAreKept, SessionsFollow, SessionsSettled
<1>6. CapturesUnsettled' /\ EndsAfterManifest'
  BY <1>1, <1>2 DEF CapturesUnsettled, EndsAfterManifest
<1>7. ManifestSettled'
  <2> SUFFICES ASSUME InOrder, NEW s \in 1..Len(sessions), s < Len(sessions)
               PROVE Settled(sessions[s])
    BY <1>2 DEF ManifestSettled, InOrder, Settled
  <2> QED
    BY DEF IInv, SessionsSettled
<1>8. InOrder => Len(manifest'.sessions) >= Len(manifest.sessions)
  <2>1. CASE pc = "finish"
    BY <2>1, <1>2, Types DEF IInv, EndsAfterManifest
  <2>2. CASE pc = "loop" /\ Cur \notin Sessions
    BY <2>2, <1>2, Types DEF Cur, Sessions
  <2> QED
    BY <1>1, <2>1, <2>2
<1>9. ASSUME NEW s \in 1..Len(manifest.sessions), s <= Len(manifest'.sessions)
      PROVE  Follows(manifest'.sessions[s], manifest.sessions[s])
  BY <1>9, <1>2, Types DEF IInv, SessionsFollow
<1> QED
  BY <1>3, <1>4, <1>5, <1>6, <1>7, <1>8, <1>9 DEF IInv

-----------------------------------------------------------------------------

\* Every step keeps the invariant.
LEMMA NextCorrect == IInv /\ [Next]_vars => IInv'
<1> SUFFICES ASSUME IInv, [Next]_vars PROVE IInv'
  OBVIOUS
<1>1. CASE Start \/ RequestStop \/ UNCHANGED vars
  <2>1. UNCHANGED <<sessions, manifest, disk, audit, exit_ok, attempts>>
    BY <1>1 DEF Start, RequestStop, vars
  <2>2. stop' \in BOOLEAN
    BY <1>1 DEF Start, RequestStop, vars, IInv, TypeOK
  <2>3. pc' = pc \/ (pc = "down" /\ pc' = "loop")
    BY <1>1 DEF Start, RequestStop, vars
  <2> QED
    BY <2>1, <2>2, <2>3, QuietCorrect
<1>2. CASE KeepEntry
  BY <1>2, KeepCorrect
<1>3. CASE BeginCapture
  BY <1>3, BeginCorrect
<1>4. CASE \/ UnlinkBundles \/ Clean \/ WriteReport \/ OpenBundle \/ CloseBundle \/ BundleFails
           \/ ChildExits \/ ChildDies \/ CopyBundle
  BY <1>4, CaptureCorrect
<1>5. CASE ReadTornReport \/ Crash
  BY <1>5, DownCorrect
<1>6. CASE Record
  BY <1>6, RecordCorrect
<1>7. CASE WriteManifest
  BY <1>7, ManifestCorrect
<1> QED
  BY <1>1, <1>2, <1>3, <1>4, <1>5, <1>6, <1>7 DEF Next

\* The inductive invariant of the collection.
THEOREM CollectionCorrect == Spec => []IInv
  BY InitCorrect, NextCorrect, PTL DEF Spec

\* Every reachable state is well typed, for any plan and limits.
THEOREM CollectionTypes == Spec => []TypeOK
<1>1. IInv => TypeOK
  BY DEF IInv
<1> QED
  BY <1>1, CollectionCorrect, PTL

\* The bundle and metadata of a recorded session are in its directory, or in failed_audit
\* when the session failed, whatever is retried, killed or crashes.
THEOREM RecordsAreKept == Spec => []RecordedIsKept
<1>1. IInv => RecordedIsKept
  BY DEF IInv
<1> QED
  BY <1>1, CollectionCorrect, PTL

\* Only WriteManifest leaves a whole manifest that is not the one before.
LEMMA ManifestChanges ==
  ASSUME [Next]_vars, manifest' # manifest, manifest'.state = "whole"
  PROVE  WriteManifest
<1>1. ~Crash
  BY DEF Crash, CrashManifest
<1> QED
  BY <1>1 DEF Next, vars, Start, KeepEntry, BeginCapture, UnlinkBundles, Clean, WriteReport,
     OpenBundle, CloseBundle, BundleFails, ChildExits, ChildDies, childVars, ReadTornReport,
     CopyBundle, Record, RequestStop

\* With the quality gate, or without retries, no run shortens the manifest.
THEOREM ManifestKeepsEntries == Spec => EntriesAreKept
<1>1. IInv /\ [Next]_vars =>
        (InOrder => (manifest'.state = "whole" =>
                       Len(manifest'.sessions) >= Len(manifest.sessions)))
  <2> SUFFICES ASSUME IInv, [Next]_vars, InOrder, manifest'.state = "whole"
               PROVE  Len(manifest'.sessions) >= Len(manifest.sessions)
    OBVIOUS
  <2>1. CASE manifest' = manifest
    BY <2>1, Types
  <2>2. CASE manifest' # manifest
    BY <2>2, ManifestChanges, ManifestCorrect
  <2> QED
    BY <2>1, <2>2
<1> QED
  BY <1>1, CollectionCorrect, PTL DEF Spec, EntriesAreKept, InOrder

\* An entry is only replaced while it is neither completed nor at its retry limit, and then
\* counts one retry more.
THEOREM SettledEntriesStay == Spec => SettledStays
<1> DEFINE Step == manifest'.state = "whole" =>
              \A s \in 1..Len(manifest.sessions) :
                s <= Len(manifest'.sessions) =>
                  Follows(manifest'.sessions[s], manifest.sessions[s])
<1>1. IInv /\ [Next]_vars => Step
  <2> SUFFICES ASSUME IInv, [Next]_vars, manifest'.state = "whole",
                      NEW s \in 1..Len(manifest.sessions), s <= Len(manifest'.sessions)
               PROVE  Follows(manifest'.sessions[s], manifest.sessions[s])
    OBVIOUS
  <2>1. CASE manifest' = manifest
    BY <2>1 DEF Follows
  <2>2. CASE manifest' # manifest
    BY <2>2, ManifestChanges, ManifestCorrect
  <2> QED
    BY <2>1, <2>2
<1>2. Spec => [][Step]_vars
  BY <1>1, CollectionCorrect, PTL DEF Spec
<1> QED
  BY <1>2 DEF SettledStays, Follows
=============================================================================
