--------------------------- MODULE Phase41Capture ---------------------------
(***************************************************************************)
(* run_orderbook_phase41_capture of marketdata/orderbook_phase41.py: a     *)
(* reader task moves depth updates from the Binance websocket into a       *)
(* bounded asyncio queue; the capture task applies them to the book,       *)
(* writes a clean sample after each accepted one, and fetches a REST       *)
(* snapshot at the start and after every rejection that loses the book.    *)
(* The two tasks interleave at the capture task's awaits.                  *)
(*                                                                         *)
(* The exchange is external.  Its book is the constant History: History[n] *)
(* is the book after update n, Touch[n] the levels update n writes.  A     *)
(* snapshot holds the best Limit levels of each side only, and the levels  *)
(* behind them stay unknown to the local book until an update writes them. *)
(***************************************************************************)
EXTENDS OrderbookState, Sequences, FiniteSets

CONSTANTS
  LastId,        \* bound: the exchange makes the updates 1..LastId
  History,       \* the exchange's book after each update
  Touch,         \* the levels each update writes
  Limit,         \* limit of the depth request: levels a side of a snapshot
  DepthN,        \* depth_n: levels a side of a sample
  QueueSize,     \* maxsize of the asyncio queue
  MaxAttempts,   \* max_attempts of _load_fresh_snapshot_with_bridge_retry
  MaxFaults,     \* bound: malformed, duplicated or lost messages in one run
  PrevIds        \* whether updates carry previous_final_update_id

\* A level no update in m+1..n writes is the same in the books m and n: the
\* exchange reports every change.
ASSUME ExchangeAssumption ==
  /\ LastId \in Nat
  /\ History \in [0..LastId -> Book]
  /\ Touch \in [1..LastId -> SUBSET Level]
  /\ \A m, n \in 0..LastId : \A l \in Level :
       (m <= n /\ \A i \in (m + 1)..n : l \notin Touch[i]) => History[m][l] = History[n][l]

ASSUME CaptureAssumption ==
  /\ Limit \in Nat \ {0}
  /\ DepthN \in Nat \ {0}
  /\ QueueSize \in Nat \ {0}
  /\ MaxAttempts \in Nat \ {0}
  /\ MaxFaults \in Nat
  /\ PrevIds \in BOOLEAN

VARIABLES
  exchange_id,   \* the exchange's newest update
  sent,          \* the newest update the connection has passed to the reader, or lost
  faults,        \* message faults so far
  queue,         \* the asyncio queue
  pc,            \* where the capture task is
  attempt,       \* the current attempt of the snapshot loop
  state,         \* the OrderbookState
  feed_age,      \* of the last processed message, against the feed-stale threshold
  stale_open,    \* a feed-stale period is open
  blockers,      \* the counters evaluate_phase_4_1_pass looks at that are not 0
  sample,        \* the last clean sample
  known,         \* ghost: the levels the snapshot reached or an applied update wrote
  read,          \* ghost: the ids the reader took off the wire
  applied        \* ghost: the ids of the accepted deltas

vars == <<exchange_id, sent, faults, queue, pc, attempt, state, feed_age, stale_open,
          blockers, sample, known, read, applied>>

exchangeVars == <<exchange_id, sent, faults, read>>
captureVars  == <<pc, attempt, state, feed_age, stale_open, sample, known, applied>>

Blocker == {"sequence_gap_count", "crossed_book_count", "one_side_missing_count",
            "sample_before_ready_count", "invalid_delta_count",
            "previous_final_update_id_mismatch_count", "feed_receive_stale_count",
            "bridge_missing_after_snapshot_count", "first_delta_bridge_failed_count",
            "queue_dropped_messages"}

\* A clean sample; known is the ghost at the time it was taken.
Sample == [generation : Nat, last_update_id : OptionalId, book : Book, known : SUBSET Level]
NoSample == [generation |-> 0, last_update_id |-> NoId, book |-> EmptyBook, known |-> {}]

PC == {"initial_wait", "fetching", "backoff", "loop", "done", "failed"}

Running == pc \notin {"done", "failed"}

\* The ids and the levels that the update e reports; the ids that wait in the queue.
Ids(e) == e.first..e.final
Queued == UNION {Ids(queue[i]) : i \in 1..Len(queue)}
Changes(e) == [l \in UNION {Touch[i] : i \in Ids(e)} |-> History[e.final][l]]

Init ==
  /\ exchange_id = 0 /\ sent = 0 /\ faults = 0 /\ read = {}
  /\ queue = <<>>
  /\ pc = "initial_wait" /\ attempt = 1
  /\ state = InitialState
  /\ feed_age = "none" /\ stale_open = FALSE
  /\ blockers = {}
  /\ sample = NoSample
  /\ known = {}
  /\ applied = {}

-----------------------------------------------------------------------------
(* The exchange, the connection and the reader task.                                *)

ExchangeUpdate ==
  /\ exchange_id < LastId
  /\ exchange_id' = exchange_id + 1
  /\ UNCHANGED <<sent, faults, read, queue, blockers, captureVars>>

\* A mutant of Enqueue: the drop is not counted.
EnqueueSilently(e) ==
  queue' = (IF Len(queue) < QueueSize THEN Append(queue, e) ELSE queue) /\ UNCHANGED blockers

\* _reader: put_nowait, and a full queue drops the update and counts it.
Enqueue(e) ==
  IF Len(queue) < QueueSize
  THEN queue' = Append(queue, e) /\ UNCHANGED blockers
  ELSE blockers' = blockers \cup {"queue_dropped_messages"} /\ UNCHANGED queue

Receive(u, valid) ==
  /\ Running
  /\ u \in (sent + 1)..exchange_id
  /\ valid \/ faults < MaxFaults
  /\ Enqueue([first |-> sent + 1, final |-> u,
              prev |-> IF PrevIds THEN sent ELSE NoId, valid |-> valid])
  /\ sent' = u
  /\ faults' = IF valid THEN faults ELSE faults + 1
  /\ read' = read \cup (sent + 1)..u
  /\ UNCHANGED <<exchange_id, captureVars>>

\* The stream repeats updates that it has sent, up to the newest one.
ReceiveAgain(f) ==
  /\ Running
  /\ faults < MaxFaults
  /\ f \in 1..sent
  /\ Enqueue([first |-> f, final |-> sent, prev |-> IF PrevIds THEN f - 1 ELSE NoId,
              valid |-> TRUE])
  /\ faults' = faults + 1
  /\ read' = read \cup f..sent
  /\ UNCHANGED <<exchange_id, sent, captureVars>>

\* BinanceWSClient.stream reconnects after an error; the updates in between are
\* lost, and nothing tells the capture task.
Reconnect(u) ==
  /\ Running
  /\ faults < MaxFaults
  /\ u \in (sent + 1)..exchange_id
  /\ sent' = u
  /\ faults' = faults + 1
  /\ UNCHANGED <<exchange_id, read, queue, blockers, captureVars>>

\* feed_receive_stale_after_ms pass after the last processed message was received.
FeedAges ==
  /\ Running
  /\ feed_age = "recent"
  /\ feed_age' = "old"
  /\ UNCHANGED <<exchangeVars, queue, blockers, pc, attempt, state, stale_open, sample,
                 known, applied>>

-----------------------------------------------------------------------------
(* The capture task.                                                                *)

\* _wait_for_initial_depth_buffer returns: an update is queued, or 5 seconds passed.
InitialWaitEnds ==
  /\ pc = "initial_wait"
  /\ pc' = "fetching" /\ attempt' = 1
  /\ UNCHANGED <<exchangeVars, queue, blockers, state, feed_age, stale_open, sample, known,
                 applied>>

\* purge_queued_depth_updates_after_snapshot keeps the first update that straddles the
\* snapshot and what is behind it.  Final ids never decrease along the queue, so the
\* old updates it also drops are all ahead of that one (PurgeMatchesLoop).
FirstBridge(k, L) ==
  /\ k \in 1..(Len(queue) + 1)
  /\ \A i \in 1..(k - 1) : ~Bridges(queue[i], L)
  /\ k <= Len(queue) => Bridges(queue[k], L)

BridgeMissing(L) ==
  /\ \A i \in 1..Len(queue) : ~Bridges(queue[i], L)
  /\ \E i \in 1..Len(queue) : queue[i].final > L

\* What a snapshot of the exchange's book m holds, and the levels it says anything about.
Snapshot       == [m \in 0..LastId |-> Top(History[m], Limit)]
SnapshotLevels == [m \in 0..LastId |-> TopLevels(History[m], Limit)]

\* _load_fresh_snapshot from the response on: load_snapshot, then
\* purge_queue_after_snapshot with the snapshot's id, whether or not it was accepted.
\* The response may be of any book up to the exchange's newest.
SnapshotArrives(L, valid, k) ==
  LET loaded  == ApplySnapshot(state, Snapshot[L], L, NoId, valid)
      status  == SnapshotStatus(state, L, NoId, valid)
      missing == BridgeMissing(L)
  IN  /\ pc = "fetching"
      /\ L <= exchange_id
      /\ valid \/ faults < MaxFaults
      /\ faults' = IF valid THEN faults ELSE faults + 1
      /\ FirstBridge(k, L)
      /\ queue' = SubSeq(queue, k, Len(queue))
      /\ state' = IF missing THEN MarkNotReady(loaded, TRUE, NoId) ELSE loaded
      /\ known' = IF status = "snapshot_loaded" THEN SnapshotLevels[L] ELSE known
      /\ stale_open' = (stale_open /\ status # "snapshot_loaded")
      /\ blockers' = IF missing THEN blockers \cup {"bridge_missing_after_snapshot_count"}
                                ELSE blockers
      /\ pc' = IF missing THEN "backoff" ELSE "loop"
      /\ UNCHANGED <<exchange_id, sent, read, attempt, feed_age, sample, applied>>

\* The request fails: the exception leaves the capture through its finally block.
SnapshotFails ==
  /\ pc = "fetching"
  /\ pc' = "failed"
  /\ UNCHANGED <<exchangeVars, queue, blockers, attempt, state, feed_age, stale_open, sample,
                 known, applied>>

AttemptLeftOffByOne == attempt <= MaxAttempts   \* a mutant of AttemptLeft
AttemptLeft == attempt < MaxAttempts

\* The sleep after an attempt without a bridge, the last attempt included.
BackoffEnds ==
  /\ pc = "backoff"
  /\ IF AttemptLeft
     THEN pc' = "fetching" /\ attempt' = attempt + 1
     ELSE pc' = "loop" /\ UNCHANGED attempt
  /\ UNCHANGED <<exchangeVars, queue, blockers, state, feed_age, stale_open, sample, known,
                 applied>>

\* The counters process_depth_update raises for the outcome of a delta.
RaisedBy(status, book) ==
  CASE status = "delta_before_snapshot" -> {"sample_before_ready_count"}
    [] status = "sequence_gap_or_reset" -> {"sequence_gap_count"}
    [] status = "sequence_bridge_failed" ->
         {"sequence_gap_count", "first_delta_bridge_failed_count"}
    [] status = "previous_final_update_id_mismatch" ->
         {"previous_final_update_id_mismatch_count"}
    [] status = "invalid_delta_levels" -> {"invalid_delta_count"}
    [] status = "delta_applied" -> (IF OneSideMissing(book) THEN {"one_side_missing_count"} ELSE {})
                                   \cup (IF CrossedBook(book) THEN {"crossed_book_count"} ELSE {})
    [] OTHER -> {}

\* A mutant of Recovers: only on a broken sequence.
RecoversOnGap(status) == status \in FailClosed

\* The statuses that make the capture loop load a fresh snapshot.
Recovers(status) == status \in FailClosed \cup {"delta_before_snapshot"}

\* One round of the capture loop with an update: process_depth_update, and where the
\* book is lost the start of the recovery.  A late update (its book older than
\* stale_after_ms or its queue lag severe) is applied but its sample is blocked.
Process(late) ==
  LET e      == Head(queue)
      status == DeltaStatus(state, e)
      next   == ApplyDelta(state, e, Changes(e))
  IN  /\ pc = "loop"
      /\ queue # <<>>
      /\ queue' = Tail(queue)
      /\ state' = next
      /\ feed_age' = "recent" /\ stale_open' = FALSE
      /\ blockers' = blockers \cup RaisedBy(status, next.book)
      /\ applied' = IF status = "delta_applied" THEN applied \cup Ids(e) ELSE applied
      /\ known' = IF status = "delta_applied" THEN known \cup DOMAIN Changes(e) ELSE known
      /\ sample' = IF status = "delta_applied" /\ next.ready_to_emit /\ ~late
                   THEN [generation |-> next.generation,
                         last_update_id |-> next.last_update_id,
                         book |-> Top(next.book, DepthN), known |-> known']
                   ELSE sample
      /\ IF Recovers(status) THEN pc' = "fetching" /\ attempt' = 1
                             ELSE UNCHANGED <<pc, attempt>>
      /\ UNCHANGED exchangeVars

\* One round without an update: wait_for timed out, check_stale_periods.  An update may
\* have been queued by the time the check reads the queue's size.
CheckStalePeriods ==
  LET stale == feed_age = "old" /\ queue = <<>>
  IN  /\ pc = "loop"
      /\ stale_open' = stale
      /\ IF stale /\ ~stale_open
         THEN /\ state' = MarkNotReady(state, TRUE, NoId)
              /\ blockers' = blockers \cup {"feed_receive_stale_count"}
         ELSE UNCHANGED <<state, blockers>>
      /\ UNCHANGED <<exchangeVars, queue, pc, attempt, feed_age, sample, known, applied>>

\* duration_sec is over: the reader is cancelled and the report is written.
DeadlinePasses ==
  /\ pc = "loop"
  /\ pc' = "done"
  /\ UNCHANGED <<exchangeVars, queue, blockers, attempt, state, feed_age, stale_open, sample,
                 known, applied>>

Finished == ~Running /\ UNCHANGED vars

-----------------------------------------------------------------------------
Reader == \/ \E u \in 1..LastId, valid \in BOOLEAN : Receive(u, valid)
          \/ \E f \in 1..LastId : ReceiveAgain(f)
          \/ \E u \in 1..LastId : Reconnect(u)

Respond == \E L \in 0..LastId, valid \in BOOLEAN, k \in 1..(Len(queue) + 1) :
             SnapshotArrives(L, valid, k)

Next == \/ ExchangeUpdate \/ Reader \/ FeedAges
        \/ InitialWaitEnds \/ Respond \/ SnapshotFails \/ BackoffEnds
        \/ \E late \in BOOLEAN : Process(late)
        \/ CheckStalePeriods \/ DeadlinePasses \/ Finished

Spec == Init /\ [][Next]_vars

(* The capture task keeps running: its sleeps end, a request is answered or fails, *)
(* and a queued update is taken.                                                   *)
FairSpec == /\ Spec
            /\ WF_vars(InitialWaitEnds)
            /\ WF_vars(Respond \/ SnapshotFails)
            /\ WF_vars(BackoffEnds)
            /\ WF_vars(\E late \in BOOLEAN : Process(late))

-----------------------------------------------------------------------------
TypeOK ==
  /\ exchange_id \in 0..LastId
  /\ sent \in 0..exchange_id
  /\ faults \in 0..MaxFaults
  /\ queue \in Seq(DepthUpdate) /\ Len(queue) <= QueueSize
  /\ pc \in PC /\ attempt \in 1..MaxAttempts
  /\ state \in StateRecord
  /\ feed_age \in {"none", "recent", "old"} /\ stale_open \in BOOLEAN
  /\ blockers \subseteq Blocker
  /\ sample \in Sample
  /\ known \subseteq Level
  /\ read \subseteq 1..LastId /\ applied \subseteq 1..LastId

\* The levels hold everything that some snapshot, no newer than update id, reached.
Reaches(levels, id) == \E m \in 0..id : SnapshotLevels[m] \subseteq levels

\* While a snapshot is loaded, the book holds exactly what the exchange's book at its
\* last_update_id has on the levels the snapshot reached and those updates wrote since,
\* whatever was lost, repeated, dropped or purged before: what apply_snapshot's bridge
\* rule and apply_delta's sequence checks are for.  It is empty on every other level, also
\* where the exchange is not: the snapshot request asks for limit levels a side.
BookFaithful ==
  state.snapshot_ready =>
    /\ state.last_update_id \in 0..exchange_id
    /\ state.book = Within(History[state.last_update_id], known)
    /\ Reaches(known, state.last_update_id)

\* The updates in the queue are ones the connection has passed.
QueueInRange ==
  \A i \in 1..Len(queue) : queue[i].first \in 1..queue[i].final /\ queue[i].final <= sent

\* The bridge rule reads snapshot_last_update_id, the other checks last_update_id; while
\* a bridge is awaited they are one id.
AwaitsOwnSnapshot ==
  state.awaiting_first_delta_after_snapshot =>
    state.snapshot_last_update_id = state.last_update_id

\* Every clean sample written is a valid book, and its depth_n levels are the best of those
\* the exchange had at the sample's last_update_id on the levels known to the capture.  So
\* they are the exchange's own best whenever those are all known.
SampleFaithful ==
  sample # NoSample =>
    LET exchange == History[sample.last_update_id]
    IN  /\ sample.last_update_id \in 0..exchange_id
        /\ Reaches(sample.known, sample.last_update_id)
        /\ sample.book = Top(Within(exchange, sample.known), DepthN)
        /\ ValidBook(sample.book)
        /\ (\A l \in Level : Top(exchange, DepthN)[l] # 0 => l \in sample.known)
             => sample.book = Top(exchange, DepthN)

\* What one might take a clean sample for, and the code does not give: the exchange's best
\* depth_n levels.  A level behind the snapshot's limit is missing once the price reaches it.
SampleIsExchangeTop ==
  sample # NoSample => sample.book = Top(History[sample.last_update_id], DepthN)

\* The queue keeps the order of the wire, which the purge relies on.
QueueOrdered ==
  \A i, j \in 1..Len(queue) : i <= j => queue[i].final <= queue[j].final

\* A snapshot is only ever fetched when the capture holds none: a fetch never throws a
\* good book away.
FetchesBlind == pc \in {"initial_wait", "fetching", "backoff"} => ~state.snapshot_ready

\* The inductive invariant of the proofs.
CaptureInvariant == /\ TypeOK /\ QueueInRange /\ QueueOrdered /\ AwaitsOwnSnapshot
                    /\ BookFaithful /\ SampleFaithful /\ FetchesBlind

\* What makes GenerationUnbroken inductive: as long as the generation of the last sample
\* lasts, the book is in sequence and every update since the sample has been applied.
SampleLinked ==
  /\ state.sequence_continuous => ~state.awaiting_first_delta_after_snapshot
  /\ sample # NoSample =>
       /\ sample.generation <= state.generation
       /\ sample.generation = state.generation =>
            /\ state.snapshot_ready /\ state.sequence_continuous
            /\ (sample.last_update_id + 1)..state.last_update_id \subseteq applied

\* Between two samples with one generation_id no update is missing: the consumers of the
\* samples (the labelled dataset) take a generation for an unbroken stretch of the book.
GenerationUnbroken ==
  [][sample' # sample /\ sample # NoSample /\ sample'.generation = sample.generation
     => (sample.last_update_id + 1)..sample'.last_update_id \subseteq applied']_vars

\* phase_4_1_pass: once deltas are applied, a passed capture has applied every update it
\* read, except what is still queued at the deadline, with no hole in between.
PassMeansNoLoss ==
  pc = "done" /\ blockers = {} =>
    \A a \in applied : \A i \in a..exchange_id :
      (i \in read \ Queued \/ \E b \in applied : i <= b) => i \in applied

\* What makes PassMeansNoLoss inductive: while no counter has been raised, an update that
\* was read is queued or no newer than the book, and from the first update applied to the
\* book's own id there is no hole.  A lost book shows in the counters.
NothingLost ==
  blockers = {} =>
    /\ pc # "backoff"
    /\ pc \in {"initial_wait", "fetching"} => read \subseteq Queued
    /\ pc \in {"loop", "done"} /\ state.snapshot_ready =>
         read \subseteq Queued \cup 0..state.last_update_id
    /\ applied # {} => pc \in {"loop", "done"} /\ state.snapshot_ready
    /\ \A a \in applied : a <= state.last_update_id
                           /\ a..state.last_update_id \subseteq applied

\* The previous id that an update states is the one before its first.
QueueStatesPrevious == PrevIds => \A i \in 1..Len(queue) : queue[i].prev = queue[i].first - 1

\* With previous_final_update_id an update is applied whole, also the one that bridges a
\* snapshot: none of its levels are from before the book it is applied to.
UpdatesAppliedWhole ==
  [][PrevIds /\ state'.sequence_continuous /\ state'.last_update_id # state.last_update_id
     => Head(queue).first = state.last_update_id + 1]_vars

\* The purge keeps what the loop of purge_queued_depth_updates_after_snapshot keeps:
\* behind the bridge there is no old update left for the loop to drop.
PurgeMatchesLoop ==
  \A L \in 0..LastId, k \in 1..(Len(queue) + 1) :
    FirstBridge(k, L) => \A i \in k..Len(queue) : queue[i].final > L

\* The capture implements SampleFeed: it is blind until a delta has bridged the snapshot.
Feed == INSTANCE SampleFeed WITH
          view <- IF state.snapshot_ready /\ state.sequence_continuous
                  THEN state.last_update_id ELSE NoId,
          generation <- state.generation,
          reach <- IF state.snapshot_ready /\ state.sequence_continuous THEN known ELSE {}

ImplementsSampleFeed == Feed!FeedSpec

\* An update that arrives while no snapshot is loaded makes the capture fetch one: a book
\* lost to a quiet feed or a failed recovery is not lost for good.
LostBookIsFetched ==
  (pc = "loop" /\ ~state.snapshot_ready /\ queue # <<>>)
    ~> (pc \in {"fetching", "done", "failed"})
=============================================================================
