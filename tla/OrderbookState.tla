--------------------------- MODULE OrderbookState ---------------------------
(***************************************************************************)
(* The sequenced order book of one Binance symbol, class OrderbookState of *)
(* marketdata/orderbook_state.py, as operators on a record.  A book maps   *)
(* <<side, price>> to a size and 0 means that the level is absent.  Clocks,*)
(* ages and state_version (one more for each accepted call) are left out.  *)
(***************************************************************************)
EXTENDS Integers, FiniteSets

CONSTANTS
  Price,   \* the price levels a book can hold
  MaxSize  \* the largest size of a level

ASSUME BookAssumption == /\ Price \subseteq Nat \ {0} /\ IsFiniteSet(Price)
                         /\ MaxSize \in Nat

Level == {"bid", "ask"} \X Price
Book  == [Level -> 0..MaxSize]

NoId == -1                  \* the code's None where an update id may be missing
UpdateId == Nat
OptionalId == UpdateId \cup {NoId}

\* A depth update: ids first..final, the final id of the update before it
\* (previous_final_update_id, NoId where the stream has none) and whether every
\* level of it parses (_parse_levels reports no error).
DepthUpdate == [first : UpdateId, final : UpdateId, prev : OptionalId, valid : BOOLEAN]

StateRecord ==
  [book : Book, snapshot_ready : BOOLEAN, ready_to_emit : BOOLEAN,
   last_update_id : OptionalId, snapshot_last_update_id : OptionalId,
   required_fresh_snapshot_after_update_id : OptionalId,
   sequence_continuous : BOOLEAN, awaiting_first_delta_after_snapshot : BOOLEAN,
   generation : Nat]

EmptyBook == [l \in Level |-> 0]

InitialState ==
  [book |-> EmptyBook, snapshot_ready |-> FALSE, ready_to_emit |-> FALSE,
   last_update_id |-> NoId, snapshot_last_update_id |-> NoId,
   required_fresh_snapshot_after_update_id |-> NoId,
   sequence_continuous |-> FALSE, awaiting_first_delta_after_snapshot |-> FALSE,
   generation |-> 0]

-----------------------------------------------------------------------------
\* What validate reports of a book: a side without levels, a bid at or above an ask.
OneSideMissing(b) == \E side \in {"bid", "ask"} : \A p \in Price : b[<<side, p>>] = 0
CrossedBook(b) ==
  \E p, q \in Price : b[<<"bid", p>>] # 0 /\ b[<<"ask", q>>] # 0 /\ p >= q

ValidBook(b) == ~OneSideMissing(b) /\ ~CrossedBook(b)

\* The levels m that the sorted side of a book lists before l.
Better(m, l) == /\ m[1] = l[1]
                /\ IF l[1] = "bid" THEN m[2] > l[2] ELSE m[2] < l[2]

Ahead(b, l) == {m \in Level : Better(m, l) /\ b[m] # 0}

\* The n best levels of each side, as copy_snapshot takes them and as the exchange
\* answers a depth request: what is behind the n-th level of its side is cut off.
TopLevels(b, n) == {l \in Level : Cardinality(Ahead(b, l)) < n}

Within(b, levels) == [l \in Level |-> IF l \in levels THEN b[l] ELSE 0]

Top(b, n) == Within(b, TopLevels(b, n))

\* A mutant of MarkNotReady: the generation stays.
MarkNotReadySameGeneration(s, advance_generation, gap_boundary_update_id) ==
  [s EXCEPT !.snapshot_ready = FALSE,
            !.ready_to_emit = FALSE,
            !.sequence_continuous = FALSE,
            !.awaiting_first_delta_after_snapshot = FALSE,
            !.required_fresh_snapshot_after_update_id =
               IF gap_boundary_update_id # NoId THEN gap_boundary_update_id ELSE @]

MarkNotReady(s, advance_generation, gap_boundary_update_id) ==
  [s EXCEPT !.snapshot_ready = FALSE,
            !.ready_to_emit = FALSE,
            !.sequence_continuous = FALSE,
            !.awaiting_first_delta_after_snapshot = FALSE,
            !.generation = IF advance_generation THEN @ + 1 ELSE @,
            !.required_fresh_snapshot_after_update_id =
               IF gap_boundary_update_id # NoId THEN gap_boundary_update_id ELSE @]

\* A mutant of RefreshReadyToEmit: the book is not validated.
RefreshReadyUnchecked(s) ==
  [s EXCEPT !.ready_to_emit = s.snapshot_ready /\ s.sequence_continuous]

RefreshReadyToEmit(s) ==
  [s EXCEPT !.ready_to_emit = /\ s.snapshot_ready
                              /\ s.sequence_continuous
                              /\ ~s.awaiting_first_delta_after_snapshot
                              /\ ValidBook(s.book)]

-----------------------------------------------------------------------------
(* apply_snapshot: a snapshot b with id last_update_id; generation is NoId where   *)
(* the caller passes none.                                                         *)
SnapshotStatus(s, last_update_id, generation, valid) ==
  LET boundary == s.required_fresh_snapshot_after_update_id
  IN  IF generation # NoId /\ generation # s.generation THEN "stale_snapshot_generation"
      ELSE IF boundary # NoId /\ last_update_id <= boundary
           THEN "stale_snapshot_before_gap_boundary"
      ELSE IF ~valid THEN "snapshot_invalid_levels"
      ELSE "snapshot_loaded"

LoadBook(s, b, last_update_id) ==
  [s EXCEPT !.book = b,
            !.snapshot_ready = TRUE,
            !.sequence_continuous = FALSE,
            !.awaiting_first_delta_after_snapshot = TRUE,
            !.ready_to_emit = FALSE,
            !.last_update_id = last_update_id,
            !.snapshot_last_update_id = last_update_id,
            !.required_fresh_snapshot_after_update_id = NoId]

ApplySnapshot(s, b, last_update_id, generation, valid) ==
  LET status == SnapshotStatus(s, last_update_id, generation, valid)
  IN  CASE status = "snapshot_loaded"         -> LoadBook(s, b, last_update_id)
        [] status = "snapshot_invalid_levels" -> MarkNotReady(s, FALSE, NoId)
        [] OTHER                              -> s

-----------------------------------------------------------------------------
(* apply_delta: the depth update e, whose levels are the partial function changes.   *)

\* The first delta after a snapshot must straddle it, every other one must follow
\* the last one exactly; a stated previous id must be the last one in either case.
Bridges(e, last_update_id) == e.first <= last_update_id + 1 /\ last_update_id + 1 <= e.final

FirstDeltaBridges(s, e) ==
  s.awaiting_first_delta_after_snapshot => Bridges(e, s.snapshot_last_update_id)

DeltaFollowsAfterGap(s, e) ==               \* a mutant of DeltaFollows: gaps pass
  ~s.awaiting_first_delta_after_snapshot => e.first >= s.last_update_id + 1

DeltaFollows(s, e) ==
  ~s.awaiting_first_delta_after_snapshot => e.first = s.last_update_id + 1

PrevMatchesOnceBridged(s, e) ==             \* a mutant of PrevMatches: not for the first delta
  s.awaiting_first_delta_after_snapshot \/ e.prev = NoId \/ e.prev = s.last_update_id

PrevMatches(s, e) == e.prev = NoId \/ e.prev = s.last_update_id

DeltaStatus(s, e) ==
  IF ~s.snapshot_ready \/ s.last_update_id = NoId THEN "delta_before_snapshot"
  ELSE IF e.final <= s.last_update_id THEN "duplicate_update"
  ELSE IF ~PrevMatches(s, e) THEN "previous_final_update_id_mismatch"
  ELSE IF ~FirstDeltaBridges(s, e) THEN "sequence_bridge_failed"
  ELSE IF ~DeltaFollows(s, e) THEN "sequence_gap_or_reset"
  ELSE IF ~e.valid THEN "invalid_delta_levels"
  ELSE "delta_applied"

\* The statuses after which apply_delta has given up on the book it holds.
FailClosed == {"previous_final_update_id_mismatch", "sequence_bridge_failed",
               "sequence_gap_or_reset", "invalid_delta_levels"}

ApplyLevels(b, changes) ==
  [l \in Level |-> IF l \in DOMAIN changes THEN changes[l] ELSE b[l]]

AcceptDelta(s, e, changes) ==
  RefreshReadyToEmit(
    [s EXCEPT !.book = ApplyLevels(s.book, changes),
              !.last_update_id = e.final,
              !.awaiting_first_delta_after_snapshot = FALSE,
              !.sequence_continuous = TRUE])

ApplyDelta(s, e, changes) ==
  LET status == DeltaStatus(s, e)
  IN  CASE status = "delta_applied" -> AcceptDelta(s, e, changes)
        [] status \in FailClosed    -> MarkNotReady(s, TRUE, e.final)
        [] OTHER                    -> s
=============================================================================
