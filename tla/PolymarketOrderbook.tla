------------------------- MODULE PolymarketOrderbook -------------------------
(***************************************************************************)
(* PolymarketLocalOrderBook of marketdata/polymarket_orderbook.py, for one *)
(* token: the ladder kept from book and price_change messages, the best    *)
(* prices the exchange reports besides, and the quote made of both.        *)
(*                                                                         *)
(* Prices are whole multiples of the finest tick.  Of a level's size only  *)
(* its presence is kept: a level is in the ladder when its size is above   *)
(* zero.  Counters, samples, hashes and error texts are left out.          *)
(*                                                                         *)
(* A lifecycle message names its market by its "market" field, the         *)
(* condition id; the book has the market_id of its token's metadata, which *)
(* for a Gamma payload is another id (its "id").  A token without metadata *)
(* takes the id of its first message until a universe brings metadata;     *)
(* from then on the id stays.                                              *)
(***************************************************************************)
EXTENDS Integers

CONSTANTS
  EventId,         \* the id by which messages name the market
  MarketIds,       \* the ids its metadata may have
  Prices,          \* for each side, the prices its levels may have
  Modes,           \* the validation modes to start in
  ToleranceTicks,  \* best_validation_tolerance_ticks
  TickSizes        \* the tick sizes a market may have

Side == {"bid", "ask"}
Price == Prices["bid"] \cup Prices["ask"]

NoPrice == 0
MaybePrice == Price \cup {NoPrice}

ASSUME OrderbookAssumption ==
  /\ Prices \in [Side -> SUBSET (Nat \ {0})]
  /\ Modes \subseteq {"strict", "tolerant", "diagnostic"}
  /\ ToleranceTicks \in Nat /\ TickSizes \subseteq Nat \ {0}

VARIABLES
  mode,            \* best_validation_mode
  book,            \* the token's _TokenBook, but for its metadata
  market_id,       \* the id in the book's metadata
  market_invalid,  \* of the ids of its market, those in _market_invalid
  tick_size,       \* the tick size in the token's metadata
  message          \* what the last quote was made for, or "none"

vars == <<mode, book, market_id, market_invalid, tick_size, message>>

NoPrices == [s \in Side |-> NoPrice]

NewBook ==
  [levels |-> [s \in Side |-> {}], override |-> NoPrices, has_snapshot |-> FALSE,
   incomplete |-> TRUE, invalid |-> FALSE, ok |-> TRUE]

\* The best price of a side of the local ladder.
LocalBest(b, s) ==
  IF b.levels[s] = {} THEN NoPrice
  ELSE CHOOSE p \in b.levels[s] :
         \A q \in b.levels[s] : IF s = "bid" THEN q <= p ELSE p <= q

-----------------------------------------------------------------------------
(* Reported best prices.                                                            *)

Distance(p, q) == IF p < q THEN q - p ELSE p - q

Within(local, reported) == Distance(local, reported) <= ToleranceTicks * tick_size

Mismatch(local, reported) == local \notin {NoPrice, reported}

\* _apply_one_reported_best: the price reported for side s, against the ladder.
ApplyOneReported(b, s, reported) ==
  LET local == LocalBest(b, s)
  IN  CASE local = NoPrice ->
             [b EXCEPT !.ok = FALSE, !.incomplete = TRUE, !.override[s] = reported]
        [] local = reported ->
             [b EXCEPT !.override[s] = NoPrice]
        [] Mismatch(local, reported) /\ mode = "diagnostic" ->
             [b EXCEPT !.ok = FALSE]
        [] Mismatch(local, reported) /\ mode = "tolerant" /\ Within(local, reported) ->
             [b EXCEPT !.ok = TRUE]
        [] OTHER ->
             [b EXCEPT !.ok = FALSE, !.incomplete = TRUE, !.override[s] = reported]

\* A mutant of ApplyReportedBest: completeness is the ask's verdict, as ok is.
ApplyReportedBestLast(b, kind, reported) ==
  LET One(c, s) == IF reported[s] = NoPrice THEN c ELSE ApplyOneReported(c, s, reported[s])
  IN  IF b.has_snapshot
      THEN [One(One(b, "bid"), "ask") EXCEPT !.incomplete = One(b, "ask").incomplete]
      ELSE [b EXCEPT !.ok = FALSE, !.incomplete = TRUE]
\* _apply_reported_best: the bid, then the ask.
ApplyReportedBest(b, kind, reported) ==
  LET One(c, s) == IF reported[s] = NoPrice THEN c ELSE ApplyOneReported(c, s, reported[s])
  IN  IF b.has_snapshot THEN One(One(b, "bid"), "ask")
      ELSE [b EXCEPT !.ok = FALSE, !.incomplete = TRUE,
                     !.override = IF kind = "best_bid_ask" THEN reported ELSE @]

-----------------------------------------------------------------------------
(* The messages.                                                                    *)

\* What every message sets book.invalid to.
MarketInvalid == market_id \in market_invalid

\* apply_book: a snapshot replaces the ladder.
BookAppliedValid(levels) ==              \* a mutant of BookApplied: forgets the invalidation
  [levels |-> levels, override |-> NoPrices, has_snapshot |-> TRUE,
   incomplete |-> FALSE, invalid |-> FALSE, ok |-> TRUE]
BookApplied(levels) ==
  [levels |-> levels, override |-> NoPrices, has_snapshot |-> TRUE,
   incomplete |-> FALSE, invalid |-> MarketInvalid, ok |-> TRUE]

ApplyBook(levels) ==
  /\ book' = BookApplied(levels)
  /\ message' = [kind |-> "book", reported |-> NoPrices]
  /\ UNCHANGED <<mode, market_id, market_invalid, tick_size>>

\* apply_price_change: one level appears or disappears; a book that was given up stays
\* incomplete, whatever its ladder is now.
Changed(b, s, levels) ==
  [b EXCEPT !.levels[s] = levels, !.ok = TRUE, !.incomplete = @ \/ ~b.has_snapshot,
            !.invalid = MarketInvalid]

\* _clear_resolved_overrides.
ClearResolved(b) ==
  [b EXCEPT !.override = [s \in Side |-> IF @[s] = LocalBest(b, s) THEN NoPrice ELSE @[s]]]

ApplyPriceChange(s, levels, reported) ==
  /\ book' = ApplyReportedBest(ClearResolved(Changed(book, s, levels)), "price_change", reported)
  /\ message' = [kind |-> "price_change", reported |-> reported]
  /\ UNCHANGED <<mode, market_id, market_invalid, tick_size>>

\* apply_best_bid_ask: incompleteness is judged afresh, overrides are kept.
ApplyBestBidAsk(reported) ==
  /\ book' = ApplyReportedBest([book EXCEPT !.ok = TRUE, !.incomplete = ~book.has_snapshot,
                                            !.invalid = MarketInvalid],
                               "best_bid_ask", reported)
  /\ message' = [kind |-> "best_bid_ask", reported |-> reported]
  /\ UNCHANGED <<mode, market_id, market_invalid, tick_size>>

-----------------------------------------------------------------------------
(* Lifecycle and metadata.                                                          *)

\* The book is marked only when it goes by the id of the message.
MarkMarketInvalid ==
  /\ market_invalid' = market_invalid \cup {EventId}
  /\ book' = IF market_id = EventId THEN [book EXCEPT !.invalid = TRUE, !.incomplete = TRUE]
             ELSE book
  /\ UNCHANGED <<mode, market_id, tick_size, message>>

\* A tick_size_change; one that names no token reaches the book by the id, or not at all.
UpdateTickSize(size) ==
  /\ tick_size' = size
  /\ UNCHANGED <<mode, book, market_id, market_invalid, message>>

\* A new market universe has the token: its metadata comes into the book as it is.
UpdateTokenMetadata(id, size) ==
  /\ market_id \in {EventId, id}
  /\ market_id' = id /\ tick_size' = size
  /\ UNCHANGED <<mode, book, market_invalid, message>>

-----------------------------------------------------------------------------
Init ==
  /\ mode \in Modes
  /\ book = NewBook
  /\ market_id \in MarketIds \cup {EventId} /\ market_invalid = {}
  /\ tick_size \in TickSizes
  /\ message = [kind |-> "none", reported |-> NoPrices]

Reports == [Side -> MaybePrice]

Next ==
  \/ \E bids \in SUBSET Prices["bid"], asks \in SUBSET Prices["ask"] :
       ApplyBook([bid |-> bids, ask |-> asks])
  \/ \E s \in Side : \E p \in Prices[s], reported \in Reports :
       \/ ApplyPriceChange(s, book.levels[s] \cup {p}, reported)
       \/ ApplyPriceChange(s, book.levels[s] \ {p}, reported)
  \/ \E reported \in Reports : ApplyBestBidAsk(reported)
  \/ MarkMarketInvalid
  \/ \E size \in TickSizes :
       \/ UpdateTickSize(size)
       \/ \E id \in MarketIds : UpdateTokenMetadata(id, size)

Spec == Init /\ [][Next]_vars

-----------------------------------------------------------------------------
(* The quote that _quote makes of the book when a message has been applied.         *)

QuotedPrice(s) == IF book.override[s] # NoPrice THEN book.override[s] ELSE LocalBest(book, s)

SizeKnown(s) == book.override[s] = NoPrice /\ LocalBest(book, s) # NoPrice

StructurallyComplete ==
  LET bid == LocalBest(book, "bid")  ask == LocalBest(book, "ask")
  IN  book.has_snapshot /\ ~book.invalid /\ bid # NoPrice /\ ask # NoPrice /\ bid < ask

BookComplete == ~book.incomplete /\ ~book.invalid /\ StructurallyComplete

-----------------------------------------------------------------------------
\* Every field has its type, and a book without a snapshot is incomplete (the default of
\* _TokenBook and the rule of every message handler).
TypeOK ==
  /\ mode \in Modes /\ market_id \in MarketIds \cup {EventId}
  /\ market_invalid \subseteq {EventId} /\ tick_size \in TickSizes
  /\ book.levels \in [Side -> SUBSET Price] /\ book.override \in [Side -> MaybePrice]
  /\ book.has_snapshot \in BOOLEAN /\ book.ok \in BOOLEAN
  /\ book.incomplete \in BOOLEAN /\ book.invalid \in BOOLEAN
  /\ ~book.has_snapshot => book.incomplete
  /\ message.kind \in {"none", "book", "price_change", "best_bid_ask"}
  /\ message.reported \in Reports

\* Whether the price the last message reports agrees with the ladder, under the mode.
Agrees(s) ==
  LET local == LocalBest(book, s)  reported == message.reported[s]
  IN  \/ reported \in {NoPrice, local}
      \/ mode = "tolerant" /\ local # NoPrice /\ Within(local, reported)

\* The quote made for a message is complete only when both prices the message reports agree
\* with the ladder under the mode, the second one's agreement never hiding the first one's
\* disagreement; in diagnostic mode any report is allowed.
CompleteAgrees ==
  [][UNCHANGED <<tick_size, market_id, market_invalid>> /\ mode # "diagnostic" /\ BookComplete' =>
       \A s \in Side : Agrees(s)']_vars

\* Once the id in its metadata was announced invalid, and for as long as the token goes by
\* that id, it makes no complete quote, whatever snapshots and reports arrive late.
InvalidForGood == market_id \in market_invalid => ~BookComplete

\* A book given up on a mismatch is incomplete until the exchange sends a snapshot or
\* a best_bid_ask: no sequence of level changes makes it complete.
IncompleteIsKept ==
  [][book.incomplete /\ ~book'.incomplete => message'.kind \in {"book", "best_bid_ask"}]_vars

\* docs/phase3_orderbook_diagnostics.md:20: reported_best_validation_ok means that the most
\* recent reported best prices agree with the ladder under the mode and the tolerance.  The
\* code lets an ask within tolerance overwrite the verdict on a bid beyond it.
ReportedBestValidationOk ==
  [][message' # message /\ StructurallyComplete' /\ book'.ok =>
       \A s \in Side : Agrees(s)']_vars

\* docs/polymarket_notes.md:48: a best_bid_ask message gives an incomplete quote when a size
\* is unknown.  The code leaves an earlier override in place when it judges completeness
\* afresh.
SizeUnknownIsIncomplete ==
  /\ message.kind = "best_bid_ask" /\ message.reported \in [Side -> Price]
  /\ \E s \in Side : QuotedPrice(s) # NoPrice /\ ~SizeKnown(s)
  => ~BookComplete

\* docs/phase3_gap_measurement.md:100: resolved markets invalidate related local books.  The
\* book of a token with the id of Gamma metadata is not found, and its quotes stay complete.
ResolvedMarketIsIncomplete == market_invalid # {} => ~BookComplete
=============================================================================
