----------------------------- MODULE GapDetector -----------------------------
(***************************************************************************)
(* GapDetector of strategy/gap_detector.py with the parts of MarketState   *)
(* (state/market_state.py) it reads, for one market of one symbol; every   *)
(* handler treats the markets one by one and alike.  After a Binance move  *)
(* a pending gap is opened for the token of the move's direction, if that  *)
(* token could be bought, and later closed by exactly one observation.     *)
(*                                                                         *)
(* main._ingest_gap_binance and _ingest_gap_polymarket apply an event to   *)
(* the state and then pass it to the detector with no await between them,  *)
(* so one event is one step.  Time is kept as ages that grow together and  *)
(* stop at AgeBound; a handler runs in no time, so an event is never stale *)
(* itself.  Statistics and the cool-down of pre-entry rows are left out.   *)
(*                                                                         *)
(* A lifecycle event names its market by the "market" field of the message,*)
(* the condition id.  State and detector look it up under the market_id of *)
(* the metadata, which discovery takes from a payload's "market" or, as in *)
(* every Gamma payload, from its "id": then the event names no market they *)
(* know.  Quotes carry the id of the metadata.                             *)
(***************************************************************************)
EXTENDS Integers

CONSTANTS
  EventId,           \* the id by which lifecycle events name the market
  MarketIds,         \* the ids its metadata may have
  Quotes,            \* what a quote may say
  MinExitEdge,       \* min_exit_edge
  RepriceThreshold,  \* the effective reprice threshold, for the sum of bid and ask
  MaxEntrySpread,    \* max_entry_spread
  MaxEntryMove,      \* max_entry_price_move
  MaxPending,        \* max_pending_gap_ms
  BinanceStale,      \* binance_stale_ms
  PolymarketStale,   \* polymarket_stale_ms
  WarmupMax,         \* book_warmup_max_ms
  AgeBound           \* ages stop here

Direction == {"UP", "DOWN"}

\* Prices are whole ticks, NoPrice when the quote has none; sized says that the best ask's
\* size is known and not below the market's min_order_size.
Quote == [bid : Nat, ask : Nat, sized : BOOLEAN, snapshot : BOOLEAN, complete : BOOLEAN]
NoPrice == 0

ASSUME DetectorAssumption ==
  /\ Quotes \subseteq Quote
  /\ MinExitEdge \in Nat /\ RepriceThreshold \in Nat
  /\ MaxEntrySpread \in Nat /\ MaxEntryMove \in Nat
  /\ MaxPending \in Nat /\ BinanceStale \in Nat /\ PolymarketStale \in Nat
  /\ WarmupMax \in Nat /\ AgeBound \in Nat
  /\ MaxPending < AgeBound /\ BinanceStale < AgeBound
  /\ PolymarketStale < AgeBound /\ WarmupMax <= AgeBound

Age == 0..AgeBound

VARIABLES
  market_id,       \* the id in its metadata, and so in its quotes
  tracked,         \* the market is in the detector's universe
  phase,           \* its window: warmup, current, expired
  invalid,         \* of the ids of this market, those in _invalid_markets
  market_invalid,  \* and those in MarketState.market_invalid
  quote,           \* polymarket_quotes, for the directions whose token has one
  quote_age,       \* since each was received
  binance_age,     \* since the symbol's last Binance event
  pending,         \* _pending, for the directions that have a gap
  closed           \* the observations of the last step, by direction

vars == <<market_id, tracked, phase, invalid, market_invalid, quote, quote_age, binance_age, pending,
          closed>>

\* mid says whether _mark_mid_repricing has marked the gap, and when: within its lifetime
\* or later.
Gap == [entry_ask : Nat, before_mid : Nat, age : Age, mid : {"none", "in_time", "late"}]

Stage == {"none", "window", "timeout", "lifecycle"}

Lifecycle == {"tick_size_change", "market_resolved", "market_expired"}
Reason == {"repriced", "quote_stale", "market_invalidated", "book_incomplete", "entry_window",
           "max_observation_lifetime_reached"} \cup Lifecycle

\* Partial functions from directions, as the code's dicts are.
IsPartial(f, S) ==
  /\ f = [d \in DOMAIN f |-> f[d]] /\ DOMAIN f \subseteq Direction
  /\ \A d \in DOMAIN f : f[d] \in S
Nothing == [d \in {} |-> d]

-----------------------------------------------------------------------------
(* Observations.                                                                    *)

StageOf(reason) ==
  CASE reason = "repriced" -> "none"
    [] reason = "max_observation_lifetime_reached" -> "timeout"
    [] reason \in Lifecycle -> "lifecycle"
    [] OTHER -> "window"

\* What _observation_from_pending keeps of a gap.
Observation(gap, reason) ==
  [stage |-> StageOf(reason), reason |-> reason, entry_ask |-> gap.entry_ask,
   age |-> gap.age, mid |-> gap.mid]

\* _exit_reject_reason of an observation that timed out.
ExitRejectReason(obs) ==
  IF obs.mid = "none" THEN "no_mid_repricing_before_timeout"
  ELSE "no_executable_repricing_before_timeout"

TimedOut(gap) == gap.age > MaxPending

\* A mutant of CloseExpired: it leaves the gaps open.
CloseNoExpired(gaps, ended) ==
  /\ closed' = ended
  /\ pending' = [d \in DOMAIN gaps \ DOMAIN ended |-> gaps[d]]
\* _close_expired_pending, after a handler that left gaps and ended some of them.
CloseExpired(gaps, ended) ==
  LET open == DOMAIN gaps \ DOMAIN ended
      late == {d \in open : TimedOut(gaps[d])}
  IN  /\ closed' = [d \in DOMAIN ended \cup late |->
                      IF d \in DOMAIN ended THEN ended[d]
                      ELSE Observation(gaps[d], "max_observation_lifetime_reached")]
      /\ pending' = [d \in open \ late |-> gaps[d]]

-----------------------------------------------------------------------------
(* Binance events.                                                                  *)

\* The entry conditions that _fillable_before_repricing and _entry_window_end_reason share.
EntryAvailable(q) ==
  /\ q.ask # NoPrice /\ q.sized
  /\ q.bid # NoPrice /\ q.ask - q.bid <= MaxEntrySpread

Fillable(q) == q.complete /\ EntryAvailable(q)

\* _book_readiness_gate.  The warm-up is counted from the older of the tokens' last quotes;
\* without any quote it is counted from the start, but then no gap can be opened.
BookReady ==
  \/ DOMAIN quote = Direction /\ \A d \in Direction : quote[d].snapshot
  \/ \E d \in DOMAIN quote : quote_age[d] >= WarmupMax

Opens(d) ==
  /\ tracked /\ phase = "current" /\ BookReady
  /\ market_id \notin invalid \cup market_invalid
  /\ d \notin DOMAIN pending
  /\ d \in DOMAIN quote /\ quote_age[d] <= PolymarketStale /\ Fillable(quote[d])

NewGap(q) == [entry_ask |-> q.ask, before_mid |-> q.bid + q.ask, age |-> 0, mid |-> "none"]

\* A tick or book top in whose returns the detector sees no move, or a depth update.
BinanceQuiet ==
  /\ binance_age' = 0
  /\ CloseExpired(pending, Nothing)
  /\ UNCHANGED <<market_id, tracked, phase, invalid, market_invalid, quote, quote_age>>

\* A tick or book top with a move in direction d.
BinanceMove(d) ==
  /\ binance_age' = 0
  /\ IF Opens(d)
     THEN CloseExpired([e \in DOMAIN pending \cup {d} |->
                          IF e = d THEN NewGap(quote[d]) ELSE pending[e]], Nothing)
     ELSE CloseExpired(pending, Nothing)
  /\ UNCHANGED <<market_id, tracked, phase, invalid, market_invalid, quote, quote_age>>

-----------------------------------------------------------------------------
(* Polymarket quotes.                                                               *)

MarkMid(gap, q) ==
  IF /\ gap.mid = "none" /\ q.bid # NoPrice /\ q.ask # NoPrice
     /\ q.bid + q.ask >= gap.before_mid + RepriceThreshold
  THEN [gap EXCEPT !.mid = IF TimedOut(gap) THEN "late" ELSE "in_time"]
  ELSE gap

Repriced(gap, q) == q.bid > gap.entry_ask + MinExitEdge

EntryLost(gap, q) == ~EntryAvailable(q) \/ q.ask > gap.entry_ask + MaxEntryMove

\* A mutant of Verdict: an executable price is looked for before the timeout.
VerdictRepricedFirst(gap, q) ==
  CASE Repriced(gap, q) -> "repriced"
    [] ~Repriced(gap, q) /\ TimedOut(gap) -> "max_observation_lifetime_reached"
    [] OTHER -> "open"
\* A mutant of Verdict: the state of the book is not looked at.
VerdictAnyBook(gap, q) ==
  IF TimedOut(gap) THEN "max_observation_lifetime_reached"
  ELSE IF Repriced(gap, q) THEN "repriced"
  ELSE IF EntryLost(gap, q) THEN "entry_window"
  ELSE "open"
\* What a quote makes of a gap: the checks of _handle_polymarket_quote in their order.
Verdict(gap, q) ==
  IF TimedOut(gap) THEN "max_observation_lifetime_reached"
  ELSE IF binance_age > BinanceStale THEN "quote_stale"
  ELSE IF market_id \in invalid THEN "market_invalidated"
  ELSE IF ~q.complete THEN "book_incomplete"
  ELSE IF Repriced(gap, q) THEN "repriced"
  ELSE IF EntryLost(gap, q) THEN "entry_window"
  ELSE "open"

\* A quote for the token of direction d: MarketState.apply, then the detector.
PolymarketQuote(d, received) ==
  LET q == [received EXCEPT !.complete = @ /\ market_id \notin market_invalid]
      gaps == [e \in DOMAIN pending |-> IF e = d THEN MarkMid(pending[d], q) ELSE pending[e]]
      ended == {e \in DOMAIN pending \cap {d} : Verdict(gaps[e], q) # "open"}
  IN  /\ quote' = [e \in DOMAIN quote \cup {d} |-> IF e = d THEN q ELSE quote[e]]
      /\ quote_age' = [e \in DOMAIN quote \cup {d} |-> IF e = d THEN 0 ELSE quote_age[e]]
      /\ CloseExpired(gaps, [e \in ended |-> Observation(gaps[e], Verdict(gaps[e], q))])
      /\ UNCHANGED <<market_id, tracked, phase, invalid, market_invalid, binance_age>>

-----------------------------------------------------------------------------
(* Lifecycle and the market universe.                                               *)

\* Every gap is closed for the same reason.
CloseAll(reason) ==
  /\ pending' = Nothing
  /\ closed' = [d \in DOMAIN pending |-> Observation(pending[d], reason)]

\* What a lifecycle event does to the gaps: those of the market it names are closed.
CloseNamed(reason) ==
  \/ market_id = EventId /\ CloseAll(reason)
  \/ market_id # EventId /\ pending' = pending /\ closed' = Nothing

\* A tick_size_change without the new size; with it, gaps stay as they are.
TickSizeChange ==
  /\ invalid' = invalid \cup {EventId}
  /\ CloseNamed("tick_size_change")
  /\ UNCHANGED <<market_id, tracked, phase, market_invalid, quote, quote_age, binance_age>>

\* _invalidate_polymarket_quotes, by the id the quotes carry.
InvalidateQuotes ==
  quote' = [d \in DOMAIN quote |->
              [quote[d] EXCEPT !.complete = @ /\ market_id # EventId]]

\* A mutant of MarketResolved: only gaps of a window that is still current are closed.
MarketResolvedInWindow ==
  /\ invalid' = invalid \cup {EventId} /\ market_invalid' = market_invalid \cup {EventId}
  /\ InvalidateQuotes
  /\ IF phase = "current" THEN CloseNamed("market_resolved")
     ELSE pending' = pending /\ closed' = Nothing
  /\ UNCHANGED <<market_id, tracked, phase, quote_age, binance_age>>
\* market_resolved, closed, expired.
MarketResolved ==
  /\ invalid' = invalid \cup {EventId} /\ market_invalid' = market_invalid \cup {EventId}
  /\ InvalidateQuotes
  /\ CloseNamed("market_resolved")
  /\ UNCHANGED <<market_id, tracked, phase, quote_age, binance_age>>

\* A mutant of RemoveMarket: the gaps go without an observation.
RemoveMarketSilently ==
  /\ tracked' = FALSE /\ invalid' = {}
  /\ pending' = Nothing /\ closed' = Nothing
  /\ UNCHANGED <<market_id, phase, market_invalid, quote, quote_age, binance_age>>
\* update_markets with a universe that does not have the market.
RemoveMarket ==
  /\ tracked' = FALSE /\ invalid' = {}
  /\ CloseAll("market_expired")
  /\ UNCHANGED <<market_id, phase, market_invalid, quote, quote_age, binance_age>>

\* update_markets with a universe that has it: of the ids only the universe's are kept.
KeepMarket ==
  /\ tracked' = TRUE /\ invalid' = invalid \cap {market_id}
  /\ closed' = Nothing
  /\ UNCHANGED <<market_id, phase, market_invalid, quote, quote_age, binance_age, pending>>

-----------------------------------------------------------------------------
(* Time.                                                                            *)

Older(age) == IF age < AgeBound THEN age + 1 ELSE age

LaterPhases == CASE phase = "warmup" -> {"warmup", "current"}
                 [] phase = "current" -> {"current", "expired"}
                 [] OTHER -> {"expired"}

Tick ==
  /\ phase' \in LaterPhases
  /\ binance_age' = Older(binance_age)
  /\ quote_age' = [d \in DOMAIN quote_age |-> Older(quote_age[d])]
  /\ pending' = [d \in DOMAIN pending |-> [pending[d] EXCEPT !.age = Older(@)]]
  /\ closed' = Nothing
  /\ UNCHANGED <<market_id, tracked, invalid, market_invalid, quote>>

-----------------------------------------------------------------------------
Init ==
  /\ market_id \in MarketIds
  /\ tracked \in BOOLEAN /\ phase \in {"warmup", "current"}
  /\ invalid = {} /\ market_invalid = {}
  /\ quote = Nothing /\ quote_age = Nothing /\ binance_age = AgeBound
  /\ pending = Nothing /\ closed = Nothing

Next ==
  \/ BinanceQuiet
  \/ \E d \in Direction : BinanceMove(d)
  \/ \E d \in Direction, q \in Quotes : PolymarketQuote(d, q)
  \/ TickSizeChange \/ MarketResolved
  \/ RemoveMarket \/ KeepMarket
  \/ Tick

Spec == Init /\ [][Next]_vars

\* Time passes, and the Binance streams go on delivering (BinanceWSClient reconnects for
\* ever).  Nothing is assumed of Polymarket.
FairSpec == Spec /\ WF_vars(Tick) /\ WF_vars(BinanceQuiet)

-----------------------------------------------------------------------------
\* Every variable has its type, and ages are kept for the quotes there are.
TypeOK ==
  /\ market_id \in MarketIds
  /\ tracked \in BOOLEAN /\ phase \in {"warmup", "current", "expired"}
  /\ invalid \subseteq {EventId} /\ market_invalid \subseteq {EventId}
  /\ IsPartial(quote, Quote) /\ IsPartial(quote_age, Age)
  /\ DOMAIN quote_age = DOMAIN quote
  /\ binance_age \in Age
  /\ IsPartial(pending, Gap)
  /\ DOMAIN closed \subseteq Direction
  /\ \A d \in DOMAIN closed : closed[d].stage \in Stage /\ closed[d].reason \in Reason

\* No gap is pending on a market whose own id a lifecycle event has announced, to the
\* detector or to the state, or that is out of the universe (removal forgets what the
\* detector knew, so a market may come back).
NoGapOnInvalidMarket ==
  market_id \in invalid \cup market_invalid \/ ~tracked => pending = Nothing

\* The last quote in the state is one under which a pending gap's window is still open:
\* its book is complete and its token can still be bought near the entry price.
PendingIsTradable ==
  \A d \in DOMAIN pending :
    d \in DOMAIN quote /\ quote[d].complete /\ ~EntryLost(pending[d], quote[d])

\* A gap is never closed as a success after its lifetime, on stale Binance data, on a
\* market whose own id was announced invalid, or from a book that is not complete.
SuccessIsTimely ==
  \A d \in DOMAIN closed : closed[d].stage = "none" =>
    /\ closed[d].age <= MaxPending /\ binance_age <= BinanceStale
    /\ market_id \notin invalid \cup market_invalid
    /\ d \in DOMAIN quote /\ quote[d].complete /\ quote[d].bid > closed[d].entry_ask + MinExitEdge

\* Every gap that stops being pending is observed in that very step, and nothing else is
\* observed: gaps are not silently deleted.
GapsAreObserved ==
  [][/\ DOMAIN pending \ DOMAIN pending' = DOMAIN closed'
     /\ \A d \in DOMAIN closed' : closed'[d].entry_ask = pending[d].entry_ask]_vars

\* Every gap is closed in the end, even when no quote for its token ever arrives again.
GapsEnd == \A d \in Direction : d \in DOMAIN pending ~> d \notin DOMAIN pending

\* docs/phase4_runtime_correctness.md:65: market_resolved, closed and expired invalidate the
\* market and close its pending observations.  With the ids of Gamma metadata the code does
\* neither: gaps stay pending, and new ones are opened.
ResolvedMarketHasNoGap == EventId \in market_invalid => pending = Nothing

\* docs/phase3_gap_measurement.md:112 and 115: a gap that timed out before its mid was
\* repriced is reported as no_mid_repricing_before_timeout, and a late update does not
\* reclassify it.  The code marks the mid from the late quote before it looks at the time.
LateQuoteDoesNotReclassify ==
  \A d \in DOMAIN closed :
    closed[d].stage = "timeout"
      /\ ExitRejectReason(closed[d]) = "no_executable_repricing_before_timeout"
    => closed[d].mid = "in_time"
=============================================================================
