---------------------------- MODULE MonitorProofs ----------------------------
(***************************************************************************)
(* Proofs about what the monitor's process runs: the subscription to the   *)
(* Polymarket market stream, the token book it feeds, and the shutdown     *)
(* with the event logger.  The three specifications are independent; each  *)
(* part of this module is about one of them.                               *)
(***************************************************************************)
EXTENDS PolymarketSubscription, PolymarketOrderbook, GapMonitor, TLAPS

(***************************************************************************)
(* PolymarketSubscription, for every set of tokens and any number of       *)
(* universe updates and network failures.                                  *)
(***************************************************************************)
\* The inductive invariant: a message that is being sent asks for the runtime universe, or
\* the connection is about to be closed; what is kept afterwards inherits that.
SentIsInSync == pc = "send" /\ socket = "open" /\ ~closing => asked = token_ids

SubscriptionInvariant == SubscriptionTypeOK /\ SentIsInSync /\ KeptIsInSync /\ MatchesOutsideTransition

\* A universe is a set of tokens.
LEMMA UniverseIsTokens == Universe \subseteq SUBSET Token
BY DEF Universe

\* The invariant of the subscription holds at first.
LEMMA InitSubscription == SubscriptionInit => SubscriptionInvariant
<1> SUFFICES ASSUME SubscriptionInit PROVE SubscriptionInvariant
  OBVIOUS
<1>1. version \in 0..MaxUpdates /\ active_version \in -1..version /\ drops \in 0..MaxDrops
  BY SubscriptionAssumption DEF SubscriptionInit
<1>2. SubscriptionTypeOK
  BY <1>1 DEF SubscriptionInit, SubscriptionTypeOK
<1>. QED
  BY <1>2 DEF SubscriptionInit, SubscriptionInvariant, SentIsInSync, KeptIsInSync, MatchesOutsideTransition

\* A universe update, at whatever await stream is suspended.
LEMMA UpdateSubscription ==
  ASSUME SubscriptionInvariant, NEW tokens \in Universe, UpdateMarkets(tokens)
  PROVE  SubscriptionInvariant'
<1> USE DEF SubscriptionInvariant, UpdateMarkets, ScheduleClose, HasActiveWebsocket, active
<1>1. SubscriptionTypeOK'
  BY SubscriptionAssumption DEF SubscriptionTypeOK
<1>2. SentIsInSync' /\ KeptIsInSync'
  BY DEF SubscriptionTypeOK, SentIsInSync, KeptIsInSync
<1>3. MatchesOutsideTransition'
  BY DEF MatchesOutsideTransition
<1>. QED BY <1>1, <1>2, <1>3

\* The steps of stream.
LEMMA StreamSubscription ==
  ASSUME SubscriptionInvariant, Stream \/ Receive
  PROVE  SubscriptionInvariant'
<1> USE DEF SubscriptionInvariant, runtime, active
<1>1. CASE Connect
  <2>1. SubscriptionTypeOK'
    BY <1>1, UniverseIsTokens DEF Connect, SubscriptionTypeOK
  <2>. QED BY <1>1, <2>1 DEF Connect, SentIsInSync, KeptIsInSync, MatchesOutsideTransition
<1>2. CASE SendReturns
  <2>1. SubscriptionTypeOK'
    <3>1. active_version' \in -1..version' /\ active_token_ids' \in SUBSET Token
      BY <1>2, UniverseIsTokens, SubscriptionAssumption DEF SendReturns, RecordActive, SubscriptionTypeOK
    <3>. QED BY <1>2, <3>1 DEF SendReturns, SubscriptionTypeOK
  <2>2. KeptIsInSync'
    BY <1>2 DEF SendReturns, SentIsInSync, KeptIsInSync
  <2>. QED
    BY <1>2, <2>1, <2>2 DEF SendReturns, RecordActive, SentIsInSync, MatchesOutsideTransition
<1>3. CASE CloseReturns \/ Raise \/ BackoffEnds
  <2>1. SubscriptionTypeOK'
    BY <1>3 DEF CloseReturns, Raise, BackoffEnds, SubscriptionTypeOK
  <2>. QED
    BY <1>3, <2>1
    DEF CloseReturns, Raise, BackoffEnds, SentIsInSync, KeptIsInSync, MatchesOutsideTransition
<1>4. CASE Receive
  <2>1. SubscriptionTypeOK'
    BY <1>4 DEF Receive, CheckVersion, SubscriptionTypeOK
  <2>. QED
    BY <1>4, <2>1
    DEF Receive, CheckVersion, SentIsInSync, KeptIsInSync, MatchesOutsideTransition
<1>. QED BY <1>1, <1>2, <1>3, <1>4 DEF Stream

\* The close task and the network.
LEMMA NetworkSubscription ==
  ASSUME SubscriptionInvariant, CloseTask \/ Drop \/ ConnectFails \/ UNCHANGED subscriptionVars
  PROVE  SubscriptionInvariant'
<1> USE DEF SubscriptionInvariant, CloseTask, Drop, ConnectFails, subscriptionVars, runtime, active
<1>1. SubscriptionTypeOK'
  <2>1. UNCHANGED <<token_ids, version, active_token_ids, active_version, asked, server, transition>>
    OBVIOUS
  <2>2. drops' \in 0..MaxDrops
    BY SubscriptionAssumption DEF SubscriptionTypeOK
  <2>3. /\ socket' \in {"none", "open", "closed"} /\ closing' \in BOOLEAN
        /\ pc' \in {"connect", "send", "receive", "close", "backoff"} /\ reconnecting' \in BOOLEAN
    BY DEF SubscriptionTypeOK
  <2>. QED BY <2>1, <2>2, <2>3 DEF SubscriptionTypeOK
<1>. QED BY <1>1 DEF SentIsInSync, KeptIsInSync, MatchesOutsideTransition

-----------------------------------------------------------------------------
\* Every reachable state satisfies the inductive invariant.
THEOREM SubscriptionCorrect == SubscriptionSpec => []SubscriptionInvariant
<1>1. SubscriptionInvariant /\ [SubscriptionNext]_subscriptionVars => SubscriptionInvariant'
  BY UpdateSubscription, StreamSubscription, NetworkSubscription DEF SubscriptionNext
<1>. QED BY <1>1, InitSubscription, PTL DEF SubscriptionSpec

\* The fields, the versions and the connection have the types stream relies on.
THEOREM SubscriptionTypes == SubscriptionSpec => []SubscriptionTypeOK
BY SubscriptionCorrect, PTL DEF SubscriptionInvariant

\* Outside a transition the recorded token set is the runtime universe.
THEOREM RecordedMatches == SubscriptionSpec => []MatchesOutsideTransition
BY SubscriptionCorrect, PTL DEF SubscriptionInvariant

\* A connection that is not about to be closed is subscribed to the runtime universe,
\* also when the universe changed while the subscription was being sent.
THEOREM KeptSubscribed == SubscriptionSpec => []KeptIsInSync
BY SubscriptionCorrect, PTL DEF SubscriptionInvariant

----------------------------------------------------------------------------
(***************************************************************************)
(* PolymarketOrderbook, for any prices, tick sizes, tolerance and          *)
(* validation modes: types, invalid markets, the agreement of a complete   *)
(* quote with the prices reported with it, and what ends incompleteness.   *)
(***************************************************************************)
BookType ==
  [levels : [Side -> SUBSET Price], override : [Side -> MaybePrice],
   has_snapshot : BOOLEAN, incomplete : BOOLEAN, invalid : BOOLEAN, ok : BOOLEAN]

Message == [kind : {"none", "book", "price_change", "best_bid_ask"}, reported : Reports]

\* The inductive invariant: types, a book without a snapshot is incomplete, and a book that
\* goes by an announced id is marked invalid (one that went by it may still be).
IInv ==
  /\ mode \in Modes /\ market_id \in MarketIds \cup {EventId}
  /\ market_invalid \subseteq {EventId} /\ tick_size \in TickSizes
  /\ book \in BookType
  /\ message \in Message
  /\ ~book.has_snapshot => book.incomplete
  /\ MarketInvalid => book.invalid

\* What a report must satisfy for its book to stay complete.
MayStand(b, s, reported) ==
  \/ reported \in {NoPrice, LocalBest(b, s)}
  \/ mode = "diagnostic"
  \/ mode = "tolerant" /\ LocalBest(b, s) # NoPrice /\ Within(LocalBest(b, s), reported)

\* The best local price is a matter of the ladder only.
LEMMA SameLadder ==
  ASSUME NEW b, NEW c, b.levels = c.levels, NEW s
  PROVE  LocalBest(b, s) = LocalBest(c, s)
  BY DEF LocalBest

\* _apply_one_reported_best leaves the ladder alone, never makes an incomplete book
\* complete, and leaves it complete only when the report may stand.
LEMMA OneReported ==
  ASSUME NEW b \in BookType, NEW s \in Side, NEW r \in Price
  PROVE  LET c == ApplyOneReported(b, s, r)
         IN  /\ c \in BookType
             /\ c.levels = b.levels /\ c.has_snapshot = b.has_snapshot
             /\ c.invalid = b.invalid
             /\ b.incomplete => c.incomplete
             /\ ~c.incomplete => MayStand(b, s, r)
<1> DEFINE local == LocalBest(b, s)
           c == ApplyOneReported(b, s, r)
<1>0. /\ r \in MaybePrice /\ NoPrice \in MaybePrice
      /\ DOMAIN b.override = Side
      /\ b.override \in [Side -> MaybePrice]
  BY DEF BookType, MaybePrice
<1>n. r # NoPrice
  BY OrderbookAssumption DEF Price, NoPrice, Side
<1>g. PICK p \in MaybePrice, ok \in BOOLEAN, inc \in BOOLEAN, o \in BOOLEAN :
        /\ c = [b EXCEPT !.ok = ok, !.incomplete = inc,
                         !.override = IF o THEN [b.override EXCEPT ![s] = p] ELSE b.override]
        /\ b.incomplete => inc
        /\ ~inc => MayStand(b, s, r)
  <2> HIDE DEF local
  <2>0. /\ b = [b EXCEPT !.override = b.override]
        /\ b = [b EXCEPT !.ok = b.ok, !.incomplete = b.incomplete]
        /\ b.ok \in BOOLEAN /\ b.incomplete \in BOOLEAN
    BY DEF BookType
  <2>m. ASSUME c = [b EXCEPT !.ok = FALSE, !.incomplete = TRUE, !.override[s] = r]
        PROVE  \E p \in MaybePrice, ok \in BOOLEAN, inc \in BOOLEAN, o \in BOOLEAN :
                 /\ c = [b EXCEPT !.ok = ok, !.incomplete = inc,
                                  !.override = IF o THEN [b.override EXCEPT ![s] = p]
                                                    ELSE b.override]
                 /\ b.incomplete => inc
                 /\ ~inc => MayStand(b, s, r)
    <3> HIDE DEF c
    <3>1. [b EXCEPT !.ok = FALSE, !.incomplete = TRUE, !.override[s] = r]
            = [b EXCEPT !.ok = FALSE, !.incomplete = TRUE,
                        !.override = IF TRUE THEN [b.override EXCEPT ![s] = r] ELSE b.override]
      BY <1>0 DEF BookType
    <3> r \in MaybePrice
      BY <1>0
    <3> WITNESS r \in MaybePrice, FALSE \in BOOLEAN, TRUE \in BOOLEAN, TRUE \in BOOLEAN
    <3> QED
      BY <2>m, <3>1
  <2>1. CASE local = NoPrice
    <3>1. c = [b EXCEPT !.ok = FALSE, !.incomplete = TRUE, !.override[s] = r]
      BY <2>1, <1>n DEF local, ApplyOneReported, Mismatch
    <3> QED
      BY <3>1, <2>m
  <2>2. CASE local # NoPrice /\ local = r
    <3>1. c = [b EXCEPT !.override[s] = NoPrice]
      BY <2>2 DEF local, ApplyOneReported, Mismatch
    <3>2. c = [b EXCEPT !.ok = b.ok, !.incomplete = b.incomplete,
                        !.override = [b.override EXCEPT ![s] = NoPrice]]
      BY <3>1, <2>0 DEF BookType
    <3>3. MayStand(b, s, r)
      BY <2>2 DEF local, MayStand
    <3> QED
      BY <3>2, <3>3, <1>0, <2>0
  <2>3. CASE local \notin {NoPrice, r} /\ mode = "diagnostic"
    <3>1. c = [b EXCEPT !.ok = FALSE]
      BY <2>3 DEF local, ApplyOneReported, Mismatch
    <3>2. c = [b EXCEPT !.ok = FALSE, !.incomplete = b.incomplete, !.override = b.override]
      BY <3>1 DEF BookType
    <3>3. MayStand(b, s, r)
      BY <2>3 DEF MayStand
    <3> QED
      BY <3>2, <3>3, <1>0, <2>0
  <2>4. CASE local \notin {NoPrice, r} /\ mode = "tolerant" /\ Within(local, r)
    <3>1. c = [b EXCEPT !.ok = TRUE]
      BY <2>4 DEF local, ApplyOneReported, Mismatch
    <3>2. c = [b EXCEPT !.ok = TRUE, !.incomplete = b.incomplete, !.override = b.override]
      BY <3>1 DEF BookType
    <3>3. MayStand(b, s, r)
      BY <2>4 DEF local, MayStand
    <3> QED
      BY <3>2, <3>3, <1>0, <2>0
  <2>5. CASE /\ local \notin {NoPrice, r}
             /\ mode # "diagnostic"
             /\ ~(mode = "tolerant" /\ Within(local, r))
    <3>1. c = [b EXCEPT !.ok = FALSE, !.incomplete = TRUE, !.override[s] = r]
      BY <2>5 DEF local, ApplyOneReported, Mismatch
    <3> QED
      BY <3>1, <2>m
  <2> QED
    BY <2>1, <2>2, <2>3, <2>4, <2>5
<1>1. [b.override EXCEPT ![s] = p] \in [Side -> MaybePrice]
  BY <1>0
<1> HIDE DEF c
<1>2. /\ c \in BookType
      /\ c.levels = b.levels /\ c.has_snapshot = b.has_snapshot
      /\ c.invalid = b.invalid /\ c.incomplete = inc
  BY <1>g, <1>1, <1>0 DEF BookType
<1> QED
  BY <1>2, <1>g DEF c

\* _apply_reported_best: both reports of a book that stays complete may stand.
LEMMA Reported ==
  ASSUME NEW b \in BookType, NEW reported \in Reports,
         NEW kind \in {"price_change", "best_bid_ask"}
  PROVE  LET c == ApplyReportedBest(b, kind, reported)
         IN  /\ c \in BookType
             /\ c.levels = b.levels /\ c.has_snapshot = b.has_snapshot
             /\ c.invalid = b.invalid
             /\ b.incomplete => c.incomplete
             /\ ~c.has_snapshot => c.incomplete
             /\ ~c.incomplete => \A s \in Side : MayStand(c, s, reported[s])
<1> DEFINE One(d, s) ==
             IF reported[s] = NoPrice THEN d ELSE ApplyOneReported(d, s, reported[s])
           first == One(b, "bid")
           second == One(first, "ask")
           c == ApplyReportedBest(b, kind, reported)
<1>1. CASE ~b.has_snapshot
  <2>1. PICK o \in [Side -> MaybePrice] :
          c = [b EXCEPT !.ok = FALSE, !.incomplete = TRUE, !.override = o]
    BY <1>1 DEF ApplyReportedBest, BookType, Reports
  <2> QED
    BY <2>1, <1>1 DEF BookType
<1>2. CASE b.has_snapshot
  <2>1. ASSUME NEW d \in BookType, NEW s \in Side
        PROVE  /\ One(d, s) \in BookType
               /\ One(d, s).levels = d.levels /\ One(d, s).has_snapshot = d.has_snapshot
               /\ One(d, s).invalid = d.invalid
               /\ d.incomplete => One(d, s).incomplete
               /\ ~One(d, s).incomplete => MayStand(d, s, reported[s])
    <3>1. CASE reported[s] = NoPrice
      BY <3>1 DEF MayStand
    <3>2. CASE reported[s] # NoPrice
      <4>1. reported[s] \in Price
        BY <3>2 DEF Reports, MaybePrice
      <4> QED
        BY <3>2, <4>1, OneReported
    <3> QED
      BY <3>1, <3>2
  <2>2. c = second
    BY <1>2 DEF ApplyReportedBest
  <2>3. "bid" \in Side /\ "ask" \in Side /\ \A s \in Side : s \in {"bid", "ask"}
    BY DEF Side
  <2>4. /\ first \in BookType /\ first.levels = b.levels
        /\ first.has_snapshot = b.has_snapshot /\ first.invalid = b.invalid
        /\ b.incomplete => first.incomplete
        /\ ~first.incomplete => MayStand(b, "bid", reported["bid"])
    BY <2>1, <2>3
  <2> HIDE DEF first
  <2>5. /\ second \in BookType /\ second.levels = first.levels
        /\ second.has_snapshot = first.has_snapshot /\ second.invalid = first.invalid
        /\ first.incomplete => second.incomplete
        /\ ~second.incomplete => MayStand(first, "ask", reported["ask"])
    BY <2>1, <2>3, <2>4
  <2> HIDE DEF second, c
  <2>6. \A s \in Side : LocalBest(c, s) = LocalBest(b, s) /\ LocalBest(c, s) = LocalBest(first, s)
    BY <2>2, <2>4, <2>5, SameLadder
  <2>7. ~c.incomplete => \A s \in Side : MayStand(c, s, reported[s])
    BY <2>2, <2>3, <2>4, <2>5, <2>6 DEF MayStand
  <2> QED
    BY <2>2, <2>4, <2>5, <2>7, <1>2 DEF c
<1> QED
  BY <1>1, <1>2 DEF BookType

\* The initial book.
LEMMA InitIInv == Init => IInv
<1>1. NoPrices \in [Side -> MaybePrice]
  BY DEF NoPrices, MaybePrice
<1>2. NewBook \in BookType /\ NewBook.incomplete /\ ~NewBook.invalid
  BY <1>1 DEF NewBook, BookType
<1>3. [kind |-> "none", reported |-> NoPrices] \in Message
  BY <1>1 DEF Message, Reports
<1> QED
  BY <1>2, <1>3 DEF Init, IInv, MarketInvalid

\* What every step keeps and every message establishes.
StepKeeps ==
  /\ IInv'
  /\ UNCHANGED <<tick_size, market_id, market_invalid>> /\ vars' # vars /\ ~book'.incomplete =>
       \A s \in Side : MayStand(book, s, message.reported[s])'

\* A snapshot.
LEMMA BookStep ==
  ASSUME IInv, NEW levels \in [Side -> SUBSET Price], ApplyBook(levels)
  PROVE  StepKeeps
<1>1. NoPrices \in Reports /\ \A s \in Side : NoPrices[s] = NoPrice
  BY DEF NoPrices, MaybePrice, Reports
<1>2. /\ book' \in BookType /\ book'.has_snapshot
      /\ book'.invalid = MarketInvalid /\ market_invalid' = market_invalid /\ market_id' = market_id
  BY <1>1 DEF ApplyBook, BookApplied, MarketInvalid, BookType, IInv, Reports
<1>3. message' \in Message /\ message'.reported = NoPrices
  BY <1>1 DEF ApplyBook, Message
<1>4. mode' = mode /\ tick_size' = tick_size
  BY DEF ApplyBook
<1>5. IInv'
  BY <1>2, <1>3, <1>4 DEF IInv, MarketInvalid
<1>6. \A s \in Side : MayStand(book, s, message.reported[s])'
  BY <1>1, <1>3 DEF MayStand
<1> QED
  BY <1>5, <1>6 DEF StepKeeps

\* A message whose reports are applied to a prepared book.
LEMMA ReportStep ==
  ASSUME IInv, NEW b \in BookType, b.invalid = MarketInvalid,
         NEW reported \in Reports, NEW kind \in {"price_change", "best_bid_ask"},
         book' = ApplyReportedBest(b, kind, reported),
         message' = [kind |-> kind, reported |-> reported],
         UNCHANGED <<mode, market_id, market_invalid, tick_size>>
  PROVE  StepKeeps
<1>1. /\ book' \in BookType /\ book'.invalid = b.invalid
      /\ ~book'.has_snapshot => book'.incomplete
      /\ ~book'.incomplete => \A s \in Side : MayStand(book', s, reported[s])
  BY Reported
<1>2. message' \in Message /\ message'.reported = reported
  BY DEF Message
<1>3. IInv'
  BY <1>1, <1>2 DEF IInv, MarketInvalid
<1>4. ASSUME NEW s \in Side, MayStand(book', s, reported[s])
      PROVE  MayStand(book, s, message.reported[s])'
  BY <1>2, <1>4 DEF MayStand, Within, LocalBest
<1> QED
  BY <1>1, <1>3, <1>4 DEF StepKeeps

\* A level appears or disappears.
LEMMA PriceChangeStep ==
  ASSUME IInv, NEW s \in Side, NEW levels \in SUBSET Price, NEW reported \in Reports,
         ApplyPriceChange(s, levels, reported)
  PROVE  StepKeeps
<1> DEFINE b == Changed(book, s, levels)
           c == ClearResolved(b)
<1>0. MarketInvalid \in BOOLEAN
  BY DEF MarketInvalid
<1>1. b \in BookType /\ b.invalid = MarketInvalid
  BY <1>0 DEF Changed, BookType, IInv
<1> HIDE DEF b
<1>2. PICK o \in [Side -> MaybePrice] : c = [b EXCEPT !.override = o]
  BY <1>1 DEF ClearResolved, BookType, MaybePrice
<1>3. c \in BookType /\ c.invalid = MarketInvalid
  BY <1>1, <1>2 DEF BookType
<1>4. /\ book' = ApplyReportedBest(c, "price_change", reported)
      /\ message' = [kind |-> "price_change", reported |-> reported]
      /\ UNCHANGED <<mode, market_id, market_invalid, tick_size>>
  BY DEF ApplyPriceChange, b
<1> HIDE DEF c
<1> QED
  BY <1>3, <1>4, ReportStep DEF IInv

\* A best_bid_ask message.
LEMMA BestBidAskStep ==
  ASSUME IInv, NEW reported \in Reports, ApplyBestBidAsk(reported)
  PROVE  StepKeeps
<1> DEFINE b == [book EXCEPT !.ok = TRUE, !.incomplete = ~book.has_snapshot,
                             !.invalid = MarketInvalid]
<1>0. MarketInvalid \in BOOLEAN
  BY DEF MarketInvalid
<1>1. b \in BookType /\ b.invalid = MarketInvalid
  BY <1>0 DEF BookType, IInv
<1>2. /\ book' = ApplyReportedBest(b, "best_bid_ask", reported)
      /\ message' = [kind |-> "best_bid_ask", reported |-> reported]
      /\ UNCHANGED <<mode, market_id, market_invalid, tick_size>>
  BY DEF ApplyBestBidAsk
<1> HIDE DEF b
<1> QED
  BY <1>1, <1>2, ReportStep DEF IInv

\* Every step.
LEMMA Step == IInv /\ [Next]_vars => IInv' /\ (vars' # vars => StepKeeps)
<1> SUFFICES ASSUME IInv, [Next]_vars
             PROVE  IInv' /\ (vars' # vars => StepKeeps)
  OBVIOUS
<1>0. "bid" \in Side /\ "ask" \in Side /\ \A s \in Side : Prices[s] \subseteq Price
  BY DEF Side, Price
<1>1. ASSUME NEW bids \in SUBSET Prices["bid"], NEW asks \in SUBSET Prices["ask"],
             ApplyBook([bid |-> bids, ask |-> asks])
      PROVE  StepKeeps
  <2>1. [bid |-> bids, ask |-> asks] \in [Side -> SUBSET Price]
    BY <1>0 DEF Side, Price
  <2> QED
    BY <2>1, <1>1, BookStep
<1>2. ASSUME NEW s \in Side, NEW p \in Prices[s], NEW reported \in Reports,
             \/ ApplyPriceChange(s, book.levels[s] \cup {p}, reported)
             \/ ApplyPriceChange(s, book.levels[s] \ {p}, reported)
      PROVE  StepKeeps
  <2>1. book.levels[s] \cup {p} \in SUBSET Price /\ book.levels[s] \ {p} \in SUBSET Price
    BY <1>0 DEF IInv, BookType
  <2> QED
    BY <2>1, <1>2, PriceChangeStep
<1>3. ASSUME NEW reported \in Reports, ApplyBestBidAsk(reported)
      PROVE  StepKeeps
  BY <1>3, BestBidAskStep
<1>4. CASE MarkMarketInvalid
  <2>1. /\ book' \in BookType /\ (book.incomplete => book'.incomplete)
        /\ book'.has_snapshot = book.has_snapshot
        /\ market_id = EventId => book'.invalid
    BY <1>4 DEF MarkMarketInvalid, IInv, BookType
  <2>2. /\ market_invalid' = market_invalid \cup {EventId}
        /\ UNCHANGED <<mode, market_id, tick_size, message>>
    BY <1>4 DEF MarkMarketInvalid
  <2>3. IInv'
    BY <2>1, <2>2 DEF IInv, MarketInvalid
  <2>4. book'.incomplete \/ book' = book
    BY <1>4 DEF MarkMarketInvalid, IInv, BookType
  <2>5. UNCHANGED <<tick_size, market_id, market_invalid>> /\ vars' # vars => book'.incomplete
    BY <2>2, <2>4 DEF vars
  <2> QED
    BY <2>3, <2>5 DEF StepKeeps
<1>5. ASSUME NEW size \in TickSizes, UpdateTickSize(size)
      PROVE  IInv' /\ (vars' # vars => StepKeeps)
  <2>1. IInv'
    BY <1>5 DEF UpdateTickSize, IInv, MarketInvalid
  <2>2. UNCHANGED tick_size => vars' = vars
    BY <1>5 DEF UpdateTickSize, vars
  <2> QED
    BY <2>1, <2>2 DEF StepKeeps
<1>6. ASSUME NEW size \in TickSizes, NEW id \in MarketIds, UpdateTokenMetadata(id, size)
      PROVE  IInv' /\ (vars' # vars => StepKeeps)
  <2>1. MarketInvalid' => MarketInvalid
    BY <1>6 DEF UpdateTokenMetadata, IInv, MarketInvalid
  <2>2. IInv'
    BY <1>6, <2>1 DEF UpdateTokenMetadata, IInv
  <2>3. UNCHANGED <<tick_size, market_id>> => vars' = vars
    BY <1>6 DEF UpdateTokenMetadata, vars
  <2> QED
    BY <2>2, <2>3 DEF StepKeeps
<1>7. CASE UNCHANGED vars
  BY <1>7 DEF IInv, MarketInvalid, vars
<1> QED
  BY <1>1, <1>2, <1>3, <1>4, <1>5, <1>6, <1>7 DEF Next, StepKeeps

\* The inductive invariant holds.
THEOREM BookCorrect == Spec => []IInv
  BY InitIInv, Step, PTL DEF Spec

\* Every reachable state of a token's book is well typed, and a book is incomplete until
\* its first snapshot.
THEOREM BookTypes == Spec => []TypeOK
<1>1. IInv => TypeOK
  BY DEF IInv, TypeOK, BookType, Message
<1> QED
  BY <1>1, BookCorrect, PTL

\* Whatever arrives after the id in its metadata was announced invalid, a token that goes
\* by that id makes no complete quote.
THEOREM InvalidStaysIncomplete == Spec => []InvalidForGood
<1>1. IInv => InvalidForGood
  BY DEF IInv, InvalidForGood, MarketInvalid, BookComplete
<1> QED
  BY <1>1, BookCorrect, PTL

\* A complete quote agrees with both prices reported with it, in strict and tolerant mode.
THEOREM CompleteQuotesAgree == Spec => CompleteAgrees
<1>1. IInv /\ [Next]_vars =>
        [UNCHANGED <<tick_size, market_id, market_invalid>> /\ mode # "diagnostic" /\ BookComplete' =>
           \A s \in Side : Agrees(s)']_vars
  <2> SUFFICES ASSUME IInv, [Next]_vars, vars' # vars,
                      UNCHANGED <<tick_size, market_id, market_invalid>>, mode # "diagnostic",
                      BookComplete', NEW s \in Side
               PROVE  Agrees(s)'
    OBVIOUS
  <2>1. MayStand(book, s, message.reported[s])'
    BY Step DEF StepKeeps, BookComplete
  <2>2. mode' = mode
    BY DEF Next, vars, ApplyBook, ApplyPriceChange, ApplyBestBidAsk, MarkMarketInvalid,
           UpdateTickSize, UpdateTokenMetadata
  <2> QED
    BY <2>1, <2>2 DEF MayStand, Agrees
<1> QED
  BY <1>1, BookCorrect, PTL DEF Spec, CompleteAgrees

\* A book that was given up stays incomplete through any number of level changes: only a
\* snapshot or a best_bid_ask ends it.
THEOREM IncompletenessIsKept == Spec => IncompleteIsKept
<1> DEFINE Kept == book.incomplete /\ ~book'.incomplete =>
                     message'.kind \in {"book", "best_bid_ask"}
<1>1. ASSUME IInv, NEW s \in Side, NEW levels \in SUBSET Price, NEW reported \in Reports,
             ApplyPriceChange(s, levels, reported)
      PROVE  book.incomplete => book'.incomplete
  <2> DEFINE b == Changed(book, s, levels)
             c == ClearResolved(b)
  <2>0. MarketInvalid \in BOOLEAN
    BY DEF MarketInvalid
  <2>1. b \in BookType /\ (book.incomplete => b.incomplete)
    BY <1>1, <2>0 DEF Changed, BookType, IInv
  <2> HIDE DEF b
  <2>2. PICK o \in [Side -> MaybePrice] : c = [b EXCEPT !.override = o]
    BY <2>1 DEF ClearResolved, BookType, MaybePrice
  <2>3. c \in BookType /\ (book.incomplete => c.incomplete)
    BY <2>1, <2>2 DEF BookType
  <2>4. book' = ApplyReportedBest(c, "price_change", reported)
    BY <1>1 DEF ApplyPriceChange, b
  <2> HIDE DEF c
  <2>. QED BY <2>3, <2>4, Reported
<1>2. ASSUME IInv, NEW s \in Side, NEW p \in Prices[s], NEW reported \in Reports,
             \/ ApplyPriceChange(s, book.levels[s] \cup {p}, reported)
             \/ ApplyPriceChange(s, book.levels[s] \ {p}, reported)
      PROVE  book.incomplete => book'.incomplete
  <2>1. book.levels[s] \cup {p} \in SUBSET Price /\ book.levels[s] \ {p} \in SUBSET Price
    BY <1>2 DEF IInv, BookType, Side, Price
  <2>. QED BY <1>2, <2>1, <1>1
<1>3. IInv /\ [Next]_vars => Kept
  <2> SUFFICES ASSUME IInv, [Next]_vars PROVE Kept
    OBVIOUS
  <2>1. ASSUME NEW levels, ApplyBook(levels) PROVE Kept
    BY <2>1 DEF ApplyBook
  <2>2. ASSUME NEW reported \in Reports, ApplyBestBidAsk(reported) PROVE Kept
    BY <2>2 DEF ApplyBestBidAsk
  <2>3. CASE MarkMarketInvalid
    BY <2>3 DEF MarkMarketInvalid, IInv, BookType
  <2>4. ASSUME NEW size \in TickSizes, UpdateTickSize(size) PROVE Kept
    BY <2>4 DEF UpdateTickSize
  <2>5. ASSUME NEW size \in TickSizes, NEW id \in MarketIds, UpdateTokenMetadata(id, size)
        PROVE  Kept
    BY <2>5 DEF UpdateTokenMetadata
  <2>6. CASE UNCHANGED vars
    BY <2>6 DEF vars
  <2>. QED BY <1>2, <2>1, <2>2, <2>3, <2>4, <2>5, <2>6 DEF Next
<1>. QED BY <1>3, BookCorrect, PTL DEF Spec, IncompleteIsKept

----------------------------------------------------------------------------
(***************************************************************************)
(* GapMonitor, for any ingest tasks and any number of observations.  The   *)
(* inductive invariant says what the file, the worker's row and the queue  *)
(* hold together: while the worker lives, the observations 1 .. written,   *)
(* in order, and behind them the end mark once close has queued it.        *)
(***************************************************************************)
Closing == main \in {"closing", "closing_raising"}

\* The observations that have left the queue of a living worker.
Gone == Len(file) + (IF worker = "write" THEN 1 ELSE 0)

\* What a living worker has before it.
QueueHolds ==
  worker \in {"get", "write", "cancelled"} =>
    /\ Gone <= written
    /\ Len(queue) = (written - Gone) + (IF Closing THEN 1 ELSE 0)
    /\ \A i \in 1 .. written - Gone : queue[i] = Gone + i
    /\ Closing => queue[Len(queue)] = CloseMark
    /\ worker = "write" => row = Len(file) + 1

\* A worker is done when it has taken the end mark: everything is written, and the
\* shutdown is behind close.
DoneIsWritten ==
  worker = "done" => Len(file) = written /\ (Closing \/ main \in {"exited", "raised"})

\* What the shutdown has passed when it closes the logger.
ClosedInOrder ==
  /\ \A t \in awaited : task[t] = "cancelled"
  /\ (Closing \/ main = "exited") => summary /\ \A t \in Task : task[t] = "cancelled"
  /\ summary => \A t \in Task : task[t] = "cancelled"
  /\ main = "loop" => awaited = {} /\ ~summary
  /\ main = "exited" => worker = "done"

MonitorInvariant == MonitorTypeOK /\ FileIsPrefix /\ QueueHolds /\ DoneIsWritten /\ ClosedInOrder

-----------------------------------------------------------------------------

\* The initial state: nothing logged, nothing queued.
LEMMA MonitorStarts == MonitorInit => MonitorInvariant
<1> SUFFICES ASSUME MonitorInit PROVE MonitorInvariant
  OBVIOUS
<1>1. Len(queue) = 0 /\ Len(file) = 0 /\ written = 0
  BY DEF MonitorInit
<1>2. MonitorTypeOK
  <2>1. 0 \in 0 .. MaxEvents /\ queue \in Seq(0 .. MaxEvents) /\ file \in Seq(1 .. MaxEvents)
    BY MonitorAssumption DEF MonitorInit
  <2>2. task \in [Task -> {"runs", "failed", "cancelled"}]
    BY DEF MonitorInit
  <2> QED BY <2>1, <2>2 DEF MonitorInit, MonitorTypeOK
<1>3. FileIsPrefix
  BY <1>1 DEF FileIsPrefix
<1>4. QueueHolds
  BY <1>1 DEF MonitorInit, QueueHolds, Closing, Gone
<1>5. DoneIsWritten /\ ClosedInOrder
  BY DEF MonitorInit, DoneIsWritten, ClosedInOrder, Closing
<1> QED BY <1>2, <1>3, <1>4, <1>5 DEF MonitorInvariant

\* What logging n observations does to the queue (AsyncJsonlEventLogger.log).
LEMMA LogExtends ==
  ASSUME MonitorInvariant, main = "loop", NEW n \in 1 .. MaxEvents, Log(n),
         UNCHANGED <<main, task, awaited, worker, row, file, summary>>
  PROVE  MonitorInvariant'
<1> DEFINE new == [i \in 1 .. n |-> written + i]
<1>1. /\ written \in Nat /\ n \in Nat /\ queue \in Seq(0 .. MaxEvents) /\ MaxEvents \in Nat
      /\ written + n <= MaxEvents /\ written' = written + n /\ queue' = queue \o new
      /\ file \in Seq(1 .. MaxEvents) /\ Len(file) \in Nat
  BY MonitorAssumption DEF MonitorInvariant, MonitorTypeOK, Log
<1>2. new \in Seq(0 .. MaxEvents) /\ Len(new) = n
  BY <1>1
<1>3. queue' \in Seq(0 .. MaxEvents) /\ Len(queue') = Len(queue) + n
  BY <1>1, <1>2
<1>4. \A i \in 1 .. Len(queue) + n :
        queue'[i] = IF i <= Len(queue) THEN queue[i] ELSE written + (i - Len(queue))
  BY <1>1, <1>2
<1>5. MonitorTypeOK'
  BY <1>1, <1>3 DEF MonitorInvariant, MonitorTypeOK
<1>6. FileIsPrefix'
  BY <1>1 DEF MonitorInvariant, FileIsPrefix
<1>7. QueueHolds'
  <2> SUFFICES ASSUME worker \in {"get", "write", "cancelled"}
               PROVE  QueueHolds'
    BY DEF QueueHolds
  <2>1. Gone \in Nat /\ Gone' = Gone
    BY <1>1 DEF Gone
  <2>2. ~Closing /\ ~Closing'
    BY DEF Closing
  <2>3. Gone <= written /\ Len(queue) = written - Gone
        /\ \A i \in 1 .. written - Gone : queue[i] = Gone + i
    BY <1>1, <2>1, <2>2 DEF MonitorInvariant, QueueHolds
  <2>4. Gone <= written' /\ Len(queue') = written' - Gone
    BY <1>1, <1>3, <2>1, <2>3
  <2>5. ASSUME NEW i \in 1 .. written' - Gone PROVE queue'[i] = Gone + i
    <3>1. i \in 1 .. Len(queue) + n /\ i \in Nat /\ Len(queue) \in Nat
      BY <1>1, <2>1, <2>3
    <3>2. CASE i <= Len(queue)
      <4>1. queue'[i] = queue[i]
        BY <1>4, <3>1, <3>2
      <4> QED BY <1>1, <2>1, <2>3, <3>1, <3>2, <4>1
    <3>3. CASE i > Len(queue)
      <4>1. queue'[i] = written + (i - Len(queue))
        BY <1>4, <3>1, <3>3
      <4> QED BY <1>1, <2>1, <2>3, <3>1, <4>1
    <3> QED BY <3>1, <3>2, <3>3
  <2>6. worker = "write" => row' = Len(file') + 1
    BY DEF MonitorInvariant, QueueHolds
  <2> QED BY <2>1, <2>2, <2>4, <2>5, <2>6 DEF QueueHolds
<1>8. DoneIsWritten'
  BY DEF MonitorInvariant, DoneIsWritten, Closing
<1>9. ClosedInOrder'
  BY DEF MonitorInvariant, ClosedInOrder, Closing
<1> QED BY <1>5, <1>6, <1>7, <1>8, <1>9 DEF MonitorInvariant

\* The worker takes the next observation, or the end mark when everything is written.
LEMMA GetsInOrder ==
  ASSUME MonitorInvariant, WorkerGets
  PROVE  MonitorInvariant'
<1>1. /\ written \in Nat /\ queue \in Seq(0 .. MaxEvents) /\ queue # << >>
      /\ file \in Seq(1 .. MaxEvents) /\ Len(file) \in Nat /\ MaxEvents \in Nat
      /\ file' = file /\ written' = written /\ main' = main /\ worker = "get"
      /\ row' = queue[1] /\ queue' = Tail(queue) /\ queue[1] \in 0 .. MaxEvents
  BY MonitorAssumption DEF MonitorInvariant, MonitorTypeOK, WorkerGets, Taken
<1>2. /\ queue' \in Seq(0 .. MaxEvents) /\ Len(queue') = Len(queue) - 1
      /\ \A i \in 1 .. Len(queue) - 1 : queue'[i] = queue[i + 1]
      /\ Len(queue) \in Nat \ {0}
  BY <1>1
<1>3. /\ Len(file) <= written
      /\ Len(queue) = (written - Len(file)) + (IF Closing THEN 1 ELSE 0)
      /\ \A i \in 1 .. written - Len(file) : queue[i] = Len(file) + i
      /\ Closing => queue[Len(queue)] = CloseMark
  BY <1>1 DEF MonitorInvariant, QueueHolds, Gone
<1>4. CASE Len(file) < written
  <2>1. row' = Len(file) + 1 /\ worker' = "write"
    BY <1>1, <1>3, <1>4 DEF WorkerGets, CloseMark
  <2>2. Closing' = Closing
    BY <1>1 DEF Closing
  <2>3. Gone' = Len(file) + 1
    BY <1>1, <2>1 DEF Gone
  <2>4. QueueHolds'
    BY <1>1, <1>2, <1>3, <1>4, <2>1, <2>2, <2>3 DEF QueueHolds, CloseMark
  <2>5. MonitorTypeOK' /\ FileIsPrefix' /\ DoneIsWritten' /\ ClosedInOrder'
    BY <1>1, <1>2, <2>1, <2>2
    DEF MonitorInvariant, MonitorTypeOK, FileIsPrefix, DoneIsWritten, ClosedInOrder, WorkerGets
  <2> QED BY <2>4, <2>5 DEF MonitorInvariant
<1>5. CASE Len(file) = written
  <2>1. Closing /\ row' = CloseMark /\ worker' = "done"
    BY <1>1, <1>2, <1>3, <1>5 DEF WorkerGets
  <2>2. QueueHolds'
    BY <2>1 DEF QueueHolds
  <2>3. MonitorTypeOK' /\ FileIsPrefix' /\ DoneIsWritten' /\ ClosedInOrder'
    BY <1>1, <1>2, <1>5, <2>1
    DEF MonitorInvariant, MonitorTypeOK, FileIsPrefix, DoneIsWritten, ClosedInOrder, WorkerGets,
        CloseMark, Closing
  <2> QED BY <2>2, <2>3 DEF MonitorInvariant
<1> QED BY <1>1, <1>3, <1>4, <1>5

\* The row a worker writes is the next of the file.
LEMMA WritesInOrder ==
  ASSUME MonitorInvariant, WorkerWrites
  PROVE  MonitorInvariant'
<1>1. /\ written \in Nat /\ Len(queue) \in Nat /\ MaxEvents \in Nat /\ written <= MaxEvents
      /\ file \in Seq(1 .. MaxEvents) /\ Len(file) \in Nat /\ queue' = queue
      /\ written' = written /\ main' = main /\ worker = "write" /\ worker' = "get"
      /\ row' = 0 /\ row = Len(file) + 1 /\ Len(file) + 1 <= written
      /\ file' = Append(file, Len(file) + 1)
  BY MonitorAssumption DEF MonitorInvariant, MonitorTypeOK, WorkerWrites, QueueHolds, Gone
<1>2. /\ file' \in Seq(1 .. MaxEvents) /\ Len(file') = Len(file) + 1
      /\ \A i \in 1 .. Len(file) + 1 : file'[i] = IF i <= Len(file) THEN file[i] ELSE Len(file) + 1
  BY <1>1
<1>3. MonitorTypeOK'
  BY <1>1, <1>2 DEF MonitorInvariant, MonitorTypeOK, WorkerWrites
<1>4. FileIsPrefix'
  BY <1>1, <1>2 DEF MonitorInvariant, FileIsPrefix
<1>5. Gone' = Gone /\ Gone = Len(file) + 1 /\ (Closing' <=> Closing)
  BY <1>1, <1>2 DEF Gone, Closing
<1>6. QueueHolds'
  BY <1>1, <1>5 DEF MonitorInvariant, QueueHolds
<1>7. DoneIsWritten' /\ ClosedInOrder'
  BY <1>1 DEF MonitorInvariant, DoneIsWritten, ClosedInOrder, WorkerWrites, Closing
<1> QED BY <1>3, <1>4, <1>6, <1>7 DEF MonitorInvariant

\* close puts the end mark behind everything that was logged.
LEMMA ClosesBehind ==
  ASSUME MonitorInvariant, CloseLogger
  PROVE  MonitorInvariant'
<1>1. /\ written \in Nat /\ queue \in Seq(0 .. MaxEvents) /\ Len(queue) \in Nat
      /\ MaxEvents \in Nat /\ file \in Seq(1 .. MaxEvents) /\ Len(file) \in Nat
      /\ file' = file /\ written' = written /\ worker' = worker /\ row' = row
      /\ queue' = Append(queue, CloseMark) /\ CloseMark \in 0 .. MaxEvents
  BY MonitorAssumption DEF MonitorInvariant, MonitorTypeOK, CloseLogger, CloseQueued, CloseMark
<1>2. /\ queue' \in Seq(0 .. MaxEvents) /\ Len(queue') = Len(queue) + 1
      /\ \A i \in 1 .. Len(queue) + 1 : queue'[i] = IF i <= Len(queue) THEN queue[i] ELSE CloseMark
  BY <1>1
<1>3. ~Closing /\ Closing' /\ Gone' = Gone /\ Gone \in Nat
  BY <1>1 DEF CloseLogger, InFinally, Closing, Gone
<1>4. MonitorTypeOK'
  BY <1>1, <1>2 DEF MonitorInvariant, MonitorTypeOK, CloseLogger
<1>5. QueueHolds'
  BY <1>1, <1>2, <1>3 DEF MonitorInvariant, QueueHolds
<1>6. FileIsPrefix' /\ DoneIsWritten' /\ ClosedInOrder'
  BY <1>1, <1>3
  DEF MonitorInvariant, FileIsPrefix, DoneIsWritten, ClosedInOrder, CloseLogger, InFinally, Closing
<1> QED BY <1>4, <1>5, <1>6 DEF MonitorInvariant

\* The other steps move neither observations nor the end mark.
LEMMA OthersKeep ==
  ASSUME MonitorInvariant,
         \/ \E t \in Task : IngestFails(t) \/ Awaits(t)
         \/ WorkerFails \/ Stop \/ FinalSummary \/ WorkerAwaited \/ Teardown
         \/ UNCHANGED monitorVars
  PROVE  MonitorInvariant'
<1>0. MaxEvents \in Nat
  BY MonitorAssumption
<1>1. ASSUME NEW t \in Task, IngestFails(t) PROVE MonitorInvariant'
  BY <1>1 DEF MonitorInvariant, MonitorTypeOK, FileIsPrefix, QueueHolds, DoneIsWritten, ClosedInOrder,
              Closing, Gone, IngestFails
<1>2. ASSUME NEW t \in Task, Awaits(t) PROVE MonitorInvariant'
  BY <1>2 DEF MonitorInvariant, MonitorTypeOK, FileIsPrefix, QueueHolds, DoneIsWritten, ClosedInOrder,
              Closing, Gone, Awaits, InFinally
<1>3. CASE WorkerFails
  BY <1>0, <1>3 DEF MonitorInvariant, MonitorTypeOK, FileIsPrefix, QueueHolds, DoneIsWritten, ClosedInOrder,
              Closing, Gone, WorkerFails
<1>4. CASE Stop
  BY <1>4 DEF MonitorInvariant, MonitorTypeOK, FileIsPrefix, QueueHolds, DoneIsWritten, ClosedInOrder,
              Closing, Gone, Stop
<1>5. CASE FinalSummary
  BY <1>5 DEF MonitorInvariant, MonitorTypeOK, FileIsPrefix, QueueHolds, DoneIsWritten, ClosedInOrder,
              Closing, Gone, FinalSummary, InFinally
<1>6. CASE WorkerAwaited
  BY <1>6 DEF MonitorInvariant, MonitorTypeOK, FileIsPrefix, QueueHolds, DoneIsWritten, ClosedInOrder,
              Closing, Gone, WorkerAwaited
<1>7. CASE Teardown
  BY <1>7 DEF MonitorInvariant, MonitorTypeOK, FileIsPrefix, QueueHolds, DoneIsWritten, ClosedInOrder,
              Closing, Gone, Teardown
<1>8. CASE UNCHANGED monitorVars
  BY <1>8 DEF MonitorInvariant, MonitorTypeOK, FileIsPrefix, QueueHolds, DoneIsWritten, ClosedInOrder,
              Closing, Gone, monitorVars
<1> QED BY <1>1, <1>2, <1>3, <1>4, <1>5, <1>6, <1>7, <1>8

\* Every step keeps the invariant.
LEMMA MonitorStep ==
  ASSUME MonitorInvariant, [MonitorNext]_monitorVars
  PROVE  MonitorInvariant'
<1>1. ASSUME NEW t \in Task, Ingest(t) PROVE MonitorInvariant'
  BY <1>1, LogExtends DEF Ingest
<1>2. CASE Refresh
  BY <1>2, LogExtends DEF Refresh
<1>3. CASE WorkerGets
  BY <1>3, GetsInOrder
<1>4. CASE WorkerWrites
  BY <1>4, WritesInOrder
<1>5. CASE CloseLogger
  BY <1>5, ClosesBehind
<1> QED BY <1>1, <1>2, <1>3, <1>4, <1>5, OthersKeep DEF MonitorNext, Worker, Shutdown

-----------------------------------------------------------------------------

\* The inductive invariant of run_gap_monitor's tasks and AsyncJsonlEventLogger: what is
\* written, being written and queued is what was logged, in order, until the worker fails.
THEOREM MonitorCorrect == MonitorSpec => []MonitorInvariant
<1>1. MonitorInit => MonitorInvariant
  BY MonitorStarts
<1>2. MonitorInvariant /\ [MonitorNext]_monitorVars => MonitorInvariant'
  BY MonitorStep
<1> QED BY <1>1, <1>2, PTL DEF MonitorSpec

\* Every reachable state is well typed.
THEOREM MonitorTypes == MonitorSpec => []MonitorTypeOK
<1>1. MonitorInvariant => MonitorTypeOK
  BY DEF MonitorInvariant
<1> QED BY <1>1, MonitorCorrect, PTL

\* The file of the event logger is a prefix of what was logged, whatever fails and however
\* the ingest tasks, the worker and the shutdown interleave.
THEOREM FileKeepsOrder == MonitorSpec => []FileIsPrefix
<1>1. MonitorInvariant => FileIsPrefix
  BY DEF MonitorInvariant
<1> QED BY <1>1, MonitorCorrect, PTL

\* run_gap_monitor ends without an error only with every counted observation in the file,
\* the final summary written and no ingest task failed.
THEOREM ExitIsComplete == MonitorSpec => []CleanExitIsComplete
<1>1. MonitorInvariant => CleanExitIsComplete
  BY DEF MonitorInvariant, CleanExitIsComplete, ClosedInOrder, DoneIsWritten, Closing
<1> QED BY <1>1, MonitorCorrect, PTL

-----------------------------------------------------------------------------
(* The refinement of RowLog by the event logger.                                    *)

\* Observations are Submitted when they are logged.
LEMMA LogSubmits ==
  ASSUME MonitorInvariant, NEW n \in 1 .. MaxEvents, Log(n), UNCHANGED file
  PROVE  Rows!Submit
<1>1. written \in Nat /\ n \in Nat /\ written' = written + n
  BY MonitorAssumption DEF MonitorInvariant, MonitorTypeOK, Log
<1> DEFINE s == [k \in 1 .. written |-> "gap_events"]
           t == [k \in 1 .. written' |-> "gap_events"]
<1>2. Len(s) = written /\ Len(t) = written'
  BY <1>1
<1>3. \A i \in 1 .. written : i \in 1 .. written' /\ t[i] = s[i]
  BY <1>1
<1>4. written <= written'
  BY <1>1
<1> HIDE DEF s, t
<1>5. Rows!GoesOn(s, t)
  BY <1>2, <1>3, <1>4 DEF Rows!GoesOn
<1>. QED BY <1>5 DEF s, t, Rows!Submit

\* What the worker appends Follows all that was logged before it.
LEMMA WriteSaves ==
  ASSUME MonitorInvariant, WorkerWrites
  PROVE  Rows!Save
<1> DEFINE s == [k \in 1 .. written |-> "gap_events"]
           m == Len(file)
<1>1. /\ written \in Nat /\ file \in Seq(1 .. MaxEvents) /\ m \in Nat
      /\ written' = written /\ file' = Append(file, m + 1) /\ m + 1 <= written
      /\ \A i \in 1 .. m : file[i] = i
  BY MonitorAssumption
  DEF MonitorInvariant, MonitorTypeOK, WorkerWrites, QueueHolds, Gone, FileIsPrefix
<1>2. Len(file') = m + 1 /\ \A i \in 1 .. m : file'[i] = file[i]
  BY <1>1
<1>3. \A i \in 1 .. m + 1 : file'[i] = i
  BY <1>1
<1>4. Len(s) = written /\ \A k \in 1 .. written : s[k] = "gap_events"
  BY <1>1
<1> HIDE DEF s, m
<1>5. Rows!GoesOn(file, file')
  BY <1>1, <1>2 DEF Rows!GoesOn, m
<1>6. Rows!Follows(file', m + 1, "gap_events")
  <2>1. /\ file'[m + 1] = m + 1 /\ m + 1 \in 1 .. written
        /\ \A i \in 1 .. (m + 1) - 1 : file'[i] = i /\ i < m + 1
    BY <1>1, <1>3
  <2>2. \A k \in 1 .. (m + 1) - 1 : \E i \in 1 .. (m + 1) - 1 : file'[i] = k
    BY <2>1
  <2>. QED BY <1>4, <2>1, <2>2 DEF Rows!Follows, s
<1>7. \A j \in m + 1 .. Len(file') : j = m + 1
  BY <1>1, <1>2
<1>. QED BY <1>1, <1>5, <1>6, <1>7 DEF Rows!Save, m

\* The event logger is a RowLog that leaves nothing out: its file only grows, each time by the
\* observation after the last, whatever task of run_gap_monitor fails and when it is stopped.
THEOREM LoggerRefinesRowLog == MonitorSpec => ImplementsRowLog
<1>1. MonitorInit => Rows!LogInit
  <2> SUFFICES ASSUME MonitorInit PROVE Rows!LogInit
    OBVIOUS
  <2>1. written = 0 /\ file = << >>
    BY DEF MonitorInit
  <2>2. [n \in 1 .. written |-> "gap_events"] = << >>
    BY <2>1
  <2>. QED BY <2>1, <2>2 DEF Rows!LogInit
<1>2. MonitorInvariant /\ [MonitorNext]_monitorVars => [Rows!LogNext]_Rows!logVars
  <2> SUFFICES ASSUME MonitorInvariant, [MonitorNext]_monitorVars
               PROVE  [Rows!LogNext]_Rows!logVars
    OBVIOUS
  <2>1. ASSUME NEW t \in Task, Ingest(t) PROVE Rows!Submit
    BY <2>1, LogSubmits DEF Ingest
  <2>2. CASE Refresh
    BY <2>2, LogSubmits DEF Refresh, Rows!LogNext
  <2>3. CASE WorkerWrites
    BY <2>3, WriteSaves DEF Rows!LogNext
  <2>4. CASE \/ \E t \in Task : IngestFails(t) \/ Awaits(t)
             \/ Stop \/ WorkerGets \/ WorkerFails \/ FinalSummary \/ CloseLogger
             \/ WorkerAwaited \/ Teardown \/ UNCHANGED monitorVars
    <3>1. UNCHANGED <<written, file>>
      BY <2>4 DEF IngestFails, Awaits, Stop, WorkerGets, WorkerFails, FinalSummary, CloseLogger,
                  WorkerAwaited, Teardown, monitorVars
    <3>. QED BY <3>1 DEF Rows!logVars
  <2>. QED BY <2>1, <2>2, <2>3, <2>4 DEF MonitorNext, Worker, Shutdown, Rows!LogNext
<1>. QED BY <1>1, <1>2, MonitorCorrect, PTL DEF MonitorSpec, ImplementsRowLog, Rows!LogSpec
==============================================================================
