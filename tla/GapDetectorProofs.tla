-------------------------- MODULE GapDetectorProofs --------------------------
(***************************************************************************)
(* Proofs about GapDetector for any quotes and thresholds: types, gaps and *)
(* invalid markets, tradable gaps, timely successes, and that every gap    *)
(* that ends is observed.                                                  *)
(***************************************************************************)
EXTENDS GapDetector, TLAPS

\* The inductive invariant.  A gap is pending only on a tracked market whose own id was not
\* announced invalid, and only while the last quote in the state, of that gap's own token,
\* keeps its window open.
IInv == TypeOK /\ NoGapOnInvalidMarket /\ PendingIsTradable /\ SuccessIsTimely

\* What a step does to the gaps: each is kept, newly opened, or observed.
Observed ==
  /\ DOMAIN pending \ DOMAIN pending' = DOMAIN closed'
  /\ \A d \in DOMAIN closed' : closed'[d].entry_ask = pending[d].entry_ask

\* The conjuncts of TypeOK about observations.
ClosedOK ==
  /\ DOMAIN closed \subseteq Direction
  /\ \A d \in DOMAIN closed : closed[d].stage \in Stage /\ closed[d].reason \in Reason

\* No success among the observations.
NoSuccess == \A d \in DOMAIN closed : closed[d].stage # "none"

\* Fields and stage of an observation.
LEMMA ObservationFields ==
  ASSUME NEW gap \in Gap, NEW reason \in Reason
  PROVE  LET obs == Observation(gap, reason)
         IN  /\ obs.stage \in Stage /\ obs.reason = reason
             /\ obs.entry_ask = gap.entry_ask /\ obs.age = gap.age
             /\ obs.stage = "none" <=> reason = "repriced"
<1>1. /\ StageOf(reason) \in Stage
      /\ StageOf(reason) = "none" <=> reason = "repriced"
  BY DEF StageOf, Stage, Reason, Lifecycle
<1> QED
  BY <1>1 DEF Observation

\* _close_expired_pending: what stays pending and what is observed.
LEMMA CloseExpiredEffect ==
  ASSUME NEW gaps, NEW ended, IsPartial(gaps, Gap), DOMAIN ended \subseteq DOMAIN gaps,
         CloseExpired(gaps, ended)
  PROVE  /\ IsPartial(pending', Gap)
         /\ DOMAIN pending' = {d \in DOMAIN gaps \ DOMAIN ended : ~TimedOut(gaps[d])}
         /\ \A d \in DOMAIN pending' : pending'[d] = gaps[d]
         /\ DOMAIN closed' = DOMAIN gaps \ DOMAIN pending'
         /\ \A d \in DOMAIN ended : closed'[d] = ended[d]
         /\ \A d \in DOMAIN closed' \ DOMAIN ended :
              closed'[d] = Observation(gaps[d], "max_observation_lifetime_reached")
<1> DEFINE open == DOMAIN gaps \ DOMAIN ended
           late == {d \in open : TimedOut(gaps[d])}
<1>1. /\ closed' = [d \in DOMAIN ended \cup late |->
                      IF d \in DOMAIN ended THEN ended[d]
                      ELSE Observation(gaps[d], "max_observation_lifetime_reached")]
      /\ pending' = [d \in open \ late |-> gaps[d]]
  BY DEF CloseExpired
<1>2. /\ DOMAIN gaps \subseteq Direction /\ \A d \in DOMAIN gaps : gaps[d] \in Gap
  BY DEF IsPartial
<1>3. DOMAIN pending' = open \ late /\ \A d \in DOMAIN pending' : pending'[d] = gaps[d]
  BY <1>1
<1>4. IsPartial(pending', Gap)
  BY <1>1, <1>2, <1>3 DEF IsPartial
<1>5. DOMAIN closed' = DOMAIN ended \cup late
  BY <1>1
<1> QED
  BY <1>1, <1>3, <1>4, <1>5

\* The same for a handler that ended no gap itself.
LEMMA OnlyTimeouts ==
  ASSUME NEW gaps, IsPartial(gaps, Gap), CloseExpired(gaps, Nothing)
  PROVE  /\ IsPartial(pending', Gap)
         /\ DOMAIN pending' = {d \in DOMAIN gaps : ~TimedOut(gaps[d])}
         /\ \A d \in DOMAIN pending' : pending'[d] = gaps[d]
         /\ DOMAIN closed' = DOMAIN gaps \ DOMAIN pending'
         /\ \A d \in DOMAIN closed' : closed'[d].entry_ask = gaps[d].entry_ask
         /\ ClosedOK' /\ NoSuccess'
<1>1. DOMAIN Nothing = {}
  BY DEF Nothing
<1>a. /\ IsPartial(pending', Gap)
      /\ DOMAIN pending' = {d \in DOMAIN gaps \ DOMAIN Nothing : ~TimedOut(gaps[d])}
      /\ \A d \in DOMAIN pending' : pending'[d] = gaps[d]
      /\ DOMAIN closed' = DOMAIN gaps \ DOMAIN pending'
      /\ \A d \in DOMAIN closed' \ DOMAIN Nothing :
           closed'[d] = Observation(gaps[d], "max_observation_lifetime_reached")
  <2>1. DOMAIN Nothing \subseteq DOMAIN gaps
    BY <1>1
  <2> QED
    BY <2>1, CloseExpiredEffect, Zenon
<1>2. /\ IsPartial(pending', Gap)
      /\ DOMAIN pending' = {d \in DOMAIN gaps : ~TimedOut(gaps[d])}
      /\ \A d \in DOMAIN pending' : pending'[d] = gaps[d]
      /\ DOMAIN closed' = DOMAIN gaps \ DOMAIN pending'
      /\ \A d \in DOMAIN closed' :
           closed'[d] = Observation(gaps[d], "max_observation_lifetime_reached")
  BY <1>1, <1>a
<1>3. "max_observation_lifetime_reached" \in Reason
  BY DEF Reason
<1>4. ASSUME NEW d \in DOMAIN closed'
      PROVE  /\ closed'[d].stage \in Stage /\ closed'[d].reason \in Reason
             /\ closed'[d].stage # "none" /\ closed'[d].entry_ask = gaps[d].entry_ask
  <2>1. gaps[d] \in Gap
    BY <1>2 DEF IsPartial
  <2> QED
    BY <1>2, <1>3, <2>1, ObservationFields
<1>5. DOMAIN closed' \subseteq Direction
  BY <1>2 DEF IsPartial
<1> QED
  BY <1>2, <1>4, <1>5 DEF ClosedOK, NoSuccess

\* A Binance event that opens no gap.
LEMMA QuietStep ==
  ASSUME IInv, BinanceQuiet
  PROVE  IInv' /\ Observed
<1>1. /\ IsPartial(pending, Gap) /\ CloseExpired(pending, Nothing)
      /\ UNCHANGED <<market_id, tracked, phase, invalid, market_invalid, quote, quote_age>>
      /\ binance_age' \in Age
  BY DetectorAssumption DEF IInv, TypeOK, BinanceQuiet, Age
<1>2. /\ IsPartial(pending', Gap) /\ DOMAIN pending' \subseteq DOMAIN pending
      /\ \A d \in DOMAIN pending' : pending'[d] = pending[d]
      /\ DOMAIN closed' = DOMAIN pending \ DOMAIN pending'
      /\ \A d \in DOMAIN closed' : closed'[d].entry_ask = pending[d].entry_ask
      /\ ClosedOK' /\ NoSuccess'
  BY <1>1, OnlyTimeouts
<1>3. TypeOK'
  BY <1>1, <1>2 DEF IInv, TypeOK, ClosedOK
<1>4. NoGapOnInvalidMarket'
  <2>1. pending = Nothing => pending' = Nothing
    BY <1>2 DEF Nothing, IsPartial
  <2> QED
    BY <1>1, <2>1 DEF IInv, NoGapOnInvalidMarket
<1>5. PendingIsTradable'
  BY <1>1, <1>2 DEF IInv, PendingIsTradable, EntryLost, EntryAvailable
<1>6. SuccessIsTimely'
  BY <1>2 DEF NoSuccess, SuccessIsTimely
<1>7. Observed
  BY <1>2 DEF Observed, IsPartial
<1> QED
  BY <1>3, <1>4, <1>5, <1>6, <1>7 DEF IInv

\* A move that opens a gap.
LEMMA OpenStep ==
  ASSUME IInv, NEW d \in Direction, Opens(d), BinanceMove(d)
  PROVE  IInv' /\ Observed
<1> DEFINE gaps == [e \in DOMAIN pending \cup {d} |->
                      IF e = d THEN NewGap(quote[d]) ELSE pending[e]]
<1>1. /\ CloseExpired(gaps, Nothing) /\ binance_age' = 0
      /\ UNCHANGED <<market_id, tracked, phase, invalid, market_invalid, quote, quote_age>>
  BY DEF BinanceMove
<1>2. /\ IsPartial(pending, Gap) /\ IsPartial(quote, Quote)
      /\ d \in DOMAIN quote /\ d \notin DOMAIN pending /\ Fillable(quote[d])
      /\ tracked /\ market_id \notin invalid \cup market_invalid
  BY DEF IInv, TypeOK, Opens
<1>3. /\ quote[d] \in Quote /\ quote[d].bid \in Nat /\ quote[d].ask \in Nat
  BY <1>2 DEF IsPartial, Quote
<1>4. /\ NewGap(quote[d]) \in Gap /\ ~TimedOut(NewGap(quote[d]))
      /\ NewGap(quote[d]).entry_ask = quote[d].ask
  BY <1>3, DetectorAssumption DEF NewGap, Gap, Age, TimedOut
<1>5. /\ IsPartial(gaps, Gap) /\ DOMAIN gaps = DOMAIN pending \cup {d}
      /\ gaps[d] = NewGap(quote[d]) /\ \A e \in DOMAIN pending : gaps[e] = pending[e]
  BY <1>2, <1>4 DEF IsPartial
<1> HIDE DEF gaps
<1>6. /\ IsPartial(pending', Gap)
      /\ DOMAIN pending' = {e \in DOMAIN gaps : ~TimedOut(gaps[e])}
      /\ \A e \in DOMAIN pending' : pending'[e] = gaps[e]
      /\ DOMAIN closed' = DOMAIN gaps \ DOMAIN pending'
      /\ \A e \in DOMAIN closed' : closed'[e].entry_ask = gaps[e].entry_ask
      /\ ClosedOK' /\ NoSuccess'
  BY <1>1, <1>5, OnlyTimeouts
<1>7. binance_age' \in Age
  BY <1>1, DetectorAssumption DEF Age
<1>8. TypeOK'
  BY <1>1, <1>6, <1>7 DEF IInv, TypeOK, ClosedOK
<1>9. NoGapOnInvalidMarket'
  BY <1>1, <1>2 DEF NoGapOnInvalidMarket
<1>10. PendingIsTradable'
  <2>1. quote[d].complete /\ ~EntryLost(NewGap(quote[d]), quote[d])
    BY <1>2, <1>3, <1>4, DetectorAssumption DEF Fillable, EntryLost
  <2>2. \A e \in DOMAIN gaps :
           e \in DOMAIN quote /\ quote[e].complete /\ ~EntryLost(gaps[e], quote[e])
    BY <1>2, <1>5, <2>1 DEF IInv, PendingIsTradable
  <2> QED
    BY <1>1, <1>6, <2>2 DEF PendingIsTradable, EntryLost, EntryAvailable
<1>11. SuccessIsTimely'
  BY <1>6 DEF NoSuccess, SuccessIsTimely
<1>12. Observed
  BY <1>2, <1>4, <1>5, <1>6 DEF Observed
<1> QED
  BY <1>8, <1>9, <1>10, <1>11, <1>12 DEF IInv

\* A Binance event with a move.
LEMMA MoveStep ==
  ASSUME IInv, NEW d \in Direction, BinanceMove(d)
  PROVE  IInv' /\ Observed
<1>1. CASE Opens(d)
  BY <1>1, OpenStep
<1>2. CASE ~Opens(d)
  <2>1. BinanceQuiet
    BY <1>2 DEF BinanceMove, BinanceQuiet
  <2> QED
    BY <2>1, QuietStep
<1> QED
  BY <1>1, <1>2

\* A gap that a quote leaves open is in its lifetime and its entry is available, and one
\* that it closes as a success is in its lifetime, on fresh data and a complete book.
LEMMA VerdictFacts ==
  ASSUME NEW gap, NEW q, binance_age \in Age
  PROVE  /\ Verdict(gap, q) \in Reason \cup {"open"}
         /\ Verdict(gap, q) = "open" => ~TimedOut(gap) /\ q.complete /\ ~EntryLost(gap, q)
         /\ Verdict(gap, q) = "repriced" =>
              ~TimedOut(gap) /\ binance_age <= BinanceStale /\ market_id \notin invalid /\ q.complete
                /\ Repriced(gap, q)
  BY DetectorAssumption DEF Verdict, Reason, Age

\* _mark_mid_repricing changes the mark only.
LEMMA MarkMidKeeps ==
  ASSUME NEW gap \in Gap, NEW q
  PROVE  /\ MarkMid(gap, q) \in Gap
         /\ MarkMid(gap, q).entry_ask = gap.entry_ask /\ MarkMid(gap, q).age = gap.age
  BY DEF MarkMid, Gap

\* A quote for the token of one direction.
LEMMA QuoteStep ==
  ASSUME IInv, NEW d \in Direction, NEW received \in Quotes, PolymarketQuote(d, received)
  PROVE  IInv' /\ Observed
<1> DEFINE q == [received EXCEPT !.complete = @ /\ market_id \notin market_invalid]
           gaps == [e \in DOMAIN pending |->
                      IF e = d THEN MarkMid(pending[d], q) ELSE pending[e]]
           open == {e \in DOMAIN pending \cap {d} : Verdict(gaps[e], q) # "open"}
           ended == [e \in open |-> Observation(gaps[e], Verdict(gaps[e], q))]
<1>1. /\ quote' = [e \in DOMAIN quote \cup {d} |-> IF e = d THEN q ELSE quote[e]]
      /\ quote_age' = [e \in DOMAIN quote \cup {d} |-> IF e = d THEN 0 ELSE quote_age[e]]
      /\ CloseExpired(gaps, ended)
      /\ UNCHANGED <<market_id, tracked, phase, invalid, market_invalid, binance_age>>
  BY DEF PolymarketQuote
<1>2. received \in Quote /\ binance_age \in Age
  BY DetectorAssumption DEF IInv, TypeOK
<1>3. /\ q \in Quote
      /\ q.complete => market_id \notin market_invalid
  BY <1>2 DEF Quote
<1> HIDE DEF q
<1>4. /\ IsPartial(pending, Gap) /\ IsPartial(quote, Quote) /\ IsPartial(quote_age, Age)
      /\ DOMAIN quote_age = DOMAIN quote
  BY DEF IInv, TypeOK
<1>5. /\ DOMAIN gaps = DOMAIN pending /\ IsPartial(gaps, Gap)
      /\ \A e \in DOMAIN pending : gaps[e].entry_ask = pending[e].entry_ask
      /\ \A e \in DOMAIN pending \ {d} : gaps[e] = pending[e]
  BY <1>4, MarkMidKeeps DEF IsPartial
<1> HIDE DEF gaps
<1>6. /\ DOMAIN ended = open
      /\ open \subseteq DOMAIN gaps
      /\ \A e \in open : e = d /\ ended[e] = Observation(gaps[d], Verdict(gaps[d], q))
                           /\ Verdict(gaps[d], q) # "open"
      /\ \A e \in DOMAIN gaps \ open : e = d => Verdict(gaps[d], q) = "open"
  BY <1>5
<1> HIDE DEF ended, open
<1>7. /\ IsPartial(pending', Gap)
      /\ DOMAIN pending' = {e \in DOMAIN gaps \ open : ~TimedOut(gaps[e])}
      /\ \A e \in DOMAIN pending' : pending'[e] = gaps[e]
      /\ DOMAIN closed' = DOMAIN gaps \ DOMAIN pending'
      /\ \A e \in open : closed'[e] = ended[e]
      /\ \A e \in DOMAIN closed' \ open :
           closed'[e] = Observation(gaps[e], "max_observation_lifetime_reached")
  <2>1. /\ IsPartial(gaps, Gap) /\ DOMAIN ended \subseteq DOMAIN gaps /\ CloseExpired(gaps, ended)
    BY <1>1, <1>5, <1>6
  <2>2. /\ IsPartial(pending', Gap)
        /\ DOMAIN pending' = {e \in DOMAIN gaps \ DOMAIN ended : ~TimedOut(gaps[e])}
        /\ \A e \in DOMAIN pending' : pending'[e] = gaps[e]
        /\ DOMAIN closed' = DOMAIN gaps \ DOMAIN pending'
        /\ \A e \in DOMAIN ended : closed'[e] = ended[e]
        /\ \A e \in DOMAIN closed' \ DOMAIN ended :
             closed'[e] = Observation(gaps[e], "max_observation_lifetime_reached")
    BY <2>1, CloseExpiredEffect, Zenon
  <2> QED
    BY <1>6, <2>2, Zenon
<1>8. "max_observation_lifetime_reached" \in Reason
  BY DEF Reason
<1>9. ASSUME NEW e \in DOMAIN closed'
      PROVE  /\ closed'[e].stage \in Stage /\ closed'[e].reason \in Reason
             /\ closed'[e].entry_ask = pending[e].entry_ask
             /\ closed'[e].stage = "none" =>
                  e = d /\ Verdict(gaps[d], q) = "repriced" /\ closed'[d].age = gaps[d].age
  <2>1. e \in DOMAIN gaps /\ gaps[e] \in Gap /\ gaps[e].entry_ask = pending[e].entry_ask
    BY <1>5, <1>7 DEF IsPartial
  <2>2. CASE e \in open
    <3>1. Verdict(gaps[d], q) \in Reason
      BY <1>2, <1>6, <2>2, VerdictFacts
    <3>2. closed'[e] = Observation(gaps[d], Verdict(gaps[d], q)) /\ e = d
      BY <1>6, <1>7, <2>2
    <3> QED
      BY <2>1, <3>1, <3>2, ObservationFields
  <2>3. CASE e \notin open
    BY <1>7, <1>8, <2>1, <2>3, ObservationFields
  <2> QED
    BY <2>2, <2>3
<1>10. /\ IsPartial(quote', Quote) /\ IsPartial(quote_age', Age)
       /\ DOMAIN quote_age' = DOMAIN quote' /\ DOMAIN quote \subseteq DOMAIN quote'
       /\ d \in DOMAIN quote' /\ quote'[d] = q
       /\ \A e \in DOMAIN quote \ {d} : quote'[e] = quote[e]
  <2>1. 0 \in Age
    BY DetectorAssumption DEF Age
  <2> QED
    <3>1. /\ DOMAIN quote' = DOMAIN quote \cup {d} /\ quote'[d] = q
          /\ \A e \in DOMAIN quote \ {d} : quote'[e] = quote[e]
      BY <1>1
    <3>2. /\ DOMAIN quote_age' = DOMAIN quote_age \cup {d} /\ quote_age'[d] = 0
          /\ \A e \in DOMAIN quote_age \ {d} : quote_age'[e] = quote_age[e]
      BY <1>1, <1>4
    <3>3. quote' = [e \in DOMAIN quote' |-> quote'[e]]
      BY <1>1
    <3>4. quote_age' = [e \in DOMAIN quote_age' |-> quote_age'[e]]
      BY <1>1
    <3>5. IsPartial(quote', Quote)
      <4>1. \A e \in DOMAIN quote : quote[e] \in Quote
        BY <1>4 DEF IsPartial
      <4>2. \A e \in DOMAIN quote' : quote'[e] \in Quote
        BY <1>3, <3>1, <4>1
      <4>3. DOMAIN quote' \subseteq Direction
        BY <1>4, <3>1 DEF IsPartial
      <4> QED
        BY <3>3, <4>2, <4>3 DEF IsPartial
    <3>6. IsPartial(quote_age', Age)
      BY <1>4, <2>1, <3>2, <3>4 DEF IsPartial
    <3> QED
      BY <1>4, <3>1, <3>2, <3>5, <3>6
<1>11. DOMAIN closed' \subseteq Direction
  BY <1>5, <1>7 DEF IsPartial
<1>12. TypeOK'
  BY <1>1, <1>7, <1>9, <1>10, <1>11 DEF IInv, TypeOK
<1>13. NoGapOnInvalidMarket'
  <2>1. pending = Nothing => pending' = Nothing
    BY <1>5, <1>7 DEF Nothing, IsPartial
  <2> QED
    BY <1>1, <2>1 DEF IInv, NoGapOnInvalidMarket
<1>14. PendingIsTradable'
  <2>1. SUFFICES ASSUME NEW e \in DOMAIN pending'
                 PROVE  /\ e \in DOMAIN quote' /\ quote'[e].complete
                        /\ ~EntryLost(pending'[e], quote'[e])
    BY DEF PendingIsTradable, EntryLost, EntryAvailable
  <2>2. e \in DOMAIN gaps \ open /\ e \in DOMAIN pending /\ pending'[e] = gaps[e]
    BY <1>5, <1>7
  <2>3. CASE e = d
    BY <1>2, <1>6, <1>10, <2>2, <2>3, VerdictFacts
  <2>4. CASE e # d
    BY <1>5, <1>10, <2>2, <2>4 DEF IInv, PendingIsTradable
  <2> QED
    BY <2>3, <2>4
<1>15. SuccessIsTimely'
  <2>1. SUFFICES ASSUME NEW e \in DOMAIN closed', closed'[e].stage = "none"
                 PROVE  /\ closed'[e].age <= MaxPending /\ binance_age' <= BinanceStale
                        /\ market_id' \notin invalid' \cup market_invalid'
                        /\ e \in DOMAIN quote' /\ quote'[e].complete
                        /\ quote'[e].bid > closed'[e].entry_ask + MinExitEdge
    BY DEF SuccessIsTimely
  <2>2. /\ e = d /\ Verdict(gaps[d], q) = "repriced" /\ closed'[d].age = gaps[d].age
        /\ closed'[e].entry_ask = gaps[d].entry_ask
    BY <1>5, <1>7, <1>9, <2>1
  <2>3. /\ ~TimedOut(gaps[d]) /\ binance_age <= BinanceStale /\ market_id \notin invalid /\ q.complete
        /\ Repriced(gaps[d], q)
    BY <1>2, <2>2, VerdictFacts
  <2>4. gaps[d].age \in Age
    BY <1>5, <1>7, <2>1, <2>2 DEF IsPartial, Gap
  <2>5. gaps[d].age <= MaxPending
    BY <2>3, <2>4, DetectorAssumption DEF TimedOut, Age
  <2> QED
    <3>1. /\ market_id' \notin invalid' \cup market_invalid' /\ e \in DOMAIN quote' /\ quote'[e].complete
      BY <1>1, <1>3, <1>10, <2>2, <2>3
    <3>2. quote'[e].bid > closed'[e].entry_ask + MinExitEdge
      BY <1>10, <2>2, <2>3 DEF Repriced
    <3>3. closed'[e].age <= MaxPending /\ binance_age' <= BinanceStale
      BY <1>1, <2>2, <2>3, <2>5
    <3> QED
      BY <3>1, <3>2, <3>3
<1>16. Observed
  BY <1>5, <1>7, <1>9 DEF Observed
<1> QED
  BY <1>12, <1>13, <1>14, <1>15, <1>16 DEF IInv

\* An event that closes every gap for a lifecycle reason.
LEMMA CloseAllEffect ==
  ASSUME IInv, NEW reason \in Lifecycle, CloseAll(reason)
  PROVE  pending' = Nothing /\ ClosedOK' /\ NoSuccess' /\ Observed
<1>1. /\ pending' = Nothing
      /\ closed' = [d \in DOMAIN pending |-> Observation(pending[d], reason)]
  BY DEF CloseAll
<1>2. IsPartial(pending, Gap)
  BY DEF IInv, TypeOK
<1>3. reason \in Reason /\ reason # "repriced"
  BY DEF Reason, Lifecycle
<1>4. /\ DOMAIN closed' = DOMAIN pending
      /\ \A d \in DOMAIN closed' :
           /\ closed'[d].stage \in Stage /\ closed'[d].reason \in Reason
           /\ closed'[d].entry_ask = pending[d].entry_ask /\ closed'[d].stage # "none"
  <2>1. DOMAIN closed' = DOMAIN pending
    BY <1>1
  <2>2. ASSUME NEW d \in DOMAIN pending
        PROVE  /\ closed'[d].stage \in Stage /\ closed'[d].reason \in Reason
               /\ closed'[d].entry_ask = pending[d].entry_ask /\ closed'[d].stage # "none"
    <3>1. pending[d] \in Gap /\ closed'[d] = Observation(pending[d], reason)
      BY <1>1, <1>2 DEF IsPartial
    <3> QED
      BY <1>3, <3>1, ObservationFields
  <2> QED
    BY <2>1, <2>2
<1>5. DOMAIN pending' = {}
  BY <1>1 DEF Nothing
<1> QED
  BY <1>1, <1>2, <1>4, <1>5 DEF ClosedOK, NoSuccess, Observed, IsPartial

\* What is left to show of a step after which no gap is pending.
LEMMA NothingPending ==
  ASSUME pending' = Nothing, ClosedOK', NoSuccess',
         tracked' \in BOOLEAN, phase' \in {"warmup", "current", "expired"},
         market_id' \in MarketIds,
         invalid' \subseteq {EventId}, market_invalid' \subseteq {EventId}, binance_age' \in Age,
         IsPartial(quote', Quote), IsPartial(quote_age', Age), DOMAIN quote_age' = DOMAIN quote'
  PROVE  IInv'
<1>1. IsPartial(pending', Gap) /\ DOMAIN pending' = {}
  BY DEF Nothing, IsPartial
<1>2. TypeOK'
  BY <1>1 DEF TypeOK, ClosedOK
<1>3. NoGapOnInvalidMarket' /\ PendingIsTradable'
  BY <1>1 DEF NoGapOnInvalidMarket, PendingIsTradable
<1>4. SuccessIsTimely'
  BY DEF NoSuccess, SuccessIsTimely
<1> QED
  BY <1>2, <1>3, <1>4 DEF IInv

\* A market that is removed observes its gap.
LEMMA RemoveStep == ASSUME IInv, RemoveMarket PROVE IInv' /\ Observed
<1>1. "market_expired" \in Lifecycle
  BY DEF Lifecycle
<1>2. pending' = Nothing /\ ClosedOK' /\ NoSuccess' /\ Observed
  BY <1>1, CloseAllEffect DEF RemoveMarket
<1> QED
  BY <1>2, NothingPending DEF RemoveMarket, IInv, TypeOK

\* A step that observes nothing and keeps every gap but for its age.
LEMMA KeepingStep ==
  ASSUME IInv, closed' = Nothing, UNCHANGED <<market_id, quote>>,
         invalid' \subseteq {EventId}, market_invalid' \subseteq {EventId},
         market_id \in invalid' \cup market_invalid' => market_id \in invalid \cup market_invalid,
         DOMAIN pending' = DOMAIN pending, IsPartial(pending', Gap),
         \A d \in DOMAIN pending : pending'[d].entry_ask = pending[d].entry_ask,
         tracked => tracked', tracked' \in BOOLEAN,
         phase' \in {"warmup", "current", "expired"}, binance_age' \in Age,
         IsPartial(quote_age', Age), DOMAIN quote_age' = DOMAIN quote_age
  PROVE  IInv' /\ Observed
<1>1. DOMAIN closed' = {}
  BY DEF Nothing
<1>2. TypeOK'
  BY <1>1 DEF IInv, TypeOK
<1>3. NoGapOnInvalidMarket'
  <2>1. pending = Nothing => pending' = Nothing
    BY DEF Nothing, IsPartial
  <2> QED
    BY <2>1 DEF IInv, TypeOK, NoGapOnInvalidMarket
<1>4. PendingIsTradable'
  BY DEF IInv, PendingIsTradable, EntryLost, EntryAvailable
<1>5. SuccessIsTimely' /\ Observed
  BY <1>1 DEF SuccessIsTimely, Observed
<1> QED
  BY <1>2, <1>3, <1>4, <1>5 DEF IInv

\* A change of the tick size observes the gap it ends; under another id it ends none.
LEMMA TickSizeStep == ASSUME IInv, TickSizeChange PROVE IInv' /\ Observed
<1>1. /\ invalid' = invalid \cup {EventId} /\ CloseNamed("tick_size_change")
      /\ UNCHANGED <<market_id, tracked, phase, market_invalid, quote, quote_age, binance_age>>
  BY DEF TickSizeChange
<1>2. CASE market_id = EventId
  <2>1. "tick_size_change" \in Lifecycle /\ CloseAll("tick_size_change")
    BY <1>1, <1>2 DEF Lifecycle, CloseNamed
  <2>2. pending' = Nothing /\ ClosedOK' /\ NoSuccess' /\ Observed
    BY <2>1, CloseAllEffect
  <2> QED
    BY <1>1, <2>2, NothingPending DEF IInv, TypeOK
<1>3. CASE market_id # EventId
  <2>1. pending' = pending /\ closed' = Nothing
    BY <1>1, <1>3 DEF CloseNamed
  <2> QED
    BY <1>1, <1>3, <2>1, KeepingStep DEF IInv, TypeOK
<1> QED
  BY <1>2, <1>3

\* A resolved market observes its gap; under another id nothing happens to it.
LEMMA ResolvedStep == ASSUME IInv, MarketResolved PROVE IInv' /\ Observed
<1>1. /\ invalid' = invalid \cup {EventId} /\ market_invalid' = market_invalid \cup {EventId}
      /\ quote' = [d \in DOMAIN quote |->
                     [quote[d] EXCEPT !.complete = @ /\ market_id # EventId]]
      /\ CloseNamed("market_resolved")
      /\ UNCHANGED <<market_id, tracked, phase, quote_age, binance_age>>
  BY DEF MarketResolved, InvalidateQuotes
<1>2. IsPartial(quote, Quote) /\ IsPartial(quote', Quote) /\ DOMAIN quote' = DOMAIN quote
  BY <1>1 DEF IInv, TypeOK, IsPartial, Quote
<1>3. CASE market_id = EventId
  <2>1. "market_resolved" \in Lifecycle /\ CloseAll("market_resolved")
    BY <1>1, <1>3 DEF Lifecycle, CloseNamed
  <2>2. pending' = Nothing /\ ClosedOK' /\ NoSuccess' /\ Observed
    BY <2>1, CloseAllEffect
  <2> QED
    BY <1>1, <1>2, <2>2, NothingPending DEF IInv, TypeOK
<1>4. CASE market_id # EventId
  <2>1. pending' = pending /\ closed' = Nothing
    BY <1>1, <1>4 DEF CloseNamed
  <2>2. \A d \in DOMAIN quote : quote'[d] = quote[d]
    BY <1>1, <1>2, <1>4 DEF IsPartial, Quote
  <2>3. quote' = quote
    BY <1>2, <2>2 DEF IsPartial
  <2> QED
    BY <1>1, <1>4, <2>1, <2>3, KeepingStep DEF IInv, TypeOK
<1> QED
  BY <1>3, <1>4

\* A market that stays keeps its gap.
LEMMA KeepStep == ASSUME IInv, KeepMarket PROVE IInv' /\ Observed
  BY KeepingStep DEF KeepMarket, IInv, TypeOK

\* An age that grows stays an age.
LEMMA OlderAge == ASSUME NEW age \in Age PROVE Older(age) \in Age
  BY DetectorAssumption DEF Older, Age

\* Time passes and no gap is lost.
LEMMA TickStep == ASSUME IInv, Tick PROVE IInv' /\ Observed
<1>1. /\ phase' \in LaterPhases /\ binance_age' = Older(binance_age)
      /\ quote_age' = [d \in DOMAIN quote_age |-> Older(quote_age[d])]
      /\ pending' = [d \in DOMAIN pending |-> [pending[d] EXCEPT !.age = Older(@)]]
      /\ closed' = Nothing
      /\ UNCHANGED <<market_id, tracked, invalid, market_invalid, quote>>
  BY DEF Tick
<1>2. IsPartial(pending, Gap) /\ IsPartial(quote_age, Age) /\ binance_age \in Age
      /\ tracked \in BOOLEAN
  BY DEF IInv, TypeOK
<1>3. phase' \in {"warmup", "current", "expired"}
  BY <1>1 DEF LaterPhases, IInv, TypeOK
<1>4. binance_age' \in Age
  BY <1>1, <1>2, OlderAge
<1>5. IsPartial(quote_age', Age) /\ DOMAIN quote_age' = DOMAIN quote_age
  BY <1>1, <1>2, OlderAge DEF IsPartial
<1>6. ASSUME NEW d \in DOMAIN pending
      PROVE  pending'[d] \in Gap /\ pending'[d].entry_ask = pending[d].entry_ask
  <2>1. pending[d] \in Gap
    BY <1>2 DEF IsPartial
  <2>2. Older(pending[d].age) \in Age
    BY <2>1, OlderAge DEF Gap
  <2> QED
    BY <1>1, <2>1, <2>2 DEF Gap
<1>7. IsPartial(pending', Gap) /\ DOMAIN pending' = DOMAIN pending
  BY <1>1, <1>2, <1>6 DEF IsPartial
<1>8. invalid' \subseteq {EventId} /\ market_invalid' \subseteq {EventId}
  BY <1>1 DEF IInv, TypeOK
<1> QED
  BY <1>1, <1>2, <1>3, <1>4, <1>5, <1>6, <1>7, <1>8, KeepingStep

\* The initial state.
LEMMA InitIInv == Init => IInv
<1> SUFFICES ASSUME Init PROVE IInv
  OBVIOUS
<1>1. /\ DOMAIN Nothing = {} /\ IsPartial(Nothing, Quote) /\ IsPartial(Nothing, Age)
      /\ IsPartial(Nothing, Gap)
  BY DEF Nothing, IsPartial
<1>2. AgeBound \in Age
  BY DetectorAssumption DEF Age
<1>3. TypeOK
  BY <1>1, <1>2 DEF Init, TypeOK
<1> QED
  BY <1>1, <1>3 DEF Init, IInv, NoGapOnInvalidMarket, PendingIsTradable, SuccessIsTimely

\* Every step.
LEMMA Step == IInv /\ [Next]_vars => IInv' /\ [Observed]_vars
<1> SUFFICES ASSUME IInv, [Next]_vars PROVE IInv' /\ [Observed]_vars
  OBVIOUS
<1>1. CASE BinanceQuiet
  BY <1>1, QuietStep
<1>2. CASE \E d \in Direction : BinanceMove(d)
  BY <1>2, MoveStep
<1>3. CASE \E d \in Direction, q \in Quotes : PolymarketQuote(d, q)
  BY <1>3, QuoteStep
<1>4. CASE TickSizeChange
  BY <1>4, TickSizeStep
<1>5. CASE MarketResolved
  BY <1>5, ResolvedStep
<1>6. CASE RemoveMarket
  BY <1>6, RemoveStep
<1>7. CASE KeepMarket
  BY <1>7, KeepStep
<1>8. CASE Tick
  BY <1>8, TickStep
<1>9. CASE UNCHANGED vars
  BY <1>9 DEF vars, IInv, TypeOK, NoGapOnInvalidMarket, PendingIsTradable, SuccessIsTimely,
              EntryLost, EntryAvailable
<1> QED
  BY <1>1, <1>2, <1>3, <1>4, <1>5, <1>6, <1>7, <1>8, <1>9 DEF Next

\* The inductive invariant holds.
THEOREM DetectorCorrect == Spec => []IInv
  BY InitIInv, Step, PTL DEF Spec

\* Every reachable state of the detector is well typed.
THEOREM DetectorTypes == Spec => []TypeOK
  BY DetectorCorrect, PTL DEF IInv

\* No gap stays pending on a market whose own id was announced invalid, or that left the
\* universe.
THEOREM GapsAreOnValidMarkets == Spec => []NoGapOnInvalidMarket
  BY DetectorCorrect, PTL DEF IInv

\* A pending gap can be bought near its entry price by the last quote of its token.
THEOREM GapsAreTradable == Spec => []PendingIsTradable
  BY DetectorCorrect, PTL DEF IInv

\* Successes are in time, on fresh data, a valid market and a complete book.
THEOREM SuccessesAreTimely == Spec => []SuccessIsTimely
  BY DetectorCorrect, PTL DEF IInv

\* Gaps are not silently deleted, and none is observed twice.
THEOREM NoGapIsLost == Spec => GapsAreObserved
<1>1. IInv /\ [Next]_vars =>
        [/\ DOMAIN pending \ DOMAIN pending' = DOMAIN closed'
         /\ \A d \in DOMAIN closed' : closed'[d].entry_ask = pending[d].entry_ask]_vars
  BY Step DEF Observed
<1> QED
  BY <1>1, DetectorCorrect, PTL DEF Spec, GapsAreObserved
=============================================================================
