------------------------------ MODULE MCResearch ------------------------------
(* Instances of ResearchPipeline: a few lines per file, times close to the   *)
(* horizon and the allowed gaps, one defect of each kind, a torn line.       *)
EXTENDS ResearchPipeline

CONSTANT book_ticker

Book(ts, exchange, bid, ask) ==
  [ts |-> ts, wall |-> ts, exchange |-> exchange, bid |-> bid, ask |-> ask,
   bids |-> <<<<bid, 1>>, <<bid - 1, 2>>>>, asks |-> <<<<ask, 2>>>>,
   quality |-> TRUE, lifecycle |-> TRUE]

Quote(ts, trade, event, bid, ask) ==
  [ts |-> ts, trade |-> trade, event |-> event, bid |-> bid, ask |-> ask]

\* Samples for 4.2: two books at five times, a defective and a torn one.
LabelLines ==
  {Book(t, t, 3, 4) : t \in 0 .. 4} \cup {Book(3, 3, 5, 9)}
    \cup {[Book(2, 2, 3, 4) EXCEPT !.quality = FALSE], Torn}

\* Samples for the reference programs.
FeatureLines ==
  {Book(0, 0, 3, 4), Book(1, NoValue, 3, 4), Book(2, 1, 5, 9), Torn}

\* Quotes by receive time, trade time and event time; a crossed one.
QuoteLines ==
  {Quote(1, NoValue, 2, 3, 4), Quote(2, 3, 2, 5, 9), Quote(3, NoValue, 2, 3, 9),
   Quote(3, NoValue, NoValue, 3, 4), Quote(2, NoValue, 1, 4, 4), Torn}

\* Samples received early and late, for the clock.
LateLines == {Book(1, 1, 3, 4), Book(4, 1, 3, 4), Book(8, 1, 3, 4)}

LinesOf == [p \in Program |-> IF p = Labels THEN LabelLines
                              ELSE IF p = Corrected THEN LateLines ELSE FeatureLines]

QuotesOf == [p \in Program |-> IF p = Labels THEN {}
                               ELSE IF p = Corrected THEN {Quote(10, NoValue, 3, 3, 4)}
                               ELSE QuoteLines]

CleanBound == [p \in Program |-> IF p = Labels THEN 4 ELSE IF p = Corrected THEN 1 ELSE 2]
FeedBound == [p \in Program |-> IF p = Labels THEN 0 ELSE IF p = Corrected THEN 1 ELSE 3]
MeasureBound == [p \in Program |-> IF p = Corrected THEN 3 ELSE 0]

Offsets == {0, -3}
Horizons == [h \in Horizon |-> IF h = "short" THEN 1 ELSE 2]
Gaps1 == [h \in Horizon |-> 1]
Rates == [h \in Horizon |-> IF h = "short" THEN 50 ELSE 60]
Back == [f \in PastFeature |-> 1]
BackGap == [f \in PastFeature |-> 1]
===============================================================================
