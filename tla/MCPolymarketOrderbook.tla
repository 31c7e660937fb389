----------------------- MODULE MCPolymarketOrderbook ------------------------
(* An instance of PolymarketOrderbook: the two sides of a token have two prices each,  *)
(* of which one is common, so that books are empty on a side, uncrossed, and crossed,  *)
(* and a report is in, one tick off, or two ticks off.                                 *)
EXTENDS PolymarketOrderbook

MCPrices == [bid |-> {1, 2}, ask |-> {2, 3}]

\* For the runs of what the documents say: one more price a side, so that a report can be
\* beyond the tolerance on one side of an uncrossed book.
MCWidePrices == [bid |-> {1, 2, 3}, ask |-> {4, 5}]
=============================================================================
