--------------------------- MODULE MCGapDetector ----------------------------
(* An instance of GapDetector: quotes that can be bought, that reprice the mid, the bid, *)
(* or move away, that are incomplete, of no known size, or before the first snapshot.    *)
EXTENDS GapDetector

Full(bid, ask) ==
  [bid |-> bid, ask |-> ask, sized |-> TRUE, snapshot |-> TRUE, complete |-> TRUE]

\* Bought at 2: the mid repriced at 2-3, the bid at 3-4, the ask away at 2-4.
MCQuotes ==
  {Full(1, 2), Full(2, 3), Full(3, 4), Full(2, 4),
   [Full(1, 2) EXCEPT !.complete = FALSE],
   [Full(1, 2) EXCEPT !.sized = FALSE],
   [Full(NoPrice, 2) EXCEPT !.complete = FALSE, !.snapshot = FALSE]}
=============================================================================
