SPECIFICATION Spec
CONSTANTS
  EventId = condition
  MarketIds = {condition, gamma}
  Quotes <- MCQuotes
  MinExitEdge = 0
  RepriceThreshold = 2
  MaxEntrySpread = 2
  MaxEntryMove = 1
  MaxPending = 1
  BinanceStale = 0
  PolymarketStale = 1
  WarmupMax = 2
  AgeBound = 2
INVARIANTS LateQuoteDoesNotReclassify
