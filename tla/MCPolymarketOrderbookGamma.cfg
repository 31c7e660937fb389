SPECIFICATION Spec
CONSTANTS
  EventId = condition
  MarketIds = {condition, gamma}
  Prices <- MCPrices
  Modes = {"tolerant"}
  ToleranceTicks = 1
  TickSizes = {1}
INVARIANTS ResolvedMarketIsIncomplete
