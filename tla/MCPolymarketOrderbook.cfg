SPECIFICATION Spec
CONSTANTS
  EventId = condition
  MarketIds = {condition, gamma}
  Prices <- MCPrices
  Modes = {"strict", "tolerant", "diagnostic"}
  ToleranceTicks = 1
  TickSizes = {1, 2}
INVARIANTS InvalidForGood
PROPERTIES CompleteAgrees
