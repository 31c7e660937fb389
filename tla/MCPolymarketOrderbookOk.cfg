SPECIFICATION Spec
CONSTANTS
  EventId = condition
  MarketIds = {condition}
  Prices <- MCWidePrices
  Modes = {"tolerant"}
  ToleranceTicks = 1
  TickSizes = {1}
PROPERTIES ReportedBestValidationOk
