SPECIFICATION MonitorFairSpec
CONSTANTS
  Task = {binance, polymarket}
  MaxEvents = 3
INVARIANTS CleanExitIsComplete
PROPERTIES ImplementsRowLog StopEnds
CHECK_DEADLOCK FALSE
