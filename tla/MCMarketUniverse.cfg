SPECIFICATION FairSpec
CONSTANTS
  btc = btc
  eth = eth
  Group = {btc, eth}
  Paused <- PausedMarkets
  Malformed <- MalformedMarkets
  Dur = 2
  Lead = 3
  Lookahead = 1
  Interval = 1
  TTL = 1
  StartTimeout = 1
  FetchTime = 1
  MaxTime = 4
  MaxRestarts = 1
INVARIANTS CurrentIsTracked
PROPERTIES UniverseKept AdoptedIsFresh DiscoveryEnds
CHECK_DEADLOCK FALSE
