-------------------------- MODULE MCMarketUniverse --------------------------
(* An instance of MarketUniverse: two assets, one market of each kind that is *)
(* never tradable, a clock that spans three windows and outlives the cache.   *)
EXTENDS MarketUniverse, TLC

CONSTANTS btc, eth

PausedMarkets == {<<btc, 1>>}
MalformedMarkets == {<<eth, 2>>}
=============================================================================
