--------------------------- MODULE MarketUniverse ---------------------------
(***************************************************************************)
(* The rolling market universe: PolymarketDiscoveryClient of               *)
(* marketdata/polymarket_discovery.py, RuntimeMarketUniverseManager of     *)
(* marketdata/market_universe.py, and the start and the loop of            *)
(* main.run_gap_monitor as far as they decide when it is refreshed.        *)
(*                                                                         *)
(* A market <<g, w>> is the w-th window of a group g, an asset with a      *)
(* duration.  A view is what one knows of some markets: a function from    *)
(* markets to their status.  "paused" is a market that takes no orders (or *)
(* has no book): never tradable.  A market that cannot be parsed is one    *)
(* that no answer has.  The requests of one stage are one step, at the     *)
(* instant of their answers; time passes between the stages.               *)
(***************************************************************************)
EXTENDS Integers, FiniteSets, Functions

CONSTANTS
  Group,        \* asset and duration
  Paused,       \* markets that take no orders
  Malformed,    \* markets whose payload parse_market_metadata rejects
  Dur,          \* length of a window
  Lead,         \* Gamma lists a market this long before its start
  Lookahead,    \* lookahead_windows
  Interval,     \* refresh_interval_ms
  TTL,          \* market_cache_ttl_ms
  StartTimeout, \* market_discovery_startup_timeout_ms
  FetchTime,    \* bound: how long the requests of one discovery take
  MaxTime,      \* bound: of the clock
  MaxRestarts   \* bound: how often the process is killed and started again

ASSUME UniverseAssumption ==
  /\ Dur \in Nat \ {0} /\ Interval \in Nat \ {0} /\ Lookahead \in Nat \ {0}
  /\ {Lead, TTL, StartTimeout, FetchTime, MaxTime, MaxRestarts} \subseteq Nat

Window == 0 .. (MaxTime \div Dur) + Lookahead
Market == Group \X Window

Start(m) == m[2] * Dur
End(m) == (m[2] + 1) * Dur

\* What Gamma says of a market at time t; before that it does not know it.
Listed(m, t) == Start(m) - Lead <= t
StatusAt(m, t) ==
  IF t >= End(m) THEN "closed" ELSE IF m \in Paused THEN "paused" ELSE "open"

Statuses == {"open", "paused", "closed"}
IsView(v) == DOMAIN v \subseteq Market /\ \A m \in DOMAIN v : v[m] \in Statuses
Nothing == [m \in {} |-> "open"]

-----------------------------------------------------------------------------
(* Classification and selection, as functions of a view and an instant.             *)

IsRuntimeTradable(v, m, t) == v[m] = "open" /\ End(m) > t

Classification(v, m, t) ==
  IF v[m] = "closed" THEN "closed"
  ELSE IF v[m] = "paused" THEN "active_but_not_accepting_orders"
  ELSE IF End(m) <= t THEN "expired"
  ELSE IF Start(m) <= t THEN "current_signal"
  ELSE IF Start(m) - t <= Dur THEN "next_warmup"
  ELSE "future_tracked"

Tradable(v, t) == {m \in DOMAIN v : IsRuntimeTradable(v, m, t)}

CurrentSignal(v, t) == {m \in Tradable(v, t) : Start(m) <= t}

\* The first n tradable markets of each group that have not started.
NearestFutures(v, t, n) ==
  LET futures == {m \in Tradable(v, t) : Start(m) > t}
  IN  {m \in futures : Cardinality({k \in futures : k[1] = m[1] /\ k[2] < m[2]}) < n}

\* A mutant of Selected: an index starts at 1, and one future window is left out.
SelectedNear(v, t) == CurrentSignal(v, t) \cup NearestFutures(v, t, Lookahead - 1)

\* _select_runtime_market_key_role_order, select_runtime_market_universe
Selected(v, t) == CurrentSignal(v, t) \cup NearestFutures(v, t, Lookahead)

Role(v, m, t) ==
  IF m \in CurrentSignal(v, t) THEN "current_signal"
  ELSE IF m \in NearestFutures(v, t, 1) THEN "next_warmup"
  ELSE IF m \in Selected(v, t) THEN "future_tracked"
  ELSE Classification(v, m, t)

AllClosed(v) == DOMAIN v # {} /\ \A m \in DOMAIN v : v[m] = "closed"
NoneAccepts(v) == DOMAIN v # {} /\ \A m \in DOMAIN v : v[m] # "open"

\* A market that runs or comes next, by its window alone or by its rank in the group.
NearByWindow(v, t) ==
  \E m \in Selected(v, t) : Classification(v, m, t) \in {"current_signal", "next_warmup"}
NearByRole(v, t) ==
  \E m \in Selected(v, t) : Role(v, m, t) \in {"current_signal", "next_warmup"}

\* generate_crypto_updown_slugs: two windows back, the lookahead ahead.
LookedUp(t) == {m \in Market : m[2] \in (t \div Dur) - 2 .. (t \div Dur) + Lookahead}

\* _is_rolling_window_compatible
Compatible(m, t) ==
  /\ End(m) > t
  /\ m[2] \in (t \div Dur) - 1 .. (t \div Dur) + Lookahead

\* _dedupe_prefer_runtime: the first answer on a market, unless only the second is tradable.
Merged(v, u, t) ==
  [m \in DOMAIN v \cup DOMAIN u |->
     IF m \in DOMAIN v /\ (m \notin DOMAIN u \/ v[m] = "open" \/ u[m] # "open")
     THEN v[m] ELSE u[m]]

-----------------------------------------------------------------------------

VARIABLES
  now,            \* the clock
  pc,             \* the await at which the monitor is suspended
  caller,         \* of the discovery that runs: "startup" or "refresh"
  asof,           \* its now_ts
  found,          \* what it discovered so far
  unparsed,       \* how many answers to its slug lookups could not be parsed
  whole,          \* every lookup of it was answered
  validation,     \* of the cache, by it
  cache,          \* the cache file
  started,        \* when the process started, while it starts
  markets,        \* the universe: of the manager, the detector and the websocket client
  looked,         \* asof of the last whole discovery the universe comes from, or -1
  next_discovery, \* _next_discovery_ts, 0 for None
  failure_reason, \* discovery_failure_reason
  restarts

discovery == <<caller, asof, found, unparsed, whole, validation>>
universe == <<markets, looked, next_discovery, failure_reason>>
vars == <<now, pc, discovery, cache, started, universe, restarts>>

NoCache == [kind |-> "absent", view |-> Nothing, at |-> 0, seen |-> 0]
TornCache == [NoCache EXCEPT !.kind = "torn"]

NoDiscovery ==
  /\ caller = "startup" /\ asof = 0 /\ found = Nothing /\ unparsed = 0
  /\ whole = FALSE /\ validation = "absent"

Init ==
  /\ now = 0 /\ pc = "startup" /\ NoDiscovery
  /\ cache = NoCache /\ started = 0
  /\ markets = {}  /\ looked = -1 /\ next_discovery = 0
  /\ failure_reason = "none"
  /\ restarts = 0

-----------------------------------------------------------------------------
(* One discovery: discover_rolling_markets_robust.                                  *)

Fetching == {"direct", "active", "finish"}

Begin(who) ==
  /\ pc' = "direct"
  /\ caller' = who /\ asof' = now /\ found' = Nothing /\ unparsed' = 0
  /\ whole' = FALSE /\ validation' = "absent"

\* A mutant of CacheRejected: a cache of any age is as good as a new one.
CacheRejectedAgeless(c, t) ==
  c.kind = "torn" \/ AllClosed(c.view) \/ NoneAccepts(c.view) \/ ~NearByWindow(c.view, t)
CacheRejected(c, t) ==
  \/ c.kind = "torn"
  \/ now - c.at > TTL
  \/ AllClosed(c.view)
  \/ NoneAccepts(c.view)
  \/ ~NearByWindow(c.view, t)

\* validate_cache_for_runtime, at the time of the call.
Validation(c, t) ==
  IF c.kind = "absent" THEN "absent"
  ELSE IF CacheRejected(c, t) THEN "rejected" ELSE "valid"

\* Bound: the slug lookups that get no answer (a network error counts as "no such market"):
\* none, those of one group, or those of the window that runs.
LookupFailures ==
  {{}, {m \in LookedUp(asof) : m[2] = asof \div Dur}}
    \cup {{m \in LookedUp(asof) : m[1] = g} : g \in Group}

NeedsFallback(v, valid) ==
  \/ CurrentSignal(v, asof) = {}
  \/ AllClosed(v)
  \/ NoneAccepts(v)
  \/ valid = "rejected"

DirectLookup ==
  /\ pc = "direct"
  /\ \E missing \in LookupFailures :
       LET answered == {m \in LookedUp(asof) \ missing : Listed(m, now)}
           view == [m \in answered \ Malformed |-> StatusAt(m, now)]
       IN  /\ unparsed' = Cardinality(answered \cap Malformed)
           /\ found' = view
           /\ whole' = (missing = {})
           /\ pc' = IF NeedsFallback(view, Validation(cache, asof)) THEN "active" ELSE "finish"
  /\ validation' = Validation(cache, asof)
  /\ UNCHANGED <<now, caller, asof, cache, started, universe, restarts>>

\* discover_active_event_rolling_markets: pages of what is active and not closed.
ActiveEvents ==
  /\ pc = "active"
  /\ \E part \in {Market, {}} :
       LET listed == {m \in part \ Malformed : Listed(m, now) /\ StatusAt(m, now) # "closed"}
           view == [m \in listed |-> StatusAt(m, now)]
           kept == {m \in Tradable(view, asof) : Compatible(m, asof)}
       IN  found' = Merged(found, Restrict(view, kept), asof)
  /\ pc' = "finish"
  /\ UNCHANGED <<now, caller, asof, unparsed, whole, validation, cache, started, universe, restarts>>

\* The cache stands in when nothing is tradable ...
CacheUsed == Selected(found, asof) = {} /\ validation = "valid"
Discovered == IF CacheUsed THEN cache.view ELSE found

\* ... and is written, with the time of the write, when the answer is usable and live.
WritesCache ==
  /\ ~CacheUsed
  /\ ~AllClosed(found) /\ ~NoneAccepts(found)
  /\ Selected(found, asof) # {} /\ NearByRole(found, asof)

Written ==
  [kind |-> "file", view |-> Discovered, at |-> now,
   seen |-> IF CacheUsed THEN cache.seen ELSE asof]

\* _build_discovery_attempt and _derive_discovery_failure_reason.  The reason is asked for
\* when nothing is tradable: the active events were then asked and brought nothing, and what
\* was found is the answer of the slug lookups.
DirectAllClosed ==
  LET answered == Cardinality(DOMAIN found) + unparsed
      closed == {m \in DOMAIN found : found[m] = "closed"}
  IN  AllClosed(found) \/ (answered > 0 /\ Cardinality(closed) >= answered)

DeriveFailureReason ==
  IF DirectAllClosed THEN "direct_slug_all_closed"
  ELSE IF NeedsFallback(found, validation) THEN "active_events_no_runtime_markets"
  ELSE IF validation = "rejected" THEN "cache_rejected_for_runtime"
  ELSE "no_runtime_markets_after_full_discovery"

-----------------------------------------------------------------------------
(* The callers.                                                                     *)

Adopt(S, full) ==
  /\ markets' = S
  /\ looked' = IF full THEN asof ELSE -1

\* The constructor of RuntimeMarketUniverseManager selects once more, at its own time.
AtConstruction(v) == Selected(Restrict(v, Selected(v, asof)), now)

ScheduleNext == next_discovery' = asof + Interval

\* A mutant of Preserve: the universe follows an answer that has nothing.
TakeNothing == markets' = {} /\ UNCHANGED looked
Preserve == UNCHANGED <<markets, looked>>

NeverTimedOut == FALSE          \* a mutant of TimedOut
TimedOut == now >= started + StartTimeout

\* _discover_polymarket_markets_for_startup: an attempt without markets is repeated until
\* the timeout.
StartupEnds(view, full) ==
  IF Selected(view, asof) # {}
  THEN Adopt(AtConstruction(view), full) /\ pc' = "sleep" /\ started' = 0
  ELSE Preserve /\ UNCHANGED started /\ pc' = IF TimedOut THEN "exited" ELSE "startup"

EndDiscovery ==
  /\ caller' = "startup" /\ asof' = 0 /\ found' = Nothing /\ unparsed' = 0
  /\ whole' = FALSE /\ validation' = "absent"

\* RuntimeMarketUniverseManager.refresh, when the discovery returns.
RefreshEnds ==
  /\ pc' = "sleep"
  /\ ScheduleNext
  /\ IF Selected(Discovered, asof) = {}
     THEN Preserve /\ failure_reason' = DeriveFailureReason
     ELSE /\ Adopt(Selected(Discovered, asof), whole /\ ~CacheUsed)
          /\ failure_reason' = IF CurrentSignal(Discovered, asof) # {} THEN "none"
                               ELSE "no_current_signal_markets_after_full_discovery"

Finish ==
  /\ pc = "finish"
  /\ cache' = IF WritesCache THEN Written ELSE cache
  /\ \/ /\ caller = "startup"
        /\ StartupEnds(Discovered, whole /\ ~CacheUsed)
        /\ UNCHANGED <<next_discovery, failure_reason>>
     \/ /\ caller = "refresh"
        /\ RefreshEnds
        /\ UNCHANGED started
  /\ EndDiscovery
  /\ UNCHANGED <<now, restarts>>

\* A page of active events, the write of the cache or of the debug file raises.  At the
\* start the cache is then looked at once more.
DiscoveryRaises ==
  /\ \/ pc = "active" /\ UNCHANGED cache
     \/ pc = "finish" /\ cache' \in {cache} \cup (IF WritesCache THEN {TornCache, Written} ELSE {})
  /\ \/ /\ caller = "startup"
        /\ StartupEnds(IF Validation(cache', asof) = "valid" THEN cache'.view ELSE Nothing, FALSE)
        /\ UNCHANGED <<next_discovery, failure_reason>>
     \/ /\ caller = "refresh"
        /\ pc' = "sleep"
        /\ ScheduleNext
        /\ Preserve
        /\ failure_reason' = "market_discovery_exception"
        /\ UNCHANGED started
  /\ EndDiscovery
  /\ UNCHANGED <<now, restarts>>

StartupAttempt ==
  /\ pc = "startup"
  /\ Begin("startup")
  /\ UNCHANGED <<now, cache, started, universe, restarts>>

-----------------------------------------------------------------------------
(* The loop of run_gap_monitor.                                                     *)

\* refresh_due
RefreshDue == next_discovery = 0 \/ now >= next_discovery

\* A round of the loop with a refresh.  None has to be due: it may be forced at any time, by a
\* new_market event or, when no market gives a signal, by Binance moves
\* (should_force_market_refresh).
Round ==
  /\ pc = "sleep"
  /\ Begin("refresh")
  /\ UNCHANGED <<now, cache, started, universe, restarts>>

Tick ==
  /\ now < MaxTime
  /\ pc \in Fetching => now < asof + FetchTime
  /\ now' = now + 1
  /\ UNCHANGED <<pc, discovery, cache, started, universe, restarts>>

\* The process is killed, during the write of the cache or elsewhere, and started again.
Restart ==
  /\ restarts < MaxRestarts /\ now + StartTimeout <= MaxTime
  /\ restarts' = restarts + 1
  /\ pc' = "startup"
  /\ \/ UNCHANGED cache
     \/ pc = "finish" /\ WritesCache /\ cache' = TornCache
  /\ started' = now
  /\ EndDiscovery
  /\ markets' = {}  /\ looked' = -1 /\ next_discovery' = 0
  /\ failure_reason' = "none"
  /\ UNCHANGED now

Discovering == DirectLookup \/ ActiveEvents \/ Finish \/ DiscoveryRaises \/ StartupAttempt

Next ==
  \/ Discovering \/ Round
  \/ Tick \/ Restart

Spec == Init /\ [][Next]_vars

\* Requests have timeouts, so a discovery goes on; the loop wakes up every second.
FairSpec == Spec /\ WF_vars(Discovering) /\ WF_vars(RefreshDue /\ Round) /\ WF_vars(Tick)

-----------------------------------------------------------------------------
(* Properties.                                                                      *)

Reasons == {"none", "market_discovery_exception", "direct_slug_all_closed",
            "active_events_no_runtime_markets", "cache_rejected_for_runtime",
            "no_runtime_markets_after_full_discovery",
            "no_current_signal_markets_after_full_discovery"}

\* Types; what a discovery knows is dropped when it ends.
TypeOK ==
  /\ now \in 0..MaxTime /\ pc \in {"startup", "sleep", "exited"} \cup Fetching
  /\ caller \in {"startup", "refresh"} /\ asof \in 0..now
  /\ IsView(found) /\ unparsed \in Nat /\ whole \in BOOLEAN
  /\ validation \in {"absent", "valid", "rejected"}
  /\ cache.kind \in {"absent", "torn", "file"} /\ IsView(cache.view)
  /\ cache.at \in 0..now /\ cache.seen \in 0..cache.at
  /\ markets \subseteq Market /\ looked \in -1..now
  /\ next_discovery \in Nat /\ started \in 0..now
  /\ failure_reason \in Reasons
  /\ restarts \in 0..MaxRestarts

\* A running monitor never empties its universe, whatever its discoveries come back with:
\* errors and empty answers leave it as it was (market_universe.py:203, :227).
UniverseKept == [][markets # {} /\ restarts' = restarts => markets' # {}]_vars

\* After a discovery whose lookups were all answered, and until another one replaces what it
\* found, the window that runs is tracked for every asset, those that began since included:
\* refreshes that fail in between and the roll from one window to the next lose none.
CurrentIsTracked ==
  looked >= 0 =>
    \A g \in Group : LET m == <<g, now \div Dur>> IN
      /\ m \notin Paused \cup Malformed
      /\ Listed(m, looked) /\ m[2] <= (looked \div Dur) + Lookahead
      => m \in markets

\* Markets are adopted on the word of a live answer: the discovery's own, or one that is not
\* older than the time to live of the cache, whatever went through the cache file before and
\* across restarts.
AdoptedIsFresh ==
  [][(markets' # markets /\ markets' # {}) =>
       \/ pc = "finish" /\ ~CacheUsed /\ markets' \subseteq DOMAIN found
       \/ cache'.seen >= asof - TTL - FetchTime]_vars

\* The start and every refresh come to an end: in the loop, or with the program's exit.
DiscoveryEnds == (pc \in Fetching \cup {"startup"}) ~> (pc \in {"sleep", "exited"})

=============================================================================
