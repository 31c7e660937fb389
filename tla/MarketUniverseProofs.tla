------------------------ MODULE MarketUniverseProofs ------------------------
(***************************************************************************)
(* Proofs about MarketUniverse, for any groups, markets, clocks, limits    *)
(* and failures.  The inductive invariant follows what a discovery knows   *)
(* from its lookups, through the cache file, to the universe.              *)
(***************************************************************************)
EXTENDS MarketUniverse, FiniteSetTheorems, TLAPS

\* The clock, the discovery's own time, the numbers of the cache and the universe, and that
\* only markets are found.
Times ==
  /\ now \in 0 .. MaxTime /\ asof \in 0 .. now
  /\ pc \in {"startup", "sleep", "exited"} \cup Fetching
  /\ caller \in {"startup", "refresh"} /\ whole \in BOOLEAN
  /\ cache.kind \in {"absent", "torn", "file"} /\ cache.at \in Nat /\ cache.seen \in Nat
  /\ looked \in -1 .. now /\ DOMAIN found \subseteq Market
  /\ pc \in Fetching => now <= asof + FetchTime

\* A monitor that starts has no universe yet.
StartsEmpty ==
  pc = "startup" \/ (pc \in Fetching /\ caller = "startup") => markets = {}

\* A cache file is written at most one discovery after what it holds was asked for, and one
\* found valid was young when this discovery's lookups were answered.
CacheHonest == cache.kind = "file" => cache.seen >= cache.at - FetchTime
ValidIsYoung ==
  pc \in {"active", "finish"} /\ validation = "valid" =>
    cache.kind = "file" /\ asof - cache.at <= TTL

\* The markets that must be known to whoever looked all of them up at time t: those that have
\* not ended yet, among the ones Gamma lists that can be traded.
Due(t) ==
  {m \in LookedUp(t) \ (Paused \cup Malformed) : Listed(m, t) /\ End(m) > now}

\* A discovery whose lookups were all answered has found them, and so has the universe.
FoundDue ==
  pc \in {"active", "finish"} /\ whole => \A m \in Due(asof) : m \in DOMAIN found /\ found[m] = "open"
TrackedDue == looked >= 0 => Due(looked) \subseteq markets

UniverseInvariant ==
  Times /\ StartsEmpty /\ CacheHonest /\ ValidIsYoung /\ FoundDue /\ TrackedDue

-----------------------------------------------------------------------------
(* Windows and time.                                                                *)

\* The constants are numbers.
LEMMA Constants ==
  /\ Dur \in Nat \ {0} /\ Lookahead \in Nat \ {0} /\ Interval \in Nat
  /\ Lead \in Nat /\ TTL \in Nat /\ StartTimeout \in Nat /\ FetchTime \in Nat
  /\ MaxTime \in Nat /\ MaxRestarts \in Nat
BY UniverseAssumption

\* Later periods start later.
LEMMA TimesGrow ==
  ASSUME NEW a \in Nat, NEW b \in Nat, a <= b
  PROVE  a * Dur <= b * Dur /\ a * Dur \in Nat
<1>1. PICK c \in Nat : b = a + c
  BY b - a \in Nat
<1>2. b * Dur = a * Dur + c * Dur /\ c * Dur \in Nat /\ a * Dur \in Nat
  BY <1>1, Constants
<1> QED BY <1>2

\* The window of an instant begins at or before it and ends after it.
LEMMA OwnWindow ==
  ASSUME NEW t \in Nat
  PROVE  /\ t \div Dur \in Nat
         /\ (t \div Dur) * Dur <= t
         /\ t < ((t \div Dur) + 1) * Dur
BY Constants

\* A window that has not ended is the instant's own or a later one.
LEMMA NotEnded ==
  ASSUME NEW t \in Nat, NEW w \in Nat, t < (w + 1) * Dur
  PROVE  t \div Dur <= w
<1> SUFFICES ASSUME w < t \div Dur PROVE FALSE
  BY OwnWindow
<1>1. t \div Dur \in Nat /\ w + 1 <= t \div Dur /\ w + 1 \in Nat
  BY OwnWindow
<1>2. (w + 1) * Dur <= (t \div Dur) * Dur
  BY <1>1, TimesGrow
<1> QED BY <1>1, <1>2, OwnWindow, TimesGrow, Constants

\* A window that has not begun is a later one.
LEMMA NotBegun ==
  ASSUME NEW t \in Nat, NEW w \in Nat, t < w * Dur
  PROVE  t \div Dur < w
<1> SUFFICES ASSUME w <= t \div Dur PROVE FALSE
  BY OwnWindow
<1>1. t \div Dur \in Nat
  BY OwnWindow
<1>2. w * Dur <= (t \div Dur) * Dur
  BY <1>1, TimesGrow
<1> QED BY <1>1, <1>2, OwnWindow, TimesGrow, Constants

\* Later instants have later windows.
LEMMA WindowsGrow ==
  ASSUME NEW s \in Nat, NEW t \in Nat, s <= t
  PROVE  s \div Dur <= t \div Dur
<1>1. t \div Dur \in Nat /\ s < ((t \div Dur) + 1) * Dur
  <2>1. t \div Dur \in Nat /\ t < ((t \div Dur) + 1) * Dur
    BY OwnWindow
  <2>2. ((t \div Dur) + 1) * Dur \in Nat
    BY <2>1, Constants
  <2> QED BY <2>1, <2>2
<1> QED BY <1>1, NotEnded

\* A market is a group and a period, with a start and an end.
LEMMA MarketNumbers ==
  ASSUME NEW m \in Market
  PROVE  m[1] \in Group /\ m[2] \in Nat /\ m = <<m[1], m[2]>>
         /\ Start(m) \in Nat /\ End(m) \in Nat
<1>1. MaxTime \div Dur \in Nat
  BY Constants, OwnWindow
<1>2. m[1] \in Group /\ m[2] \in Nat /\ m = <<m[1], m[2]>>
  BY <1>1, Constants DEF Market, Window
<1> QED BY <1>2, Constants DEF Start, End

-----------------------------------------------------------------------------
(* Selection.                                                                       *)

\* Of the markets of one group that have not begun at t, fewer than Lookahead lie before one
\* that is at most Lookahead windows after that of an earlier instant s.
LEMMA FewBefore ==
  ASSUME NEW s \in Nat, NEW t \in Nat, s <= t, NEW m \in Market,
         m[2] <= (s \div Dur) + Lookahead,
         NEW X \in SUBSET Market,
         \A k \in X : k[1] = m[1] /\ k[2] < m[2] /\ t < k[2] * Dur
  PROVE  Cardinality(X) < Lookahead
<1> DEFINE a == s \div Dur
           f == [k \in X |-> k[2]]
<1>1. a \in Nat /\ m[2] \in Nat /\ Lookahead \in Nat \ {0}
  BY OwnWindow, MarketNumbers, Constants
<1>2. ASSUME NEW k \in X PROVE k[2] \in a + 1 .. m[2] - 1
  <2>1. k[2] \in Nat /\ k[2] < m[2]
    BY MarketNumbers
  <2>2. t \div Dur < k[2]
    BY <2>1, NotBegun
  <2>3. a <= t \div Dur /\ t \div Dur \in Nat
    BY WindowsGrow, OwnWindow
  <2> HIDE DEF a
  <2> QED BY <1>1, <2>1, <2>2, <2>3
<1>3. \A j, k \in X : j[2] = k[2] => j = k
  BY MarketNumbers
<1>4. f \in Injection(X, a + 1 .. m[2] - 1)
  BY <1>2, <1>3 DEF Injection, IsInjective
<1> HIDE DEF a, f
<1>5. /\ IsFiniteSet(a + 1 .. m[2] - 1)
      /\ Cardinality(a + 1 .. m[2] - 1) = IF a + 1 > m[2] - 1 THEN 0 ELSE m[2] - 1 - (a + 1) + 1
  <2>1. a + 1 \in Int /\ m[2] - 1 \in Int
    BY <1>1
  <2> QED BY <2>1, FS_Interval
<1>6. IsFiniteSet(X) /\ Cardinality(X) <= Cardinality(a + 1 .. m[2] - 1)
  BY <1>4, <1>5, FS_Injection
<1>7. Cardinality(X) \in Nat
  BY <1>6, FS_CardinalityType
<1>8. m[2] <= a + Lookahead
  BY DEF a
<1> QED BY <1>1, <1>5, <1>6, <1>7, <1>8

\* select_runtime_market_universe: an open market that has not ended is selected if it is at
\* most Lookahead windows after that of an earlier instant.
LEMMA OpenIsSelected ==
  ASSUME NEW s \in Nat, NEW t \in Nat, s <= t, NEW v, DOMAIN v \subseteq Market,
         NEW m \in DOMAIN v, v[m] = "open", End(m) > t, m[2] <= (s \div Dur) + Lookahead
  PROVE  m \in Selected(v, t)
<1>1. m \in Market /\ Start(m) \in Nat
  BY MarketNumbers
<1>2. m \in Tradable(v, t)
  BY DEF Tradable, IsRuntimeTradable
<1>3. CASE Start(m) <= t
  BY <1>2, <1>3 DEF Selected, CurrentSignal
<1>4. CASE Start(m) > t
  <2> DEFINE futures == {k \in Tradable(v, t) : Start(k) > t}
             X == {k \in futures : k[1] = m[1] /\ k[2] < m[2]}
  <2>1. X \in SUBSET Market
    BY DEF Tradable
  <2>2. \A k \in X : k[1] = m[1] /\ k[2] < m[2] /\ t < k[2] * Dur
    <3> TAKE k \in X
    <3>1. k \in Market /\ Start(k) > t /\ Start(k) \in Nat
      BY <2>1, MarketNumbers
    <3> QED BY <3>1 DEF Start
  <2> HIDE DEF X
  <2>3. Cardinality(X) < Lookahead
    BY <1>1, <2>1, <2>2, FewBefore
  <2>4. m \in futures
    BY <1>2, <1>4
  <2> QED BY <2>3, <2>4 DEF Selected, NearestFutures, X
<1> QED BY <1>1, <1>3, <1>4

\* Only known markets are selected.
LEMMA SelectedKnown ==
  ASSUME NEW v, NEW t
  PROVE  Selected(v, t) \subseteq DOMAIN v
BY DEF Selected, CurrentSignal, NearestFutures, Tradable

\* A market that is due and was found open is in the universe the discovery brings, at its
\* own time (refresh) and after the constructor selected once more.
LEMMA DueIsSelected ==
  ASSUME Times, NEW m \in Due(asof), m \in DOMAIN found, found[m] = "open"
  PROVE  m \in Selected(found, asof) /\ m \in AtConstruction(found)
<1>1. /\ now \in Nat /\ asof \in Nat /\ asof <= now /\ DOMAIN found \subseteq Market
      /\ m \in Market /\ m[2] <= (asof \div Dur) + Lookahead /\ End(m) > now /\ End(m) > asof
  <2>1. now \in Nat /\ asof \in Nat /\ asof <= now /\ DOMAIN found \subseteq Market
    BY Constants DEF Times
  <2>2. m \in Market /\ End(m) > now
    BY DEF Due, LookedUp
  <2>3. m[2] \in (asof \div Dur) - 2 .. (asof \div Dur) + Lookahead
    BY DEF Due, LookedUp
  <2>4. End(m) \in Nat /\ asof \div Dur \in Nat
    BY <2>1, <2>2, MarketNumbers, OwnWindow
  <2> QED BY <2>1, <2>2, <2>3, <2>4, Constants
<1>2. m \in Selected(found, asof)
  BY <1>1, OpenIsSelected
<1> DEFINE r == Restrict(found, Selected(found, asof))
<1>3. DOMAIN r \subseteq Market /\ m \in DOMAIN r /\ r[m] = "open"
  BY <1>1, <1>2, SelectedKnown DEF Restrict
<1> HIDE DEF r
<1>4. m \in Selected(r, now)
  BY <1>1, <1>3, OpenIsSelected
<1> QED BY <1>2, <1>4 DEF AtConstruction, r

-----------------------------------------------------------------------------
(* Every step keeps the invariant.                                                  *)

\* The invariant holds at first,
LEMMA UniverseInit == Init => UniverseInvariant
<1> SUFFICES ASSUME Init PROVE UniverseInvariant
  OBVIOUS
<1>1. now = 0 /\ asof = 0 /\ looked = -1 /\ pc = "startup" /\ cache = NoCache /\ found = Nothing
      /\ markets = {} /\ caller = "startup" /\ whole = FALSE
  BY DEF Init, NoDiscovery
<1>2. DOMAIN found \subseteq Market
  BY <1>1 DEF Nothing
<1>3. Times
  <2>1. now \in 0 .. MaxTime /\ asof \in 0 .. now /\ looked \in -1 .. now
    BY <1>1, Constants
  <2>2. cache.kind \in {"absent", "torn", "file"} /\ cache.at \in Nat /\ cache.seen \in Nat
    BY <1>1 DEF NoCache
  <2>3. /\ pc \in {"startup", "sleep", "exited"} \cup Fetching
        /\ caller \in {"startup", "refresh"} /\ whole \in BOOLEAN
        /\ pc \in Fetching => now <= asof + FetchTime
    BY <1>1 DEF Fetching
  <2> QED BY <1>2, <2>1, <2>2, <2>3 DEF Times
<1>4. StartsEmpty /\ CacheHonest /\ ValidIsYoung /\ FoundDue /\ TrackedDue
  BY <1>1 DEF StartsEmpty, CacheHonest, ValidIsYoung, FoundDue, TrackedDue, NoCache
<1> QED BY <1>3, <1>4 DEF UniverseInvariant

\* A discovery begins, for the start or for a refresh.
LEMMA BeginKeeps ==
  ASSUME UniverseInvariant, StartupAttempt \/ Round
  PROVE  UniverseInvariant'
<1>1. /\ pc' = "direct" /\ asof' = now /\ found' = Nothing /\ whole' = FALSE
      /\ now' = now /\ cache' = cache /\ markets' = markets /\ looked' = looked
      /\ caller' \in {"startup", "refresh"} /\ (caller' = "startup" => pc = "startup")
  BY DEF StartupAttempt, Round, Begin, universe
<1>2. DOMAIN found' \subseteq Market
  BY <1>1 DEF Nothing
<1>3. Times'
  <2>1. now' \in 0 .. MaxTime /\ asof' \in 0 .. now' /\ looked' \in -1 .. now'
    BY <1>1, Constants DEF UniverseInvariant, Times
  <2>2. cache'.kind \in {"absent", "torn", "file"} /\ cache'.at \in Nat /\ cache'.seen \in Nat
    BY <1>1 DEF UniverseInvariant, Times
  <2>3. now' <= asof' + FetchTime
    BY <1>1, Constants DEF UniverseInvariant, Times
  <2>4. /\ pc' \in {"startup", "sleep", "exited"} \cup Fetching
        /\ caller' \in {"startup", "refresh"} /\ whole' \in BOOLEAN
    BY <1>1 DEF Fetching
  <2> QED BY <1>2, <2>1, <2>2, <2>3, <2>4 DEF Times
<1>4. StartsEmpty'
  BY <1>1 DEF UniverseInvariant, StartsEmpty
<1>5. CacheHonest' /\ ValidIsYoung' /\ FoundDue'
  BY <1>1 DEF UniverseInvariant, CacheHonest, ValidIsYoung, FoundDue
<1>6. TrackedDue'
  BY <1>1 DEF UniverseInvariant, TrackedDue, Due
<1> QED BY <1>3, <1>4, <1>5, <1>6 DEF UniverseInvariant

\* The slug lookups: with every answer there, what is due is found open.
LEMMA DirectLookupKeeps ==
  ASSUME UniverseInvariant, DirectLookup
  PROVE  UniverseInvariant'
<1>1. /\ pc = "direct" /\ pc' \in {"active", "finish"} /\ now' = now /\ asof' = asof
      /\ cache' = cache /\ markets' = markets /\ looked' = looked /\ caller' = caller
      /\ validation' = Validation(cache, asof)
  BY DEF DirectLookup, universe
<1>2. PICK missing \in LookupFailures :
        /\ found' = [m \in {k \in LookedUp(asof) \ missing : Listed(k, now)} \ Malformed |-> StatusAt(m, now)]
        /\ whole' = (missing = {})
  BY DEF DirectLookup
<1>3. now \in Nat /\ asof \in Nat /\ asof <= now
  BY Constants DEF UniverseInvariant, Times
<1>4. Times'
  <2>1. DOMAIN found' \subseteq Market
    BY <1>2 DEF LookedUp
  <2>2. whole' \in BOOLEAN
    BY <1>2
  <2> QED BY <1>1, <2>1, <2>2 DEF UniverseInvariant, Times, Fetching
<1>5. StartsEmpty' /\ CacheHonest'
  BY <1>1 DEF UniverseInvariant, StartsEmpty, CacheHonest, Fetching
<1>6. ValidIsYoung'
  <2> SUFFICES ASSUME Validation(cache, asof) = "valid"
               PROVE  cache.kind = "file" /\ asof - cache.at <= TTL
    BY <1>1 DEF ValidIsYoung
  <2>1. cache.kind \in {"absent", "torn", "file"} /\ cache.at \in Nat
    BY DEF UniverseInvariant, Times
  <2>2. cache.kind # "absent" /\ ~CacheRejected(cache, asof)
    BY DEF Validation
  <2>3. cache.kind # "torn" /\ ~(now - cache.at > TTL)
    BY <2>2 DEF CacheRejected
  <2> QED BY <1>3, <2>1, <2>2, <2>3, Constants
<1>7. FoundDue'
  <2> SUFFICES ASSUME whole', NEW m \in Due(asof)
               PROVE  m \in DOMAIN found' /\ found'[m] = "open"
    BY <1>1 DEF FoundDue, Due
  <2>1. m \in LookedUp(asof) /\ m \notin Paused /\ m \notin Malformed /\ Listed(m, asof) /\ End(m) > now
    BY DEF Due
  <2>2. Start(m) \in Nat /\ End(m) \in Nat
    BY <2>1, MarketNumbers DEF LookedUp
  <2>3. Listed(m, now)
    BY <1>3, <2>1, <2>2, Constants DEF Listed
  <2>4. StatusAt(m, now) = "open"
    BY <1>3, <2>1, <2>2 DEF StatusAt
  <2>5. missing = {}
    BY <1>2
  <2> QED BY <1>2, <2>1, <2>3, <2>4, <2>5
<1>8. TrackedDue'
  BY <1>1 DEF UniverseInvariant, TrackedDue, Due
<1> QED BY <1>4, <1>5, <1>6, <1>7, <1>8 DEF UniverseInvariant

\* The active events add markets, and what was found open stays so.
LEMMA ActiveEventsKeeps ==
  ASSUME UniverseInvariant, ActiveEvents
  PROVE  UniverseInvariant'
<1>1. /\ pc = "active" /\ pc' = "finish" /\ now' = now /\ asof' = asof /\ whole' = whole
      /\ cache' = cache /\ markets' = markets /\ looked' = looked /\ caller' = caller
      /\ validation' = validation
  BY DEF ActiveEvents, universe
<1>2. PICK u : found' = Merged(found, u, asof) /\ DOMAIN u \subseteq Market
  <2>1. PICK part \in {Market, {}} :
          LET listed == {m \in part \ Malformed : Listed(m, now) /\ StatusAt(m, now) # "closed"}
              view == [m \in listed |-> StatusAt(m, now)]
              kept == {m \in Tradable(view, asof) : Compatible(m, asof)}
          IN  found' = Merged(found, Restrict(view, kept), asof)
    BY DEF ActiveEvents
  <2> DEFINE view == [m \in {k \in part \ Malformed : Listed(k, now) /\ StatusAt(k, now) # "closed"} |-> StatusAt(m, now)]
             kept == {m \in Tradable(view, asof) : Compatible(m, asof)}
  <2>2. DOMAIN Restrict(view, kept) \subseteq Market
    BY DEF Restrict, Tradable
  <2> QED BY <2>1, <2>2
<1>3. /\ DOMAIN found' = DOMAIN found \cup DOMAIN u
      /\ \A m \in DOMAIN found : found[m] = "open" => found'[m] = "open"
  BY <1>2 DEF Merged
<1>4. Times'
  BY <1>1, <1>2, <1>3 DEF UniverseInvariant, Times, Fetching
<1>5. StartsEmpty' /\ CacheHonest' /\ ValidIsYoung'
  BY <1>1 DEF UniverseInvariant, StartsEmpty, CacheHonest, ValidIsYoung, Fetching
<1>6. FoundDue'
  BY <1>1, <1>3 DEF UniverseInvariant, FoundDue, Due
<1>7. TrackedDue'
  BY <1>1 DEF UniverseInvariant, TrackedDue, Due
<1> QED BY <1>4, <1>5, <1>6, <1>7 DEF UniverseInvariant

\* How a discovery ends, whoever asked for it: the universe stays, or becomes what the
\* lookups found if they were whole.
DiscoveryOver ==
  /\ pc' \in {"startup", "sleep", "exited"} /\ (pc' = "startup" => markets' = {})
  /\ now' = now /\ asof' = 0 /\ found' = Nothing /\ caller' = "startup" /\ whole' = FALSE
  /\ cache' \in {cache, TornCache} \cup (IF WritesCache THEN {Written} ELSE {})
  /\ \/ markets' = markets /\ looked' = looked
     \/ looked' = -1
     \/ /\ pc = "finish" /\ whole /\ looked' = asof
        /\ markets' \in {Selected(found, asof), AtConstruction(found)}

\* when a discovery ends,
LEMMA OverKeeps ==
  ASSUME UniverseInvariant, pc \in Fetching, DiscoveryOver
  PROVE  UniverseInvariant'
<1>1. now \in Nat /\ asof \in Nat /\ asof <= now /\ now <= asof + FetchTime /\ Times
  BY Constants DEF UniverseInvariant, Times
<1>2. /\ cache'.kind \in {"absent", "torn", "file"} /\ cache'.at \in Nat /\ cache'.seen \in Nat
      /\ CacheHonest'
  <2>1. CASE cache' = cache
    BY <2>1 DEF UniverseInvariant, Times, CacheHonest
  <2>2. CASE cache' = TornCache
    BY <2>2 DEF TornCache, NoCache, CacheHonest
  <2>3. CASE WritesCache /\ cache' = Written
    <3>1. cache'.kind = "file" /\ cache'.at = now /\ cache'.seen = asof
      BY <2>3 DEF WritesCache, Written
    <3> QED BY <1>1, <3>1, Constants DEF CacheHonest
  <2> QED BY <2>1, <2>2, <2>3 DEF DiscoveryOver
<1>3. Times'
  <2>1. DOMAIN found' \subseteq Market
    BY DEF DiscoveryOver, Nothing
  <2>2. looked' \in -1 .. now'
    BY <1>1, Constants DEF DiscoveryOver, Times
  <2>3. now' \in 0 .. MaxTime /\ asof' \in 0 .. now'
    BY <1>1, Constants DEF DiscoveryOver, Times
  <2>4. /\ pc' \in {"startup", "sleep", "exited"} \cup Fetching /\ pc' \notin Fetching
        /\ caller' \in {"startup", "refresh"} /\ whole' \in BOOLEAN
    BY DEF DiscoveryOver, Fetching
  <2> QED BY <1>2, <2>1, <2>2, <2>3, <2>4 DEF Times
<1>4. StartsEmpty' /\ ValidIsYoung' /\ FoundDue'
  BY DEF DiscoveryOver, StartsEmpty, ValidIsYoung, FoundDue, Fetching
<1>5. TrackedDue'
  <2>1. CASE markets' = markets /\ looked' = looked
    BY <2>1 DEF DiscoveryOver, UniverseInvariant, TrackedDue, Due
  <2>2. CASE looked' = -1
    BY <2>2 DEF TrackedDue
  <2>3. CASE /\ pc = "finish" /\ whole /\ looked' = asof
             /\ markets' \in {Selected(found, asof), AtConstruction(found)}
    <3> SUFFICES ASSUME NEW m \in Due(asof) PROVE m \in markets'
      BY <2>3 DEF DiscoveryOver, TrackedDue, Due
    <3>1. m \in DOMAIN found /\ found[m] = "open"
      BY <2>3 DEF UniverseInvariant, FoundDue
    <3> QED BY <1>1, <2>3, <3>1, DueIsSelected
  <2> QED BY <2>1, <2>2, <2>3 DEF DiscoveryOver
<1> QED BY <1>2, <1>3, <1>4, <1>5 DEF UniverseInvariant

\* A discovery that returns ends so, at the start and at a refresh.
LEMMA FinishIsOver ==
  ASSUME UniverseInvariant, Finish
  PROVE  pc \in Fetching /\ DiscoveryOver
<1>1. /\ pc = "finish" /\ pc \in Fetching /\ now' = now
      /\ asof' = 0 /\ found' = Nothing /\ caller' = "startup" /\ whole' = FALSE
      /\ cache' \in {cache, TornCache} \cup (IF WritesCache THEN {Written} ELSE {})
      /\ whole \in BOOLEAN
  BY DEF Finish, EndDiscovery, Fetching, UniverseInvariant, Times
<1>2. CASE caller = "startup" /\ StartupEnds(Discovered, whole /\ ~CacheUsed)
  <2>1. markets = {}
    BY <1>1, <1>2 DEF UniverseInvariant, StartsEmpty
  <2>2. CASE Selected(Discovered, asof) # {}
    <3>1. pc' = "sleep" /\ markets' = AtConstruction(Discovered)
          /\ looked' = IF whole /\ ~CacheUsed THEN asof ELSE -1
      BY <1>2, <2>2 DEF StartupEnds, Adopt
    <3> QED BY <1>1, <3>1 DEF DiscoveryOver, Discovered
  <2>3. CASE Selected(Discovered, asof) = {}
    BY <1>1, <1>2, <2>1, <2>3 DEF StartupEnds, Preserve, DiscoveryOver
  <2> QED BY <2>2, <2>3
<1>3. CASE caller = "refresh" /\ RefreshEnds
  <2>1. CASE Selected(Discovered, asof) # {}
    <3>1. pc' = "sleep" /\ markets' = Selected(Discovered, asof)
          /\ looked' = IF whole /\ ~CacheUsed THEN asof ELSE -1
      BY <1>3, <2>1 DEF RefreshEnds, Adopt
    <3> QED BY <1>1, <3>1 DEF DiscoveryOver, Discovered
  <2>2. CASE Selected(Discovered, asof) = {}
    BY <1>1, <1>3, <2>2 DEF RefreshEnds, Preserve, DiscoveryOver
  <2> QED BY <2>1, <2>2
<1> QED BY <1>1, <1>2, <1>3 DEF Finish

\* So does one that raises.
LEMMA RaiseIsOver ==
  ASSUME UniverseInvariant, DiscoveryRaises
  PROVE  pc \in Fetching /\ DiscoveryOver
<1>1. /\ pc \in {"active", "finish"} /\ pc \in Fetching /\ now' = now
      /\ asof' = 0 /\ found' = Nothing /\ caller' = "startup" /\ whole' = FALSE
      /\ cache' \in {cache, TornCache} \cup (IF WritesCache THEN {Written} ELSE {})
  BY DEF DiscoveryRaises, EndDiscovery, Fetching
<1>2. CASE /\ caller = "startup"
           /\ StartupEnds(IF Validation(cache', asof) = "valid" THEN cache'.view ELSE Nothing, FALSE)
  <2>1. markets = {}
    BY <1>1, <1>2 DEF UniverseInvariant, StartsEmpty
  <2> QED BY <1>1, <1>2, <2>1 DEF StartupEnds, Adopt, Preserve, DiscoveryOver
<1>3. CASE pc' = "sleep" /\ Preserve
  BY <1>1, <1>3 DEF Preserve, DiscoveryOver
<1> QED BY <1>1, <1>2, <1>3 DEF DiscoveryRaises

\* As time passes, less is due.
LEMMA TickKeeps ==
  ASSUME UniverseInvariant, Tick
  PROVE  UniverseInvariant'
<1>1. /\ now' = now + 1 /\ now < MaxTime /\ (pc \in Fetching => now < asof + FetchTime)
      /\ pc' = pc /\ asof' = asof /\ found' = found /\ whole' = whole /\ caller' = caller
      /\ validation' = validation /\ cache' = cache /\ markets' = markets /\ looked' = looked
  BY DEF Tick, discovery, universe
<1>2. now \in Nat /\ asof \in Nat /\ looked \in Int /\ asof <= now /\ now <= MaxTime
  BY Constants DEF UniverseInvariant, Times
<1>3. Times'
  BY <1>1, <1>2, Constants DEF UniverseInvariant, Times
<1>4. StartsEmpty' /\ CacheHonest' /\ ValidIsYoung'
  BY <1>1 DEF UniverseInvariant, StartsEmpty, CacheHonest, ValidIsYoung
<1>5. Due(asof)' \subseteq Due(asof) /\ Due(looked)' \subseteq Due(looked)
  <2> SUFFICES ASSUME NEW m \in Market, End(m) > now + 1 PROVE End(m) > now
    BY <1>1 DEF Due, LookedUp
  <2> QED BY <1>2, MarketNumbers
<1>6. FoundDue' /\ TrackedDue'
  BY <1>1, <1>5 DEF UniverseInvariant, FoundDue, TrackedDue
<1> QED BY <1>3, <1>4, <1>6 DEF UniverseInvariant

\* A process that starts again has no universe, and the cache it finds is old or torn.
LEMMA RestartKeeps ==
  ASSUME UniverseInvariant, Restart
  PROVE  UniverseInvariant'
<1>1. /\ pc' = "startup" /\ now' = now /\ asof' = 0 /\ found' = Nothing /\ caller' = "startup"
      /\ whole' = FALSE /\ markets' = {} /\ looked' = -1 /\ cache' \in {cache, TornCache}
  BY DEF Restart, EndDiscovery
<1>2. /\ cache'.kind \in {"absent", "torn", "file"} /\ cache'.at \in Nat /\ cache'.seen \in Nat
      /\ CacheHonest'
  BY <1>1 DEF UniverseInvariant, Times, CacheHonest, TornCache, NoCache
<1>3. DOMAIN found' \subseteq Market
  BY <1>1 DEF Nothing
<1>4. Times'
  <2>1. now' \in 0 .. MaxTime /\ asof' \in 0 .. now' /\ looked' \in -1 .. now'
    BY <1>1, Constants DEF UniverseInvariant, Times
  <2>2. /\ pc' \in {"startup", "sleep", "exited"} \cup Fetching /\ pc' \notin Fetching
        /\ caller' \in {"startup", "refresh"} /\ whole' \in BOOLEAN
    BY <1>1 DEF Fetching
  <2> QED BY <1>2, <1>3, <2>1, <2>2 DEF Times
<1>5. StartsEmpty' /\ ValidIsYoung' /\ FoundDue' /\ TrackedDue'
  BY <1>1 DEF StartsEmpty, ValidIsYoung, FoundDue, TrackedDue
<1> QED BY <1>2, <1>4, <1>5 DEF UniverseInvariant

\* and after every step.
LEMMA UniverseStep ==
  ASSUME UniverseInvariant, [Next]_vars
  PROVE  UniverseInvariant'
<1>1. CASE StartupAttempt \/ Round
  BY <1>1, BeginKeeps
<1>2. CASE DirectLookup
  BY <1>2, DirectLookupKeeps
<1>3. CASE ActiveEvents
  BY <1>3, ActiveEventsKeeps
<1>4. CASE Finish
  BY <1>4, FinishIsOver, OverKeeps
<1>5. CASE DiscoveryRaises
  BY <1>5, RaiseIsOver, OverKeeps
<1>6. CASE Tick
  BY <1>6, TickKeeps
<1>7. CASE Restart
  BY <1>7, RestartKeeps
<1>8. CASE UNCHANGED vars
  BY <1>8 DEF vars, discovery, universe, UniverseInvariant, Times, StartsEmpty, CacheHonest,
              ValidIsYoung, FoundDue, TrackedDue, Due
<1> QED BY <1>1, <1>2, <1>3, <1>4, <1>5, <1>6, <1>7, <1>8 DEF Next, Discovering

-----------------------------------------------------------------------------

\* The inductive invariant of discovery, cache and universe: what is due is found by every
\* whole discovery and is in the universe it brings, and a cache file is as young as it says.
THEOREM UniverseCorrect == Spec => []UniverseInvariant
<1>1. Init => UniverseInvariant
  BY UniverseInit
<1>2. UniverseInvariant /\ [Next]_vars => UniverseInvariant'
  BY UniverseStep
<1> QED BY <1>1, <1>2, PTL DEF Spec

\* After a discovery whose lookups were all answered the window that runs is tracked for every
\* asset, through failing refreshes and from one window to the next (select_runtime_market_universe).
THEOREM CurrentMarketsTracked == Spec => []CurrentIsTracked
<1>1. UniverseInvariant => CurrentIsTracked
  <2> SUFFICES ASSUME UniverseInvariant, looked >= 0, NEW g \in Group,
                      <<g, now \div Dur>> \notin Paused \cup Malformed,
                      Listed(<<g, now \div Dur>>, looked),
                      <<g, now \div Dur>>[2] <= (looked \div Dur) + Lookahead
               PROVE  <<g, now \div Dur>> \in markets
    BY DEF CurrentIsTracked
  <2> DEFINE w == now \div Dur
             m == <<g, w>>
  <2>1. now \in Nat /\ looked \in Nat /\ looked <= now /\ now <= MaxTime /\ MaxTime \in Nat
        /\ Lookahead \in Nat
    BY Constants DEF UniverseInvariant, Times
  <2>2. looked \div Dur <= w /\ w <= MaxTime \div Dur
    BY <2>1, WindowsGrow
  <2>3. w \in Nat /\ looked \div Dur \in Nat /\ MaxTime \div Dur \in Nat /\ now < (w + 1) * Dur
    BY <2>1, OwnWindow
  <2> HIDE DEF w
  <2>4. m \in Market
    BY <2>1, <2>2, <2>3 DEF Market, Window
  <2>5. m \in LookedUp(looked)
    BY <2>1, <2>2, <2>3, <2>4 DEF LookedUp, w
  <2>6. End(m) > now
    BY <2>1, <2>3, <2>4, MarketNumbers DEF End
  <2>7. m \in Due(looked)
    BY <2>5, <2>6 DEF Due, w
  <2> QED BY <2>7 DEF UniverseInvariant, TrackedDue, w
<1> QED BY <1>1, UniverseCorrect, PTL

CountedRestarts == restarts \in Nat

\* The restarts are counted.
LEMMA RestartsCounted == Spec => []CountedRestarts
<1>1. Init => CountedRestarts
  BY DEF Init, CountedRestarts
<1>2. CountedRestarts /\ [Next]_vars => CountedRestarts'
  <2> SUFFICES ASSUME restarts \in Nat, [Next]_vars PROVE restarts' \in Nat
    BY DEF CountedRestarts
  <2>1. CASE UNCHANGED vars
    BY <2>1 DEF vars
  <2>2. CASE Restart
    BY <2>2 DEF Restart
  <2>3. CASE Discovering \/ Round \/ Tick
    BY <2>3 DEF Discovering, StartupAttempt, Round, DirectLookup, ActiveEvents, Finish,
                DiscoveryRaises, Tick
  <2> QED BY <2>1, <2>2, <2>3 DEF Next
<1> QED BY <1>1, <1>2, PTL DEF Spec

\* RuntimeMarketUniverseManager.refresh never empties the universe of a running monitor.
THEOREM UniverseIsKept == Spec => UniverseKept
<1>1. UniverseInvariant /\ CountedRestarts /\ [Next]_vars =>
        [markets # {} /\ restarts' = restarts => markets' # {}]_vars
  <2> SUFFICES ASSUME UniverseInvariant, restarts \in Nat, Next, markets # {},
                      restarts' = restarts
               PROVE  markets' # {}
    BY DEF CountedRestarts
  <2>1. CASE StartupAttempt \/ Round \/ DirectLookup \/ ActiveEvents \/ Tick
    BY <2>1 DEF StartupAttempt, Round, DirectLookup, ActiveEvents, Tick, universe
  <2>2. CASE Finish \/ DiscoveryRaises
    <3>1. pc \in Fetching
      BY <2>2 DEF Finish, DiscoveryRaises, Fetching
    <3>2. caller # "startup"
      BY <3>1 DEF UniverseInvariant, StartsEmpty
    <3> QED BY <2>2, <3>2 DEF Finish, DiscoveryRaises, RefreshEnds, Adopt, Preserve
  <2>3. ~Restart
    <3>1. restarts' # restarts + 1
      OBVIOUS
    <3> QED BY <3>1 DEF Restart
  <2> QED BY <2>1, <2>2, <2>3 DEF Next, Discovering
<1> QED BY <1>1, UniverseCorrect, RestartsCounted, PTL DEF Spec, UniverseKept

\* A discovery that the universe takes its markets from, not the cache, knows them.
LEMMA AdoptedKnown ==
  ASSUME NEW v
  PROVE  Selected(v, asof) \subseteq DOMAIN v /\ AtConstruction(v) \subseteq DOMAIN v
<1> DEFINE r == Restrict(v, Selected(v, asof))
<1>1. Selected(v, asof) \subseteq DOMAIN v /\ Selected(r, now) \subseteq DOMAIN r
  BY SelectedKnown
<1>2. DOMAIN r = Selected(v, asof)
  BY DEF Restrict
<1> QED BY <1>1, <1>2 DEF AtConstruction

\* The universe is replaced on the word of this discovery's answers, or of answers that are at
\* most the cache's time to live and one discovery old (validate_cache_for_runtime).
THEOREM AdoptedFresh == Spec => AdoptedIsFresh
<1> DEFINE Fresh ==
      \/ pc = "finish" /\ ~CacheUsed /\ markets' \subseteq DOMAIN found
      \/ cache'.seen >= asof - TTL - FetchTime
<1>1. UniverseInvariant /\ [Next]_vars => [(markets' # markets /\ markets' # {}) => Fresh]_vars
  <2> SUFFICES ASSUME UniverseInvariant, Next, markets' # markets, markets' # {}
               PROVE  Fresh
    OBVIOUS
  <2>1. Finish \/ DiscoveryRaises
    BY DEF Next, Discovering, StartupAttempt, Round, DirectLookup, ActiveEvents, Tick, Restart,
           universe
  <2>2. asof \in Nat /\ now \in Nat /\ asof <= now /\ TTL \in Nat /\ FetchTime \in Nat
        /\ cache.at \in Nat /\ cache.seen \in Nat
    BY Constants DEF UniverseInvariant, Times
  <2>3. CASE Finish /\ CacheUsed
    <3>1. pc = "finish" /\ validation = "valid" /\ ~WritesCache
      BY <2>3 DEF Finish, CacheUsed, WritesCache
    <3>2. cache' = cache
      BY <2>3, <3>1 DEF Finish
    <3>3. cache.kind = "file" /\ asof - cache.at <= TTL /\ cache.seen >= cache.at - FetchTime
      BY <3>1 DEF UniverseInvariant, ValidIsYoung, CacheHonest
    <3> QED BY <2>2, <3>2, <3>3
  <2>4. CASE Finish /\ ~CacheUsed
    <3>1. pc = "finish" /\ Discovered = found
      BY <2>4 DEF Finish, Discovered
    <3>2. markets' \in {Selected(found, asof), AtConstruction(found)}
      BY <2>4, <3>1 DEF Finish, StartupEnds, RefreshEnds, Adopt, Preserve
    <3> QED BY <2>4, <3>1, <3>2, AdoptedKnown
  <2>5. CASE DiscoveryRaises
    <3>1. caller = "startup"
      BY <2>5 DEF DiscoveryRaises, Preserve
    <3>2. Validation(cache', asof) = "valid"
      <4> SUFFICES ASSUME Validation(cache', asof) # "valid" PROVE FALSE
        OBVIOUS
      <4>1. StartupEnds(Nothing, FALSE)
        BY <2>5, <3>1 DEF DiscoveryRaises
      <4>2. Selected(Nothing, asof) = {}
        BY SelectedKnown DEF Nothing
      <4> QED BY <4>1, <4>2 DEF StartupEnds, Preserve
    <3>3. cache'.kind # "absent" /\ ~CacheRejected(cache', asof)
      BY <3>2 DEF Validation
    <3>4. cache'.kind # "torn" /\ ~(now - cache'.at > TTL)
      BY <3>3 DEF CacheRejected
    <3>5. UniverseInvariant'
      BY <2>5, UniverseStep DEF Next, Discovering
    <3>6. cache'.kind = "file" /\ cache'.at \in Nat /\ cache'.seen \in Nat
          /\ cache'.seen >= cache'.at - FetchTime
      BY <3>3, <3>4, <3>5 DEF UniverseInvariant, Times, CacheHonest
    <3> QED BY <2>2, <3>4, <3>6
  <2> QED BY <2>1, <2>3, <2>4, <2>5
<1> QED BY <1>1, UniverseCorrect, PTL DEF Spec, AdoptedIsFresh

=============================================================================
