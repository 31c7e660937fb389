----------------------- MODULE PolymarketSubscription -----------------------
(***************************************************************************)
(* The market websocket of marketdata/polymarket_ws.py: stream keeps one   *)
(* connection subscribed to the runtime tokens, while update_markets, run  *)
(* by the monitor's refresh, replaces them at any await of stream.         *)
(*                                                                         *)
(* The client reads its own idea of the subscription from fields it sets   *)
(* after `await websocket.send(...)`; `server` is what the exchange was    *)
(* really asked for.                                                       *)
(***************************************************************************)
EXTENDS Integers, FiniteSets

CONSTANTS
  Token,       \* the token ids
  MaxUpdates,  \* bound: calls of update_markets that change something
  MaxDrops     \* bound: connections that fail or are dropped by the peer

ASSUME SubscriptionAssumption == MaxUpdates \in Nat /\ MaxDrops \in Nat

VARIABLES
  token_ids,         \* the tokens of the runtime universe
  version,           \* _subscription_version
  active_token_ids,  \* _active_subscription_token_ids
  active_version,    \* _active_subscription_version
  transition,        \* _subscription_transition_active
  pc,                \* the await at which stream is suspended
  socket,            \* the connection: "none", "open" or "closed"
  closing,           \* a task that closes this connection is scheduled
  asked,             \* the tokens of the message being sent
  server,            \* the tokens this connection is subscribed to at the exchange
  reconnecting,      \* reconnect_attempt > 0
  drops              \* the connections that failed so far

subscriptionVars == <<token_ids, version, active_token_ids, active_version, transition, pc, socket, closing,
          asked, server, reconnecting, drops>>

runtime == <<token_ids, version>>
active == <<active_token_ids, active_version>>

Universe == SUBSET Token \ {{}}     \* a refresh never installs an empty universe

SubscriptionInit ==
  /\ token_ids \in Universe /\ version = 0
  /\ active_token_ids = {} /\ active_version = -1 /\ transition = FALSE
  /\ pc = "connect" /\ socket = "none" /\ closing = FALSE
  /\ asked = {} /\ server = {}
  /\ reconnecting = FALSE /\ drops = 0

-----------------------------------------------------------------------------
(* update_markets.                                                                  *)

\* _active_websocket is set from the connection until stream leaves it.
HasActiveWebsocket == pc \in {"send", "receive", "close"}

\* Mutants of ScheduleClose: leave it to the version check of the receive loop, always or
\* until the subscription is established.
ScheduleNoClose == UNCHANGED closing
ScheduleCloseOnceEstablished == closing' = (closing \/ pc = "receive")
ScheduleClose == closing' = (closing \/ HasActiveWebsocket)

\* Called with the universe it has, update_markets returns at once; markets whose metadata
\* changed count as a new universe even if the tokens are the same.
UpdateMarkets(tokens) ==
  /\ version < MaxUpdates
  /\ token_ids' = tokens
  /\ version' = version + 1
  /\ transition' = TRUE
  /\ ScheduleClose
  /\ UNCHANGED <<active, pc, socket, asked, server, reconnecting, drops>>

-----------------------------------------------------------------------------
(* stream.                                                                          *)

Connect ==
  /\ pc = "connect"
  /\ pc' = "send" /\ socket' = "open"
  /\ closing' = FALSE           \* a close scheduled earlier is of an earlier connection
  /\ asked' = token_ids /\ server' = {}
  /\ UNCHANGED <<runtime, active, transition, reconnecting, drops>>

\* What stream records when send returns: the universe as it is now, not as it was sent.
\* A mutant records the universe as sent.
RecordActiveAsSent == active_token_ids' = asked /\ active_version' = version
RecordActive == active_token_ids' = token_ids /\ active_version' = version

\* send may return although the connection has been closed meanwhile.
SendReturns ==
  /\ pc = "send"
  /\ pc' = "receive"
  /\ server' = asked
  /\ RecordActive
  /\ transition' = FALSE
  /\ reconnecting' = FALSE
  /\ UNCHANGED <<runtime, socket, closing, asked, drops>>

\* A message has arrived and its events are yielded; the loop then checks the version.
CheckVersion ==
  IF active_version # version THEN pc' = "close" /\ transition' = TRUE
                              ELSE UNCHANGED <<pc, transition>>

Receive ==
  /\ pc = "receive" /\ socket = "open"
  /\ CheckVersion
  /\ UNCHANGED <<runtime, active, socket, closing, asked, server, reconnecting, drops>>

\* The close of the version check returns, or raises like any other await.
CloseReturns ==
  /\ pc = "close"
  /\ \/ pc' = "connect" /\ UNCHANGED reconnecting
     \/ pc' = "backoff" /\ reconnecting' = TRUE
  /\ socket' = "none"
  /\ UNCHANGED <<runtime, active, transition, closing, asked, server, drops>>

\* send or recv raises on a connection that is closed.
Raise ==
  /\ pc \in {"send", "receive"} /\ socket = "closed"
  /\ pc' = "backoff" /\ socket' = "none" /\ reconnecting' = TRUE
  /\ UNCHANGED <<runtime, active, transition, closing, asked, server, drops>>

BackoffEnds ==
  /\ pc = "backoff"
  /\ pc' = "connect"
  /\ UNCHANGED <<runtime, active, transition, socket, closing, asked, server, reconnecting, drops>>

-----------------------------------------------------------------------------
(* The scheduled close task, and the network.                                       *)

CloseTask ==
  /\ closing /\ socket = "open"
  /\ socket' = "closed" /\ closing' = FALSE
  /\ UNCHANGED <<runtime, active, transition, pc, asked, server, reconnecting, drops>>

\* The peer goes away, a heartbeat is not answered, or a message cannot be normalised.
Drop ==
  /\ drops < MaxDrops /\ socket = "open"
  /\ socket' = "closed" /\ drops' = drops + 1
  /\ UNCHANGED <<runtime, active, transition, pc, closing, asked, server, reconnecting>>

ConnectFails ==
  /\ drops < MaxDrops /\ pc = "connect"
  /\ pc' = "backoff" /\ reconnecting' = TRUE /\ drops' = drops + 1
  /\ UNCHANGED <<runtime, active, transition, socket, closing, asked, server>>

-----------------------------------------------------------------------------
Stream == Connect \/ SendReturns \/ CloseReturns \/ Raise \/ BackoffEnds

SubscriptionNext == \/ \E tokens \in Universe : UpdateMarkets(tokens)
        \/ Stream \/ Receive \/ CloseTask \/ Drop \/ ConnectFails

SubscriptionSpec == SubscriptionInit /\ [][SubscriptionNext]_subscriptionVars

\* The event loop runs what is ready, a connection attempt ends, the backoff sleep ends.
\* No message need ever arrive: Receive has no fairness.
SubscriptionFairSpec == SubscriptionSpec /\ WF_subscriptionVars(Stream) /\ WF_subscriptionVars(CloseTask)

-----------------------------------------------------------------------------
SubscriptionTypeOK ==
  /\ token_ids \in Universe /\ version \in 0..MaxUpdates
  /\ active_token_ids \in SUBSET Token /\ active_version \in -1..version
  /\ transition \in BOOLEAN /\ reconnecting \in BOOLEAN /\ closing \in BOOLEAN
  /\ pc \in {"connect", "send", "receive", "close", "backoff"}
  /\ socket \in {"none", "open", "closed"}
  /\ asked \in SUBSET Token /\ server \in SUBSET Token
  /\ drops \in 0..MaxDrops

\* Outside a transition the token set recorded as subscribed is the runtime universe
\* (docs/phase4_runtime_correctness.md:41).
MatchesOutsideTransition ==
  active_version >= 0 /\ ~transition => active_token_ids = token_ids

\* A connection that is kept is subscribed to the runtime universe: if the universe changed
\* while the subscription was being sent, the fields say that all is well, and only the
\* scheduled close heals it.
KeptIsInSync ==
  pc = "receive" /\ socket = "open" /\ ~closing => server = token_ids

\* The first connection and the one after each change or failure: the exchange is
\* eventually asked for the universe that is current, whether or not messages arrive.
EventuallySubscribed == <>[](pc = "receive" /\ socket = "open" /\ server = token_ids)
=============================================================================
