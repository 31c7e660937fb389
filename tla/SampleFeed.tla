----------------------------- MODULE SampleFeed -----------------------------
(***************************************************************************)
(* What a capture promises to whoever reads its clean samples: a view that *)
(* follows the exchange's updates without a hole, or is blind.  A view     *)
(* that is lost is never resumed under the same generation.  The view has  *)
(* a reach, the levels it knows: at least those of one depth response and  *)
(* never fewer while it lasts.  A sample is valid and shows the best of    *)
(* the exchange's own levels within that reach, at the view's update.      *)
(***************************************************************************)
EXTENDS OrderbookState

CONSTANTS LastId, History, Limit, DepthN

VARIABLES exchange_id, view, generation, reach, sample

feedVars == <<exchange_id, view, generation, reach, sample>>

Blind == NoId

FeedInit == /\ exchange_id = 0
            /\ view = Blind
            /\ generation = 0
            /\ reach = {}
            /\ sample = [generation |-> 0, last_update_id |-> NoId, book |-> EmptyBook,
                         known |-> {}]

ExchangeMoves == /\ exchange_id < LastId
                 /\ exchange_id' = exchange_id + 1
                 /\ UNCHANGED <<view, generation, reach, sample>>

\* From blind, or from an older update, the view comes to update n; a sample of it may
\* be written.
Follow(n) ==
  /\ n \in 1..exchange_id
  /\ view < n
  /\ view' = n
  /\ reach \subseteq reach'
  /\ \E m \in 0..n : TopLevels(History[m], Limit) \subseteq reach'
  /\ \/ UNCHANGED sample
     \/ LET seen == Top(Within(History[n], reach'), DepthN)
        IN  /\ ValidBook(seen)
            /\ sample' = [generation |-> generation, last_update_id |-> n, book |-> seen,
                          known |-> reach']
  /\ UNCHANGED <<exchange_id, generation>>

\* The view is lost; a generation ends with it.
Lose ==
  /\ view' = Blind
  /\ reach' = {}
  /\ generation' \in Nat /\ generation' > generation
  /\ UNCHANGED <<exchange_id, sample>>

FeedNext == ExchangeMoves \/ (\E n \in 1..LastId : Follow(n)) \/ Lose

FeedSpec == FeedInit /\ [][FeedNext]_feedVars
=============================================================================
