------------------------ MODULE Phase41CaptureProofs ------------------------
(* Theorems about Phase41Capture, for every exchange history and every value *)
(* of the bounds.                                                            *)
EXTENDS Phase41Capture, SequenceTheorems, FiniteSetTheorems, WellFoundedInduction, TLAPS

\* The empty book is a book.
LEMMA EmptyBookType == EmptyBook \in Book
  BY BookAssumption DEF EmptyBook, Book

\* The state of a new generation is a state.
LEMMA InitialStateType == InitialState \in StateRecord
  BY EmptyBookType DEF InitialState, StateRecord, OptionalId, UpdateId, NoId

\* mark_not_ready leaves no snapshot loaded and keeps the book and its id.
LEMMA MarkNotReadyFacts ==
  ASSUME NEW s \in StateRecord, NEW adv \in BOOLEAN, NEW b \in OptionalId
  PROVE  /\ MarkNotReady(s, adv, b) \in StateRecord
         /\ ~MarkNotReady(s, adv, b).snapshot_ready
         /\ ~MarkNotReady(s, adv, b).awaiting_first_delta_after_snapshot
         /\ ~MarkNotReady(s, adv, b).sequence_continuous
         /\ MarkNotReady(s, adv, b).generation >= s.generation
         /\ adv => MarkNotReady(s, adv, b).generation > s.generation
<1>1. s.generation \in Nat /\ s.required_fresh_snapshot_after_update_id \in OptionalId
  BY DEF StateRecord
<1> DEFINE g == IF adv THEN s.generation + 1 ELSE s.generation
           r == IF b # NoId THEN b ELSE s.required_fresh_snapshot_after_update_id
<1>2. g \in Nat /\ g >= s.generation /\ (adv => g > s.generation) /\ r \in OptionalId
  BY <1>1
<1>3. MarkNotReady(s, adv, b) =
        [s EXCEPT !.snapshot_ready = FALSE, !.ready_to_emit = FALSE,
                  !.sequence_continuous = FALSE,
                  !.awaiting_first_delta_after_snapshot = FALSE,
                  !.generation = g, !.required_fresh_snapshot_after_update_id = r]
  BY DEF MarkNotReady, StateRecord
<1> HIDE DEF g, r
<1>. QED BY <1>2, <1>3 DEF StateRecord

\* apply_snapshot either loads the snapshot, or leaves no snapshot loaded, or leaves the
\* state alone.
LEMMA ApplySnapshotFacts ==
  ASSUME NEW s \in StateRecord, NEW b \in Book, NEW id \in Nat, NEW gen \in OptionalId,
         NEW valid \in BOOLEAN
  PROVE  LET n == ApplySnapshot(s, b, id, gen, valid)
         IN  /\ n \in StateRecord
             /\ \/ /\ SnapshotStatus(s, id, gen, valid) = "snapshot_loaded"
                   /\ n.snapshot_ready /\ n.awaiting_first_delta_after_snapshot
                   /\ ~n.sequence_continuous /\ n.generation = s.generation
                   /\ n.book = b /\ n.last_update_id = id /\ n.snapshot_last_update_id = id
                \/ /\ ~n.snapshot_ready /\ ~n.awaiting_first_delta_after_snapshot
                   /\ ~n.sequence_continuous /\ n.generation = s.generation
                \/ n = s
<1> DEFINE status == SnapshotStatus(s, id, gen, valid)
<1>1. CASE status = "snapshot_loaded"
  <2>1. ApplySnapshot(s, b, id, gen, valid) = LoadBook(s, b, id)
    BY <1>1 DEF ApplySnapshot
  <2>. QED BY <1>1, <2>1 DEF LoadBook, StateRecord, OptionalId, UpdateId, NoId
<1>2. CASE status = "snapshot_invalid_levels"
  <2>1. ApplySnapshot(s, b, id, gen, valid) = MarkNotReady(s, FALSE, NoId)
    BY <1>2 DEF ApplySnapshot
  <2>. QED BY <2>1 DEF MarkNotReady, StateRecord, OptionalId, UpdateId, NoId
<1>3. CASE status \notin {"snapshot_loaded", "snapshot_invalid_levels"}
  <2>1. ApplySnapshot(s, b, id, gen, valid) = s
    BY <1>3 DEF ApplySnapshot
  <2>. QED BY <2>1
<1>. QED BY <1>1, <1>2, <1>3

\* apply_delta either moves the book to the delta's final id, in sequence, or leaves no
\* snapshot loaded, or leaves the state alone.
LEMMA ApplyDeltaFacts ==
  ASSUME NEW s \in StateRecord, NEW e \in DepthUpdate, NEW changes,
         DOMAIN changes \subseteq Level,
         \A l \in DOMAIN changes : changes[l] \in 0..MaxSize
  PROVE  LET n == ApplyDelta(s, e, changes)
         IN  /\ n \in StateRecord
             /\ \/ /\ DeltaStatus(s, e) = "delta_applied"
                   /\ s.snapshot_ready /\ s.last_update_id \in Nat
                   /\ s.last_update_id < e.final
                   /\ s.awaiting_first_delta_after_snapshot
                        => Bridges(e, s.snapshot_last_update_id)
                   /\ ~s.awaiting_first_delta_after_snapshot => e.first = s.last_update_id + 1
                   /\ n.snapshot_ready /\ n.sequence_continuous
                   /\ ~n.awaiting_first_delta_after_snapshot
                   /\ n.last_update_id = e.final /\ n.generation = s.generation
                   /\ n.book = ApplyLevels(s.book, changes)
                   /\ n.ready_to_emit = ValidBook(n.book)
                \/ /\ DeltaStatus(s, e) \in FailClosed
                   /\ ~n.snapshot_ready /\ ~n.sequence_continuous
                   /\ ~n.awaiting_first_delta_after_snapshot
                   /\ n.generation > s.generation
                \/ /\ DeltaStatus(s, e) \notin FailClosed \cup {"delta_applied"}
                   /\ n = s
<1> DEFINE n == ApplyDelta(s, e, changes)
<1>1. CASE DeltaStatus(s, e) = "delta_applied"
  <2>1. n = AcceptDelta(s, e, changes)
    BY <1>1 DEF ApplyDelta, FailClosed
  <2>2. ApplyLevels(s.book, changes) \in Book
    BY DEF ApplyLevels, Book, StateRecord
  <2>3. /\ s.snapshot_ready /\ s.last_update_id \in Nat
        /\ s.last_update_id < e.final
        /\ s.awaiting_first_delta_after_snapshot => Bridges(e, s.snapshot_last_update_id)
        /\ ~s.awaiting_first_delta_after_snapshot => e.first = s.last_update_id + 1
    BY <1>1 DEF DeltaStatus, FirstDeltaBridges, DeltaFollows, StateRecord, DepthUpdate,
                OptionalId, UpdateId, NoId
  <2> DEFINE m == [s EXCEPT !.book = ApplyLevels(s.book, changes),
                            !.last_update_id = e.final,
                            !.awaiting_first_delta_after_snapshot = FALSE,
                            !.sequence_continuous = TRUE]
  <2>4. /\ m \in StateRecord
        /\ m.snapshot_ready /\ m.sequence_continuous
        /\ ~m.awaiting_first_delta_after_snapshot
        /\ m.last_update_id = e.final /\ m.generation = s.generation
        /\ m.book = ApplyLevels(s.book, changes)
    BY <2>2, <2>3 DEF StateRecord, DepthUpdate, OptionalId, UpdateId
  <2>5. ValidBook(m.book) \in BOOLEAN
    BY DEF ValidBook, OneSideMissing, CrossedBook
  <2>6. n = RefreshReadyToEmit(m)
    BY <2>1 DEF AcceptDelta
  <2>7. n = [m EXCEPT !.ready_to_emit = ValidBook(m.book)]
    BY <2>4, <2>5, <2>6 DEF RefreshReadyToEmit
  <2> HIDE DEF m
  <2>8. /\ n \in StateRecord
        /\ n.snapshot_ready /\ n.sequence_continuous
        /\ ~n.awaiting_first_delta_after_snapshot
        /\ n.last_update_id = e.final /\ n.generation = s.generation
        /\ n.book = ApplyLevels(s.book, changes)
        /\ n.ready_to_emit = ValidBook(n.book)
    BY <2>4, <2>5, <2>7 DEF StateRecord
  <2>. QED BY <1>1, <2>3, <2>8
<1>2. CASE DeltaStatus(s, e) \in FailClosed
  <2>1. n = MarkNotReady(s, TRUE, e.final)
    BY <1>2 DEF ApplyDelta, FailClosed
  <2>2. e.final \in OptionalId
    BY DEF DepthUpdate, OptionalId
  <2>. QED BY <1>2, <2>1, <2>2, MarkNotReadyFacts
<1>3. CASE DeltaStatus(s, e) \notin FailClosed \cup {"delta_applied"}
  <2>1. n = s
    BY <1>3 DEF ApplyDelta
  <2>. QED BY <1>3, <2>1
<1>. QED BY <1>1, <1>2, <1>3

-----------------------------------------------------------------------------
(* The best levels of a book.                                                       *)

\* A set of numbers has a least one.
LEMMA LeastNumber ==
  ASSUME NEW S \in SUBSET Nat, S # {}
  PROVE  \E n \in S : \A m \in S : n <= m
<1> DEFINE R == OpToRel(<, Nat)
<1>1. IsWellFoundedOn(R, Nat)
  BY NatLessThanWellFounded
<1>2. PICK n \in S : \A m \in S : ~(<<m, n>> \in R)
  BY <1>1, WFMin
<1>3. \A m \in S : ~(m < n)
  BY <1>2 DEF OpToRel
<1> HIDE DEF R
<1>. QED BY <1>2, <1>3

\* The prices of a book's side are ordered.
LEMMA BetterIsOrder ==
  ASSUME NEW k \in Level, NEW l \in Level, NEW m \in Level
  PROVE  /\ ~Better(l, l)
         /\ Better(k, l) /\ Better(l, m) => Better(k, m)
         /\ k[1] = l[1] => Better(k, l) \/ Better(l, k) \/ k = l
<1>1. /\ k[1] \in {"bid", "ask"} /\ l[1] \in {"bid", "ask"} /\ m[1] \in {"bid", "ask"}
      /\ k[2] \in Nat /\ l[2] \in Nat /\ m[2] \in Nat
      /\ k = <<k[1], k[2]>> /\ l = <<l[1], l[2]>>
  <2>1. \A x \in Level : x[1] \in {"bid", "ask"} /\ x[2] \in Price /\ x = <<x[1], x[2]>>
    BY DEF Level
  <2>. QED BY <2>1, BookAssumption
<1>. QED BY <1>1 DEF Better

\* A book has finitely many levels.
LEMMA FiniteLevels ==
  /\ IsFiniteSet(Level)
  /\ \A S \in SUBSET Level : IsFiniteSet(S) /\ Cardinality(S) \in Nat
<1>1. IsFiniteSet({"bid", "ask"})
  <2>1. IsFiniteSet({"bid"}) /\ IsFiniteSet({"ask"})
    BY FS_Singleton
  <2>2. {"bid", "ask"} = {"bid"} \cup {"ask"}
    OBVIOUS
  <2>. QED BY <2>1, <2>2, FS_Union
<1>2. IsFiniteSet(Level)
  BY <1>1, BookAssumption, FS_Product DEF Level
<1>. QED BY <1>2, FS_Subset, FS_CardinalityType

\* Of any levels one has none of them before it.
LEMMA BestOf ==
  ASSUME NEW S \in SUBSET Level, S # {}
  PROVE  \E l \in S : \A m \in S : ~Better(m, l)
<1> DEFINE Before(l) == {m \in S : Better(m, l)}
           Ranks == {Cardinality(Before(l)) : l \in S}
<1>1. \A l \in S : /\ Before(l) \in SUBSET Level /\ IsFiniteSet(Before(l))
                   /\ Cardinality(Before(l)) \in Nat
  BY FiniteLevels
<1>2. PICK n \in Ranks : \A r \in Ranks : n <= r
  <2>1. Ranks \in SUBSET Nat /\ Ranks # {}
    BY <1>1
  <2> HIDE DEF Ranks
  <2>. QED BY <2>1, LeastNumber
<1>3. PICK l \in S : n = Cardinality(Before(l))
  BY <1>2
<1>4. ASSUME NEW m \in S, Better(m, l)
      PROVE  FALSE
  <2>1. Before(m) \subseteq Before(l)
    BY <1>4, BetterIsOrder
  <2>2. m \in Before(l) /\ m \notin Before(m)
    BY <1>4, BetterIsOrder
  <2>3. Cardinality(Before(l)) <= Cardinality(Before(m))
    BY <1>2, <1>3
  <2> HIDE DEF Before, Ranks
  <2>4. Cardinality(Before(m)) <= Cardinality(Before(l))
        /\ (Cardinality(Before(l)) = Cardinality(Before(m)) => Before(l) = Before(m))
    BY <1>1, <2>1, FS_Subset
  <2>5. Cardinality(Before(l)) = Cardinality(Before(m))
    BY <1>1, <2>3, <2>4
  <2>. QED BY <2>2, <2>4, <2>5
<1>. QED BY <1>4

\* The levels before a level, and a part of a book, are of the book's kind.
LEMMA PartOfBook ==
  ASSUME NEW b \in Book, NEW levels, NEW n, NEW l
  PROVE  /\ Within(b, levels) \in Book /\ Top(b, n) \in Book
         /\ Ahead(b, l) \in SUBSET Level /\ IsFiniteSet(Ahead(b, l))
         /\ Cardinality(Ahead(b, l)) \in Nat
<1>1. \A K : Within(b, K) \in Book
  BY BookAssumption DEF Within, Book
<1>2. Ahead(b, l) \in SUBSET Level
  BY DEF Ahead
<1>. QED BY <1>1, <1>2, FiniteLevels DEF Top

\* Fewer levels are before a level in a part of a book than in the book.
LEMMA FewerAhead ==
  ASSUME NEW b \in Book, NEW c \in Book, NEW l \in Level, Ahead(c, l) \subseteq Ahead(b, l)
  PROVE  Cardinality(Ahead(c, l)) <= Cardinality(Ahead(b, l))
  BY PartOfBook, FS_Subset

\* copy_snapshot's levels of a valid book are a valid book.
LEMMA TopIsValid ==
  ASSUME NEW b \in Book, NEW n \in Nat \ {0}, ValidBook(b)
  PROVE  ValidBook(Top(b, n))
<1>1. ASSUME NEW side \in {"bid", "ask"}
      PROVE  \E p \in Price : Top(b, n)[<<side, p>>] # 0
  <2> DEFINE S == {l \in Level : l[1] = side /\ b[l] # 0}
  <2>1. PICK p \in Price : b[<<side, p>>] # 0
    BY DEF ValidBook, OneSideMissing
  <2>2. <<side, p>> \in S
    BY <2>1 DEF Level
  <2>3. PICK l \in S : \A m \in S : ~Better(m, l)
    BY <2>2, BestOf
  <2>4. Ahead(b, l) = {}
    BY <2>3 DEF Ahead, Better
  <2>5. l \in TopLevels(b, n)
    BY <2>3, <2>4, FS_EmptySet DEF TopLevels
  <2>6. Top(b, n)[l] # 0 /\ l = <<side, l[2]>> /\ l[2] \in Price
    BY <2>3, <2>5 DEF Top, Within, Level
  <2>. QED BY <2>6
<1>2. \A l \in Level : Top(b, n)[l] # 0 => b[l] # 0
  BY DEF Top, Within
<1>3. ~CrossedBook(Top(b, n))
  BY <1>2 DEF ValidBook, CrossedBook, Level
<1>. QED BY <1>1, <1>3 DEF ValidBook, OneSideMissing

\* If the n best levels of a book are known, they are the n best of what is known.
LEMMA TopOfKnown ==
  ASSUME NEW b \in Book, NEW n \in Nat, NEW K,
         \A l \in Level : Top(b, n)[l] # 0 => l \in K
  PROVE  Top(Within(b, K), n) = Top(b, n)
<1> DEFINE c == Within(b, K)
<1>1. c \in Book /\ \A l \in Level : c[l] = IF l \in K THEN b[l] ELSE 0
  BY PartOfBook DEF Within
<1>2. \A l \in Level : Ahead(c, l) \subseteq Ahead(b, l)
  BY <1>1 DEF Ahead
<1>3. \A l \in TopLevels(b, n) : b[l] # 0 => l \in K
  BY DEF Top, Within, TopLevels
<1> HIDE DEF c
<1>4. ASSUME NEW l \in Level, l \notin TopLevels(b, n)
      PROVE  l \notin TopLevels(c, n)
  <2>1. ~(Cardinality(Ahead(b, l)) < n)
    BY <1>4 DEF TopLevels
  <2>2. CASE Ahead(b, l) \subseteq TopLevels(b, n)
    <3>1. Ahead(c, l) = Ahead(b, l)
      BY <1>1, <1>2, <1>3, <2>2 DEF Ahead
    <3>. QED BY <2>1, <3>1 DEF TopLevels
  <2>3. CASE ~(Ahead(b, l) \subseteq TopLevels(b, n))
    <3> DEFINE S == Ahead(b, l) \ TopLevels(b, n)
    <3>1. S \in SUBSET Level /\ S # {}
      BY <2>3 DEF Ahead
    <3>2. PICK m \in S : \A x \in S : ~Better(x, m)
      BY <3>1, BestOf
    <3>3. m \in Level /\ Better(m, l) /\ m \notin TopLevels(b, n)
      BY <3>2 DEF Ahead
    <3>4. \A x \in Ahead(b, m) : x \in Level /\ Better(x, m) /\ Better(x, l) /\ b[x] # 0
      BY <3>3, BetterIsOrder DEF Ahead
    <3>5. \A x \in Ahead(b, m) : x \in TopLevels(b, n)
      BY <3>2, <3>4 DEF Ahead
    <3>6. Ahead(b, m) \subseteq Ahead(c, l)
      BY <1>1, <1>3, <3>4, <3>5 DEF Ahead
    <3>7. Cardinality(Ahead(b, m)) <= Cardinality(Ahead(c, l))
      BY <1>1, <3>6, PartOfBook, FS_Subset
    <3>8. ~(Cardinality(Ahead(b, m)) < n)
      BY <3>3 DEF TopLevels
    <3>9. Cardinality(Ahead(b, m)) \in Nat /\ Cardinality(Ahead(c, l)) \in Nat
      BY <1>1, PartOfBook
    <3>. QED BY <3>7, <3>8, <3>9 DEF TopLevels
  <2>. QED BY <2>2, <2>3
<1>5. ASSUME NEW l \in Level, l \in TopLevels(b, n)
      PROVE  l \in TopLevels(c, n) /\ c[l] = b[l]
  <2>1. Cardinality(Ahead(c, l)) <= Cardinality(Ahead(b, l))
    BY <1>1, <1>2, FewerAhead
  <2>2. Cardinality(Ahead(b, l)) < n
    BY <1>5 DEF TopLevels
  <2>3. Cardinality(Ahead(b, l)) \in Nat /\ Cardinality(Ahead(c, l)) \in Nat
    BY <1>1, PartOfBook
  <2>. QED BY <1>1, <1>3, <1>5, <2>1, <2>2, <2>3 DEF TopLevels
<1>6. \A l \in Level : (IF l \in TopLevels(c, n) THEN c[l] ELSE 0)
                       = (IF l \in TopLevels(b, n) THEN b[l] ELSE 0)
  BY <1>4, <1>5
<1>7. Top(c, n) = Top(b, n)
  BY <1>6 DEF Top, Within
<1>. QED BY <1>7 DEF c

-----------------------------------------------------------------------------
(* The exchange's updates and the queue that carries them.                         *)

\* The levels an update reports are levels of the book, with sizes of the history.
LEMMA ChangesType ==
  ASSUME NEW e \in DepthUpdate, e.first \in 1..e.final, e.final <= LastId
  PROVE  /\ DOMAIN Changes(e) \subseteq Level
         /\ \A l \in DOMAIN Changes(e) : Changes(e)[l] \in 0..MaxSize
<1>1. e.first \in Nat /\ e.final \in Nat /\ LastId \in Nat
  BY ExchangeAssumption DEF DepthUpdate, UpdateId
<1>2. \A i \in Ids(e) : Touch[i] \subseteq Level
  BY <1>1, ExchangeAssumption DEF Ids
<1>3. DOMAIN Changes(e) \subseteq Level
  BY <1>2 DEF Changes
<1>4. History[e.final] \in [Level -> 0..MaxSize]
  BY <1>1, ExchangeAssumption DEF Book
<1>. QED BY <1>3, <1>4 DEF Changes

\* An update that leaves no hole takes what is known of the exchange's book at its start to
\* what is then known of the book at its end, also where it repeats updates the book has.
LEMMA AppliedBook ==
  ASSUME NEW e \in DepthUpdate, e.first \in 1..e.final, e.final <= LastId,
         NEW last \in 0..LastId, e.first <= last + 1, last < e.final, NEW levels
  PROVE  ApplyLevels(Within(History[last], levels), Changes(e))
           = Within(History[e.final], levels \cup DOMAIN Changes(e))
<1>1. e.first \in Nat /\ e.final \in 0..LastId /\ LastId \in Nat /\ last \in Nat
  BY ExchangeAssumption DEF DepthUpdate, UpdateId
<1>2. ASSUME NEW l \in Level, l \notin DOMAIN Changes(e)
      PROVE  History[last][l] = History[e.final][l]
  <2>1. \A i \in (last + 1)..e.final : i \in Ids(e)
    BY <1>1 DEF Ids
  <2>2. \A i \in (last + 1)..e.final : l \notin Touch[i]
    BY <1>2, <2>1 DEF Changes
  <2>. QED BY <1>1, <2>2, ExchangeAssumption
<1>3. \A l \in Level :
        (IF l \in DOMAIN Changes(e) THEN Changes(e)[l]
         ELSE IF l \in levels THEN History[last][l] ELSE 0)
        = IF l \in levels \cup DOMAIN Changes(e) THEN History[e.final][l] ELSE 0
  BY <1>2 DEF Changes
<1>. QED BY <1>3 DEF ApplyLevels, Within

\* The reader adds an update that ends at the newest id the connection has passed.
LEMMA EnqueueFacts ==
  ASSUME TypeOK, QueueInRange, QueueOrdered,
         NEW e \in DepthUpdate, e.first \in 1..e.final, e.final = sent',
         sent' \in Nat, sent <= sent', Enqueue(e)
  PROVE  /\ queue' \in Seq(DepthUpdate) /\ Len(queue') <= QueueSize
         /\ blockers' \subseteq Blocker
         /\ QueueInRange' /\ QueueOrdered'
<1>1. queue \in Seq(DepthUpdate) /\ Len(queue) \in Nat /\ Len(queue) <= QueueSize
      /\ QueueSize \in Nat /\ sent \in Nat
  BY CaptureAssumption DEF TypeOK
<1>2. \A i \in 1..Len(queue) : queue[i] \in DepthUpdate
  BY <1>1
<1>3. CASE Len(queue) < QueueSize
  <2>1. queue' = Append(queue, e) /\ blockers' = blockers
    BY <1>3 DEF Enqueue
  <2>2. /\ queue' \in Seq(DepthUpdate) /\ Len(queue') = Len(queue) + 1
        /\ \A i \in 1..Len(queue) : queue'[i] = queue[i]
        /\ queue'[Len(queue) + 1] = e
    BY <1>1, <2>1, AppendProperties
  <2>3. \A i \in 1..Len(queue) : /\ queue[i].first \in 1..queue[i].final
                                 /\ queue[i].final \in Nat /\ queue[i].final <= sent'
    <3>1. TAKE i \in 1..Len(queue)
    <3>2. queue[i].final \in Nat
      BY <1>2 DEF DepthUpdate, UpdateId
    <3>3. queue[i].first \in 1..queue[i].final /\ queue[i].final <= sent
      BY DEF QueueInRange
    <3>. QED BY <1>1, <3>2, <3>3
  <2>4. QueueInRange'
    <3>1. SUFFICES ASSUME NEW i \in 1..Len(queue')
                   PROVE  queue'[i].first \in 1..queue'[i].final /\ queue'[i].final <= sent'
      BY DEF QueueInRange
    <3>2. CASE i \in 1..Len(queue)
      BY <2>2, <2>3, <3>2
    <3>3. CASE i = Len(queue) + 1
      BY <2>2, <3>3
    <3>. QED BY <1>1, <2>2, <3>2, <3>3
  <2>5. QueueOrdered'
    <3>1. SUFFICES ASSUME NEW i \in 1..Len(queue'), NEW j \in 1..Len(queue'), i <= j
                   PROVE  queue'[i].final <= queue'[j].final
      BY DEF QueueOrdered
    <3>2. CASE j \in 1..Len(queue)
      <4>1. i \in 1..Len(queue)
        BY <1>1, <3>1, <3>2
      <4>. QED BY <2>2, <3>1, <3>2, <4>1 DEF QueueOrdered
    <3>3. CASE j = Len(queue) + 1 /\ i \in 1..Len(queue)
      BY <2>2, <2>3, <3>3
    <3>4. CASE i = j
      <4>1. queue'[i] \in DepthUpdate
        BY <2>2
      <4>. QED BY <3>4, <4>1 DEF DepthUpdate, UpdateId
    <3>. QED BY <1>1, <2>2, <3>1, <3>2, <3>3, <3>4
  <2>. QED BY <1>1, <1>3, <2>1, <2>2, <2>4, <2>5 DEF TypeOK
<1>4. CASE ~(Len(queue) < QueueSize)
  <2>1. queue' = queue /\ blockers' = blockers \cup {"queue_dropped_messages"}
    BY <1>4 DEF Enqueue
  <2>2. QueueInRange'
    BY <1>1, <1>2, <2>1 DEF QueueInRange, DepthUpdate, UpdateId
  <2>. QED BY <1>1, <2>1, <2>2 DEF TypeOK, QueueOrdered, Blocker
<1>. QED BY <1>3, <1>4

\* Taking updates from the front, the purge of a snapshot included, keeps the rest in order.
LEMMA SuffixFacts ==
  ASSUME queue \in Seq(DepthUpdate), QueueInRange, QueueOrdered,
         NEW k \in 1..(Len(queue) + 1),
         queue' = SubSeq(queue, k, Len(queue)), sent' = sent
  PROVE  /\ queue' \in Seq(DepthUpdate) /\ Len(queue') <= Len(queue)
         /\ QueueInRange' /\ QueueOrdered'
<1>1. Len(queue) \in Nat /\ k \in Int /\ \A i \in k..Len(queue) : queue[i] \in DepthUpdate
  OBVIOUS
<1>2. /\ queue' \in Seq(DepthUpdate)
      /\ Len(queue') = IF k <= Len(queue) THEN Len(queue) - k + 1 ELSE 0
      /\ \A i \in 1..(Len(queue) - k + 1) : queue'[i] = queue[k + i - 1]
  BY <1>1, SubSeqProperties
<1>3. \A i \in 1..Len(queue') : /\ k + i - 1 \in 1..Len(queue)
                                /\ queue'[i] = queue[k + i - 1]
  BY <1>1, <1>2
<1>4. QueueInRange'
  BY <1>3 DEF QueueInRange
<1>5. QueueOrdered'
  <2>1. SUFFICES ASSUME NEW i \in 1..Len(queue'), NEW j \in 1..Len(queue'), i <= j
                 PROVE  queue'[i].final <= queue'[j].final
    BY DEF QueueOrdered
  <2>2. k + i - 1 <= k + j - 1
    BY <1>1, <1>2, <2>1
  <2>. QED BY <1>3, <2>1, <2>2 DEF QueueOrdered
<1>. QED BY <1>1, <1>2, <1>4, <1>5

-----------------------------------------------------------------------------
(* The inductive invariant.                                                         *)

\* The invariant holds at first,
LEMMA InitInvariant == Init => CaptureInvariant
<1> SUFFICES ASSUME Init PROVE CaptureInvariant
  OBVIOUS
<1>1. NoSample \in Sample
  BY EmptyBookType DEF NoSample, Sample, OptionalId
<1>2. TypeOK
  BY <1>1, InitialStateType, ExchangeAssumption, CaptureAssumption DEF Init, TypeOK, PC
<1>3. ~state.snapshot_ready /\ ~state.awaiting_first_delta_after_snapshot /\ queue = <<>>
  BY DEF Init, InitialState
<1>4. QueueInRange /\ QueueOrdered
  BY <1>3 DEF QueueInRange, QueueOrdered
<1>. QED BY <1>2, <1>3, <1>4 DEF Init, CaptureInvariant, AwaitsOwnSnapshot, BookFaithful,
                                 SampleFaithful, FetchesBlind

\* A step that leaves the capture task alone and keeps the queue in order.
LEMMA ReaderStep ==
  ASSUME CaptureInvariant, UNCHANGED captureVars,
         exchange_id' \in exchange_id..LastId, sent' \in 0..exchange_id',
         faults' \in 0..MaxFaults, read' \subseteq 1..LastId,
         queue' \in Seq(DepthUpdate), Len(queue') <= QueueSize, blockers' \subseteq Blocker,
         QueueInRange', QueueOrdered'
  PROVE  CaptureInvariant'
<1>1. exchange_id \in Nat /\ LastId \in Nat
  BY ExchangeAssumption DEF CaptureInvariant, TypeOK
<1>2. TypeOK'
  BY <1>1 DEF CaptureInvariant, TypeOK, captureVars
<1>3. AwaitsOwnSnapshot' /\ FetchesBlind'
  BY DEF CaptureInvariant, AwaitsOwnSnapshot, FetchesBlind, captureVars
<1>4. BookFaithful'
  BY <1>1 DEF CaptureInvariant, BookFaithful, Reaches, captureVars
<1>5. SampleFaithful'
  BY <1>1 DEF CaptureInvariant, SampleFaithful, Reaches, captureVars
<1>. QED BY <1>2, <1>3, <1>4, <1>5 DEF CaptureInvariant

\* The exchange, the wire and the reader.
LEMMA ReaderInvariant ==
  ASSUME CaptureInvariant, ExchangeUpdate \/ Reader
  PROVE  CaptureInvariant'
<1> USE DEF OptionalId, UpdateId
<1>1. /\ exchange_id \in 0..LastId /\ sent \in 0..exchange_id /\ faults \in 0..MaxFaults
      /\ LastId \in Nat /\ MaxFaults \in Nat /\ PrevIds \in BOOLEAN
      /\ read \subseteq 1..LastId /\ blockers \subseteq Blocker
      /\ queue \in Seq(DepthUpdate) /\ Len(queue) <= QueueSize
      /\ TypeOK /\ QueueInRange /\ QueueOrdered
  BY ExchangeAssumption, CaptureAssumption DEF CaptureInvariant, TypeOK
<1>2. CASE ExchangeUpdate
  <2>1. QueueInRange' /\ QueueOrdered'
    BY <1>1, <1>2 DEF ExchangeUpdate, QueueInRange, QueueOrdered
  <2>. QED BY <1>1, <1>2, <2>1, ReaderStep DEF ExchangeUpdate
<1>3. ASSUME NEW u \in 1..LastId, NEW valid \in BOOLEAN, Receive(u, valid)
      PROVE  CaptureInvariant'
  <2> DEFINE e == [first |-> sent + 1, final |-> u,
                   prev |-> IF PrevIds THEN sent ELSE NoId, valid |-> valid]
  <2>1. e \in DepthUpdate
    BY <1>1 DEF DepthUpdate
  <2>2. /\ e.first \in 1..e.final /\ e.final = sent' /\ sent' \in 0..exchange_id
        /\ sent <= sent' /\ Enqueue(e) /\ exchange_id' = exchange_id
        /\ faults' \in 0..MaxFaults /\ read' \subseteq 1..LastId /\ UNCHANGED captureVars
    BY <1>1, <1>3 DEF Receive
  <2> HIDE DEF e
  <2>3. /\ queue' \in Seq(DepthUpdate) /\ Len(queue') <= QueueSize
        /\ blockers' \subseteq Blocker /\ QueueInRange' /\ QueueOrdered'
    BY <1>1, <2>1, <2>2, EnqueueFacts
  <2>. QED BY <1>1, <2>2, <2>3, ReaderStep
<1>4. ASSUME NEW f \in 1..LastId, ReceiveAgain(f)
      PROVE  CaptureInvariant'
  <2> DEFINE e == [first |-> f, final |-> sent, prev |-> IF PrevIds THEN f - 1 ELSE NoId,
                   valid |-> TRUE]
  <2>1. e \in DepthUpdate
    BY <1>1 DEF DepthUpdate
  <2>2. /\ e.first \in 1..e.final /\ e.final = sent' /\ sent' \in 0..exchange_id
        /\ sent <= sent' /\ Enqueue(e) /\ exchange_id' = exchange_id
        /\ faults' \in 0..MaxFaults /\ read' \subseteq 1..LastId /\ UNCHANGED captureVars
    BY <1>1, <1>4 DEF ReceiveAgain
  <2> HIDE DEF e
  <2>3. /\ queue' \in Seq(DepthUpdate) /\ Len(queue') <= QueueSize
        /\ blockers' \subseteq Blocker /\ QueueInRange' /\ QueueOrdered'
    BY <1>1, <2>1, <2>2, EnqueueFacts
  <2>. QED BY <1>1, <2>2, <2>3, ReaderStep
<1>5. ASSUME NEW u \in 1..LastId, Reconnect(u)
      PROVE  CaptureInvariant'
  <2>1. /\ sent' \in 0..exchange_id /\ sent <= sent' /\ exchange_id' = exchange_id
        /\ faults' \in 0..MaxFaults /\ UNCHANGED <<queue, blockers, read, captureVars>>
    BY <1>1, <1>5 DEF Reconnect
  <2>2. \A i \in 1..Len(queue) : queue[i].final \in Nat
    <3>1. \A i \in 1..Len(queue) : queue[i] \in DepthUpdate
      BY <1>1
    <3>. QED BY <3>1 DEF DepthUpdate
  <2>3. QueueInRange' /\ QueueOrdered'
    BY <1>1, <2>1, <2>2 DEF QueueInRange, QueueOrdered
  <2>. QED BY <1>1, <2>1, <2>3, ReaderStep
<1>. QED BY <1>2, <1>3, <1>4, <1>5 DEF Reader

\* The steps of the capture task that leave the book and the queue alone.
LEMMA WaitingInvariant ==
  ASSUME CaptureInvariant,
         UNCHANGED <<exchange_id, sent, faults, read, queue, blockers, state, sample, known, applied>>,
         pc' \in PC, attempt' \in 1..MaxAttempts,
         feed_age' \in {"none", "recent", "old"}, stale_open' \in BOOLEAN,
         pc' \in {"initial_wait", "fetching", "backoff"} => ~state.snapshot_ready
  PROVE  CaptureInvariant'
<1>1. TypeOK'
  BY DEF CaptureInvariant, TypeOK
<1>2. QueueInRange' /\ QueueOrdered' /\ AwaitsOwnSnapshot'
  BY DEF CaptureInvariant, QueueInRange, QueueOrdered, AwaitsOwnSnapshot
<1>3. BookFaithful' /\ SampleFaithful'
  BY DEF CaptureInvariant, BookFaithful, SampleFaithful, Reaches
<1>4. FetchesBlind'
  BY DEF FetchesBlind
<1>. QED BY <1>1, <1>2, <1>3, <1>4 DEF CaptureInvariant

\* The history a snapshot or an update refers to, and a snapshot of it, are books.
LEMMA HistoryType ==
  \A n \in 0..LastId : /\ History[n] \in Book /\ Snapshot[n] \in Book
                        /\ SnapshotLevels[n] \subseteq Level /\ n \in Nat
<1>1. \A n \in 0..LastId : History[n] \in Book /\ n \in Nat
  BY ExchangeAssumption
<1>. QED BY <1>1, PartOfBook DEF Snapshot, SnapshotLevels, TopLevels

\* A snapshot arrives; whatever it holds, the book is then an exchange's book or not ready.
LEMMA SnapshotInvariant ==
  ASSUME CaptureInvariant, NEW L \in 0..LastId, NEW valid \in BOOLEAN,
         NEW k \in 1..(Len(queue) + 1), SnapshotArrives(L, valid, k)
  PROVE  CaptureInvariant'
<1> DEFINE loaded  == ApplySnapshot(state, Snapshot[L], L, NoId, valid)
           status  == SnapshotStatus(state, L, NoId, valid)
           missing == BridgeMissing(L)
           lost    == MarkNotReady(loaded, TRUE, NoId)
<1>1. /\ TypeOK /\ QueueInRange /\ QueueOrdered /\ AwaitsOwnSnapshot /\ BookFaithful
      /\ SampleFaithful /\ FetchesBlind
      /\ queue \in Seq(DepthUpdate) /\ Len(queue) \in Nat /\ Len(queue) <= QueueSize
      /\ QueueSize \in Nat /\ exchange_id \in 0..LastId /\ LastId \in Nat /\ MaxFaults \in Nat
      /\ state \in StateRecord /\ blockers \subseteq Blocker /\ faults \in 0..MaxFaults
  BY ExchangeAssumption, CaptureAssumption DEF CaptureInvariant, TypeOK
<1>2. /\ pc = "fetching" /\ L <= exchange_id
      /\ faults' \in 0..MaxFaults
      /\ queue' = SubSeq(queue, k, Len(queue))
      /\ state' = IF missing THEN lost ELSE loaded
      /\ known' = IF status = "snapshot_loaded" THEN SnapshotLevels[L] ELSE known
      /\ stale_open' \in BOOLEAN
      /\ blockers' \subseteq Blocker
      /\ pc' = IF missing THEN "backoff" ELSE "loop"
      /\ UNCHANGED <<exchange_id, sent, read, attempt, feed_age, sample, applied>>
  BY <1>1 DEF SnapshotArrives, TypeOK, Blocker
<1>3. ~state.snapshot_ready
  BY <1>1, <1>2 DEF FetchesBlind
<1>4. Snapshot[L] \in Book /\ L \in Nat /\ NoId \in OptionalId
  BY HistoryType DEF OptionalId
<1>5. loaded \in StateRecord
  BY <1>1, <1>4, ApplySnapshotFacts
<1>6. \/ status = "snapshot_loaded" /\ loaded.book = Snapshot[L]
         /\ loaded.last_update_id = L /\ loaded.snapshot_last_update_id = L
      \/ ~loaded.snapshot_ready /\ ~loaded.awaiting_first_delta_after_snapshot
      \/ loaded = state
  BY <1>1, <1>4, ApplySnapshotFacts
<1>7. lost \in StateRecord /\ ~lost.snapshot_ready /\ ~lost.awaiting_first_delta_after_snapshot
  BY <1>4, <1>5, MarkNotReadyFacts
<1> HIDE DEF loaded, status, missing, lost
<1>8. queue' \in Seq(DepthUpdate) /\ Len(queue') <= Len(queue) /\ QueueInRange' /\ QueueOrdered'
  BY <1>1, <1>2, SuffixFacts
<1>9. TypeOK'
  <2>1. Len(queue') <= QueueSize
    BY <1>1, <1>8
  <2>2. known' \subseteq Level
    BY <1>1, <1>2, HistoryType DEF TypeOK
  <2>. QED BY <1>1, <1>2, <1>5, <1>7, <1>8, <2>1, <2>2 DEF TypeOK, PC
<1>10. AwaitsOwnSnapshot'
  BY <1>1, <1>2, <1>6, <1>7 DEF AwaitsOwnSnapshot
<1>11. BookFaithful'
  <2> SUFFICES ASSUME state'.snapshot_ready
               PROVE  /\ state'.last_update_id \in 0..exchange_id'
                      /\ state'.book = Within(History[state'.last_update_id], known')
                      /\ Reaches(known', state'.last_update_id)
    BY DEF BookFaithful, Reaches
  <2>1. state' = loaded /\ known' = SnapshotLevels[L] /\ loaded.book = Snapshot[L]
        /\ loaded.last_update_id = L
    BY <1>2, <1>3, <1>6, <1>7
  <2>2. Snapshot[L] = Within(History[L], SnapshotLevels[L])
    BY DEF Snapshot, SnapshotLevels, Top
  <2>3. L \in 0..L /\ L \in 0..exchange_id'
    BY <1>1, <1>2, <1>4
  <2>. QED BY <2>1, <2>2, <2>3 DEF Reaches
<1>12. FetchesBlind'
  BY <1>2, <1>7 DEF FetchesBlind
<1>13. SampleFaithful'
  BY <1>1, <1>2 DEF SampleFaithful, Reaches
<1>. QED BY <1>8, <1>9, <1>10, <1>11, <1>12, <1>13 DEF CaptureInvariant

\* One update is taken from the queue and processed.
LEMMA ProcessInvariant ==
  ASSUME CaptureInvariant, NEW late \in BOOLEAN, Process(late)
  PROVE  CaptureInvariant'
<1> DEFINE e      == Head(queue)
           status == DeltaStatus(state, e)
           next   == ApplyDelta(state, e, Changes(e))
<1>1. /\ TypeOK /\ QueueInRange /\ QueueOrdered /\ AwaitsOwnSnapshot /\ BookFaithful
      /\ SampleFaithful /\ FetchesBlind
      /\ queue \in Seq(DepthUpdate) /\ Len(queue) \in Nat /\ Len(queue) <= QueueSize
      /\ QueueSize \in Nat /\ sent \in 0..exchange_id /\ exchange_id \in 0..LastId
      /\ LastId \in Nat /\ MaxAttempts \in Nat \ {0} /\ DepthN \in Nat \ {0}
      /\ known \subseteq Level
      /\ state \in StateRecord /\ blockers \subseteq Blocker /\ applied \subseteq 1..LastId
  BY ExchangeAssumption, CaptureAssumption DEF CaptureInvariant, TypeOK
<1>2. /\ pc = "loop" /\ queue # <<>> /\ queue' = Tail(queue) /\ state' = next
      /\ feed_age' = "recent" /\ stale_open' = FALSE
      /\ blockers' = blockers \cup RaisedBy(status, next.book)
      /\ applied' = IF status = "delta_applied" THEN applied \cup Ids(e) ELSE applied
      /\ known' = IF status = "delta_applied" THEN known \cup DOMAIN Changes(e) ELSE known
      /\ sample' = IF status = "delta_applied" /\ next.ready_to_emit /\ ~late
                   THEN [generation |-> next.generation,
                         last_update_id |-> next.last_update_id,
                         book |-> Top(next.book, DepthN), known |-> known']
                   ELSE sample
      /\ IF Recovers(status) THEN pc' = "fetching" /\ attempt' = 1
                             ELSE UNCHANGED <<pc, attempt>>
      /\ UNCHANGED exchangeVars
  BY DEF Process
<1>3. e = queue[1] /\ 1 \in 1..Len(queue) /\ e \in DepthUpdate
  BY <1>1, <1>2
<1>4. e.first \in 1..e.final /\ e.final <= sent
  BY <1>1, <1>3 DEF QueueInRange
<1>5. e.final \in Nat /\ e.first \in Nat /\ e.final <= exchange_id /\ e.final <= LastId
  BY <1>1, <1>3, <1>4 DEF DepthUpdate, UpdateId
<1>6. /\ DOMAIN Changes(e) \subseteq Level
      /\ \A l \in DOMAIN Changes(e) : Changes(e)[l] \in 0..MaxSize
  BY <1>3, <1>4, <1>5, ChangesType
<1>7. /\ next \in StateRecord
      /\ \/ /\ status = "delta_applied"
            /\ state.snapshot_ready /\ state.last_update_id \in Nat
            /\ state.last_update_id < e.final
            /\ state.awaiting_first_delta_after_snapshot
                 => Bridges(e, state.snapshot_last_update_id)
            /\ ~state.awaiting_first_delta_after_snapshot => e.first = state.last_update_id + 1
            /\ next.snapshot_ready /\ ~next.awaiting_first_delta_after_snapshot
            /\ next.last_update_id = e.final /\ next.generation = state.generation
            /\ next.book = ApplyLevels(state.book, Changes(e))
            /\ next.ready_to_emit = ValidBook(next.book)
         \/ /\ status \in FailClosed
            /\ ~next.snapshot_ready /\ ~next.awaiting_first_delta_after_snapshot
         \/ /\ status \notin FailClosed \cup {"delta_applied"}
            /\ next = state
  BY <1>1, <1>3, <1>6, ApplyDeltaFacts
<1>8. status = "delta_before_snapshot" => ~state.snapshot_ready
  <2>1. state.snapshot_ready => state.last_update_id # NoId
    BY <1>1 DEF BookFaithful, NoId
  <2>. QED BY <2>1 DEF DeltaStatus
<1>9. status = "delta_applied" =>
        /\ next.last_update_id \in 0..exchange_id
        /\ next.book = Within(History[next.last_update_id], known')
        /\ Reaches(known', next.last_update_id)
  <2> SUFFICES ASSUME status = "delta_applied"
               PROVE  /\ next.last_update_id \in 0..exchange_id
                      /\ next.book = Within(History[next.last_update_id], known')
                      /\ Reaches(known', next.last_update_id)
    OBVIOUS
  <2>1. /\ state.snapshot_ready /\ state.last_update_id < e.final
        /\ next.last_update_id = e.final /\ next.book = ApplyLevels(state.book, Changes(e))
        /\ known' = known \cup DOMAIN Changes(e)
    BY <1>2, <1>7 DEF FailClosed
  <2>2. /\ state.last_update_id \in 0..exchange_id
        /\ state.book = Within(History[state.last_update_id], known)
        /\ Reaches(known, state.last_update_id)
    BY <1>1, <2>1 DEF BookFaithful
  <2>3. e.first <= state.last_update_id + 1
    <3>1. CASE state.awaiting_first_delta_after_snapshot
      BY <1>1, <1>7, <3>1 DEF AwaitsOwnSnapshot, Bridges, FailClosed
    <3>2. CASE ~state.awaiting_first_delta_after_snapshot
      BY <1>5, <1>7, <2>2, <3>2 DEF FailClosed
    <3>. QED BY <3>1, <3>2
  <2>4. state.last_update_id \in 0..LastId
    BY <1>1, <2>2
  <2>5. ApplyLevels(Within(History[state.last_update_id], known), Changes(e))
          = Within(History[e.final], known \cup DOMAIN Changes(e))
    BY <1>3, <1>4, <1>5, <2>1, <2>3, <2>4, AppliedBook
  <2>6. Reaches(known', e.final)
    <3>1. PICK m \in 0..state.last_update_id : SnapshotLevels[m] \subseteq known
      BY <2>2 DEF Reaches
    <3>2. m \in 0..e.final /\ SnapshotLevels[m] \subseteq known'
      BY <1>5, <2>1, <2>4, <3>1
    <3>. QED BY <3>2 DEF Reaches
  <2>. QED BY <1>5, <2>1, <2>2, <2>5, <2>6
<1>10. RaisedBy(status, next.book) \subseteq Blocker
  BY DEF RaisedBy, Blocker
<1>11. applied' \subseteq 1..LastId
  <2>1. Ids(e) = e.first..e.final
    BY DEF Ids
  <2>2. e.first >= 1
    BY <1>4, <1>5
  <2> HIDE DEF e, status
  <2>3. Ids(e) \subseteq 1..LastId
    BY <1>1, <1>5, <2>1, <2>2
  <2>. QED BY <1>1, <1>2, <2>3
<1>12. next.generation \in Nat /\ next.last_update_id \in OptionalId /\ next.book \in Book
  BY <1>7 DEF StateRecord
<1>13. status = "delta_applied" /\ next.ready_to_emit => ValidBook(next.book)
  BY <1>7 DEF FailClosed
<1>14. Recovers(status) => ~next.snapshot_ready
  BY <1>7, <1>8 DEF Recovers, FailClosed
<1> HIDE DEF e, status, next
<1>15. /\ queue' \in Seq(DepthUpdate) /\ Len(queue') <= Len(queue)
       /\ QueueInRange' /\ QueueOrdered'
  <2>1. queue' = SubSeq(queue, 2, Len(queue))
    BY <1>1, <1>2, TailIsSubSeq
  <2>2. 2 \in 1..(Len(queue) + 1) /\ sent' = sent
    BY <1>1, <1>2, <1>3 DEF exchangeVars
  <2>. QED BY <1>1, <2>1, <2>2, SuffixFacts
<1>16. TypeOK'
  <2>1. Len(queue') <= QueueSize /\ Len(queue') \in Nat
    BY <1>1, <1>15
  <2>2. known' \subseteq Level /\ sample' \in Sample
    <3>1. known' \subseteq Level
      BY <1>1, <1>2, <1>6
    <3>2. Top(next.book, DepthN) \in Book
      BY <1>12, PartOfBook
    <3>. QED BY <1>1, <1>2, <1>12, <3>1, <3>2 DEF Sample, TypeOK
  <2>3. pc' \in PC /\ attempt' \in 1..MaxAttempts
    BY <1>1, <1>2 DEF TypeOK, PC
  <2>. QED BY <1>1, <1>2, <1>7, <1>10, <1>11, <1>15, <2>1, <2>2, <2>3 DEF TypeOK, exchangeVars
<1>17. AwaitsOwnSnapshot'
  BY <1>1, <1>2, <1>7 DEF AwaitsOwnSnapshot
<1>18. BookFaithful'
  BY <1>1, <1>2, <1>7, <1>9 DEF BookFaithful, Reaches, exchangeVars
<1>19. SampleFaithful'
  <2>1. CASE status = "delta_applied" /\ next.ready_to_emit /\ ~late
    <3> DEFINE id == next.last_update_id
    <3>1. /\ sample'.last_update_id = id /\ sample'.known = known'
          /\ sample'.book = Top(Within(History[id], known'), DepthN)
          /\ id \in 0..exchange_id' /\ Reaches(known', id)
      BY <1>2, <1>9, <2>1 DEF exchangeVars
    <3>2. ValidBook(sample'.book)
      BY <1>1, <1>2, <1>12, <1>13, <2>1, TopIsValid
    <3>3. id \in 0..LastId
      BY <1>1, <1>9, <2>1
    <3>4. History[id] \in Book
      BY <3>3, HistoryType
    <3> HIDE DEF id
    <3>5. (\A l \in Level : Top(History[id], DepthN)[l] # 0 => l \in known')
            => sample'.book = Top(History[id], DepthN)
      BY <1>1, <3>1, <3>4, TopOfKnown
    <3>. QED BY <3>1, <3>2, <3>5 DEF SampleFaithful, Reaches
  <2>2. CASE ~(status = "delta_applied" /\ next.ready_to_emit /\ ~late)
    BY <1>1, <1>2, <2>2 DEF SampleFaithful, Reaches, exchangeVars
  <2>. QED BY <2>1, <2>2
<1>20. FetchesBlind'
  BY <1>2, <1>14 DEF FetchesBlind
<1>. QED BY <1>15, <1>16, <1>17, <1>18, <1>19, <1>20 DEF CaptureInvariant

\* A round without an update: at most the book is given up.
LEMMA StaleInvariant ==
  ASSUME CaptureInvariant, CheckStalePeriods
  PROVE  CaptureInvariant'
<1> DEFINE lost == MarkNotReady(state, TRUE, NoId)
<1>1. /\ TypeOK /\ pc = "loop" /\ (state' = lost \/ state' = state)
      /\ stale_open' \in BOOLEAN /\ blockers' \subseteq Blocker
      /\ UNCHANGED <<exchangeVars, queue, pc, attempt, feed_age, sample, known, applied>>
  BY DEF CaptureInvariant, CheckStalePeriods, TypeOK, Blocker
<1>2. lost \in StateRecord /\ ~lost.snapshot_ready /\ ~lost.awaiting_first_delta_after_snapshot
  BY <1>1, MarkNotReadyFacts DEF TypeOK, OptionalId
<1> HIDE DEF lost
<1>3. TypeOK'
  BY <1>1, <1>2 DEF TypeOK, exchangeVars
<1>4. QueueInRange' /\ QueueOrdered' /\ SampleFaithful'
  BY <1>1 DEF CaptureInvariant, QueueInRange, QueueOrdered, SampleFaithful, Reaches,
              exchangeVars
<1>5. AwaitsOwnSnapshot' /\ BookFaithful' /\ FetchesBlind'
  BY <1>1, <1>2 DEF CaptureInvariant, AwaitsOwnSnapshot, BookFaithful, Reaches, FetchesBlind,
                    exchangeVars
<1>. QED BY <1>3, <1>4, <1>5 DEF CaptureInvariant

\* and after every step.
LEMMA NextInvariant == CaptureInvariant /\ [Next]_vars => CaptureInvariant'
<1> SUFFICES ASSUME CaptureInvariant, [Next]_vars PROVE CaptureInvariant'
  OBVIOUS
<1>1. /\ TypeOK /\ FetchesBlind /\ attempt \in 1..MaxAttempts /\ MaxAttempts \in Nat \ {0}
  BY CaptureAssumption DEF CaptureInvariant, TypeOK
<1>2. CASE ExchangeUpdate \/ Reader
  BY <1>2, ReaderInvariant
<1>3. CASE FeedAges \/ SnapshotFails \/ DeadlinePasses
  BY <1>1, <1>3, WaitingInvariant
     DEF FeedAges, SnapshotFails, DeadlinePasses, TypeOK, PC, FetchesBlind, exchangeVars
<1>4. CASE InitialWaitEnds
  BY <1>1, <1>4, WaitingInvariant DEF InitialWaitEnds, TypeOK, PC, FetchesBlind, exchangeVars
<1>5. CASE BackoffEnds
  <2>1. pc' \in {"fetching", "loop"} /\ attempt' \in 1..MaxAttempts
    BY <1>1, <1>5 DEF BackoffEnds, AttemptLeft
  <2>. QED BY <1>1, <1>5, <2>1, WaitingInvariant
           DEF BackoffEnds, TypeOK, PC, FetchesBlind, exchangeVars
<1>6. CASE Respond
  BY <1>6, SnapshotInvariant DEF Respond
<1>7. CASE \E late \in BOOLEAN : Process(late)
  BY <1>7, ProcessInvariant
<1>8. CASE CheckStalePeriods
  BY <1>8, StaleInvariant
<1>9. CASE Finished \/ UNCHANGED vars
  BY <1>1, <1>9, WaitingInvariant DEF Finished, vars, TypeOK, FetchesBlind
<1>. QED BY <1>2, <1>3, <1>4, <1>5, <1>6, <1>7, <1>8, <1>9 DEF Next

\* The capture keeps its invariant: while a snapshot is loaded the book is the exchange's at
\* its last_update_id on every level that the snapshot reached or an update wrote, the samples
\* are the best levels of such books, and snapshots are only fetched (_load_fresh_snapshot)
\* when there is no book to lose.
THEOREM CaptureCorrect == Spec => []CaptureInvariant
<1>. QED BY InitInvariant, NextInvariant, PTL DEF Spec

\* What is left in the queue after purge_queued_depth_updates_after_snapshot is newer than
\* the snapshot, so the suffix that SnapshotArrives keeps is what the code's loop keeps.
THEOREM PurgeCorrect == Spec => []PurgeMatchesLoop
<1>1. CaptureInvariant => PurgeMatchesLoop
  <2> SUFFICES ASSUME CaptureInvariant, NEW L \in 0..LastId, NEW k \in 1..(Len(queue) + 1),
                      FirstBridge(k, L), NEW i \in k..Len(queue)
               PROVE  queue[i].final > L
    BY DEF PurgeMatchesLoop
  <2>1. queue \in Seq(DepthUpdate) /\ Len(queue) \in Nat /\ QueueOrdered /\ L \in Nat
    BY HistoryType DEF CaptureInvariant, TypeOK
  <2>2. k \in 1..Len(queue) /\ i \in 1..Len(queue) /\ k <= i
    BY <2>1
  <2>3. queue[k].final <= queue[i].final
    BY <2>2, <2>1 DEF QueueOrdered
  <2>4. L + 1 <= queue[k].final
    BY <2>2 DEF FirstBridge, Bridges
  <2>5. queue[k] \in DepthUpdate /\ queue[i] \in DepthUpdate
    BY <2>1, <2>2
  <2>6. queue[k].final \in Nat /\ queue[i].final \in Nat
    BY <2>5 DEF DepthUpdate, UpdateId
  <2>. QED BY <2>1, <2>3, <2>4, <2>6
<1>. QED BY <1>1, CaptureCorrect, PTL

\* Each part of the invariant that the runs check by itself.
THEOREM CaptureTypes == Spec => []TypeOK
<1>. QED BY CaptureCorrect, PTL DEF CaptureInvariant

\* apply_delta's sequence rules and the queue's order keep the book what the exchange has on
\* the levels that a snapshot of limit levels a side, and the updates since, tell about.
THEOREM BookIsFaithful == Spec => []BookFaithful
<1>. QED BY CaptureCorrect, PTL DEF CaptureInvariant

\* A sample is valid and holds the best depth_n of the exchange's known levels; where the
\* exchange's own best depth_n are known it holds those.
THEOREM SamplesAreFaithful == Spec => []SampleFaithful
<1>. QED BY CaptureCorrect, PTL DEF CaptureInvariant

\* _load_fresh_snapshot is never called while a snapshot is loaded.
THEOREM FetchesAreBlind == Spec => []FetchesBlind
<1>. QED BY CaptureCorrect, PTL DEF CaptureInvariant

-----------------------------------------------------------------------------
(* A generation is an unbroken stretch of updates.                                  *)

\* Before the first sample nothing has to be linked.
LEMMA InitLinked == Init => SampleLinked
  BY DEF Init, InitialState, SampleLinked

\* A step that leaves the book, the last sample and the accepted deltas alone.
LEMMA UntouchedLinked ==
  ASSUME SampleLinked, UNCHANGED <<state, sample, applied>>
  PROVE  SampleLinked'
  BY DEF SampleLinked

\* A lost book ends the generation of the last sample.
LEMMA LostLinked ==
  ASSUME SampleLinked, CaptureInvariant, UNCHANGED <<sample, applied>>,
         state'.generation \in Nat, state'.generation > state.generation,
         ~state'.sequence_continuous
  PROVE  SampleLinked'
<1>1. state.generation \in Nat /\ sample.generation \in Nat
  BY DEF CaptureInvariant, TypeOK, StateRecord, Sample
<1>. QED BY <1>1 DEF SampleLinked

\* A snapshot starts a generation and leaves the last sample linked.
LEMMA SnapshotLinked ==
  ASSUME CaptureInvariant, SampleLinked, NEW L \in 0..LastId, NEW valid \in BOOLEAN,
         NEW k \in 1..(Len(queue) + 1), SnapshotArrives(L, valid, k)
  PROVE  SampleLinked'
<1> DEFINE loaded == ApplySnapshot(state, Snapshot[L], L, NoId, valid)
           lost   == MarkNotReady(loaded, TRUE, NoId)
<1>1. state \in StateRecord /\ ~state.snapshot_ready /\ UNCHANGED <<sample, applied>>
      /\ sample.generation \in Nat /\ state.generation \in Nat
  BY DEF CaptureInvariant, TypeOK, FetchesBlind, SnapshotArrives, StateRecord, Sample
<1>2. Snapshot[L] \in Book /\ L \in Nat /\ NoId \in OptionalId
  BY HistoryType DEF OptionalId
<1>3. /\ loaded \in StateRecord /\ loaded.generation = state.generation
      /\ \/ ~loaded.sequence_continuous
         \/ loaded = state
  BY <1>1, <1>2, ApplySnapshotFacts
<1>4. lost \in StateRecord /\ ~lost.sequence_continuous /\ lost.generation > loaded.generation
  BY <1>2, <1>3, MarkNotReadyFacts
<1>5. state' = lost \/ state' = loaded
  BY DEF SnapshotArrives
<1> HIDE DEF loaded, lost
<1>6. CASE state' = lost
  <2>1. state'.generation \in Nat
    BY <1>4, <1>6 DEF StateRecord
  <2>. QED BY <1>1, <1>3, <1>4, <1>6, <2>1, LostLinked
<1>7. CASE state' = loaded
  BY <1>1, <1>3, <1>7 DEF SampleLinked
<1>. QED BY <1>5, <1>6, <1>7

\* A processed update extends the stretch, or ends the generation.
LEMMA ProcessLinked ==
  ASSUME CaptureInvariant, SampleLinked, NEW late \in BOOLEAN, Process(late)
  PROVE  /\ SampleLinked'
         /\ sample' # sample /\ sample # NoSample /\ sample'.generation = sample.generation
            => (sample.last_update_id + 1)..sample'.last_update_id \subseteq applied'
<1> DEFINE e      == Head(queue)
           status == DeltaStatus(state, e)
           next   == ApplyDelta(state, e, Changes(e))
<1>1. /\ queue \in Seq(DepthUpdate) /\ Len(queue) \in Nat /\ state \in StateRecord
      /\ exchange_id \in 0..LastId /\ sent \in 0..exchange_id /\ LastId \in Nat
      /\ sample.generation \in Nat /\ state.generation \in Nat
      /\ sample.last_update_id \in OptionalId
      /\ queue # <<>> /\ state' = next
      /\ applied' = IF status = "delta_applied" THEN applied \cup Ids(e) ELSE applied
      /\ sample' = IF status = "delta_applied" /\ next.ready_to_emit /\ ~late
                   THEN [generation |-> next.generation,
                         last_update_id |-> next.last_update_id,
                         book |-> Top(next.book, DepthN), known |-> known']
                   ELSE sample
  BY ExchangeAssumption DEF CaptureInvariant, TypeOK, Process, StateRecord, Sample
<1>2. /\ e \in DepthUpdate /\ e.first \in 1..e.final /\ e.final <= sent
  BY <1>1 DEF CaptureInvariant, QueueInRange
<1>3. e.final \in Nat /\ e.final <= LastId /\ Ids(e) = e.first..e.final
  BY <1>1, <1>2 DEF DepthUpdate, UpdateId, Ids
<1>4. /\ DOMAIN Changes(e) \subseteq Level
      /\ \A l \in DOMAIN Changes(e) : Changes(e)[l] \in 0..MaxSize
  BY <1>2, <1>3, ChangesType
<1>5. /\ next \in StateRecord
      /\ \/ /\ status = "delta_applied"
            /\ state.snapshot_ready /\ state.last_update_id \in Nat
            /\ ~state.awaiting_first_delta_after_snapshot => e.first = state.last_update_id + 1
            /\ next.snapshot_ready /\ next.sequence_continuous
            /\ ~next.awaiting_first_delta_after_snapshot
            /\ next.last_update_id = e.final /\ next.generation = state.generation
         \/ /\ status \in FailClosed
            /\ ~next.sequence_continuous /\ next.generation > state.generation
         \/ /\ status \notin FailClosed \cup {"delta_applied"}
            /\ next = state
  BY <1>1, <1>2, <1>4, ApplyDeltaFacts
<1>6. "delta_applied" \notin FailClosed
  BY DEF FailClosed
<1>7. next.generation \in Nat
  BY <1>5 DEF StateRecord
<1> HIDE DEF e, status, next
<1>8. CASE status = "delta_applied"
  <2>1. /\ next.snapshot_ready /\ next.sequence_continuous
        /\ ~next.awaiting_first_delta_after_snapshot
        /\ next.last_update_id = e.final /\ next.generation = state.generation
        /\ applied' = applied \cup e.first..e.final
    BY <1>1, <1>3, <1>5, <1>6, <1>8
  <2>2. ASSUME sample # NoSample, sample.generation = state.generation
        PROVE  (sample.last_update_id + 1)..e.final \subseteq applied'
    <3>1. /\ ~state.awaiting_first_delta_after_snapshot
          /\ (sample.last_update_id + 1)..state.last_update_id \subseteq applied
      BY <2>2 DEF SampleLinked
    <3>2. e.first = state.last_update_id + 1 /\ state.last_update_id \in Nat
      BY <1>5, <1>6, <1>8, <3>1
    <3>3. sample.last_update_id \in Int
      BY <1>1 DEF OptionalId, UpdateId, NoId
    <3>4. ASSUME NEW i \in (sample.last_update_id + 1)..e.final PROVE i \in applied'
      BY <1>3, <2>1, <3>1, <3>2, <3>3
    <3>. QED BY <3>4
  <2>3. CASE sample' = sample
    <3>1. sample # NoSample => sample.generation <= state.generation
      BY DEF SampleLinked
    <3>. QED BY <1>1, <2>1, <2>2, <2>3, <3>1 DEF SampleLinked
  <2>4. CASE sample' = [generation |-> next.generation,
                        last_update_id |-> next.last_update_id,
                        book |-> Top(next.book, DepthN), known |-> known']
    <3>1. sample'.generation = state.generation /\ sample'.last_update_id = e.final
      BY <2>1, <2>4
    <3>2. (e.final + 1)..e.final = {}
      BY <1>3
    <3>3. SampleLinked'
      BY <1>1, <2>1, <3>1, <3>2 DEF SampleLinked
    <3>. QED BY <2>2, <3>1, <3>3
  <2>. QED BY <1>1, <2>3, <2>4
<1>9. CASE status \in FailClosed
  BY <1>1, <1>5, <1>6, <1>7, <1>9, LostLinked
<1>10. CASE status \notin FailClosed \cup {"delta_applied"}
  BY <1>1, <1>5, <1>10, UntouchedLinked
<1>. QED BY <1>8, <1>9, <1>10

\* Every step keeps the sample linked, and a new one follows it without a hole.
LEMMA NextLinked ==
  CaptureInvariant /\ SampleLinked /\ [Next]_vars =>
    /\ SampleLinked'
    /\ sample' # sample /\ sample # NoSample /\ sample'.generation = sample.generation
         => (sample.last_update_id + 1)..sample'.last_update_id \subseteq applied'
<1> SUFFICES ASSUME CaptureInvariant, SampleLinked, [Next]_vars
             PROVE  /\ SampleLinked'
                    /\ sample' # sample /\ sample # NoSample
                       /\ sample'.generation = sample.generation
                         => (sample.last_update_id + 1)..sample'.last_update_id \subseteq applied'
  OBVIOUS
<1>1. CASE ExchangeUpdate \/ Reader
  BY <1>1, UntouchedLinked
     DEF ExchangeUpdate, Reader, Receive, ReceiveAgain, Reconnect, captureVars
<1>2. CASE FeedAges \/ InitialWaitEnds \/ SnapshotFails \/ BackoffEnds \/ DeadlinePasses
  BY <1>2, UntouchedLinked
     DEF FeedAges, InitialWaitEnds, SnapshotFails, BackoffEnds, DeadlinePasses
<1>3. CASE Respond
  <2>1. sample' = sample
    BY <1>3 DEF Respond, SnapshotArrives
  <2>. QED BY <1>3, <2>1, SnapshotLinked DEF Respond
<1>4. CASE \E late \in BOOLEAN : Process(late)
  BY <1>4, ProcessLinked
<1>5. CASE CheckStalePeriods
  <2>1. /\ state' = MarkNotReady(state, TRUE, NoId) \/ state' = state
        /\ UNCHANGED <<sample, applied>> /\ state \in StateRecord
    BY <1>5 DEF CheckStalePeriods, CaptureInvariant, TypeOK
  <2>2. CASE state' = MarkNotReady(state, TRUE, NoId)
    <3>1. state'.generation \in Nat /\ state'.generation > state.generation
          /\ ~state'.sequence_continuous
      BY <2>1, <2>2, MarkNotReadyFacts DEF StateRecord, OptionalId
    <3>. QED BY <2>1, <3>1, LostLinked
  <2>. QED BY <2>1, <2>2, UntouchedLinked
<1>6. CASE Finished \/ UNCHANGED vars
  BY <1>6, UntouchedLinked DEF Finished, vars
<1>. QED BY <1>1, <1>2, <1>3, <1>4, <1>5, <1>6 DEF Next

\* Two samples with one generation_id have no missing update between them, whatever the
\* wire, the queue and the recovery did: what the labelled dataset takes for granted.
THEOREM GenerationsAreUnbroken == Spec => GenerationUnbroken
<1>. QED BY InitLinked, NextLinked, CaptureCorrect, PTL DEF Spec, GenerationUnbroken

-----------------------------------------------------------------------------
(* The refinement of SampleFeed.                                                    *)

View == IF state.snapshot_ready /\ state.sequence_continuous
        THEN state.last_update_id ELSE NoId

Reach == IF state.snapshot_ready /\ state.sequence_continuous THEN known ELSE {}

USE DEF Feed!Blind, Feed!NoId, NoId

\* SampleFeed reads a book as the capture does.
LEMMA FeedReads ==
  /\ \A b : Feed!ValidBook(b) <=> ValidBook(b)
  /\ \A b, n : Feed!TopLevels(b, n) = TopLevels(b, n) /\ Feed!Top(b, n) = Top(b, n)
  /\ \A b, levels : Feed!Within(b, levels) = Within(b, levels)
<1>1. Feed!Level = Level
  BY DEF Feed!Level, Level
<1>2. \A b : Feed!ValidBook(b) <=> ValidBook(b)
  BY DEF Feed!ValidBook, ValidBook, Feed!OneSideMissing, OneSideMissing,
         Feed!CrossedBook, CrossedBook
<1>3. \A b, l : Feed!Ahead(b, l) = Ahead(b, l)
  <2>1. \A m, l : Feed!Better(m, l) <=> Better(m, l)
    BY DEF Feed!Better, Better
  <2>. QED BY <1>1, <2>1 DEF Feed!Ahead, Ahead
<1>4. \A b, n : Feed!TopLevels(b, n) = TopLevels(b, n)
  <2>1. \A S : Feed!Cardinality(S) = Cardinality(S)
    BY DEF Feed!Cardinality, Cardinality
  <2>. QED BY <1>1, <1>3, <2>1 DEF Feed!TopLevels, TopLevels
<1>5. \A b, levels : Feed!Within(b, levels) = Within(b, levels)
  BY <1>1 DEF Feed!Within, Within
<1>6. \A b, n : Feed!Top(b, n) = Top(b, n)
  BY <1>4, <1>5 DEF Feed!Top, Top
<1>. QED BY <1>2, <1>4, <1>5, <1>6

\* The capture starts as SampleFeed does.
LEMMA FeedInitial == Init => Feed!FeedInit
  BY DEF Init, Feed!FeedInit, InitialState, NoSample, Feed!EmptyBook, EmptyBook,
         Feed!Level, Level

\* The steps that do not touch the book and the sample are steps of the exchange or none.
LEMMA FeedUntouched ==
  ASSUME UNCHANGED <<state, sample, known>>, UNCHANGED exchange_id \/ ExchangeUpdate
  PROVE  [Feed!FeedNext]_Feed!feedVars
  BY DEF ExchangeUpdate, Feed!FeedNext, Feed!feedVars, Feed!ExchangeMoves

\* A book that is given up with a new generation is a lost view.
LEMMA FeedLost ==
  ASSUME state' \in StateRecord, ~state'.snapshot_ready,
         state'.generation > state.generation, UNCHANGED <<exchange_id, sample>>
  PROVE  [Feed!FeedNext]_Feed!feedVars
  BY DEF Feed!FeedNext, Feed!Lose, Feed!feedVars, StateRecord

\* A snapshot is a step of SampleFeed,
LEMMA FeedSnapshot ==
  ASSUME CaptureInvariant, NEW L \in 0..LastId, NEW valid \in BOOLEAN,
         NEW k \in 1..(Len(queue) + 1), SnapshotArrives(L, valid, k)
  PROVE  [Feed!FeedNext]_Feed!feedVars
<1> DEFINE loaded == ApplySnapshot(state, Snapshot[L], L, NoId, valid)
           lost   == MarkNotReady(loaded, TRUE, NoId)
<1>1. state \in StateRecord /\ ~state.snapshot_ready /\ UNCHANGED <<exchange_id, sample>>
  BY DEF CaptureInvariant, TypeOK, FetchesBlind, SnapshotArrives
<1>2. Snapshot[L] \in Book /\ L \in Nat /\ NoId \in OptionalId
  BY HistoryType DEF OptionalId
<1>3. /\ loaded \in StateRecord /\ loaded.generation = state.generation
      /\ ~loaded.snapshot_ready \/ ~loaded.sequence_continuous
  BY <1>1, <1>2, ApplySnapshotFacts
<1>4. lost \in StateRecord /\ ~lost.snapshot_ready /\ lost.generation > loaded.generation
  BY <1>2, <1>3, MarkNotReadyFacts
<1>5. state' = lost \/ state' = loaded
  BY DEF SnapshotArrives
<1> HIDE DEF loaded, lost
<1>6. CASE state' = lost
  BY <1>1, <1>3, <1>4, <1>6, FeedLost
<1>7. CASE state' = loaded
  BY <1>1, <1>3, <1>7 DEF Feed!feedVars
<1>. QED BY <1>5, <1>6, <1>7

\* so is an update that is processed,
LEMMA FeedProcess ==
  ASSUME CaptureInvariant, CaptureInvariant', NEW late \in BOOLEAN, Process(late)
  PROVE  [Feed!FeedNext]_Feed!feedVars
<1> DEFINE e      == Head(queue)
           status == DeltaStatus(state, e)
           next   == ApplyDelta(state, e, Changes(e))
<1>1. /\ queue \in Seq(DepthUpdate) /\ Len(queue) \in Nat /\ state \in StateRecord
      /\ exchange_id \in 0..LastId /\ sent \in 0..exchange_id /\ LastId \in Nat
      /\ queue # <<>> /\ state' = next /\ exchange_id' = exchange_id
      /\ known' = IF status = "delta_applied" THEN known \cup DOMAIN Changes(e) ELSE known
      /\ sample' = IF status = "delta_applied" /\ next.ready_to_emit /\ ~late
                   THEN [generation |-> next.generation,
                         last_update_id |-> next.last_update_id,
                         book |-> Top(next.book, DepthN), known |-> known']
                   ELSE sample
  BY ExchangeAssumption DEF CaptureInvariant, TypeOK, Process, exchangeVars
<1>2. /\ e \in DepthUpdate /\ e.first \in 1..e.final /\ e.final <= sent
  BY <1>1 DEF CaptureInvariant, QueueInRange
<1>3. e.final \in Nat /\ e.final <= LastId /\ e.final <= exchange_id
  BY <1>1, <1>2 DEF DepthUpdate, UpdateId
<1>4. /\ DOMAIN Changes(e) \subseteq Level
      /\ \A l \in DOMAIN Changes(e) : Changes(e)[l] \in 0..MaxSize
  BY <1>2, <1>3, ChangesType
<1>5. /\ next \in StateRecord
      /\ \/ /\ status = "delta_applied"
            /\ state.snapshot_ready /\ state.last_update_id \in Nat
            /\ state.last_update_id < e.final
            /\ next.snapshot_ready /\ next.sequence_continuous
            /\ next.last_update_id = e.final /\ next.generation = state.generation
            /\ next.ready_to_emit = ValidBook(next.book)
         \/ /\ status \in FailClosed
            /\ ~next.snapshot_ready /\ next.generation > state.generation
         \/ /\ status \notin FailClosed \cup {"delta_applied"}
            /\ next = state
  BY <1>1, <1>2, <1>4, ApplyDeltaFacts
<1>6. next.snapshot_ready => /\ next.book = Within(History[next.last_update_id], known')
                             /\ Reaches(known', next.last_update_id)
  BY <1>1 DEF CaptureInvariant, BookFaithful, Reaches
<1>7. "delta_applied" \notin FailClosed
  BY DEF FailClosed
<1> HIDE DEF e, status, next
<1>8. CASE status = "delta_applied"
  <2>1. Feed!Follow(e.final)
    <3>1. e.final \in 1..exchange_id /\ View < e.final /\ View' = e.final
      BY <1>1, <1>3, <1>5, <1>7, <1>8 DEF View
    <3>2. Reach \subseteq Reach' /\ Reach' = known'
      BY <1>1, <1>5, <1>7, <1>8 DEF Reach
    <3>3. \E m \in 0..e.final : Feed!TopLevels(History[m], Limit) \subseteq Reach'
      <4>1. PICK m \in 0..e.final : SnapshotLevels[m] \subseteq known'
        BY <1>5, <1>6, <1>7, <1>8 DEF Reaches
      <4>2. SnapshotLevels[m] = TopLevels(History[m], Limit)
        BY <1>1, <1>3, <4>1 DEF SnapshotLevels
      <4>. QED BY <3>2, <4>1, <4>2, FeedReads
    <3>4. next.book = Within(History[e.final], known')
      BY <1>5, <1>6, <1>7, <1>8
    <3>5. sample' # sample =>
            /\ Feed!ValidBook(Feed!Top(Feed!Within(History[e.final], Reach'), DepthN))
            /\ sample' = [generation |-> state.generation, last_update_id |-> e.final,
                          book |-> Feed!Top(Feed!Within(History[e.final], Reach'), DepthN),
                          known |-> Reach']
      <4> SUFFICES ASSUME sample' # sample
                   PROVE  /\ Feed!ValidBook(Feed!Top(Feed!Within(History[e.final], Reach'), DepthN))
                          /\ sample' = [generation |-> state.generation, last_update_id |-> e.final,
                               book |-> Feed!Top(Feed!Within(History[e.final], Reach'), DepthN),
                               known |-> Reach']
        OBVIOUS
      <4>1. /\ next.ready_to_emit /\ ValidBook(next.book)
            /\ sample' = [generation |-> state.generation, last_update_id |-> e.final,
                          book |-> Top(next.book, DepthN), known |-> known']
        BY <1>1, <1>5, <1>7, <1>8
      <4>2. next.book \in Book /\ DepthN \in Nat \ {0}
        BY <1>5, CaptureAssumption DEF StateRecord
      <4>3. ValidBook(Top(next.book, DepthN))
        BY <4>1, <4>2, TopIsValid
      <4>4. Feed!Top(Feed!Within(History[e.final], Reach'), DepthN) = Top(next.book, DepthN)
        BY <3>2, <3>4, FeedReads
      <4>. QED BY <3>2, <4>1, <4>3, <4>4, FeedReads
    <3>6. state'.generation = state.generation
      BY <1>1, <1>5, <1>7, <1>8
    <3>. QED BY <1>1, <3>1, <3>2, <3>3, <3>5, <3>6 DEF Feed!Follow, View, Reach
  <2>. QED BY <1>1, <1>3, <1>5, <1>7, <1>8, <2>1 DEF Feed!FeedNext
<1>9. CASE status \in FailClosed
  BY <1>1, <1>5, <1>7, <1>9, FeedLost
<1>10. CASE status \notin FailClosed \cup {"delta_applied"}
  BY <1>1, <1>5, <1>10, FeedUntouched
<1>. QED BY <1>8, <1>9, <1>10

\* and every step of the capture.
LEMMA FeedStep ==
  CaptureInvariant /\ CaptureInvariant' /\ [Next]_vars => [Feed!FeedNext]_Feed!feedVars
<1> SUFFICES ASSUME CaptureInvariant, CaptureInvariant', [Next]_vars
             PROVE  [Feed!FeedNext]_Feed!feedVars
  OBVIOUS
<1>1. CASE ExchangeUpdate
  BY <1>1, FeedUntouched DEF ExchangeUpdate, captureVars
<1>2. CASE Reader
  BY <1>2, FeedUntouched DEF Reader, Receive, ReceiveAgain, Reconnect, captureVars
<1>3. CASE FeedAges \/ InitialWaitEnds \/ SnapshotFails \/ BackoffEnds \/ DeadlinePasses
  BY <1>3, FeedUntouched
     DEF FeedAges, InitialWaitEnds, SnapshotFails, BackoffEnds, DeadlinePasses, exchangeVars
<1>4. CASE Respond
  BY <1>4, FeedSnapshot DEF Respond
<1>5. CASE \E late \in BOOLEAN : Process(late)
  BY <1>5, FeedProcess
<1>6. CASE CheckStalePeriods
  <2>1. \/ state' = MarkNotReady(state, TRUE, NoId)
        \/ state' = state
    BY <1>6 DEF CheckStalePeriods
  <2>2. UNCHANGED <<exchange_id, sample, known>> /\ state \in StateRecord
    BY <1>6 DEF CheckStalePeriods, exchangeVars, CaptureInvariant, TypeOK
  <2>3. CASE state' = MarkNotReady(state, TRUE, NoId)
    BY <2>2, <2>3, FeedLost, MarkNotReadyFacts DEF OptionalId
  <2>4. CASE state' = state
    BY <2>2, <2>4, FeedUntouched
  <2>. QED BY <2>1, <2>3, <2>4
<1>7. CASE Finished \/ UNCHANGED vars
  BY <1>7, FeedUntouched DEF Finished, vars
<1>. QED BY <1>1, <1>2, <1>3, <1>4, <1>5, <1>6, <1>7 DEF Next

\* The capture is a SampleFeed: to a reader of its samples a lost book always shows as a
\* new generation_id, and every sample shows the exchange's levels at its last_update_id, as
\* far as the snapshot reached.
THEOREM CaptureRefinesSampleFeed == Spec => ImplementsSampleFeed
<1>. QED BY FeedInitial, FeedStep, CaptureCorrect, PTL
         DEF Spec, ImplementsSampleFeed, Feed!FeedSpec

-----------------------------------------------------------------------------
(* What a passed capture has not lost.                                              *)

\* Nothing is lost at first,
LEMMA InitNotLost == Init => NothingLost
  BY DEF Init, NothingLost

\* A step that raises no counter and leaves the book and its updates alone.
LEMMA UntouchedNotLost ==
  ASSUME CaptureInvariant, NothingLost, UNCHANGED <<state, applied>>, blockers \subseteq blockers',
         read' \ read \subseteq Queued' \/ blockers' # {}, Queued \subseteq Queued',
         pc' = pc \/ (pc = "initial_wait" /\ pc' = "fetching") \/ (pc = "loop" /\ pc' = "done")
           \/ (pc = "fetching" /\ pc' = "failed") \/ pc = "backoff"
  PROVE  NothingLost'
<1>1. CASE blockers' # {}
  BY <1>1 DEF NothingLost
<1>2. CASE blockers' = {}
  <2>1. blockers = {} /\ pc # "backoff" /\ read' \subseteq read \cup Queued'
    BY <1>2 DEF NothingLost
  <2>. QED BY <1>2, <2>1 DEF NothingLost
<1>. QED BY <1>1, <1>2

\* The reader queues the updates it read, or counts the drop.
LEMMA EnqueueNotLost ==
  ASSUME CaptureInvariant, NEW e \in DepthUpdate, Enqueue(e)
  PROVE  /\ blockers \subseteq blockers' /\ Queued \subseteq Queued'
         /\ Ids(e) \subseteq Queued' \/ blockers' # {}
<1>1. queue \in Seq(DepthUpdate) /\ Len(queue) \in Nat
  BY DEF CaptureInvariant, TypeOK
<1>2. CASE Len(queue) < QueueSize
  <2>1. queue' = Append(queue, e) /\ blockers' = blockers
    BY <1>2 DEF Enqueue
  <2>2. /\ Len(queue') = Len(queue) + 1
        /\ \A i \in 1..Len(queue) : queue'[i] = queue[i]
        /\ queue'[Len(queue) + 1] = e
    BY <1>1, <2>1, AppendProperties
  <2>3. \A i \in 1..Len(queue) : i \in 1..Len(queue')
    BY <1>1, <2>2
  <2>4. Queued \subseteq Queued'
    BY <2>2, <2>3 DEF Queued, Ids
  <2>5. Len(queue) + 1 \in 1..Len(queue')
    BY <1>1, <2>2
  <2>6. Ids(e) \subseteq Queued'
    BY <2>2, <2>5 DEF Queued, Ids
  <2>. QED BY <2>1, <2>4, <2>6
<1>3. CASE ~(Len(queue) < QueueSize)
  BY <1>3 DEF Enqueue, Queued
<1>. QED BY <1>2, <1>3

\* when the reader queues or drops an update,
LEMMA ReaderNotLost ==
  ASSUME CaptureInvariant, NothingLost, Reader
  PROVE  NothingLost'
<1> USE DEF OptionalId, UpdateId
<1>1. /\ exchange_id \in 0..LastId /\ sent \in 0..exchange_id /\ LastId \in Nat
      /\ PrevIds \in BOOLEAN
  BY ExchangeAssumption, CaptureAssumption DEF CaptureInvariant, TypeOK
<1>2. ASSUME NEW u \in 1..LastId, NEW valid \in BOOLEAN, Receive(u, valid)
      PROVE  NothingLost'
  <2> DEFINE e == [first |-> sent + 1, final |-> u,
                   prev |-> IF PrevIds THEN sent ELSE NoId, valid |-> valid]
  <2>1. e \in DepthUpdate
    BY <1>1 DEF DepthUpdate
  <2>2. Enqueue(e) /\ read' = read \cup Ids(e) /\ UNCHANGED captureVars
    BY <1>2 DEF Receive, Ids
  <2> HIDE DEF e
  <2>3. /\ blockers \subseteq blockers' /\ Queued \subseteq Queued'
        /\ Ids(e) \subseteq Queued' \/ blockers' # {}
    BY <2>1, <2>2, EnqueueNotLost
  <2>. QED BY <2>2, <2>3, UntouchedNotLost DEF captureVars
<1>3. ASSUME NEW f \in 1..LastId, ReceiveAgain(f)
      PROVE  NothingLost'
  <2> DEFINE e == [first |-> f, final |-> sent, prev |-> IF PrevIds THEN f - 1 ELSE NoId,
                   valid |-> TRUE]
  <2>1. e \in DepthUpdate
    BY <1>1 DEF DepthUpdate
  <2>2. Enqueue(e) /\ read' = read \cup Ids(e) /\ UNCHANGED captureVars
    BY <1>3 DEF ReceiveAgain, Ids
  <2> HIDE DEF e
  <2>3. /\ blockers \subseteq blockers' /\ Queued \subseteq Queued'
        /\ Ids(e) \subseteq Queued' \/ blockers' # {}
    BY <2>1, <2>2, EnqueueNotLost
  <2>. QED BY <2>2, <2>3, UntouchedNotLost DEF captureVars
<1>4. ASSUME NEW u \in 1..LastId, Reconnect(u)
      PROVE  NothingLost'
  BY <1>4, UntouchedNotLost DEF Reconnect, captureVars, Queued
<1>. QED BY <1>2, <1>3, <1>4, Zenon DEF Reader

\* The purge drops only what the snapshot has, or what the bridge itself repeats, unless
\* it finds that a bridge is missing.
LEMMA PurgeKeeps ==
  ASSUME queue \in Seq(DepthUpdate), QueueInRange, QueueOrdered, NEW L \in Nat,
         NEW k \in 1..(Len(queue) + 1), FirstBridge(k, L), ~BridgeMissing(L),
         queue' = SubSeq(queue, k, Len(queue))
  PROVE  Queued \subseteq Queued' \cup 0..L
<1>1. /\ Len(queue) \in Nat /\ k \in Nat
      /\ \A i \in 1..Len(queue) : queue[i].first \in Nat /\ queue[i].final \in Nat
  <2>1. Len(queue) \in Nat /\ \A i \in 1..Len(queue) : queue[i] \in DepthUpdate
    OBVIOUS
  <2>2. \A i \in 1..Len(queue) : queue[i].first \in Nat /\ queue[i].final \in Nat
    BY <2>1 DEF DepthUpdate, UpdateId
  <2>. QED BY <2>1, <2>2
<1>2. /\ Len(queue') = IF k <= Len(queue) THEN Len(queue) - k + 1 ELSE 0
      /\ \A i \in 1..(Len(queue) - k + 1) : queue'[i] = queue[k + i - 1]
  <2>1. \A i \in k..Len(queue) : queue[i] \in DepthUpdate
    BY <1>1
  <2>. QED BY <1>1, <2>1, SubSeqProperties
<1>3. ASSUME NEW i \in k..Len(queue)
      PROVE  Ids(queue[i]) \subseteq Queued'
  <2>1. i - k + 1 \in 1..Len(queue') /\ i - k + 1 \in 1..(Len(queue) - k + 1)
    BY <1>1, <1>2
  <2>2. queue'[i - k + 1] = queue[i]
    <3>1. k + (i - k + 1) - 1 = i
      BY <1>1
    <3>. QED BY <1>2, <2>1, <3>1
  <2>. QED BY <2>1, <2>2 DEF Queued, Ids
<1>4. ASSUME NEW i \in 1..Len(queue), i < k, queue[i].final > L
      PROVE  Ids(queue[i]) \subseteq Queued'
  <2>1. queue[i].first > L + 1
    <3>1. ~Bridges(queue[i], L)
      BY <1>1, <1>4 DEF FirstBridge
    <3>. QED BY <1>1, <1>4, <3>1 DEF Bridges
  <2>2. k <= Len(queue) /\ k \in 1..Len(queue)
    <3>1. PICK j \in 1..Len(queue) : Bridges(queue[j], L)
      BY <1>4 DEF BridgeMissing
    <3>. QED BY <1>1, <3>1 DEF FirstBridge
  <2>3. queue[k].first <= L + 1 /\ queue[i].final <= queue[k].final
    BY <1>1, <1>4, <2>2 DEF FirstBridge, Bridges, QueueOrdered
  <2>4. Ids(queue[i]) \subseteq Ids(queue[k])
    BY <1>1, <2>1, <2>2, <2>3 DEF Ids
  <2>. QED BY <1>1, <1>3, <2>2, <2>4
<1>5. ASSUME NEW i \in 1..Len(queue), queue[i].final <= L
      PROVE  Ids(queue[i]) \subseteq 0..L
  BY <1>1, <1>5 DEF Ids
<1>6. ASSUME NEW i \in 1..Len(queue)
      PROVE  Ids(queue[i]) \subseteq Queued' \cup 0..L
  <2>1. queue[i].final \in Int /\ L \in Int /\ k \in Int /\ i \in Int
    BY <1>1
  <2>2. \/ queue[i].final <= L
        \/ i >= k
        \/ i < k /\ queue[i].final > L
    BY <2>1
  <2>. QED BY <2>2, <1>3, <1>4, <1>5
<1>. QED BY <1>6 DEF Queued

\* when a snapshot cuts the queue,
LEMMA SnapshotNotLost ==
  ASSUME CaptureInvariant, NothingLost, NEW L \in 0..LastId, NEW valid \in BOOLEAN,
         NEW k \in 1..(Len(queue) + 1), SnapshotArrives(L, valid, k)
  PROVE  NothingLost'
<1> DEFINE loaded  == ApplySnapshot(state, Snapshot[L], L, NoId, valid)
<1>1. /\ QueueInRange /\ QueueOrdered /\ queue \in Seq(DepthUpdate)
      /\ state \in StateRecord
  BY DEF CaptureInvariant, TypeOK
<1>2. /\ pc = "fetching" /\ FirstBridge(k, L)
      /\ queue' = SubSeq(queue, k, Len(queue))
      /\ read' = read /\ applied' = applied
  BY DEF SnapshotArrives
<1>3. ~state.snapshot_ready
  BY <1>2 DEF CaptureInvariant, FetchesBlind
<1>4. Snapshot[L] \in Book /\ L \in Nat /\ NoId \in OptionalId
  BY HistoryType DEF OptionalId
<1>5. loaded.snapshot_ready => loaded.last_update_id = L
  BY <1>1, <1>3, <1>4, ApplySnapshotFacts
<1>6. CASE BridgeMissing(L)
  BY <1>6 DEF SnapshotArrives, NothingLost
<1>7. CASE ~BridgeMissing(L) /\ blockers = {}
  <2>1. state' = loaded /\ pc' = "loop" /\ blockers' = blockers
    BY <1>7 DEF SnapshotArrives
  <2>2. applied = {} /\ read \subseteq Queued
    BY <1>2, <1>7 DEF NothingLost
  <2>3. Queued \subseteq Queued' \cup 0..L
    BY <1>1, <1>2, <1>4, <1>7, PurgeKeeps
  <2> HIDE DEF loaded
  <2>4. state'.snapshot_ready => read' \subseteq Queued' \cup 0..state'.last_update_id
    BY <1>2, <1>5, <2>1, <2>2, <2>3
  <2>. QED BY <1>2, <2>1, <2>2, <2>4 DEF NothingLost
<1>8. CASE blockers # {}
  <2>1. blockers' # {}
    BY <1>8 DEF SnapshotArrives
  <2>. QED BY <2>1 DEF NothingLost
<1>. QED BY <1>6, <1>7, <1>8

\* when an update is processed,
LEMMA ProcessNotLost ==
  ASSUME CaptureInvariant, NothingLost, NEW late \in BOOLEAN, Process(late)
  PROVE  NothingLost'
<1> DEFINE e      == Head(queue)
           status == DeltaStatus(state, e)
           next   == ApplyDelta(state, e, Changes(e))
           last   == state.last_update_id
<1>1. /\ queue \in Seq(DepthUpdate) /\ queue # <<>> /\ pc = "loop"
      /\ queue' = Tail(queue) /\ state' = next /\ read' = read
      /\ blockers' = blockers \cup RaisedBy(status, next.book)
      /\ applied' = IF status = "delta_applied" THEN applied \cup Ids(e) ELSE applied
      /\ ~Recovers(status) => pc' = pc
      /\ state \in StateRecord /\ exchange_id \in 0..LastId /\ sent \in 0..exchange_id
      /\ LastId \in Nat /\ applied \subseteq 1..LastId
  BY ExchangeAssumption DEF Process, exchangeVars, CaptureInvariant, TypeOK
<1>2. e \in DepthUpdate /\ e = queue[1] /\ Len(queue) \in Nat /\ 1 \in 1..Len(queue)
  BY <1>1
<1>3. /\ e.first \in Nat /\ e.final \in Nat /\ e.first \in 1..e.final /\ e.final <= LastId
  BY <1>1, <1>2 DEF CaptureInvariant, QueueInRange, DepthUpdate, UpdateId
<1>4. Queued \subseteq Queued' \cup Ids(e)
  <2>1. Len(queue') = Len(queue) - 1 /\ \A i \in 1..Len(queue') : queue'[i] = queue[i + 1]
    BY <1>1, <1>2
  <2>2. ASSUME NEW i \in 1..Len(queue)
        PROVE  Ids(queue[i]) \subseteq Queued' \cup Ids(e)
    <3>1. CASE i = 1
      BY <1>2, <3>1
    <3>2. CASE i > 1
      <4>1. i - 1 \in 1..Len(queue') /\ (i - 1) + 1 = i
        BY <1>2, <2>1, <3>2
      <4>2. queue'[i - 1] = queue[i]
        BY <2>1, <4>1
      <4>. QED BY <4>1, <4>2 DEF Queued, Ids
    <3>. QED BY <1>2, <3>1, <3>2
  <2>. QED BY <2>2 DEF Queued
<1>5. CASE blockers # {} \/ RaisedBy(status, next.book) # {}
  <2>1. blockers' # {}
    BY <1>1, <1>5
  <2>. QED BY <2>1 DEF NothingLost
<1>6. CASE blockers = {} /\ RaisedBy(status, next.book) = {}
  <2>1. status \in {"delta_applied", "duplicate_update"}
    BY <1>6 DEF RaisedBy, DeltaStatus
  <2>2. ~Recovers(status) /\ status \notin FailClosed
    BY <2>1 DEF Recovers, FailClosed
  <2>3. state.snapshot_ready /\ last \in Nat
    BY <1>1, <2>1 DEF DeltaStatus, StateRecord, OptionalId, UpdateId
  <2>4. /\ read \subseteq Queued \cup 0..last /\ pc' = "loop"
        /\ \A a \in applied : a <= last /\ a..last \subseteq applied
    BY <1>1, <1>6, <2>2, <2>3 DEF NothingLost
  <2>5. CASE status = "duplicate_update"
    <3>1. state' = state /\ applied' = applied
      BY <1>1, <2>5 DEF ApplyDelta, FailClosed
    <3>2. Ids(e) \subseteq 0..last
      <4>1. e.final <= last
        BY <2>5 DEF DeltaStatus
      <4>. QED BY <1>3, <2>3, <4>1 DEF Ids
    <3>3. read' \subseteq Queued' \cup 0..last
      BY <1>1, <1>4, <2>4, <3>2
    <3>. QED BY <2>3, <2>4, <3>1, <3>3 DEF NothingLost
  <2>6. CASE status = "delta_applied"
    <3>1. /\ DOMAIN Changes(e) \subseteq Level
          /\ \A l \in DOMAIN Changes(e) : Changes(e)[l] \in 0..MaxSize
      BY <1>2, <1>3, ChangesType
    <3>2. /\ last < e.final
          /\ state.awaiting_first_delta_after_snapshot
               => Bridges(e, state.snapshot_last_update_id)
          /\ ~state.awaiting_first_delta_after_snapshot => e.first = last + 1
          /\ next.snapshot_ready /\ next.last_update_id = e.final
      BY <1>1, <1>2, <2>2, <2>6, <3>1, ApplyDeltaFacts
    <3>3. e.first <= last + 1
      BY <1>3, <2>3, <3>2 DEF CaptureInvariant, AwaitsOwnSnapshot, Bridges
    <3>4. applied' = applied \cup Ids(e) /\ state'.last_update_id = e.final
          /\ state'.snapshot_ready
      BY <1>1, <2>6, <3>2
    <3> HIDE DEF e, next, last, status
    <3>5. read' \subseteq Queued' \cup 0..e.final
      BY <1>1, <1>3, <1>4, <2>3, <2>4, <3>2 DEF Ids
    <3>6. ASSUME NEW a \in applied'
          PROVE  a <= e.final /\ a..e.final \subseteq applied'
      <4>1. CASE a \in Ids(e)
        BY <1>3, <3>4, <4>1 DEF Ids
      <4>2. CASE a \in applied
        <5>1. a \in Nat /\ a <= last /\ a..last \subseteq applied
          BY <1>1, <2>4, <4>2
        <5>2. \A i \in a..e.final : i \in a..last \/ i \in Ids(e)
          BY <1>3, <2>3, <3>3, <5>1 DEF Ids
        <5>. QED BY <1>3, <2>3, <3>2, <3>4, <5>1, <5>2
      <4>. QED BY <3>4, <4>1, <4>2
    <3>. QED BY <2>4, <3>4, <3>5, <3>6 DEF NothingLost
  <2>. QED BY <2>1, <2>5, <2>6
<1>. QED BY <1>5, <1>6

\* and by any step.
LEMMA NextNotLost == CaptureInvariant /\ NothingLost /\ [Next]_vars => NothingLost'
<1> SUFFICES ASSUME CaptureInvariant, NothingLost, [Next]_vars
             PROVE  NothingLost'
  OBVIOUS
<1>1. CASE ExchangeUpdate
  BY <1>1, UntouchedNotLost DEF ExchangeUpdate, captureVars, Queued
<1>2. CASE Reader
  BY <1>2, ReaderNotLost
<1>3. CASE FeedAges \/ InitialWaitEnds \/ SnapshotFails \/ DeadlinePasses
  BY <1>3, UntouchedNotLost
     DEF FeedAges, InitialWaitEnds, SnapshotFails, DeadlinePasses, exchangeVars, Queued
<1>4. CASE BackoffEnds
  BY <1>4, UntouchedNotLost DEF BackoffEnds, exchangeVars, Queued
<1>5. CASE Respond
  BY <1>5, SnapshotNotLost DEF Respond
<1>6. CASE \E late \in BOOLEAN : Process(late)
  BY <1>6, ProcessNotLost
<1>7. CASE CheckStalePeriods
  <2>1. \/ blockers' # {}
        \/ UNCHANGED <<state, blockers>>
    BY <1>7 DEF CheckStalePeriods
  <2>2. CASE blockers' # {}
    BY <2>2 DEF NothingLost
  <2>3. CASE UNCHANGED <<state, blockers>>
    BY <1>7, <2>3, UntouchedNotLost DEF CheckStalePeriods, exchangeVars, Queued
  <2>. QED BY <2>1, <2>2, <2>3
<1>8. CASE Finished \/ UNCHANGED vars
  BY <1>8, UntouchedNotLost DEF Finished, vars, Queued
<1>. QED BY <1>1, <1>2, <1>3, <1>4, <1>5, <1>6, <1>7, <1>8 DEF Next

\* phase_4_1_pass means that no update was lost between the first applied and the last.
THEOREM PassIsLossless == Spec => []PassMeansNoLoss
<1>1. CaptureInvariant /\ NothingLost => PassMeansNoLoss
  <2>1. SUFFICES ASSUME CaptureInvariant, NothingLost, pc = "done", blockers = {},
                        NEW a \in applied, NEW i \in a..exchange_id,
                        i \in read \ Queued \/ \E b \in applied : i <= b
                 PROVE  i \in applied
    BY DEF PassMeansNoLoss
  <2> DEFINE last == state.last_update_id
  <2>2. /\ state.snapshot_ready /\ read \subseteq Queued \cup 0..last
        /\ \A b \in applied : b <= last /\ b..last \subseteq applied
    BY <2>1 DEF NothingLost
  <2>3. last \in Nat /\ exchange_id \in Nat /\ applied \subseteq Nat /\ i \in Nat
    BY <2>1, <2>2, ExchangeAssumption DEF CaptureInvariant, BookFaithful, TypeOK
  <2>4. i <= last
    <3>1. CASE i \in read \ Queued
      BY <2>2, <2>3, <3>1
    <3>2. CASE \E b \in applied : i <= b
      BY <2>2, <2>3, <3>2
    <3>. QED BY <2>1, <3>1, <3>2
  <2>5. i \in a..last
    BY <2>3, <2>4
  <2>. QED BY <2>2, <2>5
<1>. QED BY <1>1, InitNotLost, NextNotLost, CaptureCorrect, PTL DEF Spec

-----------------------------------------------------------------------------
(* Updates with previous_final_update_id.                                           *)

\* The queue is empty at first.
LEMMA InitPrevious == Init => QueueStatesPrevious
  BY DEF Init, QueueStatesPrevious

\* The reader's updates state the id before their first.
LEMMA EnqueuePrevious ==
  ASSUME CaptureInvariant, QueueStatesPrevious, NEW e \in DepthUpdate, Enqueue(e),
         PrevIds => e.prev = e.first - 1
  PROVE  QueueStatesPrevious'
<1>1. queue \in Seq(DepthUpdate) /\ Len(queue) \in Nat
  BY DEF CaptureInvariant, TypeOK
<1>2. CASE Len(queue) < QueueSize
  <2>1. queue' = Append(queue, e)
    BY <1>2 DEF Enqueue
  <2>2. /\ Len(queue') = Len(queue) + 1
        /\ \A i \in 1..Len(queue) : queue'[i] = queue[i]
        /\ queue'[Len(queue) + 1] = e
    BY <1>1, <2>1, AppendProperties
  <2>3. \A i \in 1..Len(queue') : i \in 1..Len(queue) \/ i = Len(queue) + 1
    BY <1>1, <2>2
  <2>. QED BY <2>2, <2>3 DEF QueueStatesPrevious
<1>3. CASE ~(Len(queue) < QueueSize)
  BY <1>3 DEF Enqueue, QueueStatesPrevious
<1>. QED BY <1>2, <1>3

\* The reader queues updates that state the one before them.
LEMMA ReaderPrevious ==
  ASSUME CaptureInvariant, QueueStatesPrevious, Reader
  PROVE  QueueStatesPrevious'
<1> USE DEF OptionalId, UpdateId
<1>1. /\ exchange_id \in 0..LastId /\ sent \in 0..exchange_id /\ LastId \in Nat
      /\ PrevIds \in BOOLEAN
  BY ExchangeAssumption, CaptureAssumption DEF CaptureInvariant, TypeOK
<1>2. ASSUME NEW u \in 1..LastId, NEW valid \in BOOLEAN, Receive(u, valid)
      PROVE  QueueStatesPrevious'
  <2> DEFINE e == [first |-> sent + 1, final |-> u,
                   prev |-> IF PrevIds THEN sent ELSE NoId, valid |-> valid]
  <2>1. e \in DepthUpdate /\ (PrevIds => e.prev = e.first - 1)
    BY <1>1 DEF DepthUpdate
  <2>2. Enqueue(e)
    BY <1>2 DEF Receive
  <2> HIDE DEF e
  <2>. QED BY <2>1, <2>2, EnqueuePrevious
<1>3. ASSUME NEW f \in 1..LastId, ReceiveAgain(f)
      PROVE  QueueStatesPrevious'
  <2> DEFINE e == [first |-> f, final |-> sent, prev |-> IF PrevIds THEN f - 1 ELSE NoId,
                   valid |-> TRUE]
  <2>1. e \in DepthUpdate /\ (PrevIds => e.prev = e.first - 1)
    <3>1. e \in DepthUpdate
      BY <1>1 DEF DepthUpdate
    <3>2. PrevIds => e.prev = e.first - 1
      OBVIOUS
    <3>. QED BY <3>1, <3>2
  <2>2. Enqueue(e)
    BY <1>3 DEF ReceiveAgain
  <2> HIDE DEF e
  <2>. QED BY <2>1, <2>2, EnqueuePrevious
<1>4. ASSUME NEW u \in 1..LastId, Reconnect(u)
      PROVE  QueueStatesPrevious'
  BY <1>4 DEF Reconnect, QueueStatesPrevious
<1>. QED BY <1>2, <1>3, <1>4, Zenon DEF Reader

\* What is left of a queue states it too.
LEMMA SuffixPrevious ==
  ASSUME queue \in Seq(DepthUpdate), QueueStatesPrevious, NEW k \in 1..(Len(queue) + 1),
         queue' = SubSeq(queue, k, Len(queue))
  PROVE  QueueStatesPrevious'
<1>1. Len(queue) \in Nat /\ k \in Int /\ \A i \in k..Len(queue) : queue[i] \in DepthUpdate
  OBVIOUS
<1>2. /\ Len(queue') = IF k <= Len(queue) THEN Len(queue) - k + 1 ELSE 0
      /\ \A i \in 1..(Len(queue) - k + 1) : queue'[i] = queue[k + i - 1]
  BY <1>1, SubSeqProperties
<1>3. \A i \in 1..Len(queue') : /\ k + i - 1 \in 1..Len(queue)
                                /\ queue'[i] = queue[k + i - 1]
  BY <1>1, <1>2
<1>. QED BY <1>3 DEF QueueStatesPrevious

\* An accepted update starts right behind the book.
LEMMA ProcessWhole ==
  ASSUME CaptureInvariant, QueueStatesPrevious, NEW late \in BOOLEAN, Process(late)
  PROVE  /\ QueueStatesPrevious'
         /\ PrevIds /\ state'.sequence_continuous /\ state'.last_update_id # state.last_update_id
              => Head(queue).first = state.last_update_id + 1
<1> DEFINE e == Head(queue)
<1>1. /\ queue \in Seq(DepthUpdate) /\ queue # <<>> /\ queue' = Tail(queue)
      /\ state' = ApplyDelta(state, e, Changes(e)) /\ state \in StateRecord
      /\ exchange_id \in 0..LastId /\ sent \in 0..exchange_id /\ LastId \in Nat
  BY ExchangeAssumption DEF Process, CaptureInvariant, TypeOK
<1>2. e \in DepthUpdate /\ e = queue[1] /\ Len(queue) \in Nat /\ 1 \in 1..Len(queue)
  BY <1>1
<1>3. /\ e.first \in Nat /\ e.final \in Nat /\ e.first \in 1..e.final /\ e.final <= LastId
  BY <1>1, <1>2 DEF CaptureInvariant, QueueInRange, DepthUpdate, UpdateId
<1>4. QueueStatesPrevious'
  <2>1. Len(queue') = Len(queue) - 1 /\ \A i \in 1..Len(queue') : queue'[i] = queue[i + 1]
    BY <1>1, <1>2
  <2>2. \A i \in 1..Len(queue') : i + 1 \in 1..Len(queue)
    BY <1>2, <2>1
  <2>. QED BY <2>1, <2>2 DEF QueueStatesPrevious
<1>5. ASSUME PrevIds, state'.sequence_continuous, state'.last_update_id # state.last_update_id
      PROVE  e.first = state.last_update_id + 1
  <2>1. /\ DOMAIN Changes(e) \subseteq Level
        /\ \A l \in DOMAIN Changes(e) : Changes(e)[l] \in 0..MaxSize
    BY <1>2, <1>3, ChangesType
  <2>2. DeltaStatus(state, e) = "delta_applied" /\ state.last_update_id \in Nat
    BY <1>1, <1>2, <1>5, <2>1, ApplyDeltaFacts
  <2>3. PrevMatches(state, e)
    BY <2>2 DEF DeltaStatus
  <2>4. e.prev = e.first - 1
    BY <1>2, <1>5 DEF QueueStatesPrevious
  <2>. QED BY <1>3, <2>2, <2>3, <2>4 DEF PrevMatches, NoId
<1>. QED BY <1>4, <1>5

\* After every step the queue states it, and what is applied follows the book without a hole.
LEMMA NextWhole ==
  ASSUME CaptureInvariant, QueueStatesPrevious, [Next]_vars
  PROVE  /\ QueueStatesPrevious'
         /\ PrevIds /\ state'.sequence_continuous /\ state'.last_update_id # state.last_update_id
              => Head(queue).first = state.last_update_id + 1
<1>1. CASE ExchangeUpdate
  BY <1>1 DEF ExchangeUpdate, captureVars, QueueStatesPrevious
<1>2. CASE Reader
  <2>1. state' = state
    BY <1>2 DEF Reader, Receive, ReceiveAgain, Reconnect, captureVars
  <2>. QED BY <1>2, <2>1, ReaderPrevious
<1>3. CASE FeedAges \/ InitialWaitEnds \/ SnapshotFails \/ BackoffEnds \/ DeadlinePasses
  BY <1>3 DEF FeedAges, InitialWaitEnds, SnapshotFails, BackoffEnds, DeadlinePasses,
              exchangeVars, QueueStatesPrevious
<1>4. ASSUME NEW L \in 0..LastId, NEW valid \in BOOLEAN, NEW k \in 1..(Len(queue) + 1),
             SnapshotArrives(L, valid, k)
      PROVE  QueueStatesPrevious' /\ (state' = state \/ ~state'.sequence_continuous)
  <2> DEFINE loaded == ApplySnapshot(state, Snapshot[L], L, NoId, valid)
  <2>1. /\ queue \in Seq(DepthUpdate) /\ queue' = SubSeq(queue, k, Len(queue))
        /\ state \in StateRecord
        /\ state' = IF BridgeMissing(L) THEN MarkNotReady(loaded, TRUE, NoId) ELSE loaded
    BY <1>4 DEF SnapshotArrives, CaptureInvariant, TypeOK
  <2>2. Snapshot[L] \in Book /\ L \in Nat /\ NoId \in OptionalId
    BY HistoryType DEF OptionalId
  <2>3. loaded \in StateRecord /\ (loaded = state \/ ~loaded.sequence_continuous)
    BY <2>1, <2>2, ApplySnapshotFacts
  <2> HIDE DEF loaded
  <2>4. ~MarkNotReady(loaded, TRUE, NoId).sequence_continuous
    BY <2>2, <2>3, MarkNotReadyFacts
  <2>. QED BY <2>1, <2>3, <2>4, SuffixPrevious
<1>5. CASE \E late \in BOOLEAN : Process(late)
  BY <1>5, ProcessWhole
<1>6. CASE CheckStalePeriods
  <2>1. state' = MarkNotReady(state, TRUE, NoId) \/ state' = state
    BY <1>6 DEF CheckStalePeriods
  <2>2. ~MarkNotReady(state, TRUE, NoId).sequence_continuous
    BY MarkNotReadyFacts DEF CaptureInvariant, TypeOK, OptionalId
  <2>. QED BY <1>6, <2>1, <2>2 DEF CheckStalePeriods, QueueStatesPrevious
<1>7. CASE Finished \/ UNCHANGED vars
  BY <1>7 DEF Finished, vars, QueueStatesPrevious
<1>. QED BY <1>1, <1>2, <1>3, <1>4, <1>5, <1>6, <1>7 DEF Next, Respond

\* With previous ids no update is applied over a part of the book it already holds, not even
\* the one that bridges a snapshot: DeltaStatus looks at the previous id before the bridge.
THEOREM UpdatesAreAppliedWhole == Spec => UpdatesAppliedWhole
<1>1. ASSUME CaptureInvariant, QueueStatesPrevious, [Next]_vars
      PROVE  [PrevIds /\ state'.sequence_continuous
                /\ state'.last_update_id # state.last_update_id
              => Head(queue).first = state.last_update_id + 1]_vars
  BY <1>1, NextWhole
<1>2. CaptureInvariant /\ QueueStatesPrevious /\ [Next]_vars => QueueStatesPrevious'
  BY NextWhole
<1>. QED BY <1>1, <1>2, InitPrevious, CaptureCorrect, PTL DEF Spec, UpdatesAppliedWhole
=============================================================================
